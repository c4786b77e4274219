---------------------------- MODULE MessagePump ----------------------------
(***************************************************************************)
(* The concurrent core of the protocol stack (rtmp/protocol.go): the two   *)
(* pump goroutines, the mutex each of them holds for a whole job, the two  *)
(* bounded channels between them and the user, the shared error field      *)
(* msg_io_err, and the calls user goroutines make: SendMessage,            *)
(* RecvMessage and Destroy.                                                *)
(*                                                                         *)
(* A channel is the number of messages in it: what they are and how they   *)
(* are cut into chunks is left to the chunk modules.  One action is one    *)
(* step between two points at which another goroutine can be scheduled and *)
(* see a difference; a deferred Unlock is merged with the step before it.  *)
(***************************************************************************)
EXTENDS Naturals

CONSTANTS
    Users,        \* goroutines of the program that uses the stack
    Owner,        \* the one that does the handshake and calls Destroy
    ChannelSize,  \* RTMP_MSG_CHANNEL_BUFFER
    MaxBuffered   \* bound: reads and writes a lost connection still serves

Recv == "recv_msg_goroutine"
Send == "send_msg_goroutine"
Free == "free"

Pumps == {Recv, Send}
Procs == Users \cup Pumps

ASSUME UsersAssumption ==
    /\ Owner \in Users
    /\ Users \cap {Recv, Send, Free} = {}

ASSUME BoundsAssumption ==
    /\ ChannelSize \in Nat \ {0}
    /\ MaxBuffered \in Nat

VARIABLES
    conn,       \* "up", or "down" once the peer or the user closed the TCP connection
    buffered,   \* reads and writes the buffers of the lost connection still serve
    msg_in_lock, msg_out_lock,    \* holder of the mutex, or Free
    msg_io_err,                   \* "nil", "io" or "destroyed"
    msg_in_queue, msg_out_queue,  \* number of messages in the channels
    inClosed, outClosed,          \* whether close() was called on them
    pc,                           \* where each goroutine is
    res,                          \* error returned by the job a pump goroutine just ran
    ret                           \* what the last call of each user returned

locks == <<msg_in_lock, msg_out_lock>>
net == <<conn, buffered>>
inVars == <<msg_in_queue, inClosed>>
outVars == <<msg_out_queue, outClosed>>
vars == <<net, locks, msg_io_err, inVars, outVars, pc, res, ret>>

Errors == {"nil", "io", "destroyed"}

PumpPcs == {"off", "check", "lock", "recheck", "job", "enqueue", "write",
            "store", "exit", "panic"}
UserPcs == {"idle", "sending", "receiving", "lock_in", "lock_out",
            "close_in", "close_out", "unlock"}

\* A call returns the error err; done says whether it had its effect.
Returns == [err : Errors, done : BOOLEAN]

GoTo(p, from, to) ==
    /\ pc[p] = from
    /\ pc' = [pc EXCEPT ![p] = to]

\* NewProtocol: open channels of size ChannelSize, no error, no goroutine yet.
Init ==
    /\ conn = "up" /\ buffered = 0
    /\ msg_in_lock = Free /\ msg_out_lock = Free
    /\ msg_io_err = "nil"
    /\ msg_in_queue = 0 /\ msg_out_queue = 0
    /\ inClosed = FALSE /\ outClosed = FALSE
    /\ pc = [p \in Procs |-> IF p \in Pumps THEN "off" ELSE "idle"]
    /\ res = [g \in Pumps |-> "nil"]
    /\ ret = [u \in Users |-> [err |-> "nil", done |-> TRUE]]

-----------------------------------------------------------------------------
(* Both pump goroutines *)

\* Start of both pumps at the end of a successful handshake.
start_message_pump_goroutines ==
    /\ pc[Owner] = "idle"
    /\ pc[Recv] = "off"
    /\ pc' = [pc EXCEPT ![Recv] = "check", ![Send] = "check"]
    /\ UNCHANGED <<net, locks, msg_io_err, inVars, outVars, res, ret>>

\* for r.msg_io_err == nil: read without holding any lock.
LoopCheck(g) ==
    /\ GoTo(g, "check", IF msg_io_err = "nil" THEN "lock" ELSE "exit")
    /\ UNCHANGED <<net, locks, msg_io_err, inVars, outVars, res, ret>>

RecvLock ==
    /\ msg_in_lock = Free
    /\ GoTo(Recv, "lock", "recheck")
    /\ msg_in_lock' = Recv
    /\ UNCHANGED <<net, msg_out_lock, msg_io_err, inVars, outVars, res, ret>>

SendLock ==
    /\ msg_out_lock = Free
    /\ GoTo(Send, "lock", "recheck")
    /\ msg_out_lock' = Send
    /\ UNCHANGED <<net, msg_in_lock, msg_io_err, inVars, outVars, res, ret>>

\* Mutant: the test under the lock is dropped.
RecvRecheck_NoTest ==
    /\ GoTo(Recv, "recheck", "job")
    /\ UNCHANGED <<net, locks, msg_io_err, inVars, outVars, res, ret>>

\* Mutant: the early return forgets the unlock.
RecvRecheck_KeepsLock ==
    /\ GoTo(Recv, "recheck", IF msg_io_err = "nil" THEN "job" ELSE "check")
    /\ UNCHANGED <<net, locks, msg_io_err, inVars, outVars, res, ret>>

\* The second test of the error, under the lock; the early return releases it.
RecvRecheck ==
    /\ GoTo(Recv, "recheck", IF msg_io_err = "nil" THEN "job" ELSE "check")
    /\ msg_in_lock' = IF msg_io_err = "nil" THEN Recv ELSE Free
    /\ UNCHANGED <<net, msg_out_lock, msg_io_err, inVars, outVars, res, ret>>

SendRecheck ==
    /\ GoTo(Send, "recheck", IF msg_io_err = "nil" THEN "job" ELSE "check")
    /\ msg_out_lock' = IF msg_io_err = "nil" THEN Send ELSE Free
    /\ UNCHANGED <<net, msg_in_lock, msg_io_err, inVars, outVars, res, ret>>

\* The job of g returned err: it will be stored in msg_io_err.
JobReturns(g, err) == res' = [res EXCEPT ![g] = err]

\* Mutant: the receive lock is released before the result is stored.
RecvStore_UnlockFirst ==
    /\ \/ /\ pc[Recv] = "store" /\ msg_in_lock = Recv
          /\ msg_in_lock' = Free
          /\ UNCHANGED <<pc, msg_io_err>>
       \/ /\ GoTo(Recv, "store", "check") /\ msg_in_lock # Recv
          /\ msg_io_err' = res[Recv]
          /\ UNCHANGED msg_in_lock
    /\ UNCHANGED <<net, msg_out_lock, inVars, outVars, res, ret>>

\* r.msg_io_err = job(), nil included, then the deferred Unlock.
RecvStore ==
    /\ GoTo(Recv, "store", "check")
    /\ msg_io_err' = res[Recv]
    /\ msg_in_lock' = Free
    /\ UNCHANGED <<net, msg_out_lock, inVars, outVars, res, ret>>

SendStore ==
    /\ GoTo(Send, "store", "check")
    /\ msg_io_err' = res[Send]
    /\ msg_out_lock' = Free
    /\ UNCHANGED <<net, msg_in_lock, inVars, outVars, res, ret>>

-----------------------------------------------------------------------------
(* The receiving job *)

\* The connection does what it is asked: it is up, or is lost and its buffers still
\* hold received bytes or room for bytes to send.
Served ==
    \/ conn = "up" /\ UNCHANGED net
    \/ buffered > 0 /\ buffered' = buffered - 1 /\ UNCHANGED conn

\* A chunk was read that completes no message, or an empty message: dropped.
RecvNothing ==
    /\ Served
    /\ GoTo(Recv, "job", "store")
    /\ JobReturns(Recv, "nil")
    /\ UNCHANGED <<locks, msg_io_err, inVars, outVars, ret>>

\* The chunk read completes a message and on_recv_message accepts it.
RecvComplete ==
    /\ Served
    /\ GoTo(Recv, "job", "enqueue")
    /\ UNCHANGED <<locks, msg_io_err, inVars, outVars, res, ret>>

\* The connection fails, or the peer breaks the chunk protocol.
RecvFail ==
    /\ GoTo(Recv, "job", "store")
    /\ JobReturns(Recv, "io")
    /\ UNCHANGED <<net, locks, msg_io_err, inVars, outVars, ret>>

\* r.msg_in_queue <- msg: blocks while the channel is full; a send on a closed
\* channel panics, and nothing recovers in this goroutine.
RecvEnqueue ==
    /\ inClosed \/ msg_in_queue < ChannelSize
    /\ GoTo(Recv, "enqueue", IF inClosed THEN "panic" ELSE "store")
    /\ msg_in_queue' = IF inClosed THEN msg_in_queue ELSE msg_in_queue + 1
    /\ JobReturns(Recv, "nil")
    /\ UNCHANGED <<net, locks, msg_io_err, inClosed, outVars, ret>>

-----------------------------------------------------------------------------
(* The sending job *)

\* msg, ok = <- r.msg_out_queue: blocks while the channel is empty and open.
SendDequeue ==
    /\ msg_out_queue > 0 \/ outClosed
    /\ IF msg_out_queue > 0
       THEN /\ GoTo(Send, "job", "write")
            /\ msg_out_queue' = msg_out_queue - 1
            /\ UNCHANGED res
       ELSE /\ GoTo(Send, "job", "store")
            /\ JobReturns(Send, "destroyed")
            /\ UNCHANGED msg_out_queue
    /\ UNCHANGED <<net, locks, msg_io_err, inVars, outClosed, ret>>

\* All chunks of the message are written.
SendWrite ==
    /\ Served
    /\ GoTo(Send, "write", "store")
    /\ JobReturns(Send, "nil")
    /\ UNCHANGED <<locks, msg_io_err, inVars, outVars, ret>>

\* Mutant: a failed write is not reported.
SendFail_Ignored ==
    /\ conn = "down"
    /\ GoTo(Send, "write", "store")
    /\ JobReturns(Send, "nil")
    /\ UNCHANGED <<net, locks, msg_io_err, inVars, outVars, ret>>

\* A Write of a chunk header or of chunk data fails; the rest is not sent.
SendFail ==
    /\ conn = "down"
    /\ GoTo(Send, "write", "store")
    /\ JobReturns(Send, "io")
    /\ UNCHANGED <<net, locks, msg_io_err, inVars, outVars, ret>>

-----------------------------------------------------------------------------
(* Calls of user goroutines *)

Return(u, err, done) ==
    ret' = [ret EXCEPT ![u] = [err |-> err, done |-> done]]

CallSendMessage(u) ==
    /\ GoTo(u, "idle", "sending")
    /\ UNCHANGED <<net, locks, msg_io_err, inVars, outVars, res, ret>>

\* r.msg_out_queue <- msg.  On a closed channel the panic is recovered and the
\* call returns whatever msg_io_err holds.
SendMessage(u) ==
    /\ outClosed \/ msg_out_queue < ChannelSize
    /\ GoTo(u, "sending", "idle")
    /\ msg_out_queue' = IF outClosed THEN msg_out_queue ELSE msg_out_queue + 1
    /\ IF outClosed THEN Return(u, msg_io_err, FALSE) ELSE Return(u, "nil", TRUE)
    /\ UNCHANGED <<net, locks, msg_io_err, inVars, outClosed, res>>

CallRecvMessage(u) ==
    /\ GoTo(u, "idle", "receiving")
    /\ UNCHANGED <<net, locks, msg_io_err, inVars, outVars, res, ret>>

\* msg, ok = <- r.msg_in_queue: a closed channel is drained before it reports
\* an error, which is msg_io_err or, if that is nil, "destroyed".
RecvMessage(u) ==
    /\ msg_in_queue > 0 \/ inClosed
    /\ GoTo(u, "receiving", "idle")
    /\ IF msg_in_queue > 0
       THEN msg_in_queue' = msg_in_queue - 1 /\ Return(u, "nil", TRUE)
       ELSE /\ Return(u, IF msg_io_err # "nil" THEN msg_io_err ELSE "destroyed", FALSE)
            /\ UNCHANGED msg_in_queue
    /\ UNCHANGED <<net, locks, msg_io_err, inClosed, outVars, res>>

\* Destroy is called at most once, by the owner of the stack.
CallDestroy ==
    /\ ~ inClosed
    /\ GoTo(Owner, "idle", "lock_in")
    /\ UNCHANGED <<net, locks, msg_io_err, inVars, outVars, res, ret>>

DestroyLockIn ==
    /\ msg_in_lock = Free
    /\ GoTo(Owner, "lock_in", "lock_out")
    /\ msg_in_lock' = Owner
    /\ UNCHANGED <<net, msg_out_lock, msg_io_err, inVars, outVars, res, ret>>

DestroyLockOut ==
    /\ msg_out_lock = Free
    /\ GoTo(Owner, "lock_out", "close_in")
    /\ msg_out_lock' = Owner
    /\ UNCHANGED <<net, msg_in_lock, msg_io_err, inVars, outVars, res, ret>>

\* Mutant: the channels are closed without setting the error.
DestroyCloseIn_NoError ==
    /\ GoTo(Owner, "close_in", "close_out")
    /\ inClosed' = TRUE
    /\ UNCHANGED <<net, locks, msg_io_err, msg_in_queue, outVars, res, ret>>

\* An error already there is kept; then close(r.msg_in_queue).
DestroyCloseIn ==
    /\ GoTo(Owner, "close_in", "close_out")
    /\ msg_io_err' = IF msg_io_err = "nil" THEN "destroyed" ELSE msg_io_err
    /\ inClosed' = TRUE
    /\ UNCHANGED <<net, locks, msg_in_queue, outVars, res, ret>>

\* Mutant: only the channel of received messages is closed.
DestroyCloseOut_Missing ==
    /\ GoTo(Owner, "close_out", "unlock")
    /\ UNCHANGED <<net, locks, msg_io_err, inVars, outVars, res, ret>>

DestroyCloseOut ==
    /\ GoTo(Owner, "close_out", "unlock")
    /\ outClosed' = TRUE
    /\ UNCHANGED <<net, locks, msg_io_err, inVars, msg_out_queue, res, ret>>

\* Mutant: Destroy forgets the deferred unlocks.
DestroyUnlock_Forgotten ==
    /\ GoTo(Owner, "unlock", "idle")
    /\ UNCHANGED <<net, locks, msg_io_err, inVars, outVars, res, ret>>

DestroyUnlock ==
    /\ GoTo(Owner, "unlock", "idle")
    /\ msg_in_lock' = Free
    /\ msg_out_lock' = Free
    /\ UNCHANGED <<net, msg_io_err, inVars, outVars, res, ret>>

\* The TCP connection goes away: the peer or the program that accepted it closes it
\* (Destroy does not).  What the buffers hold can still be read and written.
ConnDown ==
    /\ conn = "up"
    /\ conn' = "down"
    /\ buffered' \in 0 .. MaxBuffered
    /\ UNCHANGED <<locks, msg_io_err, inVars, outVars, pc, res, ret>>

-----------------------------------------------------------------------------
RecvNext == LoopCheck(Recv) \/ RecvLock \/ RecvRecheck \/ RecvNothing
            \/ RecvComplete \/ RecvFail \/ RecvEnqueue \/ RecvStore

SendNext == LoopCheck(Send) \/ SendLock \/ SendRecheck \/ SendDequeue
            \/ SendWrite \/ SendFail \/ SendStore

UserNext(u) == CallSendMessage(u) \/ SendMessage(u) \/ CallRecvMessage(u) \/ RecvMessage(u)

DestroyNext == CallDestroy \/ DestroyLockIn \/ DestroyLockOut
               \/ DestroyCloseIn \/ DestroyCloseOut \/ DestroyUnlock

Next ==
    \/ start_message_pump_goroutines
    \/ RecvNext
    \/ SendNext
    \/ \E u \in Users : UserNext(u)
    \/ DestroyNext
    \/ ConnDown

Spec == Init /\ [][Next]_vars

(***************************************************************************)
(* Fairness.  The steps a goroutine can always finish by itself: running   *)
(* on, taking a free mutex, using a channel that is ready.  Reading from a *)
(* live connection is not among them, nothing forces the peer to send;     *)
(* neither is starting a call.  A read from a lost connection returns, and *)
(* so does every write: the peer reads, or is gone.                        *)
(***************************************************************************)
RecvLost == conn = "down" /\ (RecvNothing \/ RecvComplete \/ RecvFail)

RecvSteps == LoopCheck(Recv) \/ RecvLock \/ RecvRecheck \/ RecvLost
             \/ RecvEnqueue \/ RecvStore

SendSteps == LoopCheck(Send) \/ SendLock \/ SendRecheck \/ SendDequeue
             \/ SendWrite \/ SendFail \/ SendStore

DestroySteps == DestroyLockIn \/ DestroyLockOut \/ DestroyCloseIn
                \/ DestroyCloseOut \/ DestroyUnlock

CallSteps(u) == SendMessage(u) \/ RecvMessage(u) \/ (u = Owner /\ DestroySteps)

\* The Go scheduler runs every goroutine that stays runnable.
FairSpec ==
    /\ Spec
    /\ WF_vars(RecvSteps) /\ WF_vars(SendSteps)
    /\ \A u \in Users : WF_vars(CallSteps(u))

\* Moreover every waiter for a mutex or a channel that becomes available again and
\* again gets it.
StrongFairSpec ==
    /\ Spec
    /\ SF_vars(RecvSteps) /\ SF_vars(SendSteps)
    /\ \A u \in Users : SF_vars(CallSteps(u))

-----------------------------------------------------------------------------
(* Properties *)

\* Types; the channels never hold more than RTMP_MSG_CHANNEL_BUFFER messages.
TypeOK ==
    /\ conn \in {"up", "down"} /\ buffered \in Nat
    /\ msg_in_lock \in Procs \cup {Free}
    /\ msg_out_lock \in Procs \cup {Free}
    /\ msg_io_err \in Errors
    /\ msg_in_queue \in 0 .. ChannelSize /\ msg_out_queue \in 0 .. ChannelSize
    /\ inClosed \in BOOLEAN /\ outClosed \in BOOLEAN
    /\ pc \in [Procs -> PumpPcs \cup UserPcs]
    /\ \A u \in Users : pc[u] \in UserPcs
    /\ \A g \in Pumps : pc[g] \in PumpPcs
    /\ res \in [Pumps -> Errors]
    /\ ret \in [Users -> Returns]

\* The receiving goroutine never sends on a channel Destroy has closed (line 180):
\* that panic is recovered by nobody and would end the program.
NoPanic == pc[Recv] # "panic"

\* Once Destroy has begun to close the channels no job is running in either
\* goroutine, and none can start: closing never cuts a message in two, and the
\* "destroyed, cannot send" branch of the sending job is never needed.
ClosedMeansQuiet ==
    inClosed \/ outClosed =>
        /\ msg_io_err # "nil"
        /\ pc[Recv] \notin {"job", "enqueue", "store"}
        /\ pc[Send] \notin {"job", "write", "store"}

\* SendMessage and RecvMessage report an error exactly when they had no effect;
\* in particular SendMessage never returns the nil that msg_io_err may hold after
\* its message was refused by a closed channel (line 413).
NoSilentLoss == \A u \in Users : ret[u].done <=> ret[u].err = "nil"

\* After the channels are closed the reported error never changes again: a late
\* job cannot store nil over it, so every later call returns the same error.
ErrorStaysAfterClose == [][inClosed => msg_io_err' = msg_io_err]_vars

\* The goroutine waits for the user: for room in msg_in_queue, or for a message to send.
WaitsForUser(g) ==
    \/ g = Recv /\ pc[g] = "enqueue" /\ msg_in_queue = ChannelSize
    \/ g = Send /\ pc[g] = "job" /\ msg_out_queue = 0

\* When the connection is lost both goroutines end, unless one waits for the user for
\* good.  A job that succeeds stores nil over the failure of the other goroutine
\* (protocol.go:149 and 159), which then runs on; this only delays the end, as a lost
\* connection serves no more than its buffers hold.  The receiving goroutine can also be
\* held up by a Destroy that has its mutex and waits for the other one.
LossStopsPumps ==
    \A g \in Pumps :
        []<>~ WaitsForUser(g) =>
            ((conn = "down" /\ pc[g] # "off")
                ~> (pc[g] = "exit" \/ (g = Recv /\ pc[Owner] = "lock_out")))

\* Once Destroy closes the channels both goroutines end (protocol.go:102
\* "stop goroutines").
DestroyStopsPumps ==
    inClosed ~> \A g \in Pumps : pc[g] \in {"off", "exit"}

\* Once Destroy closes the channels a user blocked in SendMessage on a full
\* queue, or in RecvMessage on an empty one, gets an answer.
DestroyReleasesCallers ==
    \A u \in Users :
        (inClosed /\ pc[u] \in {"sending", "receiving"}) ~> pc[u] = "idle"

\* Destroy returns when the goroutines were never started or have both ended: an
\* early return of do_recv_msg_goroutine or do_send_msg_goroutine leaves no mutex held.
DestroyReturnsWhenStopped ==
    (pc[Owner] = "lock_in" /\ \A g \in Pumps : pc[g] \in {"off", "exit"})
        ~> pc[Owner] = "idle"

\* Destroy always returns, as the interface promises by "destroy the protocol
\* stack, close channels, stop goroutines" (protocol.go:102).
DestroyReturns == pc[Owner] = "lock_in" ~> pc[Owner] = "idle"
=============================================================================
