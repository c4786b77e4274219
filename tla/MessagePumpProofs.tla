------------------------- MODULE MessagePumpProofs -------------------------
(***************************************************************************)
(* The safety properties of MessagePump for any number of user goroutines, *)
(* any channel size and any number of messages.                            *)
(*                                                                         *)
(* Argument: a pump goroutine holds its mutex for the whole of its job and *)
(* Destroy holds both mutexes while it sets the error and closes the       *)
(* channels (LockInv).  So when the channels are closed no job is running, *)
(* the error is set, and the test under the lock keeps any later job from  *)
(* starting (ClosedMeansQuiet).  What the calls report, and that the error *)
(* is final, follows from that.                                            *)
(***************************************************************************)
EXTENDS MessagePump, TLAPS

\* Who holds which mutex is determined by where the goroutines are.
LockInv ==
    /\ msg_in_lock \in {Recv, Owner, Free}
    /\ msg_out_lock \in {Send, Owner, Free}
    /\ msg_in_lock = Recv <=> pc[Recv] \in {"recheck", "job", "enqueue", "store"}
    /\ msg_out_lock = Send <=> pc[Send] \in {"recheck", "job", "write", "store"}
    /\ msg_in_lock = Owner <=> pc[Owner] \in {"lock_out", "close_in", "close_out", "unlock"}
    /\ msg_out_lock = Owner <=> pc[Owner] \in {"close_in", "close_out", "unlock"}
    /\ pc[Recv] = "off" <=> pc[Send] = "off"
    /\ pc[Owner] \in {"close_out", "unlock"} => inClosed

\* Control: types, locks, and no job once the channels are closed.
CtlInv == TypeOK /\ LockInv /\ ClosedMeansQuiet /\ NoPanic

IInv == CtlInv /\ NoSilentLoss

USE DEF Pumps

\* The goroutine names are pairwise distinct and name no user.
LEMMA Distinct ==
    /\ Recv # Send /\ Recv # Free /\ Send # Free
    /\ Recv \notin Users /\ Send \notin Users /\ Free \notin Users
    /\ Owner \in Users
    /\ Owner # Recv /\ Owner # Send /\ Owner # Free
  BY UsersAssumption DEF Recv, Send, Free

\* A new stack satisfies the invariant.
LEMMA InitIInv == Init => IInv
  <1> SUFFICES ASSUME Init PROVE IInv
    OBVIOUS
  <1> USE Distinct, BoundsAssumption DEF Init
  <1>1. TypeOK
    <2>1. pc \in [Procs -> PumpPcs \cup UserPcs]
      BY DEF Procs, PumpPcs, UserPcs
    <2>2. /\ \A u \in Users : pc[u] \in UserPcs
          /\ \A g \in Pumps : pc[g] \in PumpPcs
      BY DEF Procs, PumpPcs, UserPcs
    <2>3. ret \in [Users -> Returns]
      BY DEF Returns, Errors
    <2>4. res \in [Pumps -> Errors]
      BY DEF Errors
    <2>5. msg_in_queue \in 0 .. ChannelSize /\ msg_out_queue \in 0 .. ChannelSize
      OBVIOUS
    <2>6. inClosed \in BOOLEAN /\ outClosed \in BOOLEAN
      OBVIOUS
    <2>7. /\ conn \in {"up", "down"} /\ buffered \in Nat
          /\ msg_in_lock \in Procs \cup {Free}
          /\ msg_out_lock \in Procs \cup {Free}
          /\ msg_io_err \in Errors
      BY DEF Errors
    <2> QED BY <2>1, <2>2, <2>3, <2>4, <2>5, <2>6, <2>7 DEF TypeOK
  <1>2. LockInv
    BY DEF LockInv, Procs
  <1>3. ClosedMeansQuiet /\ NoPanic
    BY DEF ClosedMeansQuiet, NoPanic, Procs
  <1>4. NoSilentLoss
    BY DEF NoSilentLoss
  <1> QED BY <1>1, <1>2, <1>3, <1>4 DEF IInv, CtlInv

(***************************************************************************)
(* Types                                                                   *)
(***************************************************************************)

\* The part of TypeOK about where the goroutines are.
PcOK(f) ==
    /\ f \in [Procs -> PumpPcs \cup UserPcs]
    /\ \A u \in Users : f[u] \in UserPcs
    /\ \A g \in Pumps : f[g] \in PumpPcs

\* A goroutine that moves to a place of its own kind keeps the program counters typed.
LEMMA GoToPcOK ==
    ASSUME PcOK(pc), NEW p \in Procs, NEW from, NEW to, GoTo(p, from, to),
           IF p \in Users THEN to \in UserPcs ELSE to \in PumpPcs
    PROVE  PcOK(pc')
  BY Distinct DEF PcOK, GoTo, Procs

\* What a job returns is an error value.
LEMMA JobReturnsType ==
    ASSUME res \in [Pumps -> Errors], NEW g \in Pumps, NEW err \in Errors, JobReturns(g, err)
    PROVE  res' \in [Pumps -> Errors]
  BY DEF JobReturns

\* What a call returns is a return value.
LEMMA ReturnType ==
    ASSUME ret \in [Users -> Returns], NEW u \in Users,
           NEW err \in Errors, NEW done \in BOOLEAN, Return(u, err, done)
    PROVE  ret' \in [Users -> Returns]
  <1>1. [err |-> err, done |-> done] \in Returns
    BY DEF Returns
  <1> QED BY <1>1 DEF Return

\* A read or write leaves the connection typed.
LEMMA ServedType ==
    ASSUME conn \in {"up", "down"}, buffered \in Nat, Served
    PROVE  conn' \in {"up", "down"} /\ buffered' \in Nat
  BY DEF Served, net

\* Every step keeps the types and the channel bounds.
LEMMA TypeStep == TypeOK /\ [Next]_vars => TypeOK'
  <1> SUFFICES ASSUME TypeOK, [Next]_vars PROVE TypeOK'
    OBVIOUS
  <1>p. PcOK(pc)
    BY DEF TypeOK, PcOK
  <1>r. Recv \in Procs /\ Send \in Procs /\ Owner \in Procs /\ \A u \in Users : u \in Procs
    BY Distinct DEF Procs
  <1> USE Distinct, <1>r DEF vars, net, locks, inVars, outVars
  <1>1. CASE start_message_pump_goroutines
    BY <1>1 DEF TypeOK, start_message_pump_goroutines, PumpPcs, Procs
  <1>2. ASSUME NEW g \in Pumps, LoopCheck(g) PROVE TypeOK'
    <2>1. PcOK(pc')
      BY <1>2, <1>p, GoToPcOK DEF LoopCheck, PumpPcs
    <2> QED BY <1>2, <2>1 DEF TypeOK, PcOK, LoopCheck
  <1>3. CASE RecvLock
    <2>1. PcOK(pc')
      BY <1>3, <1>p, GoToPcOK DEF RecvLock, PumpPcs
    <2> QED BY <1>3, <2>1 DEF TypeOK, PcOK, RecvLock
  <1>4. CASE SendLock
    <2>1. PcOK(pc')
      BY <1>4, <1>p, GoToPcOK DEF SendLock, PumpPcs
    <2> QED BY <1>4, <2>1 DEF TypeOK, PcOK, SendLock
  <1>5. CASE RecvRecheck
    <2>1. PcOK(pc')
      BY <1>5, <1>p, GoToPcOK DEF RecvRecheck, PumpPcs
    <2> QED BY <1>5, <2>1 DEF TypeOK, PcOK, RecvRecheck
  <1>6. CASE SendRecheck
    <2>1. PcOK(pc')
      BY <1>6, <1>p, GoToPcOK DEF SendRecheck, PumpPcs
    <2> QED BY <1>6, <2>1 DEF TypeOK, PcOK, SendRecheck
  <1>7. CASE RecvStore
    <2>1. PcOK(pc')
      BY <1>7, <1>p, GoToPcOK DEF RecvStore, PumpPcs
    <2> QED BY <1>7, <2>1 DEF TypeOK, PcOK, RecvStore
  <1>8. CASE SendStore
    <2>1. PcOK(pc')
      BY <1>8, <1>p, GoToPcOK DEF SendStore, PumpPcs
    <2> QED BY <1>8, <2>1 DEF TypeOK, PcOK, SendStore
  <1>9. CASE RecvNothing
    <2>1. PcOK(pc')
      BY <1>9, <1>p, GoToPcOK DEF RecvNothing, PumpPcs
    <2>2. res' \in [Pumps -> Errors]
      BY <1>9, JobReturnsType DEF RecvNothing, TypeOK, Errors
    <2>3. conn' \in {"up", "down"} /\ buffered' \in Nat
      BY <1>9, ServedType DEF RecvNothing, TypeOK
    <2> QED BY <1>9, <2>1, <2>2, <2>3 DEF TypeOK, PcOK, RecvNothing
  <1>10. CASE RecvComplete
    <2>1. PcOK(pc')
      BY <1>10, <1>p, GoToPcOK DEF RecvComplete, PumpPcs
    <2>3. conn' \in {"up", "down"} /\ buffered' \in Nat
      BY <1>10, ServedType DEF RecvComplete, TypeOK
    <2> QED BY <1>10, <2>1, <2>3 DEF TypeOK, PcOK, RecvComplete
  <1>11. CASE RecvFail
    <2>1. PcOK(pc')
      BY <1>11, <1>p, GoToPcOK DEF RecvFail, PumpPcs
    <2>2. res' \in [Pumps -> Errors]
      BY <1>11, JobReturnsType DEF RecvFail, TypeOK, Errors
    <2> QED BY <1>11, <2>1, <2>2 DEF TypeOK, PcOK, RecvFail
  <1>12. CASE SendWrite
    <2>1. PcOK(pc')
      BY <1>12, <1>p, GoToPcOK DEF SendWrite, PumpPcs
    <2>2. res' \in [Pumps -> Errors]
      BY <1>12, JobReturnsType DEF SendWrite, TypeOK, Errors
    <2>3. conn' \in {"up", "down"} /\ buffered' \in Nat
      BY <1>12, ServedType DEF SendWrite, TypeOK
    <2> QED BY <1>12, <2>1, <2>2, <2>3 DEF TypeOK, PcOK, SendWrite
  <1>13. CASE SendFail
    <2>1. PcOK(pc')
      BY <1>13, <1>p, GoToPcOK DEF SendFail, PumpPcs
    <2>2. res' \in [Pumps -> Errors]
      BY <1>13, JobReturnsType DEF SendFail, TypeOK, Errors
    <2> QED BY <1>13, <2>1, <2>2 DEF TypeOK, PcOK, SendFail
  <1>14. CASE CallDestroy
    <2>1. PcOK(pc')
      BY <1>14, <1>p, GoToPcOK DEF CallDestroy, UserPcs
    <2> QED BY <1>14, <2>1 DEF TypeOK, PcOK, CallDestroy
  <1>15. CASE DestroyLockIn
    <2>1. PcOK(pc')
      BY <1>15, <1>p, GoToPcOK DEF DestroyLockIn, UserPcs
    <2> QED BY <1>15, <2>1 DEF TypeOK, PcOK, DestroyLockIn
  <1>16. CASE DestroyLockOut
    <2>1. PcOK(pc')
      BY <1>16, <1>p, GoToPcOK DEF DestroyLockOut, UserPcs
    <2> QED BY <1>16, <2>1 DEF TypeOK, PcOK, DestroyLockOut
  <1>17. CASE DestroyCloseIn
    <2>1. PcOK(pc')
      BY <1>17, <1>p, GoToPcOK DEF DestroyCloseIn, UserPcs
    <2> QED BY <1>17, <2>1 DEF TypeOK, PcOK, DestroyCloseIn, Errors
  <1>18. CASE DestroyCloseOut
    <2>1. PcOK(pc')
      BY <1>18, <1>p, GoToPcOK DEF DestroyCloseOut, UserPcs
    <2> QED BY <1>18, <2>1 DEF TypeOK, PcOK, DestroyCloseOut
  <1>19. CASE DestroyUnlock
    <2>1. PcOK(pc')
      BY <1>19, <1>p, GoToPcOK DEF DestroyUnlock, UserPcs
    <2> QED BY <1>19, <2>1 DEF TypeOK, PcOK, DestroyUnlock
  <1>20. CASE RecvEnqueue
    <2>1. PcOK(pc')
      BY <1>20, <1>p, GoToPcOK DEF RecvEnqueue, PumpPcs
    <2>2. res' \in [Pumps -> Errors]
      BY <1>20, JobReturnsType DEF RecvEnqueue, TypeOK, Errors
    <2>3. msg_in_queue' \in 0 .. ChannelSize
      BY <1>20, BoundsAssumption DEF RecvEnqueue, TypeOK
    <2> QED BY <1>20, <2>1, <2>2, <2>3 DEF TypeOK, PcOK, RecvEnqueue
  <1>21. CASE SendDequeue
    <2>1. PcOK(pc')
      BY <1>21, <1>p, GoToPcOK DEF SendDequeue, PumpPcs
    <2>2. res' \in [Pumps -> Errors]
      BY <1>21, JobReturnsType DEF SendDequeue, TypeOK, Errors
    <2>3. msg_out_queue' \in 0 .. ChannelSize
      BY <1>21, BoundsAssumption DEF SendDequeue, TypeOK
    <2> QED BY <1>21, <2>1, <2>2, <2>3 DEF TypeOK, PcOK, SendDequeue
  <1>22. ASSUME NEW u \in Users, CallSendMessage(u) \/ CallRecvMessage(u) PROVE TypeOK'
    <2>1. PcOK(pc')
      BY <1>22, <1>p, GoToPcOK DEF CallSendMessage, CallRecvMessage, UserPcs
    <2> QED BY <1>22, <2>1 DEF TypeOK, PcOK, CallSendMessage, CallRecvMessage
  <1>23. ASSUME NEW u \in Users, SendMessage(u) PROVE TypeOK'
    <2>1. PcOK(pc')
      BY <1>23, <1>p, GoToPcOK DEF SendMessage, UserPcs
    <2>2. ret' \in [Users -> Returns]
      <3>1. ret \in [Users -> Returns] /\ msg_io_err \in Errors /\ "nil" \in Errors
        BY DEF TypeOK, Errors
      <3>2. Return(u, msg_io_err, FALSE) \/ Return(u, "nil", TRUE)
        BY <1>23 DEF SendMessage
      <3>3. CASE Return(u, msg_io_err, FALSE)
        BY <3>1, <3>3, ReturnType
      <3>4. CASE Return(u, "nil", TRUE)
        BY <3>1, <3>4, ReturnType
      <3> QED BY <3>2, <3>3, <3>4
    <2>3. msg_out_queue' \in 0 .. ChannelSize
      BY <1>23, BoundsAssumption DEF SendMessage, TypeOK
    <2> QED BY <1>23, <2>1, <2>2, <2>3 DEF TypeOK, PcOK, SendMessage
  <1>24. ASSUME NEW u \in Users, RecvMessage(u) PROVE TypeOK'
    <2>1. PcOK(pc')
      BY <1>24, <1>p, GoToPcOK DEF RecvMessage, UserPcs
    <2>2. ret' \in [Users -> Returns]
      <3> DEFINE e == IF msg_io_err # "nil" THEN msg_io_err ELSE "destroyed"
      <3>1. ret \in [Users -> Returns] /\ e \in Errors /\ "nil" \in Errors
        BY DEF TypeOK, Errors
      <3>2. Return(u, e, FALSE) \/ Return(u, "nil", TRUE)
        BY <1>24 DEF RecvMessage
      <3> HIDE DEF e
      <3>3. CASE Return(u, e, FALSE)
        BY <3>1, <3>3, ReturnType
      <3>4. CASE Return(u, "nil", TRUE)
        BY <3>1, <3>4, ReturnType
      <3> QED BY <3>2, <3>3, <3>4
    <2>3. msg_in_queue' \in 0 .. ChannelSize
      <3>1. \/ msg_in_queue > 0 /\ msg_in_queue' = msg_in_queue - 1
            \/ msg_in_queue' = msg_in_queue
        BY <1>24 DEF RecvMessage
      <3> QED BY <3>1, BoundsAssumption DEF TypeOK
    <2> QED BY <1>24, <2>1, <2>2, <2>3 DEF TypeOK, PcOK, RecvMessage
  <1>25. CASE ConnDown
    BY <1>25, BoundsAssumption DEF TypeOK, ConnDown
  <1>26. CASE UNCHANGED vars
    BY <1>26 DEF TypeOK
  <1> QED
    BY <1>1, <1>2, <1>3, <1>4, <1>5, <1>6, <1>7, <1>8, <1>9, <1>10, <1>11,
       <1>12, <1>13, <1>14, <1>15, <1>16, <1>17, <1>18, <1>19, <1>20, <1>21,
       <1>22, <1>23, <1>24, <1>25, <1>26
    DEF Next, RecvNext, SendNext, UserNext, DestroyNext

(***************************************************************************)
(* Locks, and what they protect                                            *)
(***************************************************************************)

\* The part of TypeOK the control arguments use.
CtlTypeOK ==
    /\ msg_io_err \in Errors
    /\ pc \in [Procs -> PumpPcs \cup UserPcs]
    /\ Recv \in Procs /\ Send \in Procs /\ Owner \in Procs

\* TypeOK contains it.
LEMMA TypeImpliesCtl == TypeOK => CtlTypeOK
  BY Distinct DEF TypeOK, CtlTypeOK, Procs

\* Every step keeps the mutexes and the program counters in agreement.
LEMMA LockStep == CtlTypeOK /\ LockInv /\ ClosedMeansQuiet /\ [Next]_vars => LockInv'
  <1> SUFFICES ASSUME CtlTypeOK, LockInv, ClosedMeansQuiet, [Next]_vars PROVE LockInv'
    OBVIOUS
  <1> USE Distinct DEF vars, net, locks, inVars, outVars, CtlTypeOK, LockInv, ClosedMeansQuiet,
            GoTo, Procs
  <1>1. CASE start_message_pump_goroutines
    BY <1>1 DEF start_message_pump_goroutines
  <1>2. CASE RecvLock
    BY <1>2 DEF RecvLock
  <1>3. CASE SendLock
    BY <1>3 DEF SendLock
  <1>4. CASE RecvRecheck
    BY <1>4 DEF RecvRecheck
  <1>5. CASE SendRecheck
    BY <1>5 DEF SendRecheck
  <1>6. CASE RecvStore
    BY <1>6 DEF RecvStore
  <1>7. CASE SendStore
    BY <1>7 DEF SendStore
  <1>8. CASE RecvNothing
    BY <1>8 DEF RecvNothing
  <1>9. CASE RecvComplete
    BY <1>9 DEF RecvComplete
  <1>10. CASE RecvFail
    BY <1>10 DEF RecvFail
  <1>11. CASE RecvEnqueue
    BY <1>11 DEF RecvEnqueue
  <1>12. CASE SendDequeue
    BY <1>12 DEF SendDequeue
  <1>13. CASE SendWrite
    BY <1>13 DEF SendWrite
  <1>14. CASE SendFail
    BY <1>14 DEF SendFail
  <1>15. CASE CallDestroy
    BY <1>15 DEF CallDestroy
  <1>16. CASE DestroyLockIn
    BY <1>16 DEF DestroyLockIn
  <1>17. CASE DestroyLockOut
    BY <1>17 DEF DestroyLockOut
  <1>18. CASE DestroyCloseIn
    BY <1>18 DEF DestroyCloseIn
  <1>19. CASE DestroyCloseOut
    BY <1>19 DEF DestroyCloseOut
  <1>20. CASE DestroyUnlock
    BY <1>20 DEF DestroyUnlock
  <1>21. CASE ConnDown
    BY <1>21 DEF ConnDown
  <1>22. ASSUME NEW g \in Pumps, LoopCheck(g) PROVE LockInv'
    BY <1>22 DEF LoopCheck
  <1>23. ASSUME NEW u \in Users, UserNext(u) PROVE LockInv'
    <2>1. CASE CallSendMessage(u)
      BY <2>1 DEF CallSendMessage
    <2>2. CASE SendMessage(u)
      BY <2>2 DEF SendMessage
    <2>3. CASE CallRecvMessage(u)
      BY <2>3 DEF CallRecvMessage
    <2>4. CASE RecvMessage(u)
      BY <2>4 DEF RecvMessage
    <2> QED BY <1>23, <2>1, <2>2, <2>3, <2>4 DEF UserNext
  <1>24. CASE UNCHANGED vars
    BY <1>24
  <1> QED
    BY <1>1, <1>2, <1>3, <1>4, <1>5, <1>6, <1>7, <1>8, <1>9, <1>10, <1>11,
       <1>12, <1>13, <1>14, <1>15, <1>16, <1>17, <1>18, <1>19, <1>20, <1>21,
       <1>22, <1>23, <1>24
    DEF Next, RecvNext, SendNext, DestroyNext

\* No step starts or leaves a job running beside closed channels.
LEMMA QuietStep ==
    CtlTypeOK /\ LockInv /\ ClosedMeansQuiet /\ NoPanic /\ [Next]_vars
        => (ClosedMeansQuiet /\ NoPanic)'
  <1> SUFFICES ASSUME CtlTypeOK, LockInv, ClosedMeansQuiet, NoPanic, [Next]_vars
               PROVE  (ClosedMeansQuiet /\ NoPanic)'
    OBVIOUS
  <1> USE Distinct DEF vars, net, locks, inVars, outVars, CtlTypeOK, LockInv, ClosedMeansQuiet,
            NoPanic, GoTo, Procs
  <1>1. CASE start_message_pump_goroutines
    BY <1>1 DEF start_message_pump_goroutines
  <1>2. CASE RecvLock
    BY <1>2 DEF RecvLock
  <1>3. CASE SendLock
    BY <1>3 DEF SendLock
  <1>4. CASE RecvRecheck
    BY <1>4 DEF RecvRecheck
  <1>5. CASE SendRecheck
    BY <1>5 DEF SendRecheck
  <1>6. CASE RecvStore
    BY <1>6 DEF RecvStore
  <1>7. CASE SendStore
    BY <1>7 DEF SendStore
  <1>8. CASE RecvNothing
    BY <1>8 DEF RecvNothing
  <1>9. CASE RecvComplete
    BY <1>9 DEF RecvComplete
  <1>10. CASE RecvFail
    BY <1>10 DEF RecvFail
  <1>11. CASE RecvEnqueue
    BY <1>11 DEF RecvEnqueue
  <1>12. CASE SendDequeue
    BY <1>12 DEF SendDequeue
  <1>13. CASE SendWrite
    BY <1>13 DEF SendWrite
  <1>14. CASE SendFail
    BY <1>14 DEF SendFail
  <1>15. CASE CallDestroy
    BY <1>15 DEF CallDestroy
  <1>16. CASE DestroyLockIn
    BY <1>16 DEF DestroyLockIn
  <1>17. CASE DestroyLockOut
    BY <1>17 DEF DestroyLockOut
  <1>18. CASE DestroyCloseIn
    BY <1>18 DEF DestroyCloseIn
  <1>19. CASE DestroyCloseOut
    BY <1>19 DEF DestroyCloseOut
  <1>20. CASE DestroyUnlock
    BY <1>20 DEF DestroyUnlock
  <1>21. CASE ConnDown
    BY <1>21 DEF ConnDown
  <1>22. ASSUME NEW g \in Pumps, LoopCheck(g) PROVE (ClosedMeansQuiet /\ NoPanic)'
    BY <1>22 DEF LoopCheck
  <1>23. ASSUME NEW u \in Users, UserNext(u) PROVE (ClosedMeansQuiet /\ NoPanic)'
    <2>1. CASE CallSendMessage(u)
      BY <2>1 DEF CallSendMessage
    <2>2. CASE SendMessage(u)
      BY <2>2 DEF SendMessage
    <2>3. CASE CallRecvMessage(u)
      BY <2>3 DEF CallRecvMessage
    <2>4. CASE RecvMessage(u)
      BY <2>4 DEF RecvMessage
    <2> QED BY <1>23, <2>1, <2>2, <2>3, <2>4 DEF UserNext
  <1>24. CASE UNCHANGED vars
    BY <1>24
  <1> QED
    BY <1>1, <1>2, <1>3, <1>4, <1>5, <1>6, <1>7, <1>8, <1>9, <1>10, <1>11,
       <1>12, <1>13, <1>14, <1>15, <1>16, <1>17, <1>18, <1>19, <1>20, <1>21,
       <1>22, <1>23, <1>24
    DEF Next, RecvNext, SendNext, DestroyNext

(***************************************************************************)
(* What the calls report                                                   *)
(***************************************************************************)

\* No call that had no effect reports success: on a closed channel the error is set.
LEMMA NoSilentLossStep ==
    TypeOK /\ ClosedMeansQuiet /\ NoSilentLoss /\ [Next]_vars => NoSilentLoss'
  <1> SUFFICES ASSUME TypeOK, ClosedMeansQuiet, NoSilentLoss, [Next]_vars
               PROVE  NoSilentLoss'
    OBVIOUS
  <1> USE DEF NoSilentLoss, vars
  <1>1. CASE UNCHANGED ret
    BY <1>1
  <1>2. ASSUME NEW u \in Users, SendMessage(u) PROVE NoSilentLoss'
    <2>1. CASE outClosed
      <3>1. msg_io_err # "nil"
        BY <2>1 DEF ClosedMeansQuiet
      <3>2. ret' = [ret EXCEPT ![u] = [err |-> msg_io_err, done |-> FALSE]]
        BY <1>2, <2>1 DEF SendMessage, Return
      <3> QED BY <3>1, <3>2 DEF TypeOK
    <2>2. CASE ~ outClosed
      <3>1. ret' = [ret EXCEPT ![u] = [err |-> "nil", done |-> TRUE]]
        BY <1>2, <2>2 DEF SendMessage, Return
      <3> QED BY <3>1 DEF TypeOK
    <2> QED BY <2>1, <2>2
  <1>3. ASSUME NEW u \in Users, RecvMessage(u) PROVE NoSilentLoss'
    <2> DEFINE e == IF msg_io_err # "nil" THEN msg_io_err ELSE "destroyed"
    <2>1. e # "nil"
      OBVIOUS
    <2>2. \/ ret' = [ret EXCEPT ![u] = [err |-> "nil", done |-> TRUE]]
          \/ ret' = [ret EXCEPT ![u] = [err |-> e, done |-> FALSE]]
      BY <1>3 DEF RecvMessage, Return
    <2> HIDE DEF e
    <2>3. CASE ret' = [ret EXCEPT ![u] = [err |-> "nil", done |-> TRUE]]
      BY <2>3 DEF TypeOK
    <2>4. CASE ret' = [ret EXCEPT ![u] = [err |-> e, done |-> FALSE]]
      BY <2>1, <2>4 DEF TypeOK
    <2> QED BY <2>2, <2>3, <2>4
  <1>4. UNCHANGED ret \/ \E u \in Users : SendMessage(u) \/ RecvMessage(u)
    <2>1. CASE start_message_pump_goroutines \/ ConnDown
      BY <2>1 DEF start_message_pump_goroutines, ConnDown
    <2>2. CASE RecvNext
      BY <2>2 DEF RecvNext, LoopCheck, RecvLock, RecvRecheck, RecvNothing, RecvComplete,
                  RecvFail, RecvStore, RecvEnqueue
    <2>3. CASE SendNext
      BY <2>3 DEF SendNext, LoopCheck, SendLock, SendRecheck, SendWrite, SendFail,
                  SendStore, SendDequeue
    <2>4. ASSUME NEW u \in Users, UserNext(u)
          PROVE  UNCHANGED ret \/ SendMessage(u) \/ RecvMessage(u)
      BY <2>4 DEF UserNext, CallSendMessage, CallRecvMessage
    <2>5. CASE DestroyNext
      BY <2>5 DEF DestroyNext, CallDestroy, DestroyLockIn, DestroyLockOut, DestroyCloseIn,
                  DestroyCloseOut, DestroyUnlock
    <2>6. CASE UNCHANGED vars
      BY <2>6
    <2> QED BY <2>1, <2>2, <2>3, <2>4, <2>5, <2>6 DEF Next
  <1> QED BY <1>1, <1>2, <1>3, <1>4

-----------------------------------------------------------------------------
(* The theorems *)

\* The invariant is inductive.
LEMMA IInvStep == IInv /\ [Next]_vars => IInv'
  BY TypeStep, TypeImpliesCtl, LockStep, QuietStep, NoSilentLossStep
  DEF IInv, CtlInv

\* Every reachable state of the pump satisfies the inductive invariant.
LEMMA Invariance == Spec => []IInv
  BY InitIInv, IInvStep, PTL DEF Spec

\* Types, and channels that never hold more than they have room for.
THEOREM TypeCorrect == Spec => []TypeOK
  <1>1. IInv => TypeOK
    BY DEF IInv, CtlInv
  <1> QED BY <1>1, Invariance, PTL

\* The receiving goroutine never panics on a channel that Destroy closed.
THEOREM PanicFree == Spec => []NoPanic
  <1>1. IInv => NoPanic
    BY DEF IInv, CtlInv
  <1> QED BY <1>1, Invariance, PTL

\* When the channels are closed the error is set and no job runs.
THEOREM CloseIsQuiet == Spec => []ClosedMeansQuiet
  <1>1. IInv => ClosedMeansQuiet
    BY DEF IInv, CtlInv
  <1> QED BY <1>1, Invariance, PTL

\* A call reports an error exactly when it had no effect.
THEOREM LossIsReported == Spec => []NoSilentLoss
  <1>1. IInv => NoSilentLoss
    BY DEF IInv
  <1> QED BY <1>1, Invariance, PTL

\* After close the error that calls report is final.
THEOREM ErrorIsFinal == Spec => ErrorStaysAfterClose
  <1>1. IInv /\ [Next]_vars => [inClosed => msg_io_err' = msg_io_err]_vars
    <2> SUFFICES ASSUME IInv, Next, inClosed PROVE msg_io_err' = msg_io_err
      BY DEF vars
    <2>1. /\ msg_io_err # "nil"
          /\ pc[Recv] # "store" /\ pc[Send] # "store"
      BY DEF IInv, CtlInv, ClosedMeansQuiet
    <2> USE DEF GoTo
    <2>2. CASE start_message_pump_goroutines \/ ConnDown
      BY <2>2 DEF start_message_pump_goroutines, ConnDown
    <2>3. CASE RecvNext
      BY <2>1, <2>3 DEF RecvNext, LoopCheck, RecvLock, RecvRecheck, RecvNothing,
                        RecvComplete, RecvFail, RecvStore, RecvEnqueue
    <2>4. CASE SendNext
      BY <2>1, <2>4 DEF SendNext, LoopCheck, SendLock, SendRecheck, SendWrite, SendFail,
                        SendStore, SendDequeue
    <2>5. ASSUME NEW u \in Users, UserNext(u) PROVE msg_io_err' = msg_io_err
      BY <2>5 DEF UserNext, CallSendMessage, SendMessage, CallRecvMessage, RecvMessage
    <2>6. CASE DestroyNext
      BY <2>1, <2>6 DEF DestroyNext, CallDestroy, DestroyLockIn, DestroyLockOut,
                        DestroyCloseIn, DestroyCloseOut, DestroyUnlock
    <2> QED BY <2>2, <2>3, <2>4, <2>5, <2>6 DEF Next
  <1> QED BY <1>1, Invariance, PTL DEF Spec, ErrorStaysAfterClose
=============================================================================
