----------------------------- MODULE LinkRxProofs -----------------------------
(***************************************************************************)
(* Proofs about LinkRx for every RX_DEPTH and every limit on stalls: the    *)
(* read queue is full in every round, the thread never ends unnoticed, and  *)
(* the thread implements Endpoint's contract.                              *)
(***************************************************************************)
EXTENDS LinkRx, TLAPS, SequenceTheorems

\* A running thread is within its limit of stalls, and while it drains the
\* queue it has no more reads than it started with.
Within ==
  /\ pc # "done" => stalls <= MaxStalls
  /\ Len(flight) <= RxDepth

IInv == TypeOK /\ QueueFull /\ EndsWithNotice /\ Within

\* A function on 1..n is a sequence of length n.
LEMMA FunctionIsSeq ==
  ASSUME NEW S, NEW n \in Nat, NEW f \in [1..n -> S]
  PROVE  f \in Seq(S) /\ Len(f) = n
OBVIOUS

\* Taking back the oldest read, with or without a replacement, or cancelling
\* the others, leaves a queue of the expected length.
LEMMA QueueFacts ==
  ASSUME NEW q \in Seq(E!Transfer), q # <<>>
  PROVE  /\ Tail(q) \in Seq(E!Transfer) /\ Len(Tail(q)) = Len(q) - 1
         /\ Append(Tail(q), E!Submitted) \in Seq(E!Transfer)
         /\ Len(Append(Tail(q), E!Submitted)) = Len(q)
         /\ E!Cancelled(Tail(q)) \in Seq(E!Transfer)
         /\ Len(E!Cancelled(Tail(q))) = Len(q) - 1
         /\ Len(q) \in Nat
<1>1. /\ Tail(q) \in Seq(E!Transfer) /\ Len(Tail(q)) = Len(q) - 1
      /\ Len(q) \in Nat \ {0}
  BY HeadTailProperties, EmptySeq
<1>2. E!Submitted \in E!Transfer
  BY DEF E!Submitted, E!Transfer, E!Result
<1>3. /\ Append(Tail(q), E!Submitted) \in Seq(E!Transfer)
      /\ Len(Append(Tail(q), E!Submitted)) = Len(q)
  BY <1>1, <1>2, AppendProperties
<1>4. E!Cancelled(Tail(q)) \in [1..Len(Tail(q)) -> E!Transfer]
  <2>1. Tail(q) \in [1..Len(Tail(q)) -> E!Transfer]
    BY <1>1, LenProperties, Zenon
  <2>2. "aborting" \in E!Transfer
    BY DEF E!Transfer
  <2> QED
    BY <2>1, <2>2 DEF E!Cancelled
<1>5. /\ E!Cancelled(Tail(q)) \in Seq(E!Transfer)
      /\ Len(E!Cancelled(Tail(q))) = Len(q) - 1
  <2>1. Len(Tail(q)) \in Nat
    BY <1>1
  <2>2. /\ E!Cancelled(Tail(q)) \in Seq(E!Transfer)
        /\ Len(E!Cancelled(Tail(q))) = Len(Tail(q))
    BY <1>4, <2>1, FunctionIsSeq, Zenon
  <2> QED
    BY <1>1, <2>2, Zenon
<1> QED
  BY <1>1, <1>3, <1>5, Zenon

\* One wait of a drain.
LEMMA WaitShrinks ==
  ASSUME NEW q \in Seq(E!Transfer), q # <<>>, NEW r \in {Tail(q), q}
  PROVE  r \in Seq(E!Transfer) /\ Len(r) <= Len(q) /\ Len(r) \in Nat
<1>1. Tail(q) \in Seq(E!Transfer) /\ Len(Tail(q)) = Len(q) - 1
  BY QueueFacts
<1>2. Len(q) \in Nat \ {0}
  BY EmptySeq
<1>3. CASE r = q
  BY <1>2, <1>3
<1>4. CASE r = Tail(q)
  <2>1. r \in Seq(E!Transfer) /\ Len(r) = Len(q) - 1
    BY <1>1, <1>4, Zenon
  <2> QED
    BY <1>2, <2>1
<1> QED
  BY <1>3, <1>4

\* The queue as rx_loop and recover_bulk_in fill it.
LEMMA FullFacts == E!Full \in Seq(E!Transfer) /\ Len(E!Full) = RxDepth
<1>1. E!Full \in [1..RxDepth -> E!Transfer]
  BY DEF E!Full, E!Transfer
<1> QED
  BY <1>1, RxAssumption, FunctionIsSeq

\* A completion changes one entry of the queue and not its length.
LEMMA CompleteFacts ==
  ASSUME flight \in Seq(E!Transfer), halted \in BOOLEAN, E!Complete
  PROVE  flight' \in Seq(E!Transfer) /\ Len(flight') = Len(flight) /\ halted' \in BOOLEAN
<1>1. PICK i \in 1..Len(flight), r \in E!Transfer :
        flight' = [flight EXCEPT ![i] = r] /\ halted' = (halted \/ r = "stall")
  BY Zenon DEF E!Complete, E!Transfer, E!Result
<1>2. halted' \in BOOLEAN
  BY <1>1
<1>3. flight \in [1..Len(flight) -> E!Transfer] /\ Len(flight) \in Nat
  BY LenProperties
<1>4. flight' \in [1..Len(flight) -> E!Transfer]
  BY <1>1, <1>3
<1> QED
  BY <1>2, <1>3, <1>4, FunctionIsSeq

LEMMA InitIInv == Init => IInv
<1> SUFFICES ASSUME Init PROVE IInv
  OBVIOUS
<1>1. failed \in BOOLEAN /\ linkStop \in BOOLEAN /\ halted \in BOOLEAN
  BY Zenon DEF Init
<1>2. flight \in Seq(E!Transfer) /\ Len(flight) = RxDepth
  BY FullFacts DEF Init
<1> QED
  BY <1>1, <1>2, RxAssumption DEF Init, IInv, TypeOK, QueueFull, EndsWithNotice, Within

\* The flags are Boolean after every step.
LEMMA FlagsBoolean ==
  ASSUME IInv, Next
  PROVE  halted' \in BOOLEAN /\ failed' \in BOOLEAN /\ linkStop' \in BOOLEAN
<1>1. failed' \in BOOLEAN /\ linkStop' \in BOOLEAN
  BY Zenon DEF IInv, TypeOK, Next, Thread, Loop, Tick, Data, Fatal, Stall, OtherError, Drain,
         Recover, Complete, Stop, Fail
<1>2. ASSUME ~Complete PROVE halted' \in BOOLEAN
  BY <1>2, Zenon DEF IInv, TypeOK, Next, Thread, Loop, Tick, Data, Fatal, Stall, OtherError, Drain,
         Recover, Stop, Fail
<1>3. CASE Complete
  BY <1>3, CompleteFacts DEF IInv, TypeOK, Complete
<1> QED
  BY <1>1, <1>2, <1>3

LEMMA StepIInv == IInv /\ [Next]_vars => IInv'
<1> SUFFICES ASSUME IInv, Next
             PROVE  IInv'
  BY DEF IInv, TypeOK, QueueFull, EndsWithNotice, Within, vars
<1> USE RxAssumption, FlagsBoolean DEF IInv, TypeOK, QueueFull, EndsWithNotice, Within
<1>1. CASE Loop \/ Tick \/ Stop
  BY <1>1 DEF Loop, Tick, Stop
<1>2. CASE Data \/ OtherError
  <2>1. /\ flight # <<>> /\ flight' = Append(Tail(flight), E!Submitted) /\ pc = "wait"
        /\ pc' = "loop" /\ stalls' \in {0, stalls} /\ UNCHANGED <<drain, failed, linkStop>>
    BY <1>2 DEF Data, OtherError, E!Done
  <2> QED
    BY <2>1, QueueFacts
<1>3. CASE Fatal
  <2>1. flight # <<>> /\ flight' = Tail(flight)
    BY <1>3 DEF Fatal, E!Done
  <2> QED
    BY <1>3, <2>1, QueueFacts DEF Fatal, Fail
<1>4. CASE Stall
  <2>1. flight # <<>> /\ flight' \in {Tail(flight), E!Cancelled(Tail(flight))}
    BY <1>4 DEF Stall, E!Done
  <2>2. flight' \in Seq(E!Transfer) /\ Len(flight') = Len(flight) - 1 /\ Len(flight) \in Nat
    BY <2>1, QueueFacts, Zenon
  <2> QED
    BY <1>4, <2>2 DEF Stall, Fail
<1>5. CASE Drain
  <2>1. flight # <<>> /\ flight' \in {Tail(flight), flight}
    BY <1>5 DEF Drain
  <2>2. flight' \in Seq(E!Transfer) /\ Len(flight') <= Len(flight) /\ Len(flight') \in Nat
    BY <2>1, WaitShrinks
  <2> QED
    BY <1>5, <2>2, QueueFacts DEF Drain
<1>6. CASE Recover
  <2>1. flight' \in {flight, E!Full}
    BY <1>6 DEF Recover
  <2>2. flight' \in Seq(E!Transfer) /\ Len(flight') <= RxDepth
    BY <2>1, FullFacts
  <2> QED
    BY <1>6, <2>2, FullFacts DEF Recover, Fail
<1>7. CASE Complete
  <2>1. flight' \in Seq(E!Transfer) /\ Len(flight') = Len(flight)
    BY <1>7, CompleteFacts DEF Complete
  <2> QED
    BY <1>7, <2>1 DEF Complete
<1> QED
  BY <1>1, <1>2, <1>3, <1>4, <1>5, <1>6, <1>7 DEF Next, Thread

\* IInv holds in every reachable state.
THEOREM Inductive == Spec => []IInv
BY InitIInv, StepIInv, PTL DEF Spec

\* Every round of rx_loop starts with RX_DEPTH reads queued.
THEOREM QueueAlwaysFull == Spec => []QueueFull
<1>1. IInv => QueueFull
  BY DEF IInv
<1> QED
  BY <1>1, Inductive, PTL

\* rndis-rx never ends unnoticed.
THEOREM NeverEndsUnnoticed == Spec => []EndsWithNotice
<1>1. IInv => EndsWithNotice
  BY DEF IInv
<1> QED
  BY <1>1, Inductive, PTL

\* Every step of rndis-rx is a step the endpoint allows, or none of its
\* business.
LEMMA StepIsAllowed ==
  ASSUME [Next]_vars
  PROVE  [E!Next]_E!vars
<1> USE DEF E!vars
<1>1. CASE Loop \/ Tick \/ Stop \/ UNCHANGED vars
  BY <1>1 DEF Loop, Tick, Stop, vars
<1>2. CASE Data \/ OtherError
  BY <1>2 DEF Data, OtherError, E!Next, E!Replace
<1>3. CASE Fatal
  BY <1>3 DEF Fatal, E!Next, E!Reap
<1>4. CASE Stall
  BY <1>4 DEF Stall, E!Next, E!Reap, E!Cancel
<1>5. CASE Drain
  BY <1>5 DEF Drain, E!Next, E!Reap
<1>6. CASE Recover
  BY <1>6 DEF Recover, E!Next, E!ClearHalt
<1>7. CASE Complete
  BY <1>7 DEF Complete, E!Next
<1> QED
  BY <1>1, <1>2, <1>3, <1>4, <1>5, <1>6, <1>7 DEF Next, Thread

\* rndis-rx uses its endpoint as usb/backend.rs requires.
THEOREM KeepsEndpointContract == Spec => EndpointContract
<1>1. Init => E!Init
  BY DEF Init, E!Init
<1> QED
  BY <1>1, StepIsAllowed, PTL DEF Spec, EndpointContract, E!Spec

-----------------------------------------------------------------------------
(* The way to the end                                                      *)

\* How many steps the thread can still take once it is told to stop.
StepsLeft ==
  CASE pc = "done"  -> 0
    [] pc = "loop"  -> 1
    [] pc = "drain" -> drain + 2
    [] OTHER        -> RxDepth + 4

\* Told to stop, the thread comes nearer to its end with every step, in the middle
\* of a recovery too, and nothing the endpoint does moves it away: it takes at most
\* RX_DEPTH + 4 more steps (rx_loop, recover_bulk_in).
EndNears ==
  [][linkStop => IF Thread THEN StepsLeft' < StepsLeft ELSE UNCHANGED StepsLeft]_vars

\* Each step of the thread takes one away; nobody else's step counts.
LEMMA StepNears ==
  ASSUME TypeOK, [Next]_vars, linkStop
  PROVE  IF Thread THEN StepsLeft' < StepsLeft ELSE UNCHANGED StepsLeft
<1>0. RxDepth \in Nat /\ drain \in Nat
  BY RxAssumption DEF TypeOK
<1>l. /\ pc = "done" => StepsLeft = 0
      /\ pc = "loop" => StepsLeft = 1
      /\ pc = "wait" => StepsLeft = RxDepth + 4
      /\ pc = "drain" => StepsLeft = drain + 2
  BY DEF StepsLeft
<1>r. /\ pc' = "done" => StepsLeft' = 0
      /\ pc' = "loop" => StepsLeft' = 1
      /\ pc' = "drain" => StepsLeft' = drain' + 2
  BY DEF StepsLeft
<1>1. ASSUME Loop \/ Tick PROVE StepsLeft' < StepsLeft
  <2>1. (pc = "loop" /\ pc' = "done") \/ (pc = "wait" /\ pc' = "loop")
    BY <1>1, Zenon DEF Loop, Tick
  <2> QED
    BY <1>0, <1>l, <1>r, <2>1
<1>2. ASSUME Data \/ OtherError PROVE StepsLeft' < StepsLeft
  <2>1. pc = "wait" /\ pc' = "loop"
    BY <1>2, Zenon DEF Data, OtherError
  <2> QED
    BY <1>0, <1>l, <1>r, <2>1
<1>3. ASSUME Fatal \/ Stall PROVE StepsLeft' < StepsLeft
  <2>1. pc = "wait" /\ (pc' = "done" \/ (pc' = "drain" /\ drain' = RxDepth + 1))
    BY <1>3, Zenon DEF Fatal, Stall, Fail
  <2> QED
    BY <1>0, <1>l, <1>r, <2>1
<1>4. ASSUME Drain \/ Recover PROVE StepsLeft' < StepsLeft
  <2>1. pc = "drain" /\ (pc' \in {"loop", "done"} \/ (pc' = pc /\ drain' = drain - 1))
    BY <1>4, Zenon DEF Drain, Recover, Fail
  <2> QED
    BY <1>0, <1>l, <1>r, <2>1
<1>5. ASSUME ~Thread PROVE UNCHANGED StepsLeft
  <2>1. UNCHANGED <<pc, drain>>
    BY <1>5, Zenon DEF Next, Complete, Stop, vars
  <2> QED
    BY <2>1 DEF StepsLeft
<1> QED
  BY <1>1, <1>2, <1>3, <1>4, <1>5, Zenon DEF Thread

\* Told to stop, the thread takes at most RX_DEPTH + 4 steps (EndNears): the part of
\* StopEndsThread that does not depend on fairness, for every depth of the queue.
THEOREM StopBoundsSteps ==
  Spec => [](StepsLeft \in 0..(RxDepth + 4) /\ (StepsLeft = 0 <=> pc = "done")) /\ EndNears
<1>1. TypeOK => StepsLeft \in 0..(RxDepth + 4) /\ (StepsLeft = 0 <=> pc = "done")
  BY RxAssumption DEF TypeOK, StepsLeft
<1>2. TypeOK /\ [Next]_vars
        => [linkStop => IF Thread THEN StepsLeft' < StepsLeft ELSE UNCHANGED StepsLeft]_vars
  BY StepNears, Zenon
<1> QED
  BY <1>1, <1>2, Inductive, PTL DEF Spec, EndNears, IInv
===============================================================================
