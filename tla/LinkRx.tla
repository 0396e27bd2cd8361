-------------------------------- MODULE LinkRx --------------------------------
(***************************************************************************)
(* The read queue of the rndis-rx thread (link.rs: rx_loop and              *)
(* recover_bulk_in).  What the thread does with the data of a transfer is   *)
(* Dhcp's and Session's subject; here a transfer is its result.             *)
(*                                                                         *)
(* The bulk IN endpoint is Endpoint's.                                     *)
(***************************************************************************)
EXTENDS Naturals, Sequences

CONSTANTS
  RxDepth,    \* RX_DEPTH
  MaxStalls   \* MAX_CONSECUTIVE_STALLS

ASSUME RxAssumption == RxDepth \in Nat \ {0} /\ MaxStalls \in Nat

VARIABLES
  pc,              \* where the thread is
  flight, halted,  \* queued reads, oldest first; the endpoint is halted
  drain,           \* waits left in recover_bulk_in
  stalls,          \* consecutive stalls
  failed,          \* LinkEvent::Failed was sent
  linkStop         \* the shutdown flag

vars == <<pc, flight, halted, drain, stalls, failed, linkStop>>

E == INSTANCE Endpoint WITH Depth <- RxDepth, Failures <- {"error", "fatal"}

\* The thread reports the link as failed and returns.
Fail == failed' = TRUE /\ pc' = "done"

-----------------------------------------------------------------------------

\* Mutant: the flag is not looked at.
LoopIgnoresFlag ==
  /\ pc = "loop" /\ pc' = "wait"
  /\ UNCHANGED <<flight, halted, drain, stalls, failed, linkStop>>

\* while !shutdown
Loop ==
  /\ pc = "loop"
  /\ pc' = IF linkStop THEN "done" ELSE "wait"
  /\ UNCHANGED <<flight, halted, drain, stalls, failed, linkStop>>

\* wait(TICK) times out.
Tick ==
  /\ pc = "wait" /\ ~E!Done
  /\ pc' = "loop"
  /\ UNCHANGED <<flight, halted, drain, stalls, failed, linkStop>>

\* Data: the read is queued again before the data is looked at.
Data ==
  /\ pc = "wait" /\ E!Done /\ Head(flight) = "ok"
  /\ stalls' = 0
  /\ flight' = Append(Tail(flight), E!Submitted)
  /\ pc' = "loop"
  /\ UNCHANGED <<halted, drain, failed, linkStop>>

\* The device is gone.
Fatal ==
  /\ pc = "wait" /\ E!Done /\ Head(flight) = "fatal"
  /\ flight' = Tail(flight)
  /\ Fail
  /\ UNCHANGED <<halted, drain, stalls, linkStop>>

\* Mutant: the stalls are not counted.
StallUncounted ==
  /\ pc = "wait" /\ E!Done /\ Head(flight) = "stall"
  /\ flight' = E!Cancelled(Tail(flight))
  /\ pc' = "drain" /\ drain' = RxDepth + 1
  /\ UNCHANGED <<halted, stalls, failed, linkStop>>

\* A stall: one too many in a row fails the link, else recover_bulk_in starts
\* with cancel_all and at most RX_DEPTH + 1 waits.
Stall ==
  /\ pc = "wait" /\ E!Done /\ Head(flight) = "stall"
  /\ stalls' = stalls + 1
  /\ IF stalls' > MaxStalls
     THEN Fail /\ flight' = Tail(flight) /\ UNCHANGED drain
     ELSE /\ flight' = E!Cancelled(Tail(flight))
          /\ pc' = "drain" /\ drain' = RxDepth + 1
          /\ UNCHANGED failed
  /\ UNCHANGED <<halted, linkStop>>

\* Mutant: the failed read is not replaced.
OtherErrorNoSubmit ==
  /\ pc = "wait" /\ E!Done /\ Head(flight) \in {"error", "cancelled"}
  /\ flight' = Tail(flight)
  /\ pc' = "loop"
  /\ UNCHANGED <<halted, drain, stalls, failed, linkStop>>

\* Any other error: queue the read again.
OtherError ==
  /\ pc = "wait" /\ E!Done /\ Head(flight) \in {"error", "cancelled"}
  /\ flight' = Append(Tail(flight), E!Submitted)
  /\ pc' = "loop"
  /\ UNCHANGED <<halted, drain, stalls, failed, linkStop>>

\* One wait of the drain: a completion of any kind, or DRAIN_TIMEOUT.
Drain ==
  /\ pc = "drain" /\ flight # <<>> /\ drain > 0
  /\ flight' = IF E!Done THEN Tail(flight) ELSE flight
  /\ drain' = drain - 1
  /\ UNCHANGED <<pc, halted, stalls, failed, linkStop>>

\* Mutant: the reads that did not drain are no reason to fail.
RecoverUndrained ==
  /\ pc = "drain" /\ (flight = <<>> \/ drain = 0)
  /\ drain' = 0
  /\ halted' = FALSE
  /\ flight' = E!Full
  /\ pc' = "loop"
  /\ UNCHANGED <<stalls, failed, linkStop>>

\* Mutant: an error of recover_bulk_in ends the thread without a word.
RecoverSilently ==
  /\ pc = "drain" /\ (flight = <<>> \/ drain = 0)
  /\ drain' = 0
  /\ \/ /\ flight = <<>>
        /\ halted' = FALSE
        /\ flight' = E!Full
        /\ pc' = "loop"
     \/ pc' = "done" /\ UNCHANGED <<flight, halted>>
  /\ UNCHANGED <<stalls, failed, linkStop>>

\* The end of recover_bulk_in: with the reads drained clear the halt and fill
\* the queue again; reads that did not drain, or a failed clear_halt, fail the
\* link.
Recover ==
  /\ pc = "drain" /\ (flight = <<>> \/ drain = 0)
  /\ drain' = 0
  /\ \/ /\ flight = <<>>
        /\ halted' = FALSE
        /\ flight' = E!Full
        /\ pc' = "loop" /\ UNCHANGED failed
     \/ Fail /\ UNCHANGED <<flight, halted>>
  /\ UNCHANGED <<stalls, linkStop>>

-----------------------------------------------------------------------------

\* External: the endpoint completes a read.
Complete ==
  /\ E!Complete
  /\ UNCHANGED <<pc, drain, stalls, failed, linkStop>>

\* Link::shutdown sets the flag.
Stop ==
  /\ ~linkStop
  /\ linkStop' = TRUE
  /\ UNCHANGED <<pc, flight, halted, drain, stalls, failed>>

\* The queue is filled before the loop starts.
Init ==
  /\ pc = "loop"
  /\ flight = E!Full /\ halted = FALSE
  /\ drain = 0 /\ stalls = 0
  /\ failed = FALSE /\ linkStop = FALSE

Thread == Loop \/ Tick \/ Data \/ Fatal \/ Stall \/ OtherError \/ Drain \/ Recover

Next == Thread \/ Complete \/ Stop

Spec == Init /\ [][Next]_vars

\* The thread runs.  Nothing is asked of the bus: a device may leave a read, even
\* a cancelled one, pending for ever.
FairSpec == Spec /\ WF_vars(Thread)

-----------------------------------------------------------------------------
(* Properties                                                              *)

\* The types of the thread's variables; it drains no more than it queued and counts
\* stalls no further than the one too many (rx_loop, recover_bulk_in).
TypeOK ==
  /\ pc \in {"loop", "wait", "drain", "done"}
  /\ flight \in Seq(E!Transfer) /\ halted \in BOOLEAN
  /\ drain \in 0..(RxDepth + 1)
  /\ stalls \in 0..(MaxStalls + 1)
  /\ failed \in BOOLEAN /\ linkStop \in BOOLEAN

\* "Reads kept queued on the bulk IN endpoint" (link.rs:20): whatever errors
\* and recoveries went before, each round starts with the full queue.
QueueFull == pc \in {"loop", "wait"} => Len(flight) = RxDepth

\* The endpoint is used as it requires (Endpoint; usb/backend.rs:56): never more
\* than RX_DEPTH reads in flight, cancel_all only after a stall, every read
\* taken back in order, and the halt cleared only with none pending, even when
\* the drain timed out.
EndpointContract == E!Spec

\* The thread does not end unnoticed: unless it was told to stop, the daemon
\* gets to know (link.rs:88), and it gets to know once.
EndsWithNotice == /\ pc = "done" => failed \/ linkStop
                  /\ failed => pc = "done"

\* A halted endpoint is cleared or the link is given up (link.rs:337), and the
\* thread cannot go on recovering for ever without any data getting through
\* (link.rs:28).
HaltCleared ==
  /\ halted ~> (~halted \/ pc = "done")
  /\ []<><<Recover>>_vars => []<><<Data>>_vars

\* The thread ends once told to, even if no read ever completes (Link::shutdown
\* joins it).
StopEndsThread == linkStop ~> pc = "done"
=============================================================================
