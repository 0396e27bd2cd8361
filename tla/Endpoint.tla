------------------------------- MODULE Endpoint -------------------------------
(***************************************************************************)
(* A bulk endpoint and the way it may be used: the contract in the comments *)
(* of InEndpoint and OutEndpoint (usb/backend.rs), which both link threads  *)
(* are shown to keep.                                                      *)
(*                                                                         *)
(* What the endpoint itself does is external (nusb and the host controller): *)
(* transfers complete in order; a stall halts the endpoint, which then      *)
(* rejects every later submit until the halt is cleared (the comment on     *)
(* recover_bulk_in).                                                       *)
(***************************************************************************)
EXTENDS Naturals, Sequences

CONSTANTS
  Depth,     \* transfers the caller keeps in flight at most
  Failures   \* failed results other than a stall and a cancellation

VARIABLES
  flight,  \* transfers submitted and not yet returned by wait, oldest first
  halted   \* the endpoint is halted

vars == <<flight, halted>>

\* A transfer is under way, being aborted, or has completed with a result.
Result == {"ok", "stall", "cancelled"} \cup Failures
Transfer == {"busy", "aborting"} \cup Result

\* wait() returns the oldest transfer once it has completed.
Done == flight # <<>> /\ Head(flight) \in Result

\* A transfer submitted now: a halted endpoint rejects it.
Submitted == IF halted THEN "stall" ELSE "busy"

\* cancel_all(): what has not completed is aborted.
Cancelled(q) == [i \in 1..Len(q) |-> IF q[i] = "busy" THEN "aborting" ELSE q[i]]

Full == [i \in 1..Depth |-> "busy"]

\* External: the oldest transfer under way completes.  One may stall and halt
\* the endpoint; behind a halt nothing completes normally.  A device that is
\* gone (a failure other than "error") fails every transfer.
Complete ==
  \E i \in 1..Len(flight) :
    /\ flight[i] \notin Result
    /\ \A j \in 1..(i - 1) : flight[j] \in Result
    /\ \E r \in (IF halted THEN {"stall", "cancelled"} ELSE {"ok", "stall"} \cup Failures)
            \cup (IF flight[i] = "aborting" THEN {"cancelled"} ELSE {})
            \cup (Failures \ {"error"}) :
         /\ flight' = [flight EXCEPT ![i] = r]
         /\ halted' = (halted \/ r = "stall")

\* submit(), with room left.
Submit ==
  /\ Len(flight) < Depth
  /\ flight' = Append(flight, Submitted)
  /\ UNCHANGED halted

\* wait() returns the oldest transfer...
Reap == Done /\ flight' = Tail(flight) /\ UNCHANGED halted

\* ... which may be replaced at once...
Replace == Done /\ flight' = Append(Tail(flight), Submitted) /\ UNCHANGED halted

\* ... or, had it stalled, be followed by cancel_all.
Cancel ==
  /\ Done /\ Head(flight) = "stall"
  /\ flight' = Cancelled(Tail(flight))
  /\ UNCHANGED halted

\* clear_halt(): "Only valid with no transfers pending."  The queue may be
\* filled again at once.
ClearHalt ==
  /\ flight = <<>>
  /\ halted' = FALSE
  /\ flight' \in {<<>>, Full}

Init == flight \in {<<>>, Full} /\ halted = FALSE

Next == Complete \/ Submit \/ Reap \/ Replace \/ Cancel \/ ClearHalt

Spec == Init /\ [][Next]_vars
===============================================================================
