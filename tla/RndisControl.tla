----------------------------- MODULE RndisControl -----------------------------
(***************************************************************************)
(* The RNDIS control channel (rndis/control.rs over transport.rs): the      *)
(* bring-up INITIALIZE, QUERY, SET, then keepalives and a final HALT, each  *)
(* but the last a transaction that waits for its own completion.  The       *)
(* daemon opens the phone again after a failed session; a new Rndis starts  *)
(* with request id 1 again, while the phone may still have answers to the   *)
(* old one to give.                                                        *)
(*                                                                         *)
(* The phone is external: it takes commands in order, answers each at most  *)
(* once, in whatever way and however late, and speaks up on its own.        *)
(***************************************************************************)
EXTENDS Integers, Sequences

CONSTANTS
  MaxTransfers,  \* max_transfer_size values the phone may advertise
  MaxPackets,    \* max_packets_per_transfer values
  Exponents,     \* packet alignment exponents
  U32Max,        \* largest request id
  Deadline,      \* TRANSACTION_TIMEOUT, in ticks
  MaxPending,    \* bound: commands the phone has not yet looked at
  MaxReplies,    \* bound: replies the phone has ready
  None

ASSUME ControlAssumption ==
  /\ MaxTransfers \cup MaxPackets \cup Exponents \subseteq Nat
  /\ U32Max \in Nat /\ U32Max > 2
  /\ Deadline \in Nat /\ MaxPending \in Nat /\ MaxReplies \in Nat
  /\ None \notin {"perm", "current"}

VARIABLES
  step, phase,        \* what the session is at; sending or waiting
  nextId, id, left,   \* next_request_id; this transaction's id and time left
  link, limits, mac,  \* LinkState; what INIT_C said; which address was used
  commands, replies   \* on their way to the phone; ready to be fetched

rndisVars == <<step, phase, nextId, id, left, link, limits, mac>>
vars == <<rndisVars, commands, replies>>

-----------------------------------------------------------------------------
(* Messages.  A completion carries the type and id the code looks at, and,  *)
(* for the properties, the question it answers.                            *)

Question == {"init", "perm", "current", "filter", "keepalive"}

\* The type of the completion of a question: both MAC queries share one.
TypeOf(q) == IF q \in {"perm", "current"} THEN "query" ELSE q

Limits == [transfer : MaxTransfers, packets : MaxPackets, exponent : Exponents]

\* What a completion may say: success; a failure status or a body that does
\* not decode; an address of zeros or cut short; or not even a status ("bad").
Sayings(q) ==
  {"ok", "fail", "bad"} \cup (IF TypeOf(q) = "query" THEN {"unusable"} ELSE {})

\* External: how the phone may answer question q with id i.
Completions(q, i) ==
  [type : {TypeOf(q)}, id : {i}, to : {q}, says : Sayings(q),
   limits : IF q = "init" THEN Limits ELSE {None}]

Unsolicited(t) == [type |-> t, id |-> 0, to |-> None, says |-> None, limits |-> None]

\* Received on its own: link status changes, the phone's keepalive, anything else;
\* or fewer than 12 bytes.
Events == {"connect", "disconnect", "ping", "other", "short"}

-----------------------------------------------------------------------------
(* The session                                                             *)

\* Mutant: the id grows past its width.
TakeIdWider == id' = nextId /\ nextId' = nextId + 1

\* take_request_id(): wrapping_add(1).max(1).
TakeId ==
  /\ id' = nextId
  /\ nextId' = IF nextId = U32Max THEN 1 ELSE nextId + 1

Begin(s) == step' = s /\ phase' = "send"

\* Mutant: the limits are taken as they come.
UsableAsIs(l) ==
  [transfer |-> l.transfer, packets |-> l.packets,
   alignment |-> IF l.exponent < 8 THEN 2 ^ l.exponent ELSE 1]

\* decode_init_complete and the Session that bring_up returns.
Usable(l) ==
  [transfer |-> l.transfer, packets |-> IF l.packets < 1 THEN 1 ELSE l.packets,
   alignment |-> IF l.exponent < 8 THEN 2 ^ l.exponent ELSE 1]

\* The transaction failed.  A failed query of the permanent address leaves the
\* current one to ask for; anything else ends the bring-up, or the session.
Err ==
  /\ \/ step = "perm" /\ Begin("current")
     \/ step \in {"init", "current", "filter"} /\ Begin("failed")
     \/ step = "keepalive" /\ Begin("ending")
  /\ UNCHANGED <<link, limits, mac>>

\* The transaction succeeded, in INIT_C's case with limits l.
Ok(l) ==
  \/ /\ step = "init"
     /\ Begin("perm")
     /\ limits' = Usable(l)
     /\ UNCHANGED <<link, mac>>
  \/ /\ step \in {"perm", "current"}
     /\ Begin("filter")
     /\ mac' = step
     /\ UNCHANGED <<link, limits>>
  \/ /\ step = "filter"
     /\ Begin("up")
     /\ link' = IF link = "Unknown" THEN "Up" ELSE link
     /\ UNCHANGED <<limits, mac>>
  \/ /\ step = "keepalive"
     /\ Begin("up")
     /\ UNCHANGED <<link, limits, mac>>

\* Send a command; a failed transfer fails the transaction.
Send ==
  /\ phase = "send" /\ step \in Question
  /\ TakeId
  /\ \/ /\ Len(commands) < MaxPending
        /\ commands' = Append(commands, [to |-> step, id |-> nextId])
        /\ phase' = "wait" /\ left' = Deadline
        /\ UNCHANGED <<step, link, limits, mac>>
     \/ Err /\ UNCHANGED <<commands, left>>
  /\ UNCHANGED replies

\* The deadline has passed, or await_response or receive failed.
NoReply ==
  /\ phase = "wait"
  /\ Err
  /\ UNCHANGED <<nextId, id, left, commands, replies>>

\* Mutant: any completion of the expected type will do.
MatchesType(r) == r.type = TypeOf(step)

\* Whether a completion is the one this transaction waits for.
Matches(r) == r.type = TypeOf(step) /\ r.id = id

\* The completion reports success, and INIT_C a transfer size to work with.
Succeeds(r) == r.says = "ok" /\ (step = "init" => r.limits.transfer # 0)

\* receive(), with time left, returns a completion of the expected type.  One
\* too short for a status fails the transaction, one for another id is ignored.
Complete ==
  /\ phase = "wait" /\ left > 0 /\ replies # <<>>
  /\ LET r == Head(replies) IN
       /\ r.type = TypeOf(step)
       /\ \/ r.says = "bad" /\ Err
          \/ r.says # "bad" /\ Matches(r) /\ ~Succeeds(r) /\ Err
          \/ r.says # "bad" /\ Matches(r) /\ Succeeds(r) /\ Ok(r.limits)
          \/ r.says # "bad" /\ ~Matches(r) /\ UNCHANGED <<step, phase, link, limits, mac>>
  /\ replies' = Tail(replies)
  /\ UNCHANGED <<nextId, id, left, commands>>

\* Mutant: every message heard starts the wait anew.
ServiceRestartsWait ==
  /\ phase = "wait" /\ left > 0 /\ replies # <<>>
  /\ Head(replies).type # TypeOf(step)
  /\ left' = Deadline
  /\ replies' = Tail(replies)
  /\ UNCHANGED <<step, phase, link, limits, mac, nextId, id, commands>>

\* handle_unsolicited, and replies too short to have a type: a keepalive of
\* the phone is answered, and only a failed answer fails the transaction: 12 bytes,
\* which transact checks, are all that an indication or a keepalive is read from.
\* The rest at most changes the link state.
Service ==
  /\ phase = "wait" /\ left > 0 /\ replies # <<>>
  /\ LET type == Head(replies).type IN
       /\ type # TypeOf(step)
       /\ \/ /\ type = "ping" /\ Len(commands) < MaxPending
             /\ commands' = Append(commands, [to |-> "pong", id |-> 0])
             /\ UNCHANGED <<step, phase, link, limits, mac>>
          \/ type = "ping" /\ Err /\ UNCHANGED commands
          \/ /\ type # "ping"
             /\ link' = CASE type = "connect" -> "Up"
                          [] type = "disconnect" -> "Down"
                          [] OTHER -> link
             /\ UNCHANGED <<step, phase, limits, mac, commands>>
  /\ replies' = Tail(replies)
  /\ UNCHANGED <<nextId, id, left>>

\* Time passes for a waiting transaction.
Tick ==
  /\ phase = "wait" /\ left > 0
  /\ left' = left - 1
  /\ UNCHANGED <<step, phase, nextId, id, link, limits, mac, commands, replies>>

-----------------------------------------------------------------------------
(* The daemon's use of it, and the phone                                   *)

\* The keepalive is due, or the session ends.
Use ==
  /\ step = "up"
  /\ Begin("keepalive") \/ Begin("ending")
  /\ UNCHANGED <<nextId, id, left, link, limits, mac, commands, replies>>

\* halt(): sent or not, nobody waits.
Halt ==
  /\ step = "ending"
  /\ TakeId
  /\ Begin("failed")
  /\ \/ /\ Len(commands) < MaxPending
        /\ commands' = Append(commands, [to |-> "halt", id |-> nextId])
     \/ UNCHANGED commands
  /\ UNCHANGED <<left, link, limits, mac, replies>>

\* The Rndis is dropped, after a failure or because its owner gives up.
Close ==
  /\ step \in {"failed", "up"}
  /\ Begin("closed")
  /\ nextId' = 1 /\ id' = 0 /\ left' = 0
  /\ link' = "Unknown" /\ limits' = None /\ mac' = None
  /\ UNCHANGED <<commands, replies>>

\* run() opens the phone, again: a new Rndis.
Reopen ==
  /\ step = "closed"
  /\ Begin("init")
  /\ UNCHANGED <<nextId, id, left, link, limits, mac, commands, replies>>

\* External: the phone goes, and with it what it had to say.
PhoneGoes ==
  /\ commands' = <<>> /\ replies' = <<>>
  /\ UNCHANGED rndisVars

\* External: the phone takes a command and answers it, or does not.
PhoneAnswers ==
  /\ commands # <<>>
  /\ commands' = Tail(commands)
  /\ \/ /\ Head(commands).to \in Question /\ Len(replies) < MaxReplies
        /\ \E r \in Completions(Head(commands).to, Head(commands).id) :
             replies' = Append(replies, r)
     \/ UNCHANGED replies
  /\ UNCHANGED rndisVars

\* External: the phone speaks up.
PhoneSpeaks ==
  /\ Len(replies) < MaxReplies
  /\ \E e \in Events : replies' = Append(replies, Unsolicited(e))
  /\ UNCHANGED <<rndisVars, commands>>

Init ==
  /\ step = "closed" /\ phase = "send"
  /\ nextId = 1 /\ id = 0 /\ left = 0
  /\ link = "Unknown" /\ limits = None /\ mac = None
  /\ commands = <<>> /\ replies = <<>>

Client == Send \/ NoReply \/ Complete \/ Service \/ Use \/ Halt \/ Close \/ Reopen

Next == Client \/ Tick \/ PhoneAnswers \/ PhoneSpeaks \/ PhoneGoes

Spec == Init /\ [][Next]_vars

\* The thread runs and time passes.  NoReply happens once time is up.
Fairness ==
  /\ WF_vars(Client /\ phase = "send")
  /\ WF_vars(Tick)
  /\ WF_vars(left = 0 /\ NoReply)

FairSpec == Spec /\ Fairness

-----------------------------------------------------------------------------
(* Properties                                                              *)

\* The types of the control channel's variables; a request id is never 0, also after
\* it has wrapped (take_request_id).
TypeOK ==
  /\ step \in Question \cup {"up", "ending", "failed", "closed"}
  /\ phase \in {"send", "wait"}
  /\ nextId \in 1..U32Max /\ id \in 0..U32Max
  /\ left \in 0..Deadline
  /\ link \in {"Unknown", "Up", "Down"}
  /\ mac \in {"perm", "current", None}
  /\ Len(commands) <= MaxPending /\ Len(replies) <= MaxReplies

\* A transaction is completed only by an answer to the question it asked: a
\* late answer to the query of the permanent address is never taken for the
\* current one, not even one left over from an earlier session, whose ids start
\* at 1 as well (transact, query_mac).
AnswersTheQuestion ==
  [][Complete /\ step' # step /\ Head(replies).says # "bad"
       => Head(replies).to = step]_vars

\* The limits the link is started with can carry a packet: LinkTx relies on it
\* (bring_up lines 101-104, initialize line 119).
LimitsUsable ==
  step \in {"filter", "up", "keepalive", "ending"} =>
    /\ limits.transfer > 0 /\ limits.packets > 0 /\ limits.alignment > 0
    /\ mac # None

\* No transaction waits for ever, whatever the phone sends meanwhile
\* (a_silent_device_times_out_rather_than_hanging, rndis/control.rs:471).
TransactionsEnd == phase = "wait" ~> phase = "send"
=============================================================================
