---------------------------- MODULE DeviceProofs ----------------------------
(***************************************************************************)
(* Proofs about the control channel (RndisControl) and about the daemon's    *)
(* way from the bus to a session (Device), of which it is a part.            *)
(***************************************************************************)
EXTENDS Device, ParsingProofs

-----------------------------------------------------------------------------
(* The control channel                                                     *)

Asked == [to : Question \cup {"pong", "halt"}, id : 0..U32Max]

\* The two queries, whose completions are of one type, have an id of their own
\* each: both are asked before ids have wrapped.
OwnId(m) == (m.to = "perm" => m.id = 2) /\ (m.to = "current" => m.id = 3)

Answer ==
  {r \in [type : Question \cup {"query"}, id : 0..U32Max, to : Question,
          says : {"ok", "fail", "bad", "unusable"}, limits : Limits \cup {None}] :
     /\ r.type = TypeOf(r.to)
     /\ r.to = "init" => r.limits \in Limits
     /\ OwnId(r)}

Spoken == {Unsolicited(e) : e \in Events}

\* What is under way in either direction.
QueueInv ==
  /\ commands \in Seq({m \in Asked : OwnId(m)}) /\ Len(commands) <= MaxPending
  /\ replies \in Seq(Answer \cup Spoken) /\ Len(replies) <= MaxReplies

\* The bring-up has its ids from the start: one per transaction tried.
IdInv ==
  /\ step \in {"closed", "init"} /\ phase = "send" => nextId = 1
  /\ step = "init" /\ phase = "wait" => nextId = 2
  /\ step = "perm" => nextId = IF phase = "send" THEN 2 ELSE 3
  /\ step = "perm" /\ phase = "wait" => id = 2
  /\ step = "current" /\ phase = "send" => nextId = 3
  /\ step = "current" /\ phase = "wait" => id = 3
  /\ phase = "wait" => step \in Question

\* What INIT_C said is kept from the bring-up on.
LimitsInv ==
  /\ step \in (Question \cup {"up", "ending"}) \ {"init"} =>
       limits.transfer > 0 /\ limits.packets > 0 /\ limits.alignment > 0
  /\ step \in {"filter", "up", "keepalive", "ending"} => mac # None

CInv == TypeOK /\ QueueInv /\ IdInv /\ LimitsInv

-----------------------------------------------------------------------------

\* What INIT_C says, once accepted, can carry a packet.
LEMMA UsableLimits ==
  ASSUME NEW l \in Limits, l.transfer # 0
  PROVE  Usable(l).transfer > 0 /\ Usable(l).packets > 0 /\ Usable(l).alignment > 0
<1>1. l.transfer \in Nat /\ l.packets \in Nat /\ l.exponent \in Nat
  BY ControlAssumption DEF Limits
<1>2. l.exponent < 8 => 2 ^ l.exponent > 0
  <2>1. 2^0 > 0 /\ 2^1 > 0 /\ 2^2 > 0 /\ 2^3 > 0
    OBVIOUS
  <2>2. 2^4 > 0 /\ 2^5 > 0 /\ 2^6 > 0 /\ 2^7 > 0
    OBVIOUS
  <2>3. l.exponent < 8 => \/ l.exponent = 0 \/ l.exponent = 1 \/ l.exponent = 2 \/ l.exponent = 3
                          \/ l.exponent = 4 \/ l.exponent = 5 \/ l.exponent = 6 \/ l.exponent = 7
    BY <1>1
  <2> QED
    BY <2>1, <2>2, <2>3, Zenon
<1> QED
  BY <1>1, <1>2 DEF Usable

\* A sequence that is put at or taken from stays one of its elements' kind.
LEMMA QueueOps ==
  ASSUME NEW S, NEW s \in Seq(S)
  PROVE  /\ Len(s) \in Nat
         /\ \A e \in S : Append(s, e) \in Seq(S) /\ Len(Append(s, e)) = Len(s) + 1
         /\ s # <<>> => /\ Head(s) \in S
                        /\ Tail(s) \in Seq(S) /\ Len(Tail(s)) = Len(s) - 1
BY HeadTailProperties, AppendProperties, LenProperties

\* A completion whose type is the awaited one is an answer, to a question of
\* that type.
LEMMA OfType ==
  ASSUME NEW r \in Answer \cup Spoken, NEW q \in Question, r.type = TypeOf(q)
  PROVE  r \in Answer /\ (q \notin {"perm", "current"} => r.to = q)
<1>1. r \in Answer
  BY DEF Spoken, Unsolicited, Events, TypeOf, Question
<1> QED
  BY <1>1 DEF Answer, TypeOf, Question

\* A new Rndis, before its first command.
LEMMA InitCInv == Init => CInv
<1> SUFFICES ASSUME Init PROVE CInv
  OBVIOUS
<1>1. TypeOK
  BY ControlAssumption DEF Init, TypeOK, Question
<1>2. QueueInv
  BY ControlAssumption DEF Init, QueueInv
<1>3. IdInv /\ LimitsInv
  BY DEF Init, IdInv, LimitsInv, Question
<1> QED
  BY <1>1, <1>2, <1>3 DEF CInv

\* What is under way keeps its ids: commands carry the id of their question, and
\* the phone answers with the id it was asked with.
LEMMA QueueStep == CInv /\ [Next]_vars => QueueInv'
<1> SUFFICES ASSUME CInv, [Next]_vars PROVE QueueInv'
  OBVIOUS
<1> DEFINE C == {m \in Asked : OwnId(m)}
           R == Answer \cup Spoken
<1>t. /\ commands \in Seq(C) /\ Len(commands) \in Nat /\ Len(commands) <= MaxPending
      /\ replies \in Seq(R) /\ Len(replies) \in Nat /\ Len(replies) <= MaxReplies
      /\ MaxPending \in Nat /\ MaxReplies \in Nat
  BY QueueOps, ControlAssumption DEF CInv, QueueInv
<1>f. ASSUME commands' = commands \/ commands' = <<>> \/ (commands # <<>> /\ commands' = Tail(commands))
      PROVE  commands' \in Seq(C) /\ Len(commands') <= MaxPending
  <2>1. commands # <<>> => Tail(commands) \in Seq(C) /\ Len(Tail(commands)) = Len(commands) - 1
    BY <1>t, QueueOps
  <2>2. <<>> \in Seq(C) /\ Len(<<>>) = 0
    OBVIOUS
  <2> HIDE DEF C
  <2>3. CASE commands' = commands
    BY <1>t, <2>3
  <2>4. CASE commands' = <<>>
    BY <1>t, <2>2, <2>4
  <2>5. CASE commands # <<>> /\ commands' = Tail(commands)
    BY <1>t, <2>1, <2>5
  <2> QED
    BY <1>f, <2>3, <2>4, <2>5
<1>g. ASSUME replies' = replies \/ replies' = <<>> \/ (replies # <<>> /\ replies' = Tail(replies))
      PROVE  replies' \in Seq(R) /\ Len(replies') <= MaxReplies
  <2>1. replies # <<>> => Tail(replies) \in Seq(R) /\ Len(Tail(replies)) = Len(replies) - 1
    BY <1>t, QueueOps
  <2>2. <<>> \in Seq(R) /\ Len(<<>>) = 0
    OBVIOUS
  <2> HIDE DEF R
  <2>3. CASE replies' = replies
    BY <1>t, <2>3
  <2>4. CASE replies' = <<>>
    BY <1>t, <2>2, <2>4
  <2>5. CASE replies # <<>> /\ replies' = Tail(replies)
    BY <1>t, <2>1, <2>5
  <2> QED
    BY <1>g, <2>3, <2>4, <2>5
<1>a. ASSUME NEW m \in C, Len(commands) < MaxPending, commands' = Append(commands, m)
      PROVE  commands' \in Seq(C) /\ Len(commands') <= MaxPending
  <2>1. Append(commands, m) \in Seq(C) /\ Len(Append(commands, m)) = Len(commands) + 1
    BY <1>t, QueueOps
  <2> QED
    BY <1>t, <1>a, <2>1
<1>b. ASSUME NEW r \in R, Len(replies) < MaxReplies, replies' = Append(replies, r)
      PROVE  replies' \in Seq(R) /\ Len(replies') <= MaxReplies
  <2>1. Append(replies, r) \in Seq(R) /\ Len(Append(replies, r)) = Len(replies) + 1
    BY <1>t, QueueOps
  <2> QED
    BY <1>t, <1>b, <2>1
<1>c. SUFFICES /\ commands' \in Seq(C) /\ Len(commands') <= MaxPending
               /\ replies' \in Seq(R) /\ Len(replies') <= MaxReplies
  BY DEF QueueInv
<1>i. nextId \in 0..U32Max /\ 0 \in 0..U32Max
  BY ControlAssumption DEF CInv, TypeOK
<1> HIDE DEF R
<1>1. CASE Send
  <2>1. [to |-> step, id |-> nextId] \in C
    BY <1>1, <1>i DEF Send, CInv, IdInv, Asked, OwnId, Question
  <2> HIDE DEF C
  <2>2. replies' = replies /\ (commands' = commands \/ (Len(commands) < MaxPending /\ commands' = Append(commands, [to |-> step, id |-> nextId])))
    BY <1>1 DEF Send
  <2> QED
    BY <2>1, <2>2, <1>a, <1>f, <1>g
<1>2. CASE NoReply
  BY <1>2, <1>f, <1>g DEF NoReply
<1>3. CASE Complete
  BY <1>3, <1>f, <1>g DEF Complete
<1>4. CASE Service
  <2>1. [to |-> "pong", id |-> 0] \in C
    BY <1>i DEF Asked, OwnId
  <2> HIDE DEF C
  <2>2. /\ replies # <<>> /\ replies' = Tail(replies)
        /\ \/ commands' = commands
           \/ Len(commands) < MaxPending /\ commands' = Append(commands, [to |-> "pong", id |-> 0])
    BY <1>4 DEF Service
  <2> QED
    BY <2>1, <2>2, <1>a, <1>f, <1>g
<1>5. CASE Use
  BY <1>5, <1>f, <1>g DEF Use
<1>6. CASE Halt
  <2>1. [to |-> "halt", id |-> nextId] \in C
    BY <1>i DEF Asked, OwnId
  <2> HIDE DEF C
  <2>2. replies' = replies /\ (commands' = commands \/ (Len(commands) < MaxPending /\ commands' = Append(commands, [to |-> "halt", id |-> nextId])))
    BY <1>6 DEF Halt
  <2> QED
    BY <2>1, <2>2, <1>a, <1>f, <1>g
<1>7. CASE Close
  BY <1>7, <1>f, <1>g DEF Close
<1>8. CASE Reopen
  BY <1>8, <1>f, <1>g DEF Reopen
<1>9. CASE Tick
  BY <1>9, <1>f, <1>g DEF Tick
<1>10. CASE PhoneAnswers
  <2>1. commands # <<>> /\ commands' = Tail(commands)
    BY <1>10 DEF PhoneAnswers
  <2>2. Head(commands) \in C
    BY <2>1, <1>t, QueueOps
  <2>3. ASSUME Head(commands).to \in Question,
               NEW r \in Completions(Head(commands).to, Head(commands).id)
        PROVE  r \in R
    <3> DEFINE m == Head(commands)
    <3>1. m.to \in Question /\ m.id \in 0..U32Max /\ OwnId(m)
      BY <2>2, <2>3 DEF Asked
    <3> HIDE DEF m
    <3>2. r \in [type : {TypeOf(m.to)}, id : {m.id}, to : {m.to}, says : Sayings(m.to),
                 limits : IF m.to = "init" THEN Limits ELSE {None}]
      BY <2>3 DEF Completions, m
    <3>3. r.says \in {"ok", "fail", "bad", "unusable"}
      BY <3>2 DEF Sayings
    <3>4. r.type = TypeOf(r.to) /\ r.type \in Question \cup {"query"}
      BY <3>1, <3>2 DEF TypeOf
    <3>5. r.limits \in Limits \cup {None} /\ (r.to = "init" => r.limits \in Limits)
      BY <3>2
    <3>6. r.id \in 0..U32Max /\ r.to \in Question /\ OwnId(r)
      BY <3>1, <3>2 DEF OwnId
    <3>7. r = [type |-> r.type, id |-> r.id, to |-> r.to, says |-> r.says, limits |-> r.limits]
      BY <3>2
    <3> QED
      BY <3>3, <3>4, <3>5, <3>6, <3>7 DEF R, Answer
  <2>4. \/ replies' = replies
        \/ \E r \in R : Len(replies) < MaxReplies /\ replies' = Append(replies, r)
    BY <1>10, <2>3 DEF PhoneAnswers
  <2> HIDE DEF C
  <2> QED
    BY <2>1, <2>4, <1>b, <1>f, <1>g
<1>11. CASE PhoneSpeaks
  <2>1. commands' = commands /\ \E r \in R : Len(replies) < MaxReplies /\ replies' = Append(replies, r)
    BY <1>11 DEF PhoneSpeaks, R, Spoken
  <2> HIDE DEF C
  <2> QED
    BY <2>1, <1>b, <1>f
<1>12. CASE PhoneGoes
  BY <1>12, <1>f, <1>g DEF PhoneGoes
<1>13. CASE UNCHANGED vars
  BY <1>13, <1>f, <1>g DEF vars
<1> QED
  BY <1>1, <1>2, <1>3, <1>4, <1>5, <1>6, <1>7, <1>8, <1>9, <1>10, <1>11, <1>12, <1>13
     DEF Next, Client

\* The ids: the wrap of take_request_id is the only step that needs more than
\* the values IdInv gives.
LEMMA IdStep == CInv /\ [Next]_vars => (TypeOK /\ IdInv)'
<1> SUFFICES ASSUME CInv, [Next]_vars PROVE TypeOK' /\ IdInv'
  OBVIOUS
<1>l. Len(commands') <= MaxPending /\ Len(replies') <= MaxReplies
  BY QueueStep DEF QueueInv
<1>i. TypeOK /\ IdInv /\ U32Max \in Nat /\ U32Max > 2 /\ Deadline \in Nat
  BY ControlAssumption DEF CInv
<1>w. ASSUME TakeId
      PROVE  /\ id' = nextId /\ id' \in 0..U32Max /\ nextId' \in 1..U32Max
             /\ nextId < 3 => nextId' = nextId + 1
  BY <1>w, <1>i DEF TakeId, TypeOK
<1>e. ASSUME Err
      PROVE  /\ phase' = "send" /\ UNCHANGED <<link, mac>>
             /\ step' \in {"current", "failed", "ending"}
             /\ step' = "current" => step = "perm"
  BY <1>e DEF Err, Begin
<1> DEFINE Frame == UNCHANGED <<step, phase, nextId, id, mac>>
<1>1. CASE Send
  <2>1. TakeId /\ phase = "send" /\ step \in Question
    BY <1>1 DEF Send
  <2>2. CASE UNCHANGED <<step, link, limits, mac>> /\ phase' = "wait" /\ left' = Deadline
    BY <1>i, <1>l, <1>w, <2>1, <2>2 DEF TypeOK, IdInv, Question
  <2>3. CASE Err /\ left' = left
    BY <1>i, <1>l, <1>w, <1>e, <2>1, <2>3 DEF TypeOK, IdInv, Question
  <2> QED
    BY <1>1, <2>2, <2>3 DEF Send
<1>2. CASE NoReply
  <2>1. Err /\ phase = "wait" /\ UNCHANGED <<nextId, id, left>>
    BY <1>2 DEF NoReply
  <2> QED
    BY <1>i, <1>l, <1>e, <2>1 DEF TypeOK, IdInv, Question
<1>3. CASE Complete
  <2>1. phase = "wait" /\ UNCHANGED <<nextId, id, left>>
    BY <1>3 DEF Complete
  <2>2. CASE Err
    BY <1>i, <1>l, <1>e, <2>1, <2>2 DEF TypeOK, IdInv, Question
  <2>3. ASSUME NEW l, Ok(l) PROVE TypeOK' /\ IdInv'
    BY <1>i, <1>l, <2>1, <2>3 DEF Ok, Begin, TypeOK, IdInv, Question
  <2>4. CASE UNCHANGED <<step, phase, link, limits, mac>>
    BY <1>i, <1>l, <2>1, <2>4 DEF TypeOK, IdInv
  <2> QED
    BY <1>3, <2>2, <2>3, <2>4 DEF Complete
<1>4. CASE Service
  <2>1. phase = "wait" /\ UNCHANGED <<nextId, id, left>>
    BY <1>4 DEF Service
  <2>2. CASE Err
    BY <1>i, <1>l, <1>e, <2>1, <2>2 DEF TypeOK, IdInv, Question
  <2>3. CASE UNCHANGED <<step, phase, mac>> /\ link' \in {"Up", "Down", link}
    BY <1>i, <1>l, <2>1, <2>3 DEF TypeOK, IdInv
  <2> QED
    BY <1>4, <2>2, <2>3 DEF Service
<1>5. CASE Use
  BY <1>i, <1>l, <1>5 DEF Use, Begin, TypeOK, IdInv, Question
<1>6. CASE Halt
  <2>1. TakeId /\ step' = "failed" /\ phase' = "send" /\ UNCHANGED <<left, link, mac>>
    BY <1>6 DEF Halt, Begin
  <2> QED
    BY <1>i, <1>l, <1>w, <2>1 DEF TypeOK, IdInv, Question
<1>7. CASE Close
  BY <1>i, <1>l, <1>7 DEF Close, Begin, TypeOK, IdInv, Question
<1>8. CASE Reopen
  BY <1>i, <1>l, <1>8 DEF Reopen, Begin, TypeOK, IdInv, Question
<1>9. CASE Tick
  BY <1>i, <1>l, <1>9 DEF Tick, TypeOK, IdInv
<1>10. CASE UNCHANGED rndisVars
  BY <1>i, <1>l, <1>10 DEF rndisVars, TypeOK, IdInv
<1> QED
  BY <1>1, <1>2, <1>3, <1>4, <1>5, <1>6, <1>7, <1>8, <1>9, <1>10
     DEF Next, Client, PhoneAnswers, PhoneSpeaks, PhoneGoes, vars

\* The reply a transaction looks at is an answer of one of the kinds the phone
\* gives, or something it said on its own.
LEMMA NextReply ==
  ASSUME CInv, replies # <<>>
  PROVE  Head(replies) \in Answer \cup Spoken
<1>1. replies \in Seq(Answer \cup Spoken)
  BY DEF CInv, QueueInv
<1> QED
  BY <1>1, QueueOps

\* Limits are replaced only by those of an INITIALIZE completion, made usable.
LEMMA LimitsStep == CInv /\ [Next]_vars => LimitsInv'
<1> SUFFICES ASSUME CInv, [Next]_vars PROVE LimitsInv'
  OBVIOUS
<1>i. TypeOK /\ IdInv /\ LimitsInv /\ None \notin {"perm", "current"}
  BY ControlAssumption DEF CInv
<1>e. ASSUME Err PROVE LimitsInv'
  BY <1>e, <1>i DEF Err, Begin, LimitsInv, Question
<1>f. ASSUME UNCHANGED <<step, limits, mac>> PROVE LimitsInv'
  BY <1>f, <1>i DEF LimitsInv
<1>1. CASE Complete
  <2> DEFINE r == Head(replies)
  <2>1. CASE Succeeds(r) /\ Ok(r.limits)
    <3>1. CASE step = "init"
      <4>1. r.limits \in Limits /\ r.limits.transfer # 0
        <5>1. r \in Answer \cup Spoken /\ r.type = TypeOf("init") /\ r.limits.transfer # 0
          BY <1>1, <2>1, <3>1, NextReply DEF Complete, Succeeds
        <5>2. r \in Answer /\ r.to = "init"
          BY <5>1, OfType DEF Question
        <5> QED
          BY <5>1, <5>2 DEF Answer
      <4>2. step' = "perm" /\ limits' = Usable(r.limits)
        BY <2>1, <3>1 DEF Ok, Begin
      <4> HIDE DEF r
      <4> QED
        BY <4>1, <4>2, UsableLimits DEF LimitsInv
    <3>2. CASE step # "init"
      BY <1>i, <2>1, <3>2 DEF Ok, Begin, LimitsInv, Question
    <3> QED
      BY <3>1, <3>2
  <2> QED
    BY <1>1, <1>e, <1>f, <2>1 DEF Complete
<1>2. CASE Send \/ NoReply \/ Service
  BY <1>2, <1>e, <1>f DEF Send, NoReply, Service
<1>3. CASE Use
  BY <1>3, <1>i DEF Use, Begin, LimitsInv, Question
<1>4. CASE Halt \/ Close \/ Reopen
  BY <1>4, <1>i DEF Halt, Close, Reopen, Begin, LimitsInv, Question
<1>5. CASE Tick \/ UNCHANGED rndisVars
  BY <1>5, <1>f DEF Tick, rndisVars
<1> QED
  BY <1>1, <1>2, <1>3, <1>4, <1>5
     DEF Next, Client, PhoneAnswers, PhoneSpeaks, PhoneGoes, vars

\* All of them are kept by every step.
LEMMA NextCInv == CInv /\ [Next]_vars => CInv'
BY QueueStep, IdStep, LimitsStep DEF CInv

\* The ids are dealt out as IdInv says and every message carries its own, in
\* every session with the phone (take_request_id, transact).
THEOREM ControlInv == Spec => []CInv
<1> QED
  BY InitCInv, NextCInv, PTL DEF Spec

\* A request id is never 0, also after it has wrapped, and time never runs below
\* nothing (take_request_id, transact).
THEOREM ControlTyped == Spec => []TypeOK
<1>1. CInv => TypeOK
  BY DEF CInv
<1> QED
  BY <1>1, ControlInv, PTL

\* The session that bring_up returns has limits that can carry a packet.
THEOREM LimitsAlwaysUsable == Spec => []LimitsUsable
<1>1. CInv => LimitsUsable
  BY DEF CInv, LimitsInv, LimitsUsable, Question
<1> QED
  BY <1>1, ControlInv, PTL

\* transact takes only an answer to the question it asked, whatever is left over
\* from other transactions and other sessions.
THEOREM RightAnswer == Spec => AnswersTheQuestion
<1>1. CInv /\ [Next]_vars =>
        [Complete /\ step' # step /\ Head(replies).says # "bad" => Head(replies).to = step]_vars
  <2> SUFFICES ASSUME CInv, Complete, step' # step, Head(replies).says # "bad"
               PROVE  Head(replies).to = step
    OBVIOUS
  <2> DEFINE r == Head(replies)
  <2>1. r \in Answer \cup Spoken /\ Matches(r) /\ phase = "wait"
    BY NextReply DEF Complete
  <2>2. step \in Question /\ (step = "perm" => id = 2) /\ (step = "current" => id = 3)
    BY <2>1 DEF CInv, IdInv
  <2> HIDE DEF r
  <2>3. r \in Answer /\ (step \notin {"perm", "current"} => r.to = step)
    BY <2>1, <2>2, OfType DEF Matches
  <2>4. CASE step \in {"perm", "current"}
    <3>1. r.to \in {"perm", "current"} /\ OwnId(r) /\ r.id = id
      BY <2>1, <2>3, <2>4 DEF Answer, Matches, TypeOf, Question
    <3> QED
      BY <2>2, <2>4, <3>1 DEF OwnId, r
  <2> QED
    BY <2>3, <2>4 DEF r
<1> QED
  BY <1>1, ControlInv, PTL DEF Spec, AnswersTheQuestion

\* While transact waits, it waits for the answer to the same request, and nothing but
\* time moves its deadline, to the end of it: no message of the phone, of which there
\* may be any number, starts the wait anew (transact, handle_unsolicited).
DeadlineStands ==
  [][phase = "wait" /\ phase' = "wait"
       => /\ UNCHANGED <<step, id>>
          /\ left' = IF Tick THEN left - 1 ELSE left]_vars

\* A transaction takes Deadline units of time at most: the part of TransactionsEnd
\* that does not depend on fairness.
THEOREM DeadlineAlwaysStands == Spec => [](left \in 0..Deadline) /\ DeadlineStands
<1>1. [Next]_vars => [phase = "wait" /\ phase' = "wait"
                        => /\ UNCHANGED <<step, id>>
                           /\ left' = IF Tick THEN left - 1 ELSE left]_vars
  <2> SUFFICES ASSUME Next, phase = "wait", phase' = "wait", ~Tick
               PROVE  UNCHANGED <<step, id, left>>
    BY Zenon DEF Tick
  <2>1. CASE Send \/ NoReply \/ Use \/ Halt \/ Close \/ Reopen
    BY <2>1 DEF Send, NoReply, Err, Use, Halt, Close, Reopen, Begin
  <2>2. CASE Complete \/ Service
    BY <2>2, Zenon DEF Complete, Service, Err, Ok, Begin
  <2>3. CASE PhoneAnswers \/ PhoneSpeaks \/ PhoneGoes
    BY <2>3, Zenon DEF PhoneAnswers, PhoneSpeaks, PhoneGoes, rndisVars
  <2> QED
    BY <2>1, <2>2, <2>3, Zenon DEF Next, Client
<1>2. TypeOK => left \in 0..Deadline
  BY DEF TypeOK
<1> QED
  BY <1>1, <1>2, ControlTyped, PTL DEF Spec, DeadlineStands

-----------------------------------------------------------------------------
(* Device and the control channel in it                                     *)

\* The control channel within the daemon is the control channel: every step of
\* the loop of scans and opens is a step of RndisControl or none of its own.
LEMMA ControlStep == [DeviceNext]_allVars => [Next]_vars
<1> SUFFICES ASSUME [DeviceNext]_allVars PROVE Next \/ UNCHANGED vars
  OBVIOUS
<1>1. CASE Watch \/ List \/ Scan \/ Inspect \/ Idle \/ Wait \/ BroughtUp \/ SessionOver
  BY <1>1, Zenon DEF Watch, List, Scan, Inspect, Idle, Wait, BroughtUp, SessionOver
<1>2. CASE OpenDevice
  BY <1>2 DEF OpenDevice, Fails, Next
<1>3. CASE Configure \/ Claim \/ SetAlt \/ Endpoints
  BY <1>3 DEF Configure, Claim, SetAlt, Endpoints, Fails
<1>4. CASE Control
  BY <1>4 DEF Control, Fails, Next, Client
<1>5. CASE Release
  BY <1>5 DEF Release, Next, Client
<1>6. CASE Transaction \/ UseIt \/ Time \/ Phone
  BY <1>6 DEF Transaction, UseIt, Time, Phone, Next, Client
<1>7. CASE \E k \in Kinds : Attach(k)
  BY <1>7 DEF Attach
<1>8. CASE \E i \in DOMAIN bus : Detach(i)
  BY <1>8 DEF Detach, Next
<1>9. CASE UNCHANGED allVars
  BY <1>9 DEF allVars
<1> QED
  BY <1>1, <1>2, <1>3, <1>4, <1>5, <1>6, <1>7, <1>8, <1>9 DEF DeviceNext, Main, Opening

\* However devices come and go and are opened again, the control channel in the
\* daemon does what RndisControl says (run, open and transact together).
THEOREM DeviceImplementsControl == DeviceSpec => Spec
<1>1. DeviceInit => Init
  BY DEF DeviceInit
<1> QED
  BY <1>1, ControlStep, PTL DEF DeviceSpec, Spec

\* So the channel's properties hold in the daemon.
THEOREM DeviceControl ==
  DeviceSpec => []TypeOK /\ []LimitsUsable /\ AnswersTheQuestion /\ DeadlineStands
BY DeviceImplementsControl, ControlTyped, LimitsAlwaysUsable, RightAnswer, DeadlineAlwaysStands, PTL

-----------------------------------------------------------------------------
(* The bus and what is done with it                                         *)

Meant == {RndisOf[k][1] : k \in {k \in Kinds : RndisOf[k] # <<>>}}

Attachment ==
  [id : Ids, kind : Kinds, config : {k.active : k \in Kinds} \cup {f.config : f \in Meant},
   alt : {0} \cup {f.alt : f \in Meant}]

Held == {"open", "configure", "claim", "alt", "control", "bringup", "endpoints", "session"}

\* No two devices have an id in common, nor will have.
BusInv ==
  /\ attached \in 0..MaxAttach
  /\ bus \in Seq(Attachment)
  /\ \A i \in DOMAIN bus : bus[i].id <= attached
  /\ \A i, j \in DOMAIN bus : bus[i].id = bus[j].id => i = j

\* Until the thread runs, the last event waiting about a device says whether it is
\* on the bus; from then on the map holds what is.
HotplugInv ==
  /\ main = "start" => ~watching
  /\ main = "list" => watching
  /\ watching \in BOOLEAN
  /\ raw \in Seq({"connected", "disconnected"} \X Ids)
  /\ main # "list" => raw = <<>>
  /\ \A i \in DOMAIN raw :
       (\A j \in DOMAIN raw : raw[j][2] = raw[i][2] => j <= i)
         => (raw[i][1] = "connected" <=> raw[i][2] \in BusIds)
  /\ watching /\ main # "list" => ids = BusIds

\* A device is in one of the two settings it is ever put into.
AltInv ==
  \A i \in DOMAIN bus :
    LET f == RndisOf[bus[i].kind] IN
    bus[i].alt = 0 \/ (f # <<>> /\ bus[i].alt = f[1].alt)

\* The phone in hand, while it is there, is the one the function was found in,
\* and is set up as far as open() has come.
OpenInv ==
  main \in Held =>
    /\ found.id \in Ids /\ found.id <= attached
    /\ \A i \in DOMAIN bus : bus[i].id = found.id =>
         /\ RndisOf[bus[i].kind] = <<found.function>>
         /\ main \notin {"open", "configure"} => bus[i].config = found.function.config
         /\ main \in {"control", "bringup", "endpoints", "session"} =>
              bus[i].alt = found.function.alt

DInv == BusInv /\ HotplugInv /\ AltInv /\ OpenInv

-----------------------------------------------------------------------------
(* The map of the hotplug thread                                           *)

\* The devices of B and those the events said, where the last about one counts.
LastSaid(said, s, B) ==
  {x \in B \cup {said[i][2] : i \in s} :
     \/ x \in B /\ \A i \in s : said[i][2] # x
     \/ \E i \in s : said[i][2] = x /\ said[i][1] = "connected" /\ \A j \in s : said[j][2] = x => j <= i}

\* The events are taken in order, and the last about a device decides.
LEMMA FoldTranslate ==
  ASSUME NEW n \in Nat, NEW said, DOMAIN said = 1..n, NEW B
  PROVE  FoldLeft(Translate, B, said) = LastSaid(said, 1..n, B)
<1> DEFINE Body(g) == [s \in SUBSET (1..n) |-> IF s = {} THEN B ELSE Translate(g[s \ {Max(s)}], said[Max(s)])]
           It == CHOOSE g : g = Body(g)
           Sol == [s \in SUBSET (1..n) |-> LastSaid(said, s, B)]
<1>1. FoldLeft(Translate, B, said) = It[1..n]
  BY DEF FoldLeft, MapThenFoldSet
<1>2. Sol = Body(Sol)
  <2>1. ASSUME NEW s \in SUBSET (1..n)
        PROVE  Sol[s] = IF s = {} THEN B ELSE Translate(Sol[s \ {Max(s)}], said[Max(s)])
    <3>1. CASE s = {}
      BY <3>1 DEF LastSaid
    <3>2. CASE s # {}
      <4> DEFINE m == Max(s)
      <4>1. m \in s /\ \A y \in s : y <= m
        BY <3>2, MaxOf, Zenon
      <4> HIDE DEF m
      <4>2. Sol[s] = LastSaid(said, s, B) /\ Sol[s \ {m}] = LastSaid(said, s \ {m}, B)
        BY Zenon
      <4>4. \A y \in s : m <= y => y = m
        BY <4>1
      <4>5. s \subseteq Int
        OBVIOUS
      <4>3. LastSaid(said, s, B) = Translate(LastSaid(said, s \ {m}, B), said[m])
        <5>1. ASSUME NEW x PROVE x \in LastSaid(said, s, B) <=> x \in Translate(LastSaid(said, s \ {m}, B), said[m])
          <6>1. CASE said[m][2] = x
            <7>1. x \in LastSaid(said, s, B) <=> said[m][1] = "connected"
              BY <4>1, <4>4, <4>5, <6>1 DEF LastSaid
            <7> QED
              BY <6>1, <7>1 DEF Translate
          <6>2. CASE said[m][2] # x
            <7>1. x \in LastSaid(said, s, B) <=> x \in LastSaid(said, s \ {m}, B)
              BY <4>1, <6>2 DEF LastSaid
            <7> QED
              BY <6>2, <7>1 DEF Translate
          <6> QED
            BY <6>1, <6>2
        <5> QED
          BY <5>1, Zenon
      <4> QED
        BY <3>2, <4>2, <4>3, Zenon DEF m
    <3> QED
      BY <3>1, <3>2
  <2> HIDE DEF Sol
  <2>2. Sol = [s \in SUBSET (1..n) |-> Sol[s]]
    BY DEF Sol
  <2> QED
    BY <2>1, <2>2, Zenon
<1>3. It = Body(It)
  BY <1>2, Zenon
<1>4. ASSUME NEW g, g = Body(g) PROVE g[1..n] = Sol[1..n]
  <2> DEFINE T == {k \in 0..n : \E s \in SUBSET (1..k) : g[s] # Sol[s]}
  <2> HIDE DEF Sol
  <2>1. T = {}
    <3> SUFFICES ASSUME T # {} PROVE FALSE
      OBVIOUS
    <3>1. PICK k \in T : \A m \in T : k <= m
      <4> T \subseteq Nat
        OBVIOUS
      <4> HIDE DEF T
      <4> QED
        BY LeastOf, Zenon
    <3>2. PICK s \in SUBSET (1..k) : g[s] # Sol[s]
      OBVIOUS
    <3>3. s \in SUBSET (1..n) /\ k \in 0..n
      OBVIOUS
    <3>4. g[s] = IF s = {} THEN B ELSE Translate(g[s \ {Max(s)}], said[Max(s)])
      BY <1>4, <3>3, Zenon
    <3>5. Sol[s] = IF s = {} THEN B ELSE Translate(Sol[s \ {Max(s)}], said[Max(s)])
      BY <1>2, <3>3, Zenon
    <3>6. s # {} /\ g[s \ {Max(s)}] # Sol[s \ {Max(s)}]
      BY <3>2, <3>4, <3>5
    <3>7. Max(s) \in s /\ \A y \in s : y <= Max(s)
      BY <3>3, <3>6, MaxOf, Zenon
    <3> DEFINE m == Max(s)
               t == s \ {m}
    <3>8. m \in 1..k /\ \A y \in t : y \in 1..k /\ y <= m /\ y # m
      BY <3>7, Zenon
    <3>9. g[t] # Sol[t]
      BY <3>6
    <3> HIDE DEF m, t
    <3>10. m - 1 \in 0..n /\ m - 1 < k
      BY <3>3, <3>8
    <3>11. t \in SUBSET (1..(m - 1))
      <4>1. \A y \in t : y \in 1..(m - 1)
        BY <3>3, <3>8
      <4> QED
        BY <4>1
    <3>12. m - 1 \in T
      BY <3>9, <3>10, <3>11
    <3>13. k <= m - 1
      BY <3>1, <3>12, SMTT(20)
    <3> QED
      BY <3>3, <3>8, <3>10, <3>13
  <2>2. n \in 0..n /\ 1..n \in SUBSET (1..n)
    OBVIOUS
  <2> QED
    BY <2>1, <2>2, Zenon
<1> QED
  BY <1>1, <1>3, <1>4, Zenon
-----------------------------------------------------------------------------
(* Preservation                                                            *)

\* find_rndis gives an Option: nothing, or one function.
LEMMA OneOrNone ==
  ASSUME NEW k \in Kinds
  PROVE  RndisOf[k] = <<>> \/ RndisOf[k] = <<RndisOf[k][1]>>
<1>1. ASSUME NEW config, NEW control
      PROVE  Build(config, control) = <<>> \/ \E f : Build(config, control) = <<f>>
  BY Zenon DEF Build, FindMap
<1>2. ASSUME NEW config
      PROVE  FindRndisInConfig(config) = <<>> \/ \E f : FindRndisInConfig(config) = <<f>>
  BY <1>1, Zenon DEF FindRndisInConfig, FindMap
<1>3. FindRndis(k.configs) = <<>> \/ \E f : FindRndis(k.configs) = <<f>>
  BY <1>2, Zenon DEF FindRndis, FindMap
<1>4. RndisOf[k] = FindRndis(k.configs)
  BY DEF RndisOf
<1> QED
  BY <1>3, <1>4

\* The index of a device that is there.
LEMMA AtIs ==
  ASSUME NEW n, Present(n)
  PROVE  At(n) \in DOMAIN bus /\ bus[At(n)].id = n
<1>1. \E i \in DOMAIN bus : bus[i].id = n
  BY DEF Present, BusIds
<1> QED
  BY <1>1 DEF At

\* Without its i-th element a sequence has the others, in order.
LEMMA RemoveAtFacts ==
  ASSUME NEW S, NEW s \in Seq(S), NEW i \in DOMAIN s
  PROVE  /\ RemoveAt(s, i) \in Seq(S)
         /\ DOMAIN RemoveAt(s, i) = 1..(Len(s) - 1)
         /\ \A j \in 1..(Len(s) - 1) : RemoveAt(s, i)[j] = s[IF j < i THEN j ELSE j + 1]
<1>1. Len(s) \in Nat /\ i \in 1..Len(s)
  BY LenProperties
<1> DEFINE a == SubSeq(s, 1, i - 1)
           b == SubSeq(s, i + 1, Len(s))
<1>2. a \in Seq(S) /\ Len(a) = i - 1 /\ \A j \in 1..(i - 1) : a[j] = s[j]
  BY <1>1, SubSeqProperties
<1>3. b \in Seq(S) /\ Len(b) = Len(s) - i /\ \A j \in 1..(Len(s) - i) : b[j] = s[i + j]
  BY <1>1, SubSeqProperties
<1> HIDE DEF a, b
<1>4. /\ a \o b \in Seq(S) /\ Len(a \o b) = Len(a) + Len(b)
      /\ \A j \in 1..(Len(a) + Len(b)) : (a \o b)[j] = IF j <= Len(a) THEN a[j] ELSE b[j - Len(a)]
  BY <1>2, <1>3, ConcatProperties, Zenon
<1>5. Len(a) + Len(b) = Len(s) - 1
  BY <1>1, <1>2, <1>3
<1>6. ASSUME NEW j \in 1..(Len(s) - 1) PROVE (a \o b)[j] = s[IF j < i THEN j ELSE j + 1]
  <2>1. CASE j < i
    <3>1. j \in 1..(i - 1) /\ j <= Len(a) /\ j \in 1..(Len(a) + Len(b))
      BY <1>1, <1>2, <1>5, <2>1
    <3> QED
      BY <1>2, <1>4, <2>1, <3>1
  <2>2. CASE ~(j < i)
    <3>1. j - Len(a) \in 1..(Len(s) - i) /\ ~(j <= Len(a)) /\ j \in 1..(Len(a) + Len(b))
      BY <1>1, <1>2, <1>5, <2>2
    <3>2. i + (j - Len(a)) = j + 1
      BY <1>1, <1>2
    <3> QED
      BY <1>3, <1>4, <2>2, <3>1, <3>2
  <2> QED
    BY <2>1, <2>2, Zenon
<1>7. DOMAIN (a \o b) = 1..Len(a \o b)
  BY <1>4, LenProperties
<1>8. RemoveAt(s, i) = a \o b
  BY DEF RemoveAt, a, b
<1> QED
  BY <1>4, <1>5, <1>6, <1>7, <1>8, Zenon

\* A device on the bus has an id that was given out, and to it alone.
LEMMA OnTheBus ==
  ASSUME BusInv, NEW i \in DOMAIN bus
  PROVE  /\ bus[i] \in Attachment
         /\ bus[i].id \in Ids /\ bus[i].id <= attached /\ bus[i].kind \in Kinds
         /\ \A j \in DOMAIN bus : bus[i].id = bus[j].id => i = j
<1>1. bus \in Seq(Attachment) /\ bus[i].id <= attached
      /\ \A j \in DOMAIN bus : bus[i].id = bus[j].id => i = j
  BY DEF BusInv
<1>2. bus[i] \in Attachment
  <2> HIDE DEF Attachment
  <2> QED
    BY <1>1, LenProperties
<1> QED
  BY <1>1, <1>2 DEF Attachment

\* A device is plugged in: it comes last, with an id nothing has had.
LEMMA Attached ==
  ASSUME BusInv, NEW k \in Kinds, Attach(k)
  PROVE  /\ BusInv'
         /\ attached' \in Ids /\ attached' \notin BusIds /\ BusIds' = BusIds \cup {attached'}
         /\ \A i \in DOMAIN bus' : \/ i \in DOMAIN bus /\ bus'[i] = bus[i]
                                   \/ /\ bus'[i].id = attached' /\ bus'[i].kind = k /\ bus'[i].alt = 0
                                      /\ bus'[i].id > attached
<1> DEFINE d == [id |-> attached', kind |-> k, config |-> k.active, alt |-> 0]
<1>1. /\ attached' = attached + 1 /\ bus' = Append(bus, d)
      /\ attached \in 0..MaxAttach /\ attached < MaxAttach /\ MaxAttach \in Nat
  BY DeviceAssumption DEF Attach, BusInv
<1>2. attached' \in Ids /\ attached' \in 0..MaxAttach /\ attached' > attached
  BY <1>1 DEF Ids
<1>3. d \in Attachment
  BY <1>2 DEF Attachment
<1>4. d.id = attached' /\ d.kind = k /\ d.alt = 0
  OBVIOUS
<1> HIDE DEF d
<1>5. bus \in Seq(Attachment) /\ Len(bus) \in Nat /\ DOMAIN bus = 1..Len(bus)
  BY LenProperties DEF BusInv
<1>6. /\ bus' \in Seq(Attachment) /\ Len(bus') = Len(bus) + 1
      /\ bus'[Len(bus) + 1] = d /\ \A i \in 1..Len(bus) : bus'[i] = bus[i]
  BY <1>1, <1>3, <1>5, AppendProperties
<1>7. DOMAIN bus' = 1..(Len(bus) + 1)
  BY <1>6, LenProperties
<1>8. \A i \in DOMAIN bus : bus[i].id \in Ids /\ bus[i].id <= attached
  BY OnTheBus
<1>9. attached' \notin BusIds
  BY <1>1, <1>2, <1>8 DEF BusIds, Ids
<1>10. ASSUME NEW i \in DOMAIN bus'
       PROVE  (i \in DOMAIN bus /\ bus'[i] = bus[i]) \/ (i = Len(bus) + 1 /\ bus'[i] = d)
  BY <1>5, <1>6, <1>7
<1>11. BusIds' = BusIds \cup {attached'}
  <2>1. ASSUME NEW x \in BusIds' PROVE x \in BusIds \cup {attached'}
    BY <1>4, <1>10 DEF BusIds
  <2>2. ASSUME NEW x \in BusIds PROVE x \in BusIds'
    <3>1. PICK i \in DOMAIN bus : x = bus[i].id
      BY DEF BusIds
    <3>2. i \in DOMAIN bus' /\ bus'[i] = bus[i]
      BY <1>5, <1>6, <1>7
    <3> QED
      BY <3>1, <3>2 DEF BusIds
  <2>3. attached' \in BusIds'
    <3>1. Len(bus) + 1 \in DOMAIN bus'
      BY <1>5, <1>7
    <3> QED
      BY <1>4, <1>6, <3>1 DEF BusIds
  <2> QED
    BY <2>1, <2>2, <2>3
<1>12. \A i \in DOMAIN bus' : bus'[i].id <= attached'
  BY <1>1, <1>2, <1>4, <1>8, <1>10 DEF Ids
<1>13. \A i, j \in DOMAIN bus' : bus'[i].id = bus'[j].id => i = j
  <2> SUFFICES ASSUME NEW i \in DOMAIN bus', NEW j \in DOMAIN bus', bus'[i].id = bus'[j].id
               PROVE  i = j
    OBVIOUS
  <2>1. \A l \in DOMAIN bus : bus[l].id # attached'
    BY <1>9 DEF BusIds
  <2>2. \A l, m \in DOMAIN bus : bus[l].id = bus[m].id => l = m
    BY DEF BusInv
  <2> QED
    BY <1>4, <1>10, <2>1, <2>2
<1> QED
  BY <1>2, <1>4, <1>6, <1>9, <1>10, <1>11, <1>12, <1>13 DEF BusInv

\* One goes: the others stay as they are.
LEMMA Detached ==
  ASSUME BusInv, NEW n \in DOMAIN bus, Detach(n)
  PROVE  /\ BusInv'
         /\ bus[n].id \in Ids /\ BusIds' = BusIds \ {bus[n].id}
         /\ \A i \in DOMAIN bus' : \E j \in DOMAIN bus : bus'[i] = bus[j]
<1>1. bus \in Seq(Attachment) /\ Len(bus) \in Nat /\ DOMAIN bus = 1..Len(bus) /\ n \in 1..Len(bus)
  BY LenProperties DEF BusInv
<1>2. bus' = RemoveAt(bus, n) /\ attached' = attached
  BY DEF Detach
<1>3. /\ bus' \in Seq(Attachment) /\ DOMAIN bus' = 1..(Len(bus) - 1)
      /\ \A i \in 1..(Len(bus) - 1) : bus'[i] = bus[IF i < n THEN i ELSE i + 1]
  BY <1>1, <1>2, RemoveAtFacts, Zenon
<1> DEFINE old(i) == IF i < n THEN i ELSE i + 1
<1>4. ASSUME NEW i \in DOMAIN bus'
      PROVE  old(i) \in DOMAIN bus /\ old(i) # n /\ bus'[i] = bus[old(i)]
  BY <1>1, <1>3
<1>5. \A i, j \in DOMAIN bus' : old(i) = old(j) => i = j
  BY <1>1, <1>3
<1>6. ASSUME NEW j \in DOMAIN bus, j # n PROVE \E i \in DOMAIN bus' : old(i) = j
  <2>1. CASE j < n
    <3>1. j \in DOMAIN bus'
      BY <1>1, <1>3, <2>1
    <3> QED
      BY <2>1, <3>1
  <2>2. CASE j > n
    <3>1. j - 1 \in DOMAIN bus' /\ old(j - 1) = j
      BY <1>1, <1>3, <2>2
    <3> QED
      BY <3>1
  <2> QED
    BY <1>1, <1>6, <2>1, <2>2
<1> HIDE DEF old
<1>7. /\ \A i, j \in DOMAIN bus : bus[i].id = bus[j].id => i = j
      /\ \A i \in DOMAIN bus : bus[i].id \in Ids /\ bus[i].id <= attached
  BY OnTheBus
<1>8. BusIds' = BusIds \ {bus[n].id}
  <2>1. ASSUME NEW x \in BusIds' PROVE x \in BusIds \ {bus[n].id}
    BY <1>4, <1>7 DEF BusIds
  <2>2. ASSUME NEW x \in BusIds, x # bus[n].id PROVE x \in BusIds'
    <3>1. PICK j \in DOMAIN bus : x = bus[j].id
      BY DEF BusIds
    <3>2. PICK i \in DOMAIN bus' : old(i) = j
      BY <1>6, <2>2, <3>1
    <3> QED
      BY <1>4, <3>1, <3>2 DEF BusIds
  <2> QED
    BY <2>1, <2>2
<1>9. /\ \A i \in DOMAIN bus' : bus'[i].id <= attached'
      /\ \A i, j \in DOMAIN bus' : bus'[i].id = bus'[j].id => i = j
  BY <1>2, <1>4, <1>5, <1>7
<1> QED
  BY <1>2, <1>3, <1>4, <1>7, <1>8, <1>9 DEF BusInv

\* A device is put into another configuration or setting.
LEMMA Switched ==
  ASSUME BusInv, NEW n \in DOMAIN bus, NEW d \in Attachment,
         d.id = bus[n].id, d.kind = bus[n].kind,
         bus' = [bus EXCEPT ![n] = d], attached' = attached
  PROVE  /\ BusInv' /\ BusIds' = BusIds /\ DOMAIN bus' = DOMAIN bus /\ bus'[n] = d
         /\ \A i \in DOMAIN bus : /\ bus'[i].id = bus[i].id /\ bus'[i].kind = bus[i].kind
                                  /\ i # n => bus'[i] = bus[i]
<1>1. bus \in Seq(Attachment) /\ Len(bus) \in Nat /\ DOMAIN bus = 1..Len(bus)
  BY LenProperties DEF BusInv
<1>2. DOMAIN bus' = DOMAIN bus /\ bus'[n] = d /\ \A i \in DOMAIN bus : i # n => bus'[i] = bus[i]
  BY <1>1
<1>3. \A i \in DOMAIN bus : bus'[i].id = bus[i].id /\ bus'[i].kind = bus[i].kind
  BY <1>2
<1>4. bus' \in Seq(Attachment)
  BY <1>1, ExceptSeq
<1>5. BusIds' = BusIds
  BY <1>2, <1>3 DEF BusIds
<1>6. attached' \in 0..MaxAttach
  BY DEF BusInv
<1>7. \A i \in DOMAIN bus' : bus'[i].id <= attached'
  BY <1>2, <1>3, OnTheBus
<1>8. \A i, j \in DOMAIN bus' : bus'[i].id = bus'[j].id => i = j
  BY <1>2, <1>3, OnTheBus
<1> QED
  BY <1>2, <1>3, <1>4, <1>5, <1>6, <1>7, <1>8 DEF BusInv

\* The phone in hand, if it is there, is on the bus, with the function found.
LEMMA InHand ==
  ASSUME DInv, Connected, main \in Held
  PROVE  /\ At(found.id) \in DOMAIN bus /\ bus[At(found.id)].id = found.id
         /\ RndisOf[bus[At(found.id)].kind] = <<found.function>>
         /\ found.function \in Meant
         /\ \A i \in DOMAIN bus : bus[i].id = found.id => i = At(found.id)
<1> DEFINE n == At(found.id)
<1>1. n \in DOMAIN bus /\ bus[n].id = found.id
  BY AtIs DEF Connected
<1> HIDE DEF n
<1>2. RndisOf[bus[n].kind] = <<found.function>>
  BY <1>1 DEF DInv, OpenInv
<1>3. bus[n].kind \in Kinds /\ \A i \in DOMAIN bus : bus[i].id = found.id => i = n
  BY <1>1, OnTheBus DEF DInv
<1>4. RndisOf[bus[n].kind][1] = found.function /\ RndisOf[bus[n].kind] # <<>>
  BY <1>2
<1>5. found.function \in Meant
  <2> DEFINE k == bus[n].kind
  <2> HIDE DEF k
  <2>1. k \in Kinds /\ RndisOf[k][1] = found.function /\ RndisOf[k] # <<>>
    BY <1>3, <1>4 DEF k
  <2> QED
    BY <2>1 DEF Meant
<1> QED
  BY <1>1, <1>2, <1>3, <1>5 DEF n

\* A device that takes another configuration is the same attachment.
LEMMA Reconfigured ==
  ASSUME DInv, Configure
  PROVE  /\ BusInv' /\ BusIds' = BusIds /\ DOMAIN bus' = DOMAIN bus
         /\ \A i \in DOMAIN bus :
              /\ bus'[i].id = bus[i].id /\ bus'[i].kind = bus[i].kind
              /\ bus'[i].alt \in {0, bus[i].alt}
              /\ main' = "claim" /\ bus[i].id = found.id =>
                   bus'[i].config = found.function.config
<1> DEFINE n == At(found.id)
           v == found.function.config
           d == [bus[n] EXCEPT !.config = v, !.alt = 0]
<1>1. BusInv /\ attached' = attached /\ main = "configure" /\ main \in Held
  BY DEF DInv, Configure, Held
<1>2. CASE main' # "claim" /\ bus' = bus
  BY <1>1, <1>2, SMTT(20) DEF BusInv, BusIds
<1>3. CASE Goes("claim")
  <2>1. Connected
    BY <1>3 DEF Goes
  <2>2. n \in DOMAIN bus /\ found.function \in Meant /\ \A i \in DOMAIN bus : bus[i].id = found.id => i = n
    BY <1>1, <2>1, InHand
  <2>3. bus[n] \in Attachment
    BY <1>1, <2>2, OnTheBus
  <2>4. bus' = IF bus[n].config = v THEN bus ELSE [bus EXCEPT ![n].config = v, ![n].alt = 0]
    BY <1>3 DEF Configure, Goes, Fails
  <2> HIDE DEF n
  <2>5. CASE bus[n].config = v
    <3>1. bus' = bus
      BY <2>4, <2>5, SMTT(20)
    <3> QED
      BY <1>1, <2>2, <2>5, <3>1 DEF BusInv, BusIds
  <2>6. CASE bus[n].config # v
    <3>1. d \in Attachment /\ d.id = bus[n].id /\ d.kind = bus[n].kind /\ d.config = v /\ d.alt = 0
      BY <2>2, <2>3, Zenon DEF Attachment
    <3>2. bus' = [bus EXCEPT ![n] = d]
      BY <2>2, <2>3, <2>4, <2>6, Zenon DEF Attachment
    <3> HIDE DEF d
    <3>3. /\ BusInv' /\ BusIds' = BusIds /\ DOMAIN bus' = DOMAIN bus /\ bus'[n] = d
          /\ \A i \in DOMAIN bus : /\ bus'[i].id = bus[i].id /\ bus'[i].kind = bus[i].kind
                                   /\ i # n => bus'[i] = bus[i]
      BY <1>1, <2>2, <3>1, <3>2, Switched, Zenon
    <3> QED
      BY <2>2, <3>1, <3>3
  <2> QED
    BY <2>5, <2>6
<1> QED
  BY <1>2, <1>3 DEF Configure, Fails

\* Neither does an alternate setting make it another one.
LEMMA AltSet ==
  ASSUME DInv, SetAlt
  PROVE  /\ BusInv' /\ BusIds' = BusIds /\ DOMAIN bus' = DOMAIN bus
         /\ \A i \in DOMAIN bus :
              /\ bus'[i].id = bus[i].id /\ bus'[i].kind = bus[i].kind
              /\ bus'[i].config = bus[i].config
              /\ bus'[i].alt = bus[i].alt \/ (bus[i].id = found.id /\ bus'[i].alt = found.function.alt)
              /\ main' = "control" /\ bus[i].id = found.id => bus'[i].alt = found.function.alt
<1> DEFINE n == At(found.id)
           a == found.function.alt
           d == [bus[n] EXCEPT !.alt = a]
<1>1. BusInv /\ AltInv /\ attached' = attached /\ main = "alt" /\ main \in Held
  BY DEF DInv, SetAlt, Held
<1>2. CASE main' # "control" /\ bus' = bus
  BY <1>1, <1>2, SMTT(20) DEF BusInv, BusIds
<1>3. CASE Goes("control")
  <2>1. Connected
    BY <1>3 DEF Goes
  <2>2. /\ n \in DOMAIN bus /\ bus[n].id = found.id /\ found.function \in Meant
        /\ RndisOf[bus[n].kind] = <<found.function>>
        /\ \A i \in DOMAIN bus : bus[i].id = found.id => i = n
    BY <1>1, <2>1, InHand
  <2>3. bus[n] \in Attachment
    BY <1>1, <2>2, OnTheBus
  <2>4. bus' = IF a = 0 THEN bus ELSE [bus EXCEPT ![n].alt = a]
    BY <1>3 DEF SetAlt, Goes, Fails
  <2>5. bus[n].alt \in {0, a}
    <3>1. RndisOf[bus[n].kind][1] = found.function
      BY <2>2
    <3> QED
      BY <1>1, <2>2, <3>1 DEF AltInv
  <2> HIDE DEF n
  <2>6. CASE a = 0
    <3>1. bus' = bus
      BY <2>4, <2>6, SMTT(20)
    <3> QED
      BY <1>1, <2>2, <2>5, <2>6, <3>1 DEF BusInv, BusIds
  <2>7. CASE a # 0
    <3>1. d \in Attachment /\ d.id = bus[n].id /\ d.kind = bus[n].kind /\ d.config = bus[n].config /\ d.alt = a
      BY <2>2, <2>3 DEF Attachment
    <3>2. bus' = [bus EXCEPT ![n] = d]
      BY <2>2, <2>3, <2>4, <2>7 DEF Attachment
    <3> HIDE DEF d
    <3>3. /\ BusInv' /\ BusIds' = BusIds /\ DOMAIN bus' = DOMAIN bus /\ bus'[n] = d
          /\ \A i \in DOMAIN bus : /\ bus'[i].id = bus[i].id /\ bus'[i].kind = bus[i].kind
                                   /\ i # n => bus'[i] = bus[i]
      BY <1>1, <2>2, <3>1, <3>2, Switched, Zenon
    <3> QED
      BY <2>2, <3>1, <3>3, Zenon
  <2> QED
    BY <2>6, <2>7
<1> QED
  BY <1>2, <1>3 DEF SetAlt, Fails

\* Every other step leaves the bus alone.
LEMMA BusFrame ==
  [DeviceNext]_allVars =>
    \/ \E k \in Kinds : Attach(k)
    \/ \E n \in DOMAIN bus : Detach(n)
    \/ Configure \/ SetAlt \/ UNCHANGED busVars
<1> SUFFICES ASSUME [DeviceNext]_allVars, ~Configure, ~SetAlt,
                    ~\E k \in Kinds : Attach(k), ~\E n \in DOMAIN bus : Detach(n)
             PROVE  UNCHANGED busVars
  BY SMTT(20)
<1>1. CASE Watch \/ List \/ Scan \/ Inspect \/ Idle \/ Wait \/ BroughtUp \/ SessionOver \/ Release
  BY <1>1, Zenon DEF Watch, List, Scan, Inspect, Idle, Wait, BroughtUp, SessionOver, Release
<1>2. CASE OpenDevice \/ Claim \/ Control \/ Endpoints
  BY <1>2 DEF OpenDevice, Claim, Control, Endpoints, Fails, busVars
<1>3. CASE Transaction \/ UseIt \/ Time \/ Phone
  BY <1>3 DEF Transaction, UseIt, Time, Phone
<1>4. CASE UNCHANGED allVars
  BY <1>4, SMTT(20) DEF allVars
<1> QED
  BY <1>1, <1>2, <1>3, <1>4 DEF DeviceNext, Main, Opening

\* Ids stay unique.
LEMMA BusStep == DInv /\ [DeviceNext]_allVars => BusInv'
<1> SUFFICES ASSUME DInv, [DeviceNext]_allVars PROVE BusInv'
  OBVIOUS
<1>0. BusInv
  BY DEF DInv
<1>1. CASE UNCHANGED busVars
  BY <1>0, <1>1, SMTT(20) DEF busVars, BusInv
<1> QED
  BY <1>0, <1>1, BusFrame, Attached, Detached, Reconfigured, AltSet, Zenon

\* A device is only put into the setting of its own function.
LEMMA AltStep == DInv /\ [DeviceNext]_allVars => AltInv'
<1> SUFFICES ASSUME DInv, [DeviceNext]_allVars PROVE AltInv'
  OBVIOUS
<1> DEFINE Good(d) == d.alt = 0 \/ (RndisOf[d.kind] # <<>> /\ d.alt = RndisOf[d.kind][1].alt)
<1>0. BusInv /\ \A i \in DOMAIN bus : Good(bus[i])
  BY DEF DInv, AltInv
<1>s. SUFFICES ASSUME NEW i \in DOMAIN bus' PROVE Good(bus'[i])
  BY DEF AltInv
<1>1. CASE UNCHANGED busVars
  BY <1>0, <1>1, SMTT(20) DEF busVars
<1>2. ASSUME NEW k \in Kinds, Attach(k) PROVE Good(bus'[i])
  BY <1>0, <1>2, Attached
<1>3. ASSUME NEW n \in DOMAIN bus, Detach(n) PROVE Good(bus'[i])
  BY <1>0, <1>3, Detached, SMTT(20)
<1>4. CASE Configure
  <2>1. i \in DOMAIN bus /\ bus'[i].kind = bus[i].kind /\ bus'[i].alt \in {0, bus[i].alt}
    BY <1>4, Reconfigured
  <2> QED
    BY <1>0, <2>1
<1>5. CASE SetAlt
  <2>1. /\ i \in DOMAIN bus /\ bus'[i].kind = bus[i].kind
        /\ bus'[i].alt = bus[i].alt \/ (bus[i].id = found.id /\ bus'[i].alt = found.function.alt)
    BY <1>5, AltSet
  <2>2. bus[i].id = found.id => RndisOf[bus[i].kind] = <<found.function>>
    BY <1>5, <2>1 DEF DInv, OpenInv, Held, SetAlt
  <2>3. bus[i].id = found.id => RndisOf[bus[i].kind] # <<>> /\ RndisOf[bus[i].kind][1] = found.function
    BY <2>2
  <2> QED
    BY <1>0, <2>1, <2>3, SMTT(20)
<1> QED
  BY <1>1, <1>2, <1>3, <1>4, <1>5, BusFrame

\* open() goes on with the device the scan found or stops.
LEMMA OpenStep == DInv /\ [DeviceNext]_allVars => OpenInv'
<1> SUFFICES ASSUME DInv, [DeviceNext]_allVars PROVE OpenInv'
  OBVIOUS
<1>0. BusInv /\ OpenInv
  BY DEF DInv
<1>f. ASSUME UNCHANGED <<bus, attached, found>>,
             main' \in Held => main \in Held,
             main' \in Held \ {"open", "configure"} => main \notin {"open", "configure"},
             main' \in {"control", "bringup", "endpoints", "session"}
               => main \in {"control", "bringup", "endpoints", "session"}
      PROVE  OpenInv'
  BY <1>0, <1>f, SMTT(20) DEF OpenInv
<1>1. ASSUME NEW k \in Kinds, Attach(k) PROVE OpenInv'
  <2>1. UNCHANGED <<main, found>> /\ attached' = attached + 1 /\ attached \in Nat
    BY <1>0, <1>1, DeviceAssumption, SMTT(20) DEF Attach, scanVars, BusInv
  <2>2. \A i \in DOMAIN bus' : (i \in DOMAIN bus /\ bus'[i] = bus[i]) \/ bus'[i].id > attached
    BY <1>0, <1>1, Attached, SMTT(20)
  <2>3. ASSUME main \in Held, NEW i \in DOMAIN bus', bus'[i].id = found.id
        PROVE  i \in DOMAIN bus /\ bus'[i] = bus[i]
    BY <1>0, <2>1, <2>2, <2>3 DEF OpenInv, Ids
  <2>4. main \in Held => found'.id \in Ids /\ found'.id <= attached'
    BY <1>0, <2>1 DEF OpenInv, Ids
  <2> QED
    BY <1>0, <2>1, <2>3, <2>4 DEF OpenInv
<1>2. ASSUME NEW n \in DOMAIN bus, Detach(n) PROVE OpenInv'
  <2>1. UNCHANGED <<main, found, attached>>
    BY <1>2 DEF Detach, scanVars
  <2>2. \A i \in DOMAIN bus' : \E j \in DOMAIN bus : bus'[i] = bus[j]
    BY <1>0, <1>2, Detached
  <2> QED
    BY <1>0, <2>1, <2>2 DEF OpenInv
<1>3. CASE Configure
  <2>1. UNCHANGED <<found, attached>> /\ main = "configure" /\ main' \in {"claim", "close"}
    BY <1>3 DEF Configure, Goes, Fails
  <2>2. /\ DOMAIN bus' = DOMAIN bus
        /\ \A i \in DOMAIN bus :
             /\ bus'[i].id = bus[i].id /\ bus'[i].kind = bus[i].kind
             /\ main' = "claim" /\ bus[i].id = found.id => bus'[i].config = found.function.config
    BY <1>3, Reconfigured, SMTT(20)
  <2> QED
    BY <1>0, <2>1, <2>2 DEF OpenInv, Held
<1>4. CASE SetAlt
  <2>1. UNCHANGED <<found, attached>> /\ main = "alt" /\ main' \in {"control", "close"}
    BY <1>4, SMTT(20) DEF SetAlt, Goes, Fails
  <2>2. /\ DOMAIN bus' = DOMAIN bus
        /\ \A i \in DOMAIN bus :
             /\ bus'[i].id = bus[i].id /\ bus'[i].kind = bus[i].kind
             /\ bus'[i].config = bus[i].config
             /\ main' = "control" /\ bus[i].id = found.id => bus'[i].alt = found.function.alt
    BY <1>4, AltSet
  <2> QED
    BY <1>0, <2>1, <2>2 DEF OpenInv, Held
<1>5. CASE Inspect
  <2>1. UNCHANGED <<bus, attached>> /\ main = "find"
    BY <1>5 DEF Inspect, busVars
  <2>2. CASE main' = main
    BY <2>1, <2>2, SMTT(20) DEF OpenInv, Held
  <2>3. CASE main' # main
    <3> DEFINE n == At(Head(todo))
               f == RndisOf[bus[n].kind]
    <3>1. /\ Present(Head(todo)) /\ f # <<>> /\ main' = "open"
          /\ found' = [id |-> Head(todo), function |-> f[1]]
      BY <1>5, <2>3, ZenonT(30) DEF Inspect
    <3>2. n \in DOMAIN bus /\ bus[n].id = Head(todo)
      BY <3>1, AtIs, SMTT(20)
    <3>3. /\ bus[n].id \in Ids /\ bus[n].id <= attached /\ bus[n].kind \in Kinds
          /\ \A i \in DOMAIN bus : bus[n].id = bus[i].id => n = i
      BY <1>0, <3>2, OnTheBus
    <3>4. f = <<f[1]>>
      BY <3>1, <3>3, OneOrNone, ZenonT(30)
    <3> HIDE DEF n
    <3>5. found'.id = bus[n].id /\ found'.function = f[1]
      BY <3>1, <3>2, SMTT(20)
    <3> QED
      BY <2>1, <3>1, <3>3, <3>4, <3>5 DEF OpenInv
  <2> QED
    BY <2>2, <2>3, SMTT(20)
<1>6. CASE Watch \/ List \/ Scan \/ Idle \/ Wait \/ Release
  BY <1>6, Zenon DEF Watch, List, Scan, Idle, Wait, Release, OpenInv, Held
<1>7. CASE OpenDevice \/ Claim \/ Control \/ BroughtUp \/ Endpoints \/ SessionOver
  BY <1>7, <1>f DEF OpenDevice, Claim, Control, BroughtUp, Endpoints, SessionOver, Goes, Fails,
                    busVars, Held
<1>8. CASE Transaction \/ UseIt \/ Time \/ Phone \/ UNCHANGED allVars
  BY <1>8, <1>f DEF Transaction, UseIt, Time, Phone, allVars, busVars, scanVars
<1> QED
  BY <1>1, <1>2, <1>3, <1>4, <1>5, <1>6, <1>7, <1>8 DEF DeviceNext, Main, Opening

\* An event that waits is the last about its device, and says where that is now.
LEMMA EventWaits ==
  ASSUME HotplugInv, NEW e \in {"connected", "disconnected"} \X Ids,
         raw' = Append(raw, e),
         \A x \in Ids : x # e[2] => (x \in BusIds' <=> x \in BusIds),
         e[1] = "connected" <=> e[2] \in BusIds'
  PROVE  /\ raw' \in Seq({"connected", "disconnected"} \X Ids)
         /\ \A i \in DOMAIN raw' :
              (\A j \in DOMAIN raw' : raw'[j][2] = raw'[i][2] => j <= i)
                => (raw'[i][1] = "connected" <=> raw'[i][2] \in BusIds')
<1> DEFINE E == {"connected", "disconnected"} \X Ids
           n == Len(raw)
<1>1. raw \in Seq(E) /\ n \in Nat /\ DOMAIN raw = 1..n /\ \A i \in 1..n : raw[i] \in E
  BY LenProperties DEF HotplugInv
<1> HIDE DEF E
<1>2. /\ raw' \in Seq(E) /\ Len(raw') = n + 1 /\ raw'[n + 1] = e
      /\ \A i \in 1..n : raw'[i] = raw[i]
  <2>1. e \in E
    BY DEF E
  <2> QED
    BY <1>1, <2>1, AppendProperties
<1> HIDE DEF n
<1>3. DOMAIN raw' = 1..(n + 1)
  BY <1>2, LenProperties
<1>4. ASSUME NEW i \in DOMAIN raw', \A j \in DOMAIN raw' : raw'[j][2] = raw'[i][2] => j <= i
      PROVE  raw'[i][1] = "connected" <=> raw'[i][2] \in BusIds'
  <2>1. CASE i = n + 1
    BY <1>2, <2>1
  <2>2. CASE i # n + 1
    <3>1. i \in 1..n /\ raw'[i] = raw[i] /\ ~(n + 1 <= i) /\ n + 1 \in DOMAIN raw'
      BY <1>1, <1>2, <1>3, <2>2
    <3>2. raw[i][2] # e[2] /\ raw[i][2] \in Ids
      BY <1>1, <1>2, <1>4, <3>1 DEF E
    <3>3. \A j \in 1..n : raw[j][2] = raw[i][2] => j <= i
      BY <1>1, <1>2, <1>3, <1>4, <3>1, SMTT(20)
    <3>4. raw[i][1] = "connected" <=> raw[i][2] \in BusIds
      BY <1>1, <3>1, <3>3 DEF HotplugInv
    <3>5. raw[i][2] \in BusIds' <=> raw[i][2] \in BusIds
      BY <3>2
    <3> QED
      BY <3>1, <3>4, <3>5, SMTT(20)
  <2> QED
    BY <2>1, <2>2
<1> QED
  BY <1>2, <1>4 DEF E

\* Taken together, the events that waited give the bus as it is.
LEMMA ListedIsThere ==
  ASSUME HotplugInv
  PROVE  FoldLeft(Translate, BusIds, raw) = BusIds
<1> DEFINE n == Len(raw)
<1>1. n \in Nat /\ DOMAIN raw = 1..n
  BY LenProperties DEF HotplugInv
<1>2. FoldLeft(Translate, BusIds, raw) = LastSaid(raw, 1..n, BusIds)
  BY <1>1, FoldTranslate
<1> HIDE DEF n
<1>3. \A i \in 1..n :
        (\A j \in 1..n : raw[j][2] = raw[i][2] => j <= i)
          => (raw[i][1] = "connected" <=> raw[i][2] \in BusIds)
  BY <1>1 DEF HotplugInv
<1>4. ASSUME NEW x PROVE x \in LastSaid(raw, 1..n, BusIds) <=> x \in BusIds
  <2>1. CASE \A i \in 1..n : raw[i][2] # x
    BY <2>1 DEF LastSaid
  <2>2. CASE \E i \in 1..n : raw[i][2] = x
    <3> DEFINE T == {i \in 1..n : raw[i][2] = x}
               m == Max(T)
    <3>1. T \subseteq 1..n /\ T # {}
      BY <2>2
    <3>2. m \in T /\ \A j \in T : j <= m
      <4> HIDE DEF T
      <4> QED
        BY <1>1, <3>1, MaxOf, Zenon
    <3> HIDE DEF m
    <3>3. m \in 1..n /\ raw[m][2] = x /\ \A j \in 1..n : raw[j][2] = x => j <= m
      BY <3>2
    <3>4. raw[m][1] = "connected" <=> x \in BusIds
      BY <1>3, <3>3
    <3>5. \A i \in 1..n : raw[i][2] = x /\ (\A j \in 1..n : raw[j][2] = x => j <= i) => i = m
      BY <1>1, <3>3
    <3> QED
      BY <3>3, <3>4, <3>5, SMTT(20) DEF LastSaid
  <2> QED
    BY <2>1, <2>2
<1> QED
  BY <1>2, <1>4, Zenon

\* nusb's report of a change of the bus keeps the map and the events right.
LEMMA Reported ==
  ASSUME BusInv, HotplugInv, NEW e \in {"connected", "disconnected"} \X Ids, Report(e),
         main' = main, BusIds' = Translate(BusIds, e)
  PROVE  HotplugInv'
<1>1. /\ \A x \in Ids : x # e[2] => (x \in BusIds' <=> x \in BusIds)
      /\ e[1] = "connected" <=> e[2] \in BusIds'
  BY DEF Translate
<1>2. CASE ~watching /\ UNCHANGED plugVars
  <2>1. main # "list" /\ raw = <<>> /\ raw' = <<>> /\ watching' = watching
    BY <1>2 DEF HotplugInv, plugVars
  <2>2. raw' \in Seq({"connected", "disconnected"} \X Ids)
    BY <2>1
  <2>3. DOMAIN raw' = {}
    BY <2>1
  <2> QED
    BY <1>2, <2>1, <2>2, <2>3 DEF HotplugInv
<1>3. CASE watching /\ main = "list" /\ raw' = Append(raw, e) /\ UNCHANGED <<watching, ids, events>>
  <2>1. /\ raw' \in Seq({"connected", "disconnected"} \X Ids)
        /\ \A i \in DOMAIN raw' :
              (\A j \in DOMAIN raw' : raw'[j][2] = raw'[i][2] => j <= i)
                => (raw'[i][1] = "connected" <=> raw'[i][2] \in BusIds')
    BY <1>1, <1>3, EventWaits
  <2> QED
    BY <1>3, <2>1, SMTT(20) DEF HotplugInv
<1>4. CASE watching /\ main # "list" /\ ids' = Translate(ids, e) /\ UNCHANGED <<watching, raw>>
  <2>1. raw = <<>> /\ raw' = <<>> /\ ids = BusIds
    BY <1>4 DEF HotplugInv
  <2>2. raw' \in Seq({"connected", "disconnected"} \X Ids)
    BY <2>1
  <2>3. DOMAIN raw' = {}
    BY <2>1
  <2> QED
    BY <1>4, <2>1, <2>2, <2>3 DEF HotplugInv
<1> QED
  BY <1>2, <1>3, <1>4 DEF Report

\* The map is right from the first moment on.
LEMMA HotplugStep == DInv /\ [DeviceNext]_allVars => HotplugInv'
<1> SUFFICES ASSUME DInv, [DeviceNext]_allVars PROVE HotplugInv'
  OBVIOUS
<1>0. BusInv /\ HotplugInv
  BY DEF DInv
<1>f. ASSUME UNCHANGED <<watching, raw, ids>>, BusIds' = BusIds,
             main' = main \/ (main \notin {"start", "list"} /\ main' \notin {"start", "list"})
      PROVE  HotplugInv'
  BY <1>0, <1>f DEF HotplugInv
<1>1. ASSUME NEW k \in Kinds, Attach(k) PROVE HotplugInv'
  <2>1. attached' \in Ids /\ BusIds' = BusIds \cup {attached'}
    BY <1>0, <1>1, Attached, SMTT(20)
  <2>2. Report(<<"connected", attached'>>) /\ main' = main
    BY <1>1 DEF Attach, scanVars
  <2> DEFINE e == <<"connected", attached'>>
  <2>3. e \in {"connected", "disconnected"} \X Ids /\ BusIds' = Translate(BusIds, e)
    BY <2>1 DEF Translate
  <2> HIDE DEF e
  <2>4. Report(e)
    BY <2>2 DEF e
  <2> QED
    BY <1>0, <2>2, <2>3, <2>4, Reported
<1>2. ASSUME NEW n \in DOMAIN bus, Detach(n) PROVE HotplugInv'
  <2>1. bus[n].id \in Ids /\ BusIds' = BusIds \ {bus[n].id}
    BY <1>0, <1>2, Detached
  <2>2. Report(<<"disconnected", bus[n].id>>) /\ main' = main
    BY <1>2 DEF Detach, scanVars
  <2> DEFINE e == <<"disconnected", bus[n].id>>
  <2>3. e \in {"connected", "disconnected"} \X Ids /\ BusIds' = Translate(BusIds, e)
    BY <2>1 DEF Translate
  <2> HIDE DEF e
  <2>4. Report(e)
    BY <2>2 DEF e
  <2> QED
    BY <1>0, <2>2, <2>3, <2>4, Reported
<1>b. UNCHANGED busVars => BusIds' = BusIds
  BY DEF busVars, BusIds
<1>3. CASE Watch
  <2>1. /\ UNCHANGED <<raw, ids>> /\ main = "start" /\ raw = <<>> /\ BusIds' = BusIds
        /\ raw \in Seq({"connected", "disconnected"} \X Ids)
    BY <1>0, <1>3, <1>b DEF Watch, HotplugInv
  <2>2. \/ main' = "list" /\ watching' = TRUE
        \/ main' = "scan" /\ watching' = watching
    BY <1>3 DEF Watch
  <2>3. DOMAIN raw' = {}
    BY <2>1
  <2>4. ~watching /\ watching \in BOOLEAN
    BY <1>0, <2>1, Zenon DEF HotplugInv
  <2>5. CASE main' = "list" /\ watching' = TRUE
    BY <2>1, <2>3, <2>5 DEF HotplugInv
  <2>6. CASE main' = "scan" /\ watching' = watching
    BY <2>1, <2>3, <2>4, <2>6 DEF HotplugInv
  <2> QED
    BY <2>2, <2>5, <2>6, Zenon
<1>4. CASE List
  <2>1. main' = "scan" /\ raw' = <<>> /\ BusIds' = BusIds
    BY <1>4, <1>b DEF List
  <2>2. (ids' = BusIds /\ watching' = watching) \/ watching' = FALSE
    BY <1>0, <1>4, ListedIsThere, Zenon DEF List
  <2>3. raw' \in Seq({"connected", "disconnected"} \X Ids) /\ DOMAIN raw' = {}
    BY <2>1
  <2> QED
    BY <1>0, <2>1, <2>2, <2>3, Zenon DEF HotplugInv
<1>5. CASE Configure \/ SetAlt
  BY <1>5, <1>f, Reconfigured, AltSet DEF Configure, SetAlt, Goes, Fails, plugVars
<1>6. CASE Scan \/ Inspect \/ Idle \/ Wait \/ Release
  BY <1>6, <1>b, <1>f, ZenonT(30) DEF Scan, Inspect, Idle, Wait, Release, plugVars
<1>7. CASE OpenDevice \/ Claim \/ Control \/ BroughtUp \/ Endpoints \/ SessionOver
  BY <1>7, <1>b, <1>f DEF OpenDevice, Claim, Control, BroughtUp, Endpoints, SessionOver, Goes, Fails,
                    busVars, plugVars
<1>8. CASE Transaction \/ UseIt \/ Time \/ Phone \/ UNCHANGED allVars
  BY <1>8, <1>b, <1>f DEF Transaction, UseIt, Time, Phone, allVars, plugVars, scanVars
<1> QED
  BY <1>1, <1>2, <1>3, <1>4, <1>5, <1>6, <1>7, <1>8 DEF DeviceNext, Main, Opening

\* At the start nothing was listed, reported or opened.
LEMMA InitDInv == DeviceInit => DInv
<1> SUFFICES ASSUME DeviceInit PROVE DInv
  OBVIOUS
<1>1. bus = <<>> /\ raw = <<>> /\ attached = 0 /\ main = "start" /\ watching = FALSE
  BY DEF DeviceInit
<1>2. DOMAIN bus = {} /\ DOMAIN raw = {}
  BY <1>1
<1>3. bus \in Seq(Attachment) /\ raw \in Seq({"connected", "disconnected"} \X Ids)
  BY <1>1
<1>4. BusInv
  BY <1>1, <1>2, <1>3, DeviceAssumption DEF BusInv
<1>5. HotplugInv
  BY <1>1, <1>2, <1>3, Zenon DEF HotplugInv
<1>6. AltInv /\ OpenInv
  BY <1>1, <1>2 DEF AltInv, OpenInv, Held
<1> QED
  BY <1>4, <1>5, <1>6 DEF DInv

\* No two devices ever share an id, and what run() and the hotplug thread know of
\* them is kept as DInv says.
THEOREM DeviceInv == DeviceSpec => []DInv
<1>1. DInv /\ [DeviceNext]_allVars => DInv'
  BY BusStep, HotplugStep, AltStep, OpenStep DEF DInv
<1> QED
  BY <1>1, InitDInv, PTL DEF DeviceSpec

\* The hotplug thread knows the devices on the bus and no others, for any number
\* of them, however plugging and the two calls of watch() interleave.
THEOREM MapIsTheBus == DeviceSpec => []DisconnectsResolved
<1>1. DInv => DisconnectsResolved
  BY DEF DInv, HotplugInv, DisconnectsResolved
<1> QED
  BY <1>1, DeviceInv, PTL

\* If find_rndis finds what the devices on the bus mean, open() has set up the
\* device it was found in, whatever was plugged in or pulled out meanwhile.
THEOREM OpenedIsFound == DeviceSpec => [](FoundAsMeant => OpenedAsFound)
<1>1. DInv => (FoundAsMeant => OpenedAsFound)
  <2> SUFFICES ASSUME DInv, FoundAsMeant,
                      main \in {"bringup", "endpoints", "session"}, Connected
               PROVE  LET d == bus[At(found.id)] IN
                      /\ <<found.function>> = d.kind.means
                      /\ d.config = found.function.config /\ d.alt = found.function.alt
    BY DEF OpenedAsFound
  <2> DEFINE n == At(found.id)
  <2>1. main \in Held
    BY DEF Held
  <2>2. /\ n \in DOMAIN bus /\ bus[n].id = found.id
        /\ RndisOf[bus[n].kind] = <<found.function>>
    BY <2>1, InHand, SMTT(20)
  <2> HIDE DEF n
  <2>3. bus[n].config = found.function.config /\ bus[n].alt = found.function.alt
    BY <2>1, <2>2 DEF DInv, OpenInv
  <2>4. RndisOf[bus[n].kind] = bus[n].kind.means
    BY <2>2 DEF FoundAsMeant
  <2> QED
    BY <2>2, <2>3, <2>4, SMTT(20) DEF n
<1> QED
  BY <1>1, DeviceInv, PTL

-----------------------------------------------------------------------------
(* What is found                                                           *)

\* What a device means is the first function its descriptors describe: the first
\* configuration's first control interface that has a data interface with a bulk
\* pair where its Union descriptor, or else the next number, says.
KindsDescribed ==
  \A k \in Kinds : k.configs \in Seq(ConfigDescriptor) /\ k.means = Meaning(k.configs)

LEMMA DescribedIsFound ==
  ASSUME KindsDescribed, BusInv
  PROVE  FoundAsMeant
<1> SUFFICES ASSUME NEW i \in DOMAIN bus
             PROVE  RndisOf[bus[i].kind] = bus[i].kind.means
  BY Zenon DEF FoundAsMeant
<1>1. bus[i].kind \in Kinds
  BY OnTheBus, Zenon
<1> DEFINE k == bus[i].kind
<1>2. RndisOf[k] = FindRndis(k.configs)
  BY <1>1, Zenon DEF RndisOf
<1>3. k.configs \in Seq(ConfigDescriptor) /\ k.means = Meaning(k.configs)
  BY <1>1, Zenon DEF KindsDescribed
<1>4. FindRndis(k.configs) = Meaning(k.configs)
  BY <1>3, FindsFirstFunction, Zenon
<1> QED
  BY <1>2, <1>3, <1>4, Zenon

\* In every device that is ever plugged in, whatever its descriptors say, find_rndis
\* finds the first function they describe and no other, and nothing where they
\* describe none.
THEOREM FoundIsMeant == KindsDescribed => (DeviceSpec => []FoundAsMeant)
<1> SUFFICES ASSUME KindsDescribed PROVE DeviceSpec => []FoundAsMeant
  OBVIOUS
<1>1. DInv => FoundAsMeant
  BY DescribedIsFound DEF DInv
<1> QED
  BY <1>1, DeviceInv, PTL

\* And so the RNDIS messages go to the function the device in hand describes first.
THEOREM OpenedIsMeant == KindsDescribed => (DeviceSpec => []OpenedAsFound)
<1> SUFFICES ASSUME KindsDescribed PROVE DeviceSpec => []OpenedAsFound
  OBVIOUS
<1>1. DeviceSpec => []FoundAsMeant
  BY FoundIsMeant
<1> QED
  BY <1>1, OpenedIsFound, PTL
=============================================================================
