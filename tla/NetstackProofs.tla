---------------------------- MODULE NetstackProofs ----------------------------
(***************************************************************************)
(* Proofs about Netstack and Frames: a transfer is read without leaving it, *)
(* what packet::append wrote is what next_frame() returns, and a transfer   *)
(* of any number of messages is understood as it was sent.                  *)
(***************************************************************************)
EXTENDS Netstack, FiniteSetTheorems, SequenceTheorems, TLAPS

-----------------------------------------------------------------------------
(* Reading and writing RNDIS messages                                      *)

\* next() returns a frame at this offset.
Readable(t, p) == ~Exhausted(t, p) /\ WellFormed(t, p)

\* What the walk goes on with after k messages.
Start(t, k) == IF k = 0 THEN 0 ELSE After(t, t.sent[k].at)

\* What should become of a message s is what its frame calls for.
AsFramed(s, f, n) ==
  \/ s.what = "nothing" /\ NotForUs(f, n)
  \/ /\ s.what \in {"arp", "dhcp", "tunnel"} /\ ~NotForUs(f, n)
     /\ \/ s.what = "arp" /\ f.type = "ARP" /\ s.parsed = NoMessage
        \/ /\ s.what = "dhcp" /\ f.type = "IPv4" /\ IsDhcp(f.payload, n - HEADER_LEN)
           /\ LET udp == UdpPayload(f.payload)
              IN  s.parsed = ParseDhcp(f.payload.message, udp.to - udp.from)
        \/ /\ s.what = "tunnel" /\ f.type = "IPv4" /\ ~IsDhcp(f.payload, n - HEADER_LEN)
           /\ s.parsed = NoMessage

\* The phone's records of a transfer are true: its messages follow one another from
\* the first byte, a good one can be read and calls for what is said of it, and
\* where the first bad one or the end is, nothing can be read.
Recorded(t) ==
  /\ Len(t.sent) \in Nat /\ DOMAIN t.sent = 1..Len(t.sent)
  /\ \A i \in 1..Len(t.sent) :
       (\A j \in 1..(i - 1) : t.sent[j].good) =>
         /\ t.sent[i].at = Start(t, i - 1)
         /\ t.sent[i].good = Readable(t, t.sent[i].at)
         /\ t.sent[i].good => LET h == HeaderAt(t, t.sent[i].at)
                              IN  AsFramed(t.sent[i], h.frame, h.dataLen)
  /\ (\A i \in 1..Len(t.sent) : t.sent[i].good) => ~Readable(t, Start(t, Len(t.sent)))

\* A message that is read lies in the transfer, and its frame in the message.
LEMMA ReadInside ==
  ASSUME NEW t, HeadersTyped(t), NEW p \in Nat, Readable(t, p)
  PROVE  /\ p \in DOMAIN t.at /\ HeaderAt(t, p) = t.at[p]
         /\ After(t, p) \in Nat /\ After(t, p) >= p + DATA_HEADER_LEN /\ After(t, p) <= t.len
         /\ Slice(t, p).from >= p + OFFSET_BASE
         /\ Slice(t, p).from <= Slice(t, p).to /\ Slice(t, p).to <= After(t, p)
<1>1. p \in DOMAIN t.at /\ HeaderAt(t, p) = t.at[p]
  BY DEF Readable, WellFormed, HeaderAt
<1> DEFINE h == t.at[p]
<1>2. h.msgLen \in Nat /\ h.dataOffset \in Nat /\ h.dataLen \in Nat /\ t.len \in Nat
  BY <1>1 DEF HeadersTyped
<1>3. /\ h.msgLen >= DATA_HEADER_LEN /\ h.msgLen <= t.len - p
      /\ OFFSET_BASE + h.dataOffset + h.dataLen <= h.msgLen
  BY <1>1 DEF Readable, WellFormed
<1> QED
  BY <1>1, <1>2, <1>3 DEF After, Slice, DATA_HEADER_LEN, OFFSET_BASE

\* A padded length is no shorter.
LEMMA PaddedLonger ==
  ASSUME NEW n \in Nat, NEW a \in Nat
  PROVE  Padded(n, a) \in Nat /\ Padded(n, a) >= n
<1>1. CASE a = 0
  BY <1>1 DEF Padded
<1>2. CASE a > 0
  <2>1. ((n + a - 1) \div a) * a >= n
    BY <1>2
  <2>2. ((n + a - 1) \div a) * a \in Nat
    BY <1>2
  <2> QED
    BY <1>2, <2>1, <2>2 DEF Padded
<1> QED
  BY <1>1, <1>2

\* u is t with a message appended, and pad bytes of padding.
Appended(t, frame, n, a, pad, u) ==
  /\ u.len = AppendFrame(t, frame, n, a).len + pad
  /\ u.at = AppendFrame(t, frame, n, a).at

\* The appended message is read as a frame of the same n bytes right behind its
\* header, the next one starts where the padding does, and the messages of t are
\* read as before.
ReadBack(t, frame, n, pad, u) ==
  /\ HeadersTyped(u)
  /\ Readable(u, t.len)
  /\ HeaderAt(u, t.len).frame = frame /\ HeaderAt(u, t.len).dataLen = n
  /\ Slice(u, t.len) = [from |-> t.len + DATA_HEADER_LEN, to |-> t.len + DATA_HEADER_LEN + n]
  /\ After(u, t.len) + pad = u.len
  /\ \A p \in Nat : Readable(t, p) => Readable(u, p) /\ HeaderAt(u, p) = HeaderAt(t, p)

\* What packet::append wrote at the end of a transfer, next_frame() reads there,
\* whatever the frame's length and the device's alignment are.
THEOREM AppendedIsRead ==
  ASSUME NEW t, HeadersTyped(t), NEW frame, NEW n \in Nat, NEW a \in Nat,
         NEW u, NEW pad \in Nat, Appended(t, frame, n, a, pad, u)
  PROVE  ReadBack(t, frame, n, pad, u)
<1> DEFINE m == Padded(DATA_HEADER_LEN + n, a)
           h == [type |-> "PACKET", msgLen |-> m,
                 dataOffset |-> DATA_HEADER_LEN - OFFSET_BASE, dataLen |-> n, frame |-> frame]
<1>1. m \in Nat /\ m >= DATA_HEADER_LEN + n
  <2>1. DATA_HEADER_LEN + n \in Nat
    BY DEF DATA_HEADER_LEN
  <2> QED
    BY <2>1, PaddedLonger, Zenon
<1> HIDE DEF m
<1>2. t.len \in Nat /\ u.len = t.len + m + pad
  <2>1. AppendFrame(t, frame, n, a).len = t.len + m
    BY Zenon DEF AppendFrame, m
  <2> QED
    BY <1>1, <2>1 DEF HeadersTyped, Appended
<1>3. u.at = [p \in DOMAIN t.at \cup {t.len} |-> IF p = t.len THEN h ELSE t.at[p]]
  BY DEF Appended, AppendFrame, m
<1>4. HeaderAt(u, t.len) = h
  BY <1>3 DEF HeaderAt
<1>5. \A p \in DOMAIN t.at : p # t.len => u.at[p] = t.at[p]
  BY <1>3
<1>6. HeadersTyped(u)
  <2>1. u.len \in Nat
    BY <1>1, <1>2
  <2>2. ASSUME NEW p \in DOMAIN u.at
        PROVE  p \in Nat /\ u.at[p].msgLen \in Nat /\ u.at[p].dataOffset \in Nat /\ u.at[p].dataLen \in Nat
    <3>1. CASE p = t.len
      BY <1>1, <1>2, <1>3, <3>1 DEF DATA_HEADER_LEN, OFFSET_BASE
    <3>2. CASE p # t.len
      BY <1>3, <1>5, <2>2, <3>2 DEF HeadersTyped
    <3> QED
      BY <3>1, <3>2
  <2> QED
    BY <2>1, <2>2 DEF HeadersTyped
<1>7. Readable(u, t.len)
  BY <1>1, <1>2, <1>4 DEF Readable, Exhausted, WellFormed, DATA_HEADER_LEN, OFFSET_BASE
<1>8. Slice(u, t.len) = [from |-> t.len + DATA_HEADER_LEN, to |-> t.len + DATA_HEADER_LEN + n]
  BY <1>1, <1>2, <1>4 DEF Slice, DATA_HEADER_LEN, OFFSET_BASE
<1>9. After(u, t.len) + pad = u.len
  BY <1>1, <1>2, <1>4 DEF After
<1>10. ASSUME NEW p \in Nat, Readable(t, p)
       PROVE  Readable(u, p) /\ HeaderAt(u, p) = HeaderAt(t, p)
  <2>1. /\ p \in DOMAIN t.at /\ After(t, p) <= t.len /\ After(t, p) >= p + DATA_HEADER_LEN
        /\ After(t, p) \in Nat
    BY <1>10, ReadInside
  <2>2. p # t.len
    BY <1>2, <2>1 DEF DATA_HEADER_LEN
  <2>3. HeaderAt(u, p) = HeaderAt(t, p)
    BY <1>3, <1>5, <2>1, <2>2 DEF HeaderAt
  <2>4. HeaderAt(t, p).msgLen \in Nat
    BY <2>1 DEF HeaderAt, HeadersTyped
  <2> QED
    BY <1>1, <1>2, <1>10, <2>3, <2>4 DEF Readable, Exhausted, WellFormed, DATA_HEADER_LEN
<1> QED
  BY <1>4, <1>6, <1>7, <1>8, <1>9, <1>10 DEF ReadBack

\* A transfer of good messages up to its last byte.
Whole(t) ==
  /\ HeadersTyped(t) /\ Recorded(t)
  /\ \A i \in 1..Len(t.sent) : t.sent[i].good
  /\ Start(t, Len(t.sent)) = t.len

\* An empty transfer is one.
LEMMA NothingIsWhole == Whole(NoTransfer)
<1>1. /\ NoTransfer.len = 0 /\ NoTransfer.sent = <<>> /\ Len(NoTransfer.sent) = 0
      /\ DOMAIN NoTransfer.sent = 1..0 /\ DOMAIN NoTransfer.at = {}
  BY DEF NoTransfer
<1>2. HeadersTyped(NoTransfer)
  BY <1>1 DEF HeadersTyped
<1>3. Exhausted(NoTransfer, 0) /\ Start(NoTransfer, 0) = 0
  BY <1>1 DEF Exhausted, Start, DATA_HEADER_LEN
<1>4. Recorded(NoTransfer)
  BY <1>1, <1>3 DEF Recorded, Readable
<1> QED
  BY <1>1, <1>2, <1>3, <1>4 DEF Whole

\* A sender that writes its messages with packet::append, and perhaps less than a
\* header of padding at the end, makes transfers whose records are true: the
\* hypothesis of TransfersUnderstood is one that senders meet.
THEOREM AppendedIsRecorded ==
  ASSUME NEW t, Whole(t), NEW S, t.sent \in Seq(S),
         NEW frame, NEW n \in Nat, NEW a \in Nat,
         NEW s \in S, s.at = t.len, s.good = TRUE, AsFramed(s, frame, n),
         NEW u, NEW pad \in Nat, pad < DATA_HEADER_LEN, Appended(t, frame, n, a, pad, u),
         u.sent = Append(t.sent, s)
  PROVE  Recorded(u) /\ (pad = 0 => Whole(u))
<1> DEFINE L == Len(t.sent)
<1>1. /\ HeadersTyped(t) /\ L \in Nat
      /\ Start(t, L) = t.len
  BY DEF Whole, Recorded
<1>2. /\ HeadersTyped(u) /\ Readable(u, t.len)
      /\ HeaderAt(u, t.len).frame = frame /\ HeaderAt(u, t.len).dataLen = n
      /\ After(u, t.len) + pad = u.len
      /\ \A p \in Nat : Readable(t, p) => Readable(u, p) /\ HeaderAt(u, p) = HeaderAt(t, p)
  <2>1. ReadBack(t, frame, n, pad, u)
    BY <1>1, AppendedIsRead, Zenon
  <2> QED
    BY <2>1 DEF ReadBack
<1>3. /\ Len(u.sent) = L + 1 /\ DOMAIN u.sent = 1..(L + 1)
      /\ u.sent[L + 1] = s
      /\ \A i \in 1..L : u.sent[i] = t.sent[i]
  BY AppendProperties
<1>4. ASSUME NEW i \in 1..L
      PROVE  /\ t.sent[i].at = Start(t, i - 1) /\ t.sent[i].at \in Nat
             /\ Readable(t, t.sent[i].at)
             /\ t.sent[i].good = TRUE
             /\ AsFramed(t.sent[i], HeaderAt(t, t.sent[i].at).frame, HeaderAt(t, t.sent[i].at).dataLen)
  <2>1. t.sent[i].good /\ \A j \in 1..(i - 1) : t.sent[j].good
    BY <1>1 DEF Whole
  <2>2. /\ t.sent[i].at = Start(t, i - 1)
        /\ t.sent[i].good = Readable(t, t.sent[i].at)
        /\ AsFramed(t.sent[i], HeaderAt(t, t.sent[i].at).frame, HeaderAt(t, t.sent[i].at).dataLen)
    BY <2>1, Zenon DEF Whole, Recorded
  <2>3. Readable(t, t.sent[i].at) \in BOOLEAN
    BY Zenon DEF Readable
  <2>4. t.sent[i].good = TRUE /\ Readable(t, t.sent[i].at)
    BY <2>1, <2>2, <2>3, Zenon
  <2>5. t.sent[i].at \in DOMAIN t.at
    BY <2>4 DEF Readable, WellFormed, HeaderAt
  <2> QED
    BY <1>1, <2>2, <2>4, <2>5 DEF HeadersTyped
<1>5. ASSUME NEW i \in 1..L
      PROVE  /\ Readable(u, t.sent[i].at)
             /\ HeaderAt(u, t.sent[i].at) = HeaderAt(t, t.sent[i].at)
             /\ After(u, t.sent[i].at) = After(t, t.sent[i].at)
  BY <1>2, <1>4, Zenon DEF After
<1>6. ASSUME NEW k \in 0..L
      PROVE  Start(u, k) = Start(t, k)
  <2>1. CASE k = 0
    BY <2>1, Zenon DEF Start
  <2>2. CASE k \in 1..L
    <3>1. u.sent[k] = t.sent[k] /\ k # 0
      BY <1>1, <1>3, <2>2
    <3> QED
      BY <1>5, <2>2, <3>1, Zenon DEF Start
  <2> QED
    BY <1>1, <2>1, <2>2
<1>7. \A i \in 1..(L + 1) : u.sent[i].good = TRUE
  <2>1. \A i \in 1..L : u.sent[i].good = TRUE
    BY <1>3, <1>4, Zenon
  <2> QED
    BY <1>1, <1>3, <2>1
<1>8. Start(u, L + 1) + pad = u.len
  BY <1>1, <1>2, <1>3 DEF Start
<1>9. Start(u, L + 1) \in Nat /\ u.len \in Nat
  <2>1. After(u, t.len) \in Nat
    BY <1>1, <1>2, ReadInside DEF HeadersTyped
  <2> QED
    BY <1>1, <1>2, <1>3, <2>1 DEF Start, HeadersTyped
<1>10. ~Readable(u, Start(u, L + 1))
  BY <1>8, <1>9 DEF Readable, Exhausted, DATA_HEADER_LEN
<1>11. ASSUME NEW i \in 1..(L + 1)
       PROVE  /\ u.sent[i].at = Start(u, i - 1)
              /\ Readable(u, u.sent[i].at)
              /\ AsFramed(u.sent[i], HeaderAt(u, u.sent[i].at).frame, HeaderAt(u, u.sent[i].at).dataLen)
  <2>1. CASE i = L + 1
    <3>1. u.sent[i] = s /\ Start(u, i - 1) = t.len
      BY <1>1, <1>3, <1>6, <2>1
    <3> QED
      BY <1>2, <3>1
  <2>2. CASE i \in 1..L
    <3>1. u.sent[i] = t.sent[i] /\ Start(u, i - 1) = Start(t, i - 1)
      BY <1>1, <1>3, <1>6, <2>2
    <3> QED
      BY <1>4, <1>5, <2>2, <3>1, Zenon
  <2> QED
    BY <1>1, <2>1, <2>2
<1>12. Recorded(u)
  <2>1. ASSUME NEW i \in 1..Len(u.sent)
        PROVE  /\ u.sent[i].at = Start(u, i - 1)
               /\ u.sent[i].good = Readable(u, u.sent[i].at)
               /\ AsFramed(u.sent[i], HeaderAt(u, u.sent[i].at).frame, HeaderAt(u, u.sent[i].at).dataLen)
    <3>1. Readable(u, u.sent[i].at) = TRUE
      <4>1. Readable(u, u.sent[i].at) \in BOOLEAN
        BY Zenon DEF Readable
      <4> QED
        BY <1>3, <1>11, <4>1, Zenon
    <3> QED
      BY <1>3, <1>7, <1>11, <3>1, Zenon
  <2>2. Len(u.sent) \in Nat /\ DOMAIN u.sent = 1..Len(u.sent)
    BY <1>1, <1>3
  <2> QED
    BY <1>3, <1>10, <2>1, <2>2, Zenon DEF Recorded
<1> QED
  BY <1>2, <1>3, <1>7, <1>8, <1>9, <1>12 DEF Whole

-----------------------------------------------------------------------------
(* The walk over a transfer                                                *)

\* The iterator stands in the transfer in hand, which the phone sent.
WalkInv ==
  /\ phone \in Mac
  /\ \E S : handled \in Seq(S)
  /\ pos # None => /\ \E m \in Mac : transfer \in Transfers[m]
                   /\ pos \in 0..transfer.len

\* What a round of the loop does with the frame of a message s it was told of.
HandledAs(s, h) ==
  /\ h.at = s.at /\ h.parsed = s.parsed
  /\ s.what = IF h.what = "reply" THEN "arp" ELSE h.what

\* A step that leaves a transfer in hand is one of the walk or leaves it alone.
LEMMA WalkSteps ==
  ASSUME [Next]_vars
  PROVE  \/ NextFrame
         \/ pos = None /\ \E t \in Transfers[phone] : Receive(t)
         \/ UNCHANGED <<transfer, pos, handled>> /\ (phone' = phone \/ phone' \in Mac)
<1>1. CASE TunnelUpOrDown
  BY <1>1, Zenon DEF TunnelUpOrDown, phoneVars
<1>2. CASE ReadPacket
  BY <1>2, Zenon DEF ReadPacket
<1>3. CASE Tick
  BY <1>3, Zenon DEF Tick, phoneVars
<1>4. CASE PhoneChangesMac
  <2>1. phone' \in Mac
    BY <1>4 DEF PhoneChangesMac
  <2> QED
    BY <1>4, <2>1, Zenon DEF PhoneChangesMac
<1>5. CASE UNCHANGED vars
  BY <1>5, Zenon DEF vars, phoneVars
<1> QED
  BY <1>1, <1>2, <1>3, <1>4, <1>5, Zenon DEF Next

\* A round that goes on goes on behind the message it read.
LEMMA RoundGoesOn ==
  ASSUME NextFrame
  PROVE  /\ pos # None /\ phone' = phone
         /\ \/ ~Readable(transfer, pos) /\ pos' = None /\ handled' = <<>>
            \/ /\ Readable(transfer, pos)
               /\ pos' = After(transfer, pos) /\ transfer' = transfer
               /\ Dispatch(HeaderAt(transfer, pos).frame, HeaderAt(transfer, pos).dataLen)
<1>1. pos # None /\ phone' = phone
  BY Zenon DEF NextFrame, phoneVars
<1>2. CASE ~Readable(transfer, pos)
  BY <1>1, <1>2, Zenon DEF NextFrame, Readable
<1>3. CASE Readable(transfer, pos)
  <2>1. /\ transfer' = transfer
        /\ Dispatch(HeaderAt(transfer, pos).frame, HeaderAt(transfer, pos).dataLen)
    BY <1>3, Zenon DEF NextFrame, Readable
  <2>2. pos' = After(transfer, pos)
    BY <2>1, Zenon DEF Dispatch, Ignore
  <2> QED
    BY <1>1, <1>3, <2>1, <2>2, Zenon
<1> QED
  BY <1>2, <1>3

\* A frame is passed over or one thing is made of it.
LEMMA OneThingMade ==
  ASSUME NEW f, NEW n, Dispatch(f, n)
  PROVE  \/ NotForUs(f, n) /\ handled' = handled
         \/ ~NotForUs(f, n) /\ \E what, parsed : Handled(what, parsed)
<1>1. CASE NotForUs(f, n)
  BY <1>1, Zenon DEF Dispatch, Ignore
<1>2. CASE ~NotForUs(f, n)
  <2>1. \/ HandleArp(f.payload) \/ HandleDhcp(f, f.payload) \/ Deliver
    BY <1>2, Zenon DEF Dispatch, Ignore
  <2> QED
    BY <1>2, <2>1, Zenon DEF HandleArp, HandleDhcp, Deliver
<1> QED
  BY <1>1, <1>2

\* The sequence of what was handled grows by one at the end.
LEMMA Grows ==
  ASSUME NEW what, NEW parsed, Handled(what, parsed), NEW S, handled \in Seq(S)
  PROVE  LET e == [at |-> pos, what |-> what, parsed |-> parsed] IN
         /\ handled' \in Seq(S \cup {e})
         /\ Len(handled') = Len(handled) + 1 /\ handled'[Len(handled) + 1] = e
         /\ \A i \in 1..Len(handled) : handled'[i] = handled[i]
<1> DEFINE e == [at |-> pos, what |-> what, parsed |-> parsed]
           T == S \cup {e}
<1>1. handled' = Append(handled, e)
  BY Zenon DEF Handled
<1>2. e \in T
  BY Zenon
<1>3. handled \in Seq(T)
  <2>1. S \subseteq T
    BY Zenon
  <2> HIDE DEF T
  <2> QED
    BY <2>1
<1> HIDE DEF e, T
<1>4. /\ handled' \in Seq(T) /\ Len(handled') = Len(handled) + 1
      /\ handled'[Len(handled) + 1] = e
      /\ \A i \in 1..Len(handled) : handled'[i] = handled[i]
  BY <1>1, <1>2, <1>3
<1> QED
  BY <1>4, Zenon DEF e, T

\* No transfer is in hand at the start.
LEMMA WalkInit == Init => WalkInv
<1> SUFFICES ASSUME Init PROVE WalkInv
  OBVIOUS
<1>1. handled \in Seq({})
  <2>1. handled = <<>>
    BY DEF Init
  <2> QED
    BY <2>1
<1> QED
  BY <1>1, Zenon DEF Init, WalkInv

\* Every step keeps the iterator in its transfer.
LEMMA WalkNext == WalkInv /\ [Next]_vars => WalkInv'
<1> SUFFICES ASSUME WalkInv, [Next]_vars PROVE WalkInv'
  OBVIOUS
<1>1. CASE NextFrame
  <2>1. phone' \in Mac /\ pos # None
    BY <1>1, RoundGoesOn DEF WalkInv
  <2>2. CASE ~Readable(transfer, pos)
    <3>1. pos' = None /\ handled' = <<>>
      BY <1>1, <2>2, RoundGoesOn, Zenon
    <3>2. handled' \in Seq({})
      BY <3>1
    <3> QED
      BY <2>1, <3>1, <3>2, Zenon DEF WalkInv
  <2>3. CASE Readable(transfer, pos)
    <3>1. /\ pos' = After(transfer, pos) /\ transfer' = transfer
          /\ Dispatch(HeaderAt(transfer, pos).frame, HeaderAt(transfer, pos).dataLen)
      BY <1>1, <2>3, RoundGoesOn, Zenon
    <3>2. PICK m \in Mac : transfer \in Transfers[m]
      BY <2>1, Zenon DEF WalkInv
    <3>3. HeadersTyped(transfer) /\ transfer.len \in Nat
      BY <3>2, NetstackAssumption, Zenon DEF HeadersTyped
    <3>4. pos \in Nat
      BY <2>1, <3>3 DEF WalkInv
    <3>5. pos' \in 0..transfer'.len
      BY <2>3, <3>1, <3>3, <3>4, ReadInside
    <3>6. \E S : handled' \in Seq(S)
      <4>1. PICK S : handled \in Seq(S)
        BY Zenon DEF WalkInv
      <4>2. CASE handled' = handled
        BY <4>1, <4>2, Zenon
      <4>3. ASSUME NEW what, NEW parsed, Handled(what, parsed)
            PROVE  \E T : handled' \in Seq(T)
        BY <4>1, <4>3, Grows, Zenon
      <4> QED
        BY <3>1, <4>2, <4>3, OneThingMade, Zenon
    <3> QED
      BY <2>1, <3>1, <3>2, <3>5, <3>6, Zenon DEF WalkInv
  <2> QED
    BY <2>2, <2>3
<1>2. CASE pos = None /\ \E t \in Transfers[phone] : Receive(t)
  <2>1. PICK t \in Transfers[phone] : Receive(t)
    BY <1>2, Zenon
  <2>2. transfer' = t /\ pos' = 0 /\ handled' = <<>> /\ phone' = phone /\ phone \in Mac
    BY <2>1, Zenon DEF Receive, WalkInv
  <2>3. HeadersTyped(t)
    BY <2>1, <2>2, NetstackAssumption, Zenon
  <2>4. pos' \in 0..transfer'.len
    BY <2>2, <2>3 DEF HeadersTyped
  <2>5. handled' \in Seq({})
    BY <2>2
  <2> QED
    BY <2>1, <2>2, <2>4, <2>5, Zenon DEF WalkInv
<1>3. CASE UNCHANGED <<transfer, pos, handled>> /\ (phone' = phone \/ phone' \in Mac)
  BY <1>3, Zenon DEF WalkInv
<1> QED
  BY <1>1, <1>2, <1>3, WalkSteps, Zenon

\* Every round that goes on reads a frame that lies inside its message and its
\* message inside the transfer, and moves the iterator on by a header at least: a
\* walk over n bytes is over after n \div 44 rounds (Packets::next, next_frame).
RoundsInside ==
  [][pos # None /\ pos' # None /\ pos' # pos =>
      /\ Slice(transfer, pos).from >= pos + OFFSET_BASE
      /\ Slice(transfer, pos).from <= Slice(transfer, pos).to
      /\ Slice(transfer, pos).to <= pos'
      /\ pos' >= pos + DATA_HEADER_LEN /\ pos' <= transfer.len]_vars

\* No transfer is read outside its bytes or for ever, whatever the words of its
\* headers say.
THEOREM ReadsInside == Spec => []WalkInv /\ RoundsInside
<1>1. WalkInv /\ [Next]_vars =>
        [pos # None /\ pos' # None /\ pos' # pos =>
          /\ Slice(transfer, pos).from >= pos + OFFSET_BASE
          /\ Slice(transfer, pos).from <= Slice(transfer, pos).to
          /\ Slice(transfer, pos).to <= pos'
          /\ pos' >= pos + DATA_HEADER_LEN /\ pos' <= transfer.len]_vars
  <2> SUFFICES ASSUME WalkInv, [Next]_vars, pos # None, pos' # None, pos' # pos
               PROVE  /\ Slice(transfer, pos).from >= pos + OFFSET_BASE
                      /\ Slice(transfer, pos).from <= Slice(transfer, pos).to
                      /\ Slice(transfer, pos).to <= pos'
                      /\ pos' >= pos + DATA_HEADER_LEN /\ pos' <= transfer.len
    BY Zenon
  <2>1. NextFrame
    BY WalkSteps, Zenon
  <2>2. Readable(transfer, pos) /\ pos' = After(transfer, pos)
    BY <2>1, RoundGoesOn, Zenon
  <2>3. PICK m \in Mac : transfer \in Transfers[m]
    BY Zenon DEF WalkInv
  <2>4. HeadersTyped(transfer) /\ transfer.len \in Nat
    BY <2>3, NetstackAssumption, Zenon DEF HeadersTyped
  <2>5. pos \in Nat
    BY <2>4 DEF WalkInv
  <2> QED
    BY <2>2, <2>4, <2>5, ReadInside
<1> QED
  BY <1>1, WalkInit, WalkNext, PTL DEF Spec, RoundsInside

-----------------------------------------------------------------------------
(* What is made of a transfer                                              *)

\* The messages among the first k that something should become of.
MeantTo(t, k) == {i \in 1..k : t.sent[i].what # "nothing"}

\* Counting them one by one.
LEMMA Counting ==
  ASSUME NEW t, NEW k \in Nat
  PROVE  /\ IsFiniteSet(MeantTo(t, k)) /\ Cardinality(MeantTo(t, k)) \in Nat
         /\ \A i \in MeantTo(t, k) :
              Cardinality(MeantTo(t, i)) \in 1..Cardinality(MeantTo(t, k))
         /\ Cardinality(MeantTo(t, k + 1)) =
              IF t.sent[k + 1].what = "nothing" THEN Cardinality(MeantTo(t, k))
              ELSE Cardinality(MeantTo(t, k)) + 1
<1>1. ASSUME NEW j \in Nat
      PROVE  IsFiniteSet(MeantTo(t, j)) /\ Cardinality(MeantTo(t, j)) \in Nat
  <2>1. IsFiniteSet(1..j)
    BY FS_Interval
  <2>2. MeantTo(t, j) \subseteq 1..j
    BY DEF MeantTo
  <2> QED
    BY <2>1, <2>2, FS_Subset, FS_CardinalityType
<1>2. ASSUME NEW i \in MeantTo(t, k)
      PROVE  Cardinality(MeantTo(t, i)) \in 1..Cardinality(MeantTo(t, k))
  <2>1. i \in Nat /\ i \in MeantTo(t, i) /\ MeantTo(t, i) \subseteq MeantTo(t, k)
    BY DEF MeantTo
  <2>2. Cardinality(MeantTo(t, i)) <= Cardinality(MeantTo(t, k))
    BY <1>1, <2>1, FS_Subset
  <2>3. Cardinality(MeantTo(t, i)) # 0
    BY <1>1, <2>1, FS_EmptySet
  <2> QED
    BY <1>1, <2>1, <2>2, <2>3
<1>3. CASE t.sent[k + 1].what = "nothing"
  <2>1. MeantTo(t, k + 1) = MeantTo(t, k)
    BY <1>3 DEF MeantTo
  <2> QED
    BY <1>1, <1>2, <1>3, <2>1
<1>4. CASE t.sent[k + 1].what # "nothing"
  <2>1. MeantTo(t, k + 1) = MeantTo(t, k) \cup {k + 1} /\ k + 1 \notin MeantTo(t, k)
    BY <1>4 DEF MeantTo
  <2>2. Cardinality(MeantTo(t, k + 1)) = Cardinality(MeantTo(t, k)) + 1
    BY <1>1, <2>1, FS_AddElement
  <2> QED
    BY <1>1, <1>2, <1>4, <2>2
<1> QED
  BY <1>3, <1>4

\* The walk over t stands behind k good messages, all handled as they should be.
Through(t, p, done, k) ==
  /\ k \in 0..Len(t.sent)
  /\ \A j \in 1..k : t.sent[j].good
  /\ p = Start(t, k)
  /\ Len(done) = Cardinality(MeantTo(t, k))
  /\ \A i \in MeantTo(t, k) : HandledAs(t.sent[i], done[Cardinality(MeantTo(t, i))])

\* At any time it is so far through the transfer in hand.
ThroughInv == pos # None => \E k \in Nat : Through(transfer, pos, handled, k)

\* The phone's records of its transfers are true.
RecordsTrue == \A m \in Mac : \A t \in Transfers[m] : Recorded(t)

\* What is made of a frame is what the message's record says.
LEMMA MadeAsFramed ==
  ASSUME NEW f, NEW n, Dispatch(f, n), NEW s, AsFramed(s, f, n), s.at = pos
  PROVE  \/ s.what = "nothing" /\ handled' = handled
         \/ /\ s.what # "nothing"
            /\ \E what, parsed : /\ Handled(what, parsed)
                                 /\ HandledAs(s, [at |-> pos, what |-> what, parsed |-> parsed])
<1>1. CASE NotForUs(f, n)
  BY <1>1, Zenon DEF AsFramed, Dispatch, Ignore
<1>2. CASE ~NotForUs(f, n)
  <2>0. /\ s.what \in {"arp", "dhcp", "tunnel"}
        /\ \/ s.what = "arp" /\ f.type = "ARP" /\ s.parsed = NoMessage
           \/ /\ s.what = "dhcp" /\ f.type = "IPv4" /\ IsDhcp(f.payload, n - HEADER_LEN)
              /\ s.parsed = ParseDhcp(f.payload.message, UdpPayload(f.payload).to - UdpPayload(f.payload).from)
           \/ /\ s.what = "tunnel" /\ f.type = "IPv4" /\ ~IsDhcp(f.payload, n - HEADER_LEN)
              /\ s.parsed = NoMessage
    BY <1>2, Zenon DEF AsFramed
  <2>1. CASE f.type = "ARP"
    <3>1. HandleArp(f.payload)
      BY <1>2, <2>1 DEF Dispatch, Ignore
    <3>2. s.what = "arp" /\ s.parsed = NoMessage
      BY <2>0, <2>1
    <3>3. PICK what \in {"reply", "arp"} : Handled(what, NoMessage)
      BY <3>1 DEF HandleArp
    <3>4. HandledAs(s, [at |-> pos, what |-> what, parsed |-> NoMessage])
      BY <3>2, <3>3 DEF HandledAs
    <3> QED
      BY <3>2, <3>3, <3>4
  <2>2. CASE f.type = "IPv4" /\ IsDhcp(f.payload, n - HEADER_LEN)
    <3> DEFINE parsed == ParseDhcp(f.payload.message, UdpPayload(f.payload).to - UdpPayload(f.payload).from)
    <3>1. HandleDhcp(f, f.payload)
      BY <1>2, <2>2 DEF Dispatch, Ignore
    <3>2. s.what = "dhcp" /\ s.parsed = parsed
      BY <2>0, <2>2
    <3>3. Handled("dhcp", parsed)
      BY <3>1, Zenon DEF HandleDhcp
    <3> HIDE DEF parsed
    <3>4. HandledAs(s, [at |-> pos, what |-> "dhcp", parsed |-> parsed])
      BY <3>2 DEF HandledAs
    <3> QED
      BY <3>2, <3>3, <3>4
  <2>3. CASE f.type = "IPv4" /\ ~IsDhcp(f.payload, n - HEADER_LEN)
    <3>1. Handled("tunnel", NoMessage)
      BY <1>2, <2>3 DEF Dispatch, Ignore, Deliver
    <3>2. s.what = "tunnel" /\ s.parsed = NoMessage
      BY <2>0, <2>3
    <3>3. HandledAs(s, [at |-> pos, what |-> "tunnel", parsed |-> NoMessage])
      BY <3>2 DEF HandledAs
    <3> QED
      BY <3>1, <3>2, <3>3
  <2> QED
    BY <2>0, <2>1, <2>2, <2>3
<1> QED
  BY <1>1, <1>2

\* Behind k good messages a message can be read just if the next one is good.
LEMMA NextMessage ==
  ASSUME NEW t, Recorded(t), NEW k \in 0..Len(t.sent),
         \A j \in 1..k : t.sent[j].good, Readable(t, Start(t, k))
  PROVE  /\ k + 1 \in 1..Len(t.sent)
         /\ t.sent[k + 1].good /\ t.sent[k + 1].at = Start(t, k)
         /\ LET h == HeaderAt(t, Start(t, k))
            IN  AsFramed(t.sent[k + 1], h.frame, h.dataLen)
<1>1. Len(t.sent) \in Nat
  BY DEF Recorded
<1>2. k # Len(t.sent)
  BY Zenon DEF Recorded
<1>3. k + 1 \in 1..Len(t.sent) /\ (k + 1) - 1 = k
  BY <1>1, <1>2
<1>4. /\ t.sent[k + 1].at = Start(t, k)
      /\ t.sent[k + 1].good = Readable(t, t.sent[k + 1].at)
      /\ t.sent[k + 1].good => LET h == HeaderAt(t, t.sent[k + 1].at)
                               IN  AsFramed(t.sent[k + 1], h.frame, h.dataLen)
  <2>1. \A j \in 1..((k + 1) - 1) : t.sent[j].good
    BY <1>3, Zenon
  <2>2. Start(t, (k + 1) - 1) = Start(t, k)
    BY <1>3, Zenon
  <2> QED
    BY <1>3, <2>1, <2>2, Zenon DEF Recorded
<1>5. t.sent[k + 1].good
  BY <1>4, Zenon
<1> QED
  BY <1>3, <1>4, <1>5, Zenon

\* A round takes the walk one message further, and what was made of it is appended.
LEMMA ThroughNext ==
  RecordsTrue /\ WalkInv /\ ThroughInv /\ [Next]_vars => ThroughInv'
<1> SUFFICES ASSUME RecordsTrue, WalkInv, ThroughInv, [Next]_vars, pos' # None
             PROVE  \E k \in Nat : Through(transfer', pos', handled', k)
  BY Zenon DEF ThroughInv
<1>1. CASE NextFrame
  <2>1. /\ pos # None /\ Readable(transfer, pos)
        /\ pos' = After(transfer, pos) /\ transfer' = transfer
        /\ Dispatch(HeaderAt(transfer, pos).frame, HeaderAt(transfer, pos).dataLen)
    BY <1>1, RoundGoesOn, Zenon
  <2>2. PICK k \in Nat : Through(transfer, pos, handled, k)
    BY <2>1, Zenon DEF ThroughInv
  <2>3. Recorded(transfer)
    BY <2>1, Zenon DEF WalkInv, RecordsTrue
  <2> DEFINE t == transfer
             s == t.sent[k + 1]
             Done == /\ Len(handled') = Cardinality(MeantTo(t, k + 1))
                     /\ \A i \in MeantTo(t, k + 1) :
                          HandledAs(t.sent[i], handled'[Cardinality(MeantTo(t, i))])
  <2>4. /\ k + 1 \in 1..Len(t.sent) /\ s.good /\ s.at = pos
        /\ AsFramed(s, HeaderAt(t, pos).frame, HeaderAt(t, pos).dataLen)
    <3>1. /\ k \in 0..Len(t.sent) /\ pos = Start(t, k)
          /\ \A j \in 1..k : t.sent[j].good
      BY <2>2, Zenon DEF Through
    <3> QED
      BY <2>1, <2>3, <3>1, NextMessage, Zenon
  <2>5. pos' = Start(t, k + 1) /\ Len(t.sent) \in Nat
    BY <2>1, <2>3, <2>4 DEF Start, Recorded
  <2>6. \A j \in 1..(k + 1) : t.sent[j].good
    BY <2>2, <2>4 DEF Through
  <2>7. PICK S : handled \in Seq(S)
    BY Zenon DEF WalkInv
  <2>8. /\ Len(handled) = Cardinality(MeantTo(t, k))
        /\ \A i \in MeantTo(t, k) : HandledAs(t.sent[i], handled[Cardinality(MeantTo(t, i))])
    BY <2>2, Zenon DEF Through
  <2>9. /\ Cardinality(MeantTo(t, k)) \in Nat
        /\ \A i \in MeantTo(t, k) : Cardinality(MeantTo(t, i)) \in 1..Cardinality(MeantTo(t, k))
        /\ Cardinality(MeantTo(t, k + 1)) =
             IF s.what = "nothing" THEN Cardinality(MeantTo(t, k)) ELSE Cardinality(MeantTo(t, k)) + 1
    BY Counting
  <2>10. Done
    <3>1. CASE s.what = "nothing" /\ handled' = handled
      <4>1. MeantTo(t, k + 1) = MeantTo(t, k)
        BY <3>1 DEF MeantTo
      <4> QED
        BY <2>8, <3>1, <4>1, Zenon
    <3>2. ASSUME s.what # "nothing", NEW what, NEW parsed, Handled(what, parsed),
                 HandledAs(s, [at |-> pos, what |-> what, parsed |-> parsed])
          PROVE  Done
      <4> DEFINE e == [at |-> pos, what |-> what, parsed |-> parsed]
      <4>1. /\ Len(handled') = Len(handled) + 1 /\ handled'[Len(handled) + 1] = e
            /\ \A i \in 1..Len(handled) : handled'[i] = handled[i]
        BY <2>7, <3>2, Grows, Zenon
      <4>2. Len(handled') = Cardinality(MeantTo(t, k + 1))
        BY <2>8, <2>9, <3>2, <4>1
      <4>3. ASSUME NEW i \in MeantTo(t, k)
            PROVE  HandledAs(t.sent[i], handled'[Cardinality(MeantTo(t, i))])
        BY <2>8, <2>9, <4>1, <4>3, Zenon
      <4>4. HandledAs(t.sent[k + 1], handled'[Cardinality(MeantTo(t, k + 1))])
        <5>1. Cardinality(MeantTo(t, k + 1)) = Len(handled) + 1
          BY <2>8, <2>9, <3>2
        <5> QED
          BY <3>2, <4>1, <5>1, Zenon
      <4>5. \A i \in MeantTo(t, k + 1) : i \in MeantTo(t, k) \/ i = k + 1
        BY DEF MeantTo
      <4> QED
        BY <4>2, <4>3, <4>4, <4>5, Zenon
    <3> QED
      BY <2>1, <2>4, <3>1, <3>2, MadeAsFramed, Zenon
  <2>11. k + 1 \in Nat /\ k + 1 \in 0..Len(t.sent)
    BY <2>4, <2>5
  <2> QED
    BY <2>1, <2>5, <2>6, <2>10, <2>11, Zenon DEF Through
<1>2. CASE pos = None /\ \E t \in Transfers[phone] : Receive(t)
  <2>1. PICK t \in Transfers[phone] : Receive(t)
    BY <1>2, Zenon
  <2>2. transfer' = t /\ pos' = 0 /\ handled' = <<>>
    BY <2>1, Zenon DEF Receive
  <2>3. Recorded(t)
    BY <2>1, Zenon DEF WalkInv, RecordsTrue
  <2>4. MeantTo(t, 0) = {} /\ 1..0 = {}
    BY DEF MeantTo
  <2>5. Len(handled') = Cardinality(MeantTo(t, 0))
    BY <2>2, <2>4, FS_EmptySet, SMTT(20)
  <2>6. 0 \in 0..Len(t.sent) /\ 0 \in Nat
    BY <2>3 DEF Recorded
  <2>7. Through(t, 0, handled', 0)
    BY <2>4, <2>5, <2>6, Zenon DEF Through, Start
  <2> QED
    BY <2>2, <2>6, <2>7, Zenon
<1>3. CASE UNCHANGED <<transfer, pos, handled>>
  BY <1>3, Zenon DEF ThroughInv
<1> QED
  BY <1>1, <1>2, <1>3, WalkSteps, Zenon

\* Where the walk ends, everything meant for us in front of the first malformed
\* message was handled.
LEMMA ThroughAtEnd ==
  ASSUME NEW k \in Nat, Through(transfer, pos, handled, k), Recorded(transfer),
         ~Readable(transfer, pos)
  PROVE  /\ Meant = MeantTo(transfer, k)
         /\ \A i \in Meant : Rank(i) = Cardinality(MeantTo(transfer, i))
<1> DEFINE t == transfer
<1>1. /\ k \in 0..Len(t.sent) /\ pos = Start(t, k) /\ Len(t.sent) \in Nat
      /\ DOMAIN t.sent = 1..Len(t.sent)
      /\ \A j \in 1..k : t.sent[j].good
  BY DEF Through, Recorded
<1>2. k < Len(t.sent) => ~t.sent[k + 1].good
  <2> SUFFICES ASSUME k < Len(t.sent) PROVE ~t.sent[k + 1].good
    OBVIOUS
  <2>1. k + 1 \in 1..Len(t.sent) /\ (k + 1) - 1 = k
    BY <1>1
  <2>2. /\ t.sent[k + 1].at = Start(t, k)
        /\ t.sent[k + 1].good = Readable(t, t.sent[k + 1].at)
    BY <1>1, <2>1, Zenon DEF Recorded
  <2> QED
    BY <1>1, <2>2, Zenon
<1>3. ASSUME NEW i \in Meant PROVE i \in MeantTo(t, k)
  <2>1. i \in 1..Len(t.sent) /\ t.sent[i].what # "nothing" /\ \A j \in 1..i : t.sent[j].good
    BY <1>1 DEF Meant
  <2>2. ~(i > k)
    BY <1>1, <1>2, <2>1
  <2> QED
    BY <2>1, <2>2 DEF MeantTo
<1>4. ASSUME NEW i \in MeantTo(t, k) PROVE i \in Meant
  BY <1>1, <1>4 DEF Meant, MeantTo
<1>5. Meant = MeantTo(t, k)
  BY <1>3, <1>4, Zenon
<1>6. ASSUME NEW i \in Meant PROVE {j \in Meant : j <= i} = MeantTo(t, i)
  BY <1>1, <1>5, <1>6 DEF MeantTo
<1> QED
  BY <1>5, <1>6, ZenonT(30) DEF Rank

\* A transfer of any number of messages whose records are true is understood as it
\* was sent: what TLC finds out about a message of each kind and about two in a
\* row holds of any row of them (handle_transfer).
THEOREM TransfersUnderstood == RecordsTrue => (Spec => TransferUnderstood)
<1> SUFFICES ASSUME RecordsTrue PROVE Spec => TransferUnderstood
  OBVIOUS
<1>1. Init => ThroughInv
  BY Zenon DEF Init, ThroughInv
<1>2. WalkInv /\ ThroughInv /\ [Next]_vars => ThroughInv'
  BY ThroughNext, Zenon
<1>3. WalkInv /\ ThroughInv /\ [Next]_vars =>
        [pos # None /\ pos' = None =>
          /\ Len(handled) = Cardinality(Meant)
          /\ \A i \in Meant :
               LET s == transfer.sent[i]
                   h == handled[Rank(i)]
               IN  /\ h.at = s.at /\ h.parsed = s.parsed
                   /\ s.what = IF h.what = "reply" THEN "arp" ELSE h.what]_vars
  <2> SUFFICES ASSUME WalkInv, ThroughInv, [Next]_vars, pos # None, pos' = None
               PROVE  /\ Len(handled) = Cardinality(Meant)
                      /\ \A i \in Meant : HandledAs(transfer.sent[i], handled[Rank(i)])
    BY Zenon DEF HandledAs
  <2>1. NextFrame
    BY WalkSteps, Zenon
  <2>2. PICK m \in Mac : transfer \in Transfers[m]
    BY Zenon DEF WalkInv
  <2>3. Recorded(transfer) /\ HeadersTyped(transfer) /\ transfer.len \in Nat
    BY <2>2, NetstackAssumption, Zenon DEF RecordsTrue, HeadersTyped
  <2>4. ~Readable(transfer, pos)
    <3> SUFFICES ASSUME Readable(transfer, pos) PROVE FALSE
      OBVIOUS
    <3>1. pos' = After(transfer, pos)
      BY <2>1, RoundGoesOn, Zenon
    <3>2. pos \in Nat
      BY <2>3 DEF WalkInv
    <3>3. pos' \in Nat
      BY <2>3, <3>1, <3>2, ReadInside
    <3> QED
      BY <3>3, NetstackAssumption
  <2>5. PICK k \in Nat : Through(transfer, pos, handled, k)
    BY Zenon DEF ThroughInv
  <2>6. /\ Meant = MeantTo(transfer, k)
        /\ \A i \in Meant : Rank(i) = Cardinality(MeantTo(transfer, i))
    BY <2>3, <2>4, <2>5, ThroughAtEnd, Zenon
  <2> QED
    BY <2>5, <2>6, Zenon DEF Through
<1> QED
  BY <1>1, <1>2, <1>3, WalkInit, WalkNext, PTL DEF Spec, TransferUnderstood
===============================================================================
