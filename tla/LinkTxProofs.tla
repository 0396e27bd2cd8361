---------------------------- MODULE LinkTxProofs ----------------------------
(***************************************************************************)
(* Proofs about the rndis-tx thread (LinkTx), for every length of frames and *)
(* every limit a device may advertise.                                      *)
(***************************************************************************)
EXTENDS LinkTx, SequenceTheorems, TLAPS

Pcs == {"loop", "recv", "fill", "refit", "flush", "depth", "reap", "drain", "done"}

\* In flush, and where flush and reap go on from.
Flushing == {"flush", "depth"}
Reaping == {"reap", "drain"}

TypeInv ==
  /\ pc \in Pcs /\ ret \in {"loop", "refit", "done"}
  /\ pc \in Flushing => ret # "done"
  /\ frames \in Seq(FrameLen) /\ batch \in Seq(FrameLen)
  /\ hand \in FrameLen \cup {NoFrame}
  /\ batchLen \in Nat

\* A frame is in hand from when it is taken from the channel until it is pushed,
\* across the flush that makes room for it.
HandInv ==
  hand # NoFrame <=> \/ pc \in {"fill", "refit"}
                     \/ pc \in Flushing \cup Reaping /\ ret = "refit"

\* Behind that flush the batch is empty, unless the thread was told to stop.
RoomInv ==
  pc = "refit" \/ (pc \in Reaping /\ ret = "refit") => batch = <<>> \/ linkStop

LInv ==
  /\ TypeInv /\ HandInv /\ RoomInv
  /\ batch = <<>> => batchLen = 0

\* The batch within the limits: fits() allows less than a padding beyond them, and
\* the terminating byte is added once, as long as it leaves a short packet.
BatchInv ==
  /\ Len(batch) <= MaxPackets
  /\ batchLen <= MaxTransfer + Alignment
  /\ batchLen = MaxTransfer + Alignment => batchLen % MaxPacket # 0
  /\ pc = "depth" => batchLen % MaxPacket # 0

-----------------------------------------------------------------------------
(* Lemmas                                                                  *)

\* A channel or a batch is put at or taken from.
LEMMA QueueOps ==
  ASSUME NEW S, NEW s \in Seq(S)
  PROVE  /\ Len(s) \in Nat
         /\ \A e \in S : Append(s, e) \in Seq(S) /\ Len(Append(s, e)) = Len(s) + 1
                         /\ Append(s, e) # <<>>
         /\ s # <<>> => /\ Head(s) \in S
                        /\ Tail(s) \in Seq(S) /\ Len(Tail(s)) = Len(s) - 1
BY HeadTailProperties, AppendProperties, LenProperties

\* packet::append pads by less than the alignment.
LEMMA PaddingBounded ==
  ASSUME NEW n \in Nat
  PROVE  Aligned(n) \in Nat /\ Aligned(n) < n + Alignment
<1>1. Alignment \in Nat \ {0}
  BY TxAssumption
<1> DEFINE m == n + Alignment - 1
<1>2. m \in Nat
  BY <1>1
<1> HIDE DEF m
<1>3. m \div Alignment \in Nat /\ (m \div Alignment) * Alignment <= m
  BY <1>1, <1>2
<1>4. (m \div Alignment) * Alignment \in Nat
  BY <1>1, <1>3
<1>5. Aligned(n) = (m \div Alignment) * Alignment
  BY DEF Aligned, m
<1> QED
  BY <1>1, <1>2, <1>3, <1>4, <1>5 DEF m

\* One byte more makes the last packet a short one.
LEMMA Terminated ==
  ASSUME NEW n \in Nat, NEW m \in Nat, m > 1, n % m = 0
  PROVE  (n + 1) % m # 0
OBVIOUS

\* What push() does to the thread's state.
LEMMA Pushed ==
  ASSUME LInv, pc \in {"fill", "refit"}, Push
  PROVE  /\ hand \in FrameLen /\ hand \in Nat
         /\ batch' = Append(batch, hand) /\ batch' \in Seq(FrameLen) /\ batch' # <<>>
         /\ batchLen' \in Nat
         /\ frames' \in Seq(FrameLen)
         /\ \/ pc' = "flush" /\ ret' = "loop" /\ hand' = NoFrame
            \/ pc' = "fill" /\ ret' = ret /\ hand' \in FrameLen
<1>1. /\ hand \in FrameLen /\ batch \in Seq(FrameLen) /\ frames \in Seq(FrameLen)
      /\ batchLen \in Nat /\ FrameLen \subseteq Nat /\ Header \in Nat
  BY TxAssumption DEF LInv, TypeInv, HandInv
<1>2. batch' = Append(batch, hand) /\ batch' \in Seq(FrameLen) /\ batch' # <<>>
  BY <1>1, QueueOps DEF Push
<1>3. hand \in Nat /\ batchLen' \in Nat
  <2>1. hand \in Nat /\ Header + hand \in Nat
    BY <1>1
  <2>2. Aligned(Header + hand) \in Nat
    BY <2>1, PaddingBounded
  <2>3. batchLen' = batchLen + Aligned(Header + hand)
    BY DEF Push
  <2> QED
    BY <1>1, <2>1, <2>2, <2>3
<1>4. CASE frames = <<>>
  BY <1>1, <1>2, <1>3, <1>4 DEF Push
<1>5. CASE frames # <<>>
  <2>1. Head(frames) \in FrameLen /\ Tail(frames) \in Seq(FrameLen)
    BY <1>1, <1>5, QueueOps
  <2> QED
    BY <1>1, <1>2, <1>3, <1>5, <2>1, Zenon DEF Push
<1> QED
  BY <1>4, <1>5

\* The thread starts with nothing batched, held or queued.
LEMMA InitLInv == Init => LInv
<1> SUFFICES ASSUME Init PROVE LInv
  OBVIOUS
<1>1. <<>> \in Seq(FrameLen)
  OBVIOUS
<1>2. frames \in Seq(FrameLen) /\ batch \in Seq(FrameLen)
  BY <1>1 DEF Init
<1> QED
  BY <1>2 DEF Init, LInv, TypeInv, HandInv, RoomInv, Pcs, Flushing, Reaping

\* The frame in hand and the room made for it, step by step.
LEMMA StepLInv == LInv /\ [Next]_vars => LInv'
<1> SUFFICES ASSUME LInv, [Next]_vars PROVE LInv'
  OBVIOUS
<1>t. TypeInv /\ HandInv /\ RoomInv /\ (batch = <<>> => batchLen = 0) /\ NoFrame \notin FrameLen
  BY TxAssumption DEF LInv
<1> USE DEF Pcs, Flushing, Reaping
<1>p. ASSUME pc \in {"fill", "refit"}, Push, UNCHANGED linkStop PROVE LInv'
  <2>1. /\ batch' \in Seq(FrameLen) /\ batch' # <<>> /\ batchLen' \in Nat /\ frames' \in Seq(FrameLen)
        /\ \/ pc' = "flush" /\ ret' = "loop" /\ hand' = NoFrame
           \/ pc' = "fill" /\ ret' = ret /\ hand' \in FrameLen
    BY <1>p, Pushed
  <2> QED
    BY <1>t, <2>1 DEF LInv, TypeInv, HandInv, RoomInv
<1>1. CASE Loop
  BY <1>t, <1>1 DEF Loop, batchVars, stopVars, LInv, TypeInv, HandInv, RoomInv
<1>2. CASE Recv
  <2>1. CASE frames # <<>>
    <3>1. Head(frames) \in FrameLen /\ Tail(frames) \in Seq(FrameLen)
      BY <1>t, <2>1, QueueOps DEF TypeInv
    <3> QED
      BY <1>t, <1>2, <2>1, <3>1 DEF Recv, stopVars, LInv, TypeInv, HandInv, RoomInv
  <2>2. CASE frames = <<>>
    BY <1>t, <1>2, <2>2 DEF Recv, stopVars, LInv, TypeInv, HandInv, RoomInv
  <2> QED
    BY <2>1, <2>2
<1>3. CASE Fill
  <2>1. CASE Fits(hand)
    BY <1>3, <2>1, <1>p DEF Fill, stopVars
  <2>2. CASE ~Fits(hand)
    BY <1>t, <1>3, <2>2 DEF Fill, batchVars, stopVars, LInv, TypeInv, HandInv, RoomInv
  <2> QED
    BY <2>1, <2>2
<1>4. CASE Refit
  <2>1. CASE Fits(hand)
    BY <1>4, <2>1, <1>p DEF Refit, stopVars
  <2>2. CASE ~Fits(hand)
    BY <1>t, <1>4, <2>2 DEF Refit, stopVars, LInv, TypeInv, HandInv, RoomInv
  <2> QED
    BY <2>1, <2>2
<1>5. CASE Flush
  BY <1>t, <1>5 DEF Flush, stopVars, LInv, TypeInv, HandInv, RoomInv
<1>6. CASE DepthWait
  BY <1>t, <1>6 DEF DepthWait, batchVars, stopVars, LInv, TypeInv, HandInv, RoomInv
<1>7. CASE Submit
  <2>1. <<>> \in Seq(FrameLen)
    OBVIOUS
  <2> QED
    BY <1>t, <1>7, <2>1 DEF Submit, stopVars, LInv, TypeInv, HandInv, RoomInv
<1>8. CASE Reap
  <2>1. pc = "reap" /\ pc' \in {"reap", "drain", ret} /\ UNCHANGED <<ret, frames, batchVars, stopVars>>
    BY <1>8 DEF Reap
  <2> QED
    BY <1>t, <2>1 DEF batchVars, stopVars, LInv, TypeInv, HandInv, RoomInv
<1>9. CASE Drain
  BY <1>t, <1>9 DEF Drain, batchVars, stopVars, LInv, TypeInv, HandInv, RoomInv
<1>10. CASE Recover
  BY <1>t, <1>10 DEF Recover, batchVars, stopVars, LInv, TypeInv, HandInv, RoomInv
<1>11. CASE Send
  <2>1. frames' \in Seq(FrameLen)
    BY <1>t, <1>11, QueueOps DEF Send, TypeInv
  <2> QED
    BY <1>t, <1>11, <2>1 DEF Send, batchVars, stopVars, LInv, TypeInv, HandInv, RoomInv
<1>12. CASE Complete \/ SendersGone \/ Stop \/ UNCHANGED vars
  <2>1. UNCHANGED <<pc, ret, frames, batchVars>> /\ (linkStop' = linkStop \/ linkStop' = TRUE)
    BY <1>12 DEF Complete, SendersGone, Stop, vars, stopVars
  <2> QED
    BY <1>t, <2>1 DEF batchVars, LInv, TypeInv, HandInv, RoomInv
<1> QED
  BY <1>1, <1>2, <1>3, <1>4, <1>5, <1>6, <1>7, <1>8, <1>9, <1>10, <1>11, <1>12 DEF Next, Thread

\* What fits() lets in keeps the batch within the limits.
LEMMA PushKeepsBatch ==
  ASSUME LInv, BatchInv, pc \in {"fill", "refit"}, Fits(hand), Push
  PROVE  BatchInv'
<1>1. /\ batch \in Seq(FrameLen) /\ batchLen \in Nat /\ hand \in FrameLen /\ hand \in Nat
      /\ pc' # "depth"
  BY Pushed DEF LInv, TypeInv
<1>2. /\ MaxTransfer \in Nat /\ MaxPackets \in Nat /\ Alignment \in Nat /\ Header \in Nat
  BY TxAssumption
<1>3. Len(batch') <= MaxPackets
  BY <1>1, <1>2, QueueOps DEF Push, Fits
<1>4. batchLen' < MaxTransfer + Alignment
  <2>1. Header + hand \in Nat
    BY <1>1, <1>2
  <2>2. Aligned(Header + hand) \in Nat /\ Aligned(Header + hand) < Header + hand + Alignment
    BY <2>1, PaddingBounded
  <2>3. batchLen' = batchLen + Aligned(Header + hand) /\ batchLen + Header + hand <= MaxTransfer
    BY DEF Push, Fits
  <2> QED
    BY <1>1, <1>2, <2>2, <2>3
<1>5. batchLen' \in Nat
  BY Pushed
<1> QED
  BY <1>1, <1>2, <1>3, <1>4, <1>5 DEF BatchInv

\* Every step keeps the length of the batch within what a transfer may have.
LEMMA StepBatch == ASSUME MaxPacket > 1 PROVE LInv /\ BatchInv /\ [Next]_vars => BatchInv'
<1> SUFFICES ASSUME LInv, BatchInv, [Next]_vars PROVE BatchInv'
  OBVIOUS
<1>t. /\ batchLen \in Nat /\ MaxTransfer \in Nat /\ Alignment \in Nat
      /\ MaxPackets \in Nat /\ MaxPacket \in Nat
  BY TxAssumption DEF LInv, TypeInv
<1>f. ASSUME UNCHANGED <<batch, batchLen>>, pc' = "depth" => pc = "depth" PROVE BatchInv'
  BY <1>f DEF BatchInv
<1>1. CASE Fill
  BY <1>1, <1>f, PushKeepsBatch DEF Fill, batchVars
<1>2. CASE Refit
  BY <1>2, <1>f, PushKeepsBatch DEF Refit
<1>3. CASE Flush
  <2>1. CASE batch = <<>>
    BY <1>3, <1>f, <2>1 DEF Flush, LInv, TypeInv
  <2>2. CASE batch # <<>> /\ batchLen % MaxPacket # 0
    BY <1>3, <2>2 DEF Flush, BatchInv
  <2>3. CASE batch # <<>> /\ batchLen % MaxPacket = 0
    <3>1. batch' = batch /\ batchLen' = batchLen + 1
      BY <1>3, <2>3 DEF Flush
    <3>2. batchLen < MaxTransfer + Alignment
      BY <1>t, <2>3 DEF BatchInv
    <3>3. batchLen' % MaxPacket # 0
      BY <1>t, <2>3, <3>1, Terminated
    <3> QED
      BY <1>t, <3>1, <3>2, <3>3 DEF BatchInv
  <2> QED
    BY <2>1, <2>2, <2>3
<1>4. CASE Submit
  <2>1. Len(batch') = 0 /\ batchLen' = 0 /\ pc' = "reap"
    BY <1>4 DEF Submit
  <2>2. MaxTransfer + Alignment > 0
    BY TxAssumption
  <2> QED
    BY <1>t, <2>1, <2>2 DEF BatchInv
<1>5. CASE Loop \/ Recv \/ DepthWait \/ Drain \/ Recover
  BY <1>5, <1>f, Zenon DEF Loop, Recv, DepthWait, Drain, Recover, batchVars, LInv, TypeInv
<1>6. CASE Reap
  BY <1>6, <1>f DEF Reap, batchVars, LInv, TypeInv
<1>7. CASE Send \/ Complete \/ Stop \/ SendersGone \/ UNCHANGED vars
  BY <1>7, <1>f DEF Send, Complete, Stop, SendersGone, vars, batchVars
<1> QED
  BY <1>1, <1>2, <1>3, <1>4, <1>5, <1>6, <1>7 DEF Next, Thread

-----------------------------------------------------------------------------
(* Theorems                                                                *)

\* The frame in hand and the batch are where tx_loop and flush expect them.
THEOREM LinkTxInv == Spec => []LInv
BY InitLInv, StepLInv, PTL DEF Spec

\* Whatever a device advertises, a transfer carries no more packets than it takes,
\* ends in a short packet and is longer than allowed by less than a padding and a
\* byte (fits, flush).  The endpoint's packets have more than one byte, as every
\* bulk endpoint's do: of a packet of one byte none is short, and each
\* flush that is told to stop would add another byte.
THEOREM TransfersBounded == MaxPacket > 1 => (Spec => TransferBounded)
<1> SUFFICES ASSUME MaxPacket > 1 PROVE Spec => TransferBounded
  OBVIOUS
<1>1. Init => BatchInv
  <2> SUFFICES ASSUME Init PROVE BatchInv
    OBVIOUS
  <2>1. Len(batch) = 0 /\ batchLen = 0 /\ pc = "loop"
    BY DEF Init
  <2>2. MaxTransfer \in Nat \ {0} /\ Alignment \in Nat /\ MaxPackets \in Nat
    BY TxAssumption
  <2> QED
    BY <2>1, <2>2 DEF BatchInv
<1>2. BatchInv /\ [Next]_vars =>
        [Submits => /\ Len(batch) <= MaxPackets
                    /\ MaxPacket > 1 => batchLen % MaxPacket # 0
                    /\ batchLen <= MaxTransfer + Alignment]_vars
  BY DEF BatchInv, Submits
<1> QED
  BY <1>1, <1>2, LinkTxInv, StepBatch, PTL DEF Spec, TransferBounded

\* Nothing and anything behind a sequence make it a prefix.
LEMMA PrefixOf ==
  ASSUME NEW S, NEW s \in Seq(S), NEW t \in Seq(S)
  PROVE  IsPrefix(s, s) /\ IsPrefix(s, s \o t)
<1>1. Len(s) \in Nat /\ Len(t) \in Nat
  BY LenProperties
<1>2. IsPrefix(s, s)
  BY <1>1 DEF IsPrefix
<1>3. s \o t \in Seq(S) /\ Len(s \o t) = Len(s) + Len(t)
      /\ \A i \in 1..Len(s) : (s \o t)[i] = s[i]
  BY <1>1, ConcatProperties
<1>4. SubSeq(s, 1, Len(s)) = SubSeq(s \o t, 1, Len(s))
  <2> DEFINE a == SubSeq(s, 1, Len(s))
             b == SubSeq(s \o t, 1, Len(s))
             n == Len(s)
  <2>1. a \in Seq(S) /\ Len(a) = n /\ \A i \in 1..n : a[i] = s[i]
    BY <1>1, SubSeqProperties
  <2>2. b \in Seq(S) /\ Len(b) = n /\ \A i \in 1..n : b[i] = (s \o t)[i]
    <3> DEFINE u == s \o t
    <3>1. u \in Seq(S) /\ Len(u) \in Nat /\ n <= Len(u)
      BY <1>1, <1>3
    <3> HIDE DEF u
    <3>2. SubSeq(u, 1, n) \in Seq(S) /\ Len(SubSeq(u, 1, n)) = n
          /\ \A i \in 1..n : SubSeq(u, 1, n)[i] = u[i]
      BY <1>1, <3>1, SubSeqProperties
    <3> QED
      BY <3>2 DEF u
  <2> HIDE DEF a, b
  <2>3. a = b
    BY <1>3, <2>1, <2>2, SeqEqual
  <2> QED
    BY <2>3 DEF a, b
<1> QED
  BY <1>1, <1>2, <1>3, <1>4 DEF IsPrefix

\* A queue whose head is taken in hand is the same sequence of frames.
LEMMA TakenInHand ==
  ASSUME NEW S, NEW b \in Seq(S), NEW q \in Seq(S), q # <<>>
  PROVE  (b \o <<Head(q)>>) \o Tail(q) = b \o q
<1>1. Head(q) \in S /\ Tail(q) \in Seq(S) /\ <<Head(q)>> \in Seq(S)
  BY QueueOps
<1>2. <<Head(q)>> \o Tail(q) = q
  <2> DEFINE h == <<Head(q)>>
             t == Tail(q)
             n == Len(q)
  <2>1. n \in Nat /\ n > 0 /\ Len(t) = n - 1 /\ t \in Seq(S) /\ \A i \in 1..(n - 1) : t[i] = q[i + 1]
    BY LenProperties, HeadTailProperties
  <2>2. h \in Seq(S) /\ Len(h) = 1 /\ h[1] = q[1]
    BY <1>1, HeadTailProperties
  <2> HIDE DEF h, t, n
  <2>3. h \o t \in Seq(S) /\ Len(h \o t) = n
        /\ \A i \in 1..n : (h \o t)[i] = IF i <= 1 THEN h[i] ELSE t[i - 1]
    <3>0. h \in Seq(S) /\ t \in Seq(S)
      BY <2>1, <2>2
    <3>1. h \o t \in Seq(S) /\ Len(h \o t) = Len(h) + Len(t)
          /\ \A i \in 1..(Len(h) + Len(t)) : (h \o t)[i] = IF i <= Len(h) THEN h[i] ELSE t[i - Len(h)]
      BY <3>0, ConcatProperties
    <3>2. Len(h) + Len(t) = n /\ Len(h) = 1
      BY <2>1, <2>2
    <3> QED
      BY <3>1, <3>2
  <2>4. ASSUME NEW i \in 1..n PROVE (h \o t)[i] = q[i]
    <3>1. CASE i = 1
      BY <2>1, <2>2, <2>3, <3>1
    <3>2. CASE i # 1
      <4>1. i - 1 \in 1..(n - 1) /\ (i - 1) + 1 = i /\ ~(i <= 1)
        BY <2>1, <3>2
      <4> QED
        BY <2>1, <2>3, <4>1
    <3> QED
      BY <2>1, <3>1, <3>2, Zenon
  <2>5. h \o t = q
    BY <2>3, <2>4, SeqEqual, Zenon DEF n
  <2> QED
    BY <2>5 DEF h, t
<1> QED
  BY <1>1, <1>2, ConcatAssociative

\* Pushing a frame moves it from the queue to the batch and changes no order.
LEMMA PushKeepsUnsent ==
  ASSUME LInv, pc \in {"fill", "refit"}, Push
  PROVE  Unsent' = Unsent
<1>1. /\ hand \in FrameLen /\ batch \in Seq(FrameLen) /\ frames \in Seq(FrameLen)
      /\ NoFrame \notin FrameLen /\ batch' = Append(batch, hand)
  BY Pushed, TxAssumption DEF LInv, TypeInv
<1> DEFINE b == batch \o <<hand>>
<1>2. <<hand>> \in Seq(FrameLen)
  BY <1>1
<1>3. b \in Seq(FrameLen) /\ batch' = b
  BY <1>1, <1>2, ConcatProperties, AppendIsConcat
<1>4. Unsent = b \o frames
  BY <1>1, Zenon DEF Unsent
<1> HIDE DEF b
<1>5. CASE frames = <<>>
  <2>1. Unsent' = (b \o <<>>) \o <<>>
    BY <1>3, <1>5 DEF Unsent, Push
  <2> QED
    BY <1>3, <1>4, <1>5, <2>1, ConcatEmptySeq
<1>6. CASE frames # <<>>
  <2>1. Head(frames) \in FrameLen
    BY <1>1, <1>6, QueueOps
  <2>2. hand' = Head(frames) /\ frames' = Tail(frames) /\ hand' # NoFrame
    BY <1>1, <1>6, <2>1 DEF Push
  <2>3. Unsent' = (b \o <<Head(frames)>>) \o Tail(frames)
    BY <1>3, <2>2, Zenon DEF Unsent
  <2> QED
    BY <1>1, <1>3, <1>4, <1>6, <2>3, TakenInHand, SMTT(20)
<1> QED
  BY <1>5, <1>6

\* Frames leave in the order they were queued, and the only one dropped before the
\* thread is told to stop is one no transfer could carry (tx_loop, flush).
THEOREM FramesInOrder == Spec => FramesKeptInOrder
<1> DEFINE Sent == Submits /\ Unsent = batch \o Unsent'
           Grown == ~Submits /\ IsPrefix(Unsent, Unsent')
           Dropped == /\ hand # NoFrame /\ hand' = NoFrame
                      /\ Header + hand > MaxTransfer \/ linkStop
                      /\ Unsent' = batch \o frames
<1>1. LInv /\ [Next]_vars => [Sent \/ Grown \/ Dropped]_vars
  <2> SUFFICES ASSUME LInv, Next PROVE Sent \/ Grown \/ Dropped
    OBVIOUS
  <2> DEFINE held == IF hand = NoFrame THEN <<>> ELSE <<hand>>
  <2>t. /\ TypeInv /\ HandInv /\ RoomInv /\ (batch = <<>> => batchLen = 0)
        /\ batch \in Seq(FrameLen) /\ frames \in Seq(FrameLen) /\ NoFrame \notin FrameLen
    BY TxAssumption DEF LInv, TypeInv
  <2>h. held \in Seq(FrameLen)
    <3>1. <<>> \in Seq(FrameLen) /\ \A f \in FrameLen : <<f>> \in Seq(FrameLen)
      OBVIOUS
    <3> QED
      BY <2>t, <3>1 DEF TypeInv
  <2>u. Unsent = (batch \o held) \o frames /\ Unsent \in Seq(FrameLen) /\ batch \o held \in Seq(FrameLen)
    <3>1. batch \o held \in Seq(FrameLen)
      BY <2>t, <2>h, ConcatProperties
    <3>2. (batch \o held) \o frames \in Seq(FrameLen)
      <4> HIDE DEF held
      <4> QED
        BY <2>t, <3>1, ConcatProperties
    <3> QED
      BY <3>1, <3>2 DEF Unsent
  <2> HIDE DEF held
  <2>s. ASSUME ~Submits, Unsent' = Unsent PROVE Grown
    BY <2>u, <2>s, PrefixOf, Zenon
  <2>f. ASSUME ~Submits, UNCHANGED <<batch, hand, frames>> PROVE Grown
    BY <2>s, <2>f DEF Unsent
  <2>1. CASE Submit
    <3>1. Submits /\ batch' = <<>> /\ UNCHANGED <<hand, frames>>
      BY <2>1 DEF Submit, Submits
    <3>2. Unsent' = (<<>> \o held) \o frames
      BY <3>1 DEF Unsent, held
    <3>3. Unsent' = held \o frames
      BY <2>h, <3>2, ConcatEmptySeq
    <3>4. Unsent = batch \o (held \o frames)
      BY <2>t, <2>h, <2>u, ConcatAssociative
    <3> QED
      BY <3>1, <3>3, <3>4
  <2>2. CASE Recv
    <3>1. ~Submits /\ hand = NoFrame /\ batch' = batch
      BY <2>t, <2>2 DEF Recv, Submits, HandInv, Flushing, Reaping
    <3>2. CASE frames # <<>>
      <4>1. Head(frames) \in FrameLen
        BY <2>t, <3>2, QueueOps
      <4>2. hand' = Head(frames) /\ frames' = Tail(frames) /\ hand' # NoFrame
        BY <2>t, <2>2, <3>2, <4>1 DEF Recv
      <4>3. Unsent' = (batch \o <<Head(frames)>>) \o Tail(frames)
        BY <3>1, <4>2, Zenon DEF Unsent
      <4>4. Unsent' = batch \o frames
        BY <2>t, <3>2, <4>3, TakenInHand
      <4>5. Unsent = batch \o frames
        BY <2>t, <3>1, ConcatEmptySeq DEF Unsent
      <4> QED
        BY <2>s, <3>1, <4>4, <4>5
    <3>3. CASE frames = <<>>
      BY <2>2, <2>f, <3>1, <3>3 DEF Recv
    <3> QED
      BY <3>2, <3>3
  <2>3. CASE Fill
    <3>1. ~Submits
      BY <2>3 DEF Fill, Submits
    <3> QED
      BY <2>3, <2>s, <2>f, <3>1, PushKeepsUnsent DEF Fill, batchVars
  <2>4. CASE Refit
    <3>1. ~Submits /\ pc = "refit"
      BY <2>4 DEF Refit, Submits
    <3>2. CASE Fits(hand)
      BY <2>4, <2>s, <3>1, <3>2, PushKeepsUnsent DEF Refit
    <3>3. CASE ~Fits(hand)
      <4>1. hand # NoFrame /\ hand' = NoFrame /\ UNCHANGED <<frames, batch>>
        BY <2>4, <2>t, <3>3 DEF Refit, HandInv
      <4>2. Header + hand > MaxTransfer \/ linkStop
        <5>1. SUFFICES ASSUME batch = <<>> PROVE Header + hand > MaxTransfer
          BY <2>t, <3>1 DEF RoomInv
        <5>2. /\ Len(batch) = 0 /\ batchLen = 0 /\ MaxPackets \in Nat \ {0} /\ MaxTransfer \in Nat
              /\ Header \in Nat /\ hand \in Nat
          BY <2>t, <4>1, <5>1, TxAssumption DEF TypeInv
        <5> QED
          BY <3>3, <5>2 DEF Fits
      <4>3. Unsent' = (batch \o <<>>) \o frames
        BY <4>1 DEF Unsent
      <4>4. Unsent' = batch \o frames
        BY <2>t, <4>3, ConcatEmptySeq
      <4> QED
        BY <4>1, <4>2, <4>4
    <3> QED
      BY <3>2, <3>3
  <2>5. CASE Loop \/ Flush \/ DepthWait
    BY <2>5, <2>t, <2>f DEF Loop, Flush, DepthWait, Submits, batchVars, TypeInv
  <2>6. CASE Reap \/ Drain \/ Recover
    BY <2>6, <2>f, Zenon DEF Reap, Drain, Recover, Submits, batchVars
  <2>7. CASE Send
    <3>1. PICK f \in FrameLen : frames' = Append(frames, f)
      BY <2>7 DEF Send
    <3>2. ~Submits /\ UNCHANGED <<batch, hand>>
      BY <2>7 DEF Send, Submits, batchVars
    <3>3. <<f>> \in Seq(FrameLen) /\ frames' = frames \o <<f>>
      BY <2>t, <3>1, AppendIsConcat
    <3>4. Unsent' = (batch \o held) \o (frames \o <<f>>)
      BY <3>2, <3>3 DEF Unsent, held
    <3>5. Unsent' = Unsent \o <<f>>
      <4> DEFINE A == batch \o held
                 g == <<f>>
      <4>1. Unsent = A \o frames /\ Unsent' = A \o (frames \o g)
        BY <2>u, <3>4, Zenon
      <4>2. A \in Seq(FrameLen) /\ g \in Seq(FrameLen) /\ frames \in Seq(FrameLen)
        BY <2>t, <2>u, <3>3, Zenon
      <4> HIDE DEF A, g
      <4>3. (A \o frames) \o g = A \o (frames \o g)
        BY <4>2, ConcatAssociative, SMTT(30)
      <4>4. Unsent' = Unsent \o g
        BY <4>1, <4>3, Zenon
      <4> QED
        BY <4>4 DEF g
    <3> QED
      BY <2>u, <3>2, <3>3, <3>5, PrefixOf, Zenon
  <2>8. CASE Complete \/ Stop \/ SendersGone
    BY <2>8, <2>f DEF Complete, Stop, SendersGone, Submits, batchVars
  <2> QED
    BY <2>1, <2>2, <2>3, <2>4, <2>5, <2>6, <2>7, <2>8 DEF Next, Thread
<1> QED
  BY <1>1, LinkTxInv, PTL DEF Spec, FramesKeptInOrder

\* The thread uses the bulk OUT endpoint as its contract asks: every step of it is
\* a step of Endpoint, or leaves the endpoint alone (flush, reap, recover_bulk_out).
THEOREM LinkTxKeepsContract == Spec => EndpointContract
<1>1. Init => E!Init
  BY DEF Init, E!Init
<1>2. [Next]_vars => [E!Next]_(E!vars)
  <2> SUFFICES ASSUME [Next]_vars PROVE E!Next \/ UNCHANGED <<flight, halted>>
    BY DEF E!vars
  <2>1. CASE Loop \/ Recv \/ Fill \/ Refit \/ Flush
    BY <2>1 DEF Loop, Recv, Fill, Refit, Flush, usbVars
  <2>2. CASE DepthWait
    BY <2>2 DEF DepthWait, E!Next, E!Reap
  <2>3. CASE Submit
    BY <2>3 DEF Submit, E!Next, E!Submit
  <2>4. CASE Reap
    BY <2>4 DEF Reap, E!Next, E!Reap, E!Cancel
  <2>5. CASE Drain
    BY <2>5 DEF Drain, E!Next, E!Reap
  <2>6. CASE Recover
    <3>1. CASE flight = <<>> /\ halted' = FALSE
      <4>1. flight' \in {<<>>, E!Full}
        BY <2>6, <3>1 DEF Recover
      <4> QED
        BY <3>1, <4>1 DEF E!Next, E!ClearHalt
    <3>2. CASE halted' = halted
      BY <2>6, <3>2 DEF Recover
    <3> QED
      BY <2>6, <3>1, <3>2, Zenon DEF Recover
  <2>7. CASE Complete
    BY <2>7 DEF Complete, E!Next
  <2>8. CASE Send \/ Stop \/ SendersGone \/ UNCHANGED vars
    BY <2>8 DEF Send, Stop, SendersGone, usbVars, vars
  <2> QED
    BY <2>1, <2>2, <2>3, <2>4, <2>5, <2>6, <2>7, <2>8 DEF Next, Thread
<1> QED
  BY <1>1, <1>2, PTL DEF Spec, EndpointContract, E!Spec

-----------------------------------------------------------------------------
(* The way to the end                                                      *)

\* The transfers in flight, and the waits left of a drain.
FlightInv == flight \in Seq(E!Transfer) /\ drain \in Nat

\* What the thread still has to do when no more frames come, in three counts: the
\* frames it has not packed or dropped,...
Work == Len(frames) + (IF hand = NoFrame THEN 0 ELSE 1)

\* ... for the frame in hand or the last flush, how far it is, where flush() and
\* reap() come before the place they return to,...
Stages == [done |-> 0, loop |-> 2, refit |-> 6, fill |-> 10, recv |-> 11]

Stage ==
  CASE pc \in Reaping -> Stages[ret] + 1
    [] pc = "depth"   -> Stages[ret] + 2
    [] pc = "flush"   -> Stages[ret] + 3
    [] OTHER          -> Stages[pc]

\* ... and the completions it waits for.
Waits ==
  CASE pc = "reap"  -> TxDepth + 2 + Len(flight)
    [] pc = "drain" -> drain
    [] OTHER        -> Len(flight)

\* The counts have become less, the first that differs deciding.
Nearer ==
  \/ Work' < Work
  \/ Work' = Work /\ Stage' < Stage
  \/ Work' = Work /\ Stage' = Stage /\ Waits' < Waits

\* Told to stop, and with the senders gone, the thread comes nearer to its end with
\* every step, though it looks at the flag only between batches, and nothing the
\* endpoint does moves it away: a device that completes nothing cannot keep it
\* (tx_loop, flush, reap, recover_bulk_out).
EndNears ==
  [][linkStop /\ ~sending =>
       IF Thread THEN Nearer ELSE UNCHANGED <<Work, Stage, Waits>>]_vars

\* Taking back the oldest transfer, submitting one and cancelling the rest.
LEMMA FlightFacts ==
  ASSUME NEW q \in Seq(E!Transfer)
  PROVE  /\ Len(q) \in Nat
         /\ Append(q, E!Submitted) \in Seq(E!Transfer)
         /\ q # <<>> => /\ Tail(q) \in Seq(E!Transfer) /\ Len(Tail(q)) = Len(q) - 1
                        /\ E!Cancelled(Tail(q)) \in Seq(E!Transfer)
<1>1. E!Submitted \in E!Transfer /\ "aborting" \in E!Transfer
  BY DEF E!Submitted, E!Transfer, E!Result
<1>2. ASSUME NEW t \in Seq(E!Transfer) PROVE E!Cancelled(t) \in Seq(E!Transfer)
  <2>1. Len(t) \in Nat /\ t \in [1..Len(t) -> E!Transfer]
    BY LenProperties
  <2>2. E!Cancelled(t) \in [1..Len(t) -> E!Transfer]
    BY <1>1, <2>1 DEF E!Cancelled
  <2> QED
    BY <2>1, <2>2
<1> QED
  BY <1>1, <1>2, QueueOps

\* A completion changes the result of a transfer and not their number.
LEMMA CompleteKeepsFlight ==
  ASSUME FlightInv, E!Complete
  PROVE  flight' \in Seq(E!Transfer) /\ Len(flight') = Len(flight)
<1>1. PICK i \in 1..Len(flight), r \in E!Transfer : flight' = [flight EXCEPT ![i] = r]
  BY DEF E!Complete, E!Transfer, E!Result
<1>2. flight \in Seq(E!Transfer)
  BY DEF FlightInv
<1> QED
  BY <1>1, <1>2

\* Every step keeps the types of what is in flight.
LEMMA StepFlight == FlightInv /\ [Next]_vars => FlightInv'
<1> SUFFICES ASSUME FlightInv, [Next]_vars PROVE FlightInv'
  OBVIOUS
<1>t. flight \in Seq(E!Transfer) /\ drain \in Nat /\ TxDepth \in Nat
  BY TxAssumption DEF FlightInv
<1>1. CASE Loop \/ Recv \/ Fill \/ Refit \/ Flush \/ Send \/ Stop \/ SendersGone \/ UNCHANGED vars
  BY <1>1, <1>t DEF Loop, Recv, Fill, Refit, Flush, Send, Stop, SendersGone, usbVars, vars, FlightInv
<1>2. CASE DepthWait
  BY <1>2, <1>t, FlightFacts DEF DepthWait, E!Done, FlightInv
<1>3. CASE Submit
  BY <1>3, <1>t, FlightFacts DEF Submit, FlightInv
<1>4. CASE Reap
  <2>1. \/ flight' = flight
        \/ flight # <<>> /\ flight' \in {Tail(flight), E!Cancelled(Tail(flight))}
    BY <1>4, Zenon DEF Reap, E!Done
  <2>2. drain' \in {drain, TxDepth + 1}
    BY <1>4, Zenon DEF Reap
  <2>3. flight' \in Seq(E!Transfer)
    BY <1>t, <2>1, FlightFacts, Zenon
  <2>4. drain' \in Nat
    BY <1>t, <2>2
  <2> QED
    BY <2>3, <2>4 DEF FlightInv
<1>5. CASE Drain
  <2>1. flight # <<>> /\ drain > 0 /\ drain' = drain - 1 /\ flight' \in {flight, Tail(flight)}
    BY <1>5, Zenon DEF Drain
  <2> QED
    BY <1>t, <2>1, FlightFacts DEF FlightInv
<1>6. CASE Recover
  BY <1>6, <1>t DEF Recover, FlightInv
<1>7. CASE Complete
  BY <1>7, <1>t, CompleteKeepsFlight DEF Complete, FlightInv
<1> QED
  BY <1>1, <1>2, <1>3, <1>4, <1>5, <1>6, <1>7 DEF Next, Thread

\* Told to stop and with no senders left, each step of the thread lowers a count
\* and leaves the ones before it; nobody else's step counts.
LEMMA StepNears ==
  ASSUME LInv, LInv', FlightInv, FlightInv', [Next]_vars, linkStop, ~sending
  PROVE  IF Thread THEN Nearer ELSE UNCHANGED <<Work, Stage, Waits>>
<1>t. /\ TypeInv /\ TypeInv' /\ HandInv /\ HandInv' /\ NoFrame \notin FrameLen
      /\ frames \in Seq(FrameLen) /\ frames' \in Seq(FrameLen)
      /\ flight \in Seq(E!Transfer) /\ drain \in Nat /\ TxDepth \in Nat
  BY TxAssumption DEF LInv, TypeInv, FlightInv
<1>n. Len(frames) \in Nat /\ Len(frames') \in Nat /\ Len(flight) \in Nat
  BY <1>t, QueueOps
<1>w. Work \in Nat /\ Work' \in Nat
  BY <1>n DEF Work
<1>r. /\ \A p \in {"loop", "refit", "done"} : Stages[p] \in 0..6
      /\ ret \in {"loop", "refit", "done"} /\ ret' \in {"loop", "refit", "done"}
      /\ Stages["done"] = 0 /\ Stages["loop"] = 2 /\ Stages["refit"] = 6
  BY <1>t DEF TypeInv, Stages
<1>l. /\ pc \in {"loop", "refit", "done"} => Stage = Stages[pc]
      /\ pc = "fill" => Stage = 10
      /\ pc = "recv" => Stage = 11
      /\ pc = "flush" => Stage = Stages[ret] + 3
      /\ pc = "depth" => Stage = Stages[ret] + 2
      /\ pc \in Reaping => Stage = Stages[ret] + 1
  BY DEF Stage, Stages, Reaping
<1>s. /\ pc' \in {"loop", "refit", "done"} => Stage' = Stages[pc']
      /\ pc' = "fill" => Stage' = 10
      /\ pc' = "recv" => Stage' = 11
      /\ pc' = "flush" => Stage' = Stages[ret'] + 3
      /\ pc' = "depth" => Stage' = Stages[ret'] + 2
      /\ pc' \in Reaping => Stage' = Stages[ret'] + 1
  BY DEF Stage, Stages, Reaping
<1>k. ASSUME UNCHANGED <<frames, hand>> PROVE Work' = Work
  BY <1>k DEF Work
<1>p. ASSUME pc \in {"fill", "refit"}, Push PROVE Work' < Work
  <2>1. hand # NoFrame
    BY <1>p, <1>t DEF HandInv
  <2>2. CASE frames = <<>>
    BY <1>p, <2>1, <2>2, <1>n DEF Push, Work
  <2>3. CASE frames # <<>>
    <3>1. hand' # NoFrame /\ frames' = Tail(frames) /\ Len(Tail(frames)) = Len(frames) - 1
      BY <1>p, <1>t, <2>3, QueueOps DEF Push
    <3> QED
      BY <3>1, <2>1, <1>n DEF Work
  <2> QED
    BY <2>2, <2>3
<1>1. ASSUME Loop PROVE Nearer
  <2>1. pc = "loop" /\ pc' = "reap" /\ ret' = "done" /\ UNCHANGED <<frames, hand>>
    BY <1>1, Zenon DEF Loop, batchVars
  <2> QED
    BY <2>1, <1>k, <1>r, <1>l, <1>s DEF Nearer, Reaping
<1>2. ASSUME Recv PROVE Nearer
  <2>1. CASE frames # <<>>
    <3>1. pc = "recv" /\ pc' = "fill" /\ hand' = Head(frames) /\ frames' = Tail(frames)
      BY <1>2, <2>1, Zenon DEF Recv
    <3>2. hand = NoFrame /\ hand' # NoFrame
      BY <1>t, <3>1 DEF HandInv, Flushing, Reaping
    <3>3. Work' = Work
      BY <1>t, <1>n, <2>1, <3>1, <3>2, QueueOps DEF Work
    <3> QED
      BY <3>1, <3>3, <1>l, <1>s DEF Nearer
  <2>2. CASE frames = <<>>
    <3>1. pc = "recv" /\ pc' = "reap" /\ UNCHANGED <<frames, hand>>
      BY <1>2, <2>2, Zenon DEF Recv
    <3> QED
      BY <3>1, <1>k, <1>r, <1>l, <1>s DEF Nearer, Reaping
  <2> QED
    BY <2>1, <2>2

<1>3. ASSUME Fill PROVE Nearer
  <2>1. CASE Fits(hand)
    BY <1>3, <2>1, <1>p DEF Fill, Nearer
  <2>2. CASE ~Fits(hand)
    <3>1. pc = "fill" /\ pc' = "flush" /\ ret' = "refit" /\ UNCHANGED <<frames, hand>>
      BY <1>3, <2>2, Zenon DEF Fill, batchVars
    <3> QED
      BY <3>1, <1>k, <1>r, <1>l, <1>s DEF Nearer
  <2> QED
    BY <2>1, <2>2
<1>4. ASSUME Refit PROVE Nearer
  <2>1. CASE Fits(hand)
    BY <1>4, <2>1, <1>p DEF Refit, Nearer
  <2>2. CASE ~Fits(hand)
    <3>1. pc = "refit" /\ hand' = NoFrame /\ frames' = frames
      BY <1>4, <2>2, Zenon DEF Refit
    <3>2. hand # NoFrame
      BY <1>t, <3>1 DEF HandInv
    <3> QED
      BY <3>1, <3>2, <1>n DEF Nearer, Work
  <2> QED
    BY <2>1, <2>2
<1>5. ASSUME Flush PROVE Nearer
  <2>1. pc = "flush" /\ pc' \in {ret, "depth"} /\ UNCHANGED <<ret, frames, hand>>
    BY <1>5, Zenon DEF Flush
  <2> QED
    BY <2>1, <1>k, <1>r, <1>l, <1>s DEF Nearer
<1>b. ASSUME pc \in Reaping \cup {"depth"}, pc' = ret, UNCHANGED <<ret, frames, hand>> PROVE Nearer
  BY <1>b, <1>k, <1>r, <1>l, <1>s DEF Nearer
<1>6. ASSUME DepthWait PROVE Nearer
  <2>1. pc = "depth" /\ UNCHANGED <<ret, frames, hand>>
    BY <1>6, Zenon DEF DepthWait, batchVars
  <2>2. CASE E!Done
    <3>1. pc' = pc /\ flight' = Tail(flight) /\ flight # <<>>
      BY <1>6, <2>2, Zenon DEF DepthWait, E!Done
    <3>2. Stage' = Stage
      BY <2>1, <3>1, <1>l, <1>s
    <3>3. Waits' < Waits
      BY <2>1, <3>1, <1>t, <1>n, FlightFacts DEF Waits
    <3> QED
      BY <2>1, <3>2, <3>3, <1>k DEF Nearer
  <2>3. CASE ~E!Done
    BY <1>6, <2>1, <2>3, <1>b DEF DepthWait
  <2> QED
    BY <2>2, <2>3
<1>7. ASSUME Submit PROVE Nearer
  <2>1. pc = "depth" /\ pc' = "reap" /\ UNCHANGED <<ret, frames, hand>>
    BY <1>7, Zenon DEF Submit
  <2> QED
    BY <2>1, <1>k, <1>r, <1>l, <1>s DEF Nearer, Reaping
<1>8. ASSUME Reap PROVE Nearer
  <2>1. pc = "reap" /\ UNCHANGED <<ret, frames, hand>>
    BY <1>8, Zenon DEF Reap, batchVars
  <2>2. CASE pc' = ret
    BY <2>1, <2>2, <1>b DEF Reaping
  <2>3. CASE pc' # ret
    <3>1. \/ pc' = "reap" /\ flight' = Tail(flight) /\ flight # <<>>
          \/ pc' = "drain" /\ drain' = TxDepth + 1
      BY <1>8, <2>1, <2>3, Zenon DEF Reap, E!Done
    <3>2. Stage' = Stage
      BY <2>1, <3>1, <1>l, <1>s DEF Reaping
    <3>3. Waits' < Waits
      BY <2>1, <3>1, <1>t, <1>n, FlightFacts DEF Waits
    <3> QED
      BY <2>1, <3>2, <3>3, <1>k DEF Nearer
  <2> QED
    BY <2>2, <2>3
<1>9. ASSUME Drain PROVE Nearer
  <2>1. pc = "drain" /\ drain > 0 /\ drain' = drain - 1 /\ UNCHANGED <<pc, ret, frames, hand>>
    BY <1>9, Zenon DEF Drain, batchVars
  <2>2. Stage' = Stage
    BY <2>1, <1>l, <1>s DEF Reaping
  <2>3. Waits' < Waits
    BY <2>1, <1>t DEF Waits
  <2> QED
    BY <2>1, <2>2, <2>3, <1>k DEF Nearer
<1>10. ASSUME Recover PROVE Nearer
  <2>1. pc = "drain" /\ pc' = ret /\ UNCHANGED <<ret, frames, hand>>
    BY <1>10, Zenon DEF Recover, batchVars
  <2> QED
    BY <2>1, <1>b DEF Reaping
<1>11. ASSUME ~Thread PROVE UNCHANGED <<Work, Stage, Waits>>
  <2>1. ~Send /\ ~Stop /\ ~SendersGone
    BY Zenon DEF Send, Stop, SendersGone
  <2>2. UNCHANGED <<pc, ret, frames, hand, drain>> /\ (Complete \/ flight' = flight)
    BY <1>11, <2>1, Zenon DEF Next, Complete, vars, batchVars, usbVars
  <2>3. Len(flight') = Len(flight)
    BY <2>2, CompleteKeepsFlight DEF Complete
  <2> QED
    BY <2>2, <2>3 DEF Work, Stage, Waits
<1> QED
  BY <1>1, <1>2, <1>3, <1>4, <1>5, <1>6, <1>7, <1>8, <1>9, <1>10, <1>11, Zenon DEF Thread

\* Told to stop and with no senders left, every step of the thread leads to its end
\* (EndNears), and the counts that fall are numbers: the part of StopEndsThread that
\* does not depend on fairness, for every depth and whatever is left in the channel.
THEOREM StopBoundsSteps == Spec => []({Work, Stage, Waits} \subseteq Nat) /\ EndNears
<1>1. Init => FlightInv
  BY DEF Init, FlightInv
<1>2. LInv /\ FlightInv => {Work, Stage, Waits} \subseteq Nat
  <2> SUFFICES ASSUME LInv, FlightInv PROVE {Work, Stage, Waits} \subseteq Nat
    OBVIOUS
  <2>1. Len(frames) \in Nat /\ Len(flight) \in Nat /\ drain \in Nat /\ TxDepth \in Nat
    BY TxAssumption, QueueOps DEF LInv, TypeInv, FlightInv
  <2>2. Work \in Nat /\ Waits \in Nat
    BY <2>1 DEF Work, Waits
  <2>3. Stage \in Nat
    BY DEF LInv, TypeInv, Pcs, Stage, Stages, Reaping
  <2> QED
    BY <2>2, <2>3
<1>3. LInv /\ LInv' /\ FlightInv /\ FlightInv' /\ [Next]_vars
        => [linkStop /\ ~sending =>
              IF Thread THEN Nearer ELSE UNCHANGED <<Work, Stage, Waits>>]_vars
  BY StepNears, Zenon
<1> QED
  BY <1>1, <1>2, <1>3, LinkTxInv, StepFlight, PTL DEF Spec, EndNears
=============================================================================
