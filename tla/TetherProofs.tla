----------------------------- MODULE TetherProofs -----------------------------
(***************************************************************************)
(* Proofs about the DHCP client (Dhcp) for every set of addresses, every    *)
(* timing and every bound, and about the client and the daemon together     *)
(* (Tether): the client's invariants survive any number of sessions, and    *)
(* the daemon's tunnel follows the client's lease whatever the length of    *)
(* the channel between them.                                               *)
(*                                                                         *)
(* The client's invariants need each other: due() may call renew() only     *)
(* because a remembered renewal implies a bound client (so the lease is     *)
(* there), and a bound client is never restarted only because its renewal   *)
(* is remembered.  IInv is their conjunction with the types.               *)
(***************************************************************************)
EXTENDS Tether, SequenceTheorems, TLAPS

-----------------------------------------------------------------------------
(* The client                                                              *)

\* A requesting client has something to request.
OfferKept == state = "Requesting" => offered # None

IInv ==
  /\ TypeOK
  /\ OfferKept
  /\ LeaseRequestedUnderXid
  /\ RenewalArmedIffBound
  /\ GatewayKnownWithServer

\* The backoff stays within [RetryMin, RetryMax] when doubled with the cap.
LEMMA DoubledInRange ==
  ASSUME NEW b \in RetryMin..RetryMax
  PROVE  Doubled(b) \in RetryMin..RetryMax
BY TimeAssumption DEF Doubled

\* The lease built from an ACK that carries an address is well formed, and
\* has a gateway when the OFFER named a server.
LEMMA LeaseFromType ==
  ASSUME TypeOK, NEW m \in Reply, m.yiaddr # Unspec
  PROVE  /\ LeaseFrom(m) \in Lease
         /\ LeaseFrom(m).ip = m.yiaddr
         /\ LeaseFrom(m).renewal \in Nat
         /\ serverId # None => LeaseFrom(m).router # None
BY AddrAssumption, TimeAssumption, Zenon DEF TypeOK, Reply, Lease, LeaseFrom

LEMMA InitIInv == Init => IInv
<1> SUFFICES ASSUME Init PROVE IInv
  OBVIOUS
<1>1. events \in Seq(Events) /\ asked \subseteq (Nat \X (Addr \cup {Unspec}))
  BY DEF Init
<1>2. renewAt \in BOOLEAN /\ onWire \in BOOLEAN
  BY Zenon DEF Init
<1>3. backoff \in RetryMin..RetryMax /\ next \in Nat
  BY TimeAssumption DEF Init
<1>4. TypeOK
  BY <1>1, <1>2, <1>3 DEF Init, TypeOK
<1> QED
  BY <1>4 DEF Init, IInv, OfferKept, LeaseRequestedUnderXid, RenewalArmedIffBound,
              GatewayKnownWithServer

\* An OFFER moves on to Requesting and adds its REQUEST to the asked ones.
LEMMA OfferIInv ==
  ASSUME IInv, NEW m \in Reply, HandleOffer(m)
  PROVE  IInv'
<1>1. m.yiaddr \in Addr \cup {Unspec} /\ m.serverId \in Server \cup {None}
  BY DEF Reply
<1>2. TypeOK'
  BY <1>1 DEF IInv, HandleOffer, TypeOK, SendRequest, timerVars, arpVars
<1>3. OfferKept'
  BY <1>1, AddrAssumption DEF HandleOffer, OfferKept
<1>4. LeaseRequestedUnderXid' /\ RenewalArmedIffBound' /\ GatewayKnownWithServer'
  BY DEF IInv, HandleOffer, LeaseRequestedUnderXid, RenewalArmedIffBound,
         GatewayKnownWithServer, timerVars
<1> QED
  BY <1>2, <1>3, <1>4 DEF IInv

\* An accepted ACK carries an address requested under the current id: that is
\* what MaySay and ForUs say together.
LEMMA AckIInv ==
  ASSUME IInv, NEW m \in Reply, MaySay(m), HandleAck(m)
  PROVE  IInv'
<1>1. /\ m.type = "ACK" /\ m.xid = xid /\ m.chaddr = "ours"
      /\ m.yiaddr # Unspec /\ m.src \in Server
  BY DEF HandleAck, ForUs, Reply
<1>2. <<xid, m.yiaddr>> \in asked
  BY <1>1 DEF MaySay
<1>3. /\ lease' \in Lease /\ lease'.ip = m.yiaddr /\ lease'.renewal \in Nat
      /\ m.yiaddr \in Addr
      /\ serverId # None => lease'.router # None
  BY <1>1, LeaseFromType DEF IInv, HandleAck, Reply
<1>4. lease' # None
  BY <1>3, LeaseAssumption
<1>5. TypeOK'
  <2>1. next' \in Nat /\ backoff' \in RetryMin..RetryMax /\ renewAt' \in BOOLEAN
    BY <1>3, TimeAssumption DEF HandleAck, TimerBound
  <2>2. events' \in Seq(Events)
    BY <1>3 DEF IInv, TypeOK, HandleAck, Lease, Event, Events
  <2> QED
    BY <1>1, <1>3, <2>1, <2>2 DEF IInv, TypeOK, HandleAck
<1>6. OfferKept' /\ LeaseRequestedUnderXid' /\ RenewalArmedIffBound' /\ GatewayKnownWithServer'
  BY <1>2, <1>3, <1>4
     DEF HandleAck, TimerBound, OfferKept, LeaseRequestedUnderXid, RenewalArmedIffBound,
         GatewayKnownWithServer
<1> QED
  BY <1>5, <1>6 DEF IInv

\* A refusal drops lease and renewal together.
LEMMA NakIInv ==
  ASSUME IInv, NEW m \in Reply, HandleNak(m)
  PROVE  IInv'
<1>1. TypeOK'
  <2>1. next' \in Nat /\ backoff' \in RetryMin..RetryMax
    BY TimeAssumption DEF HandleNak, TimerRestart
  <2>2. renewAt' \in BOOLEAN
    BY Zenon DEF HandleNak, TimerRestart
  <2> QED
    BY <2>1, <2>2 DEF IInv, HandleNak, TypeOK, arpVars
<1>2. OfferKept' /\ LeaseRequestedUnderXid' /\ RenewalArmedIffBound' /\ GatewayKnownWithServer'
  BY DEF HandleNak, TimerRestart, OfferKept, LeaseRequestedUnderXid, RenewalArmedIffBound,
         GatewayKnownWithServer
<1> QED
  BY <1>1, <1>2 DEF IInv

\* The three outcomes of due().
LEMMA DueIInv ==
  ASSUME IInv, Due
  PROVE  IInv'
<1> USE DEF IInv, clientVars, timerVars, arpVars
<1>1. CASE next > 0 /\ UNCHANGED <<clientVars, timerVars, asked, onWire>>
  BY <1>1 DEF Due, TypeOK, OfferKept, LeaseRequestedUnderXid, RenewalArmedIffBound,
              GatewayKnownWithServer
<1>2. CASE /\ next = 0 /\ renewAt
           /\ renewAt' = FALSE /\ next' = RetryMin /\ backoff' = RetryMin
           /\ Renew
  <2>1. lease # None /\ state = "Bound"
    BY <1>2 DEF RenewalArmedIffBound, LeaseRequestedUnderXid
  <2>2. /\ state' = "Renewing" /\ asked' = asked \cup {<<xid, lease.ip>>}
        /\ onWire' = TRUE /\ UNCHANGED <<xid, offered, serverId, lease>>
    BY <1>2, <2>1 DEF Renew, SendRequest
  <2>3. lease \in Lease /\ lease.ip \in Addr
    BY <2>1 DEF TypeOK, Lease
  <2>4. TypeOK'
    <3>1. next' \in Nat /\ backoff' \in RetryMin..RetryMax
      BY <1>2, TimeAssumption
    <3>2. renewAt' \in BOOLEAN
      BY <1>2, Zenon
    <3> QED
      BY <2>2, <2>3, <3>1, <3>2 DEF Due, TypeOK
  <2>5. OfferKept' /\ LeaseRequestedUnderXid' /\ RenewalArmedIffBound' /\ GatewayKnownWithServer'
    BY <1>2, <2>1, <2>2 DEF Due, OfferKept, LeaseRequestedUnderXid, RenewalArmedIffBound,
                            GatewayKnownWithServer
  <2> QED
    BY <2>4, <2>5
<1>3. CASE /\ next = 0 /\ ~renewAt
           /\ backoff' = Doubled(backoff) /\ next' = backoff'
           /\ UNCHANGED renewAt
           /\ RetransmitOrDiscover
  <2>1. state # "Bound" /\ (state = "Renewing" => lease # None)
    BY <1>3 DEF RenewalArmedIffBound, LeaseRequestedUnderXid
  <2>2. backoff' \in RetryMin..RetryMax /\ next' \in Nat
    BY <1>3, DoubledInRange, TimeAssumption DEF TypeOK
  <2>3. /\ UNCHANGED renewAt /\ UNCHANGED <<hostIp, arpKnown, events>>
        /\ pc' = "rx"
    BY <1>3 DEF Due
  <2>4. CASE state = "Selecting" /\ onWire' = TRUE /\ UNCHANGED <<clientVars, asked>>
    BY <2>2, <2>3, <2>4 DEF TypeOK, OfferKept, LeaseRequestedUnderXid, RenewalArmedIffBound,
                            GatewayKnownWithServer
  <2>5. CASE state = "Requesting" /\ SendRequest(offered) /\ UNCHANGED clientVars
    <3>1. offered \in Addr \cup {Unspec}
      BY <2>5 DEF TypeOK, OfferKept
    <3> QED
      BY <2>2, <2>3, <2>5, <3>1 DEF TypeOK, OfferKept, LeaseRequestedUnderXid, RenewalArmedIffBound,
                              GatewayKnownWithServer, SendRequest
  <2>6. CASE /\ state = "Renewing" /\ lease # None
             /\ SendRequest(lease.ip) /\ UNCHANGED clientVars
    <3>1. lease.ip \in Addr
      BY <2>6 DEF TypeOK, Lease
    <3> QED
      BY <2>2, <2>3, <2>6, <3>1
         DEF TypeOK, OfferKept, LeaseRequestedUnderXid, RenewalArmedIffBound,
             GatewayKnownWithServer, SendRequest
  <2>7. CASE state = "Init" /\ Discover
    BY <2>2, <2>3, <2>7
       DEF TypeOK, OfferKept, LeaseRequestedUnderXid, RenewalArmedIffBound,
           GatewayKnownWithServer, Discover
  <2> QED
    BY <1>3, <2>1, <2>4, <2>5, <2>6, <2>7, Zenon DEF RetransmitOrDiscover
<1> QED
  BY <1>1, <1>2, <1>3, Zenon DEF Due

LEMMA StepIInv == IInv /\ [Next]_vars => IInv'
<1> SUFFICES ASSUME IInv, [Next]_vars
             PROVE  IInv'
  OBVIOUS
<1>1. ASSUME NEW m \in Reply, Handle(m)
      PROVE  IInv'
  BY <1>1, OfferIInv, AckIInv, NakIInv DEF Handle
<1>2. CASE Due
  BY <1>2, DueIInv
<1>3. CASE EndTransfer \/ Tick \/ TakeEvent \/ Lose
  <2>1. UNCHANGED <<clientVars, backoff, renewAt, arpVars, asked>>
    BY <1>3 DEF EndTransfer, Tick, TakeEvent, Lose, timerVars
  <2>2. pc' \in {"rx", "due"} /\ onWire' \in BOOLEAN
    BY <1>3, Zenon DEF IInv, TypeOK, EndTransfer, Tick, TakeEvent, Lose
  <2>3. next' \in Nat
    BY <1>3 DEF IInv, TypeOK, EndTransfer, Tick, TakeEvent, Lose, timerVars
  <2>4. events' \in Seq(Events)
    BY <1>3 DEF IInv, TypeOK, EndTransfer, Tick, TakeEvent, Lose
  <2> QED
    BY <2>1, <2>2, <2>3, <2>4
       DEF IInv, TypeOK, OfferKept, LeaseRequestedUnderXid, RenewalArmedIffBound,
           GatewayKnownWithServer, clientVars, arpVars
<1>4. CASE UNCHANGED vars
  BY <1>4
     DEF IInv, TypeOK, OfferKept, LeaseRequestedUnderXid, RenewalArmedIffBound,
         GatewayKnownWithServer, vars, clientVars, timerVars, arpVars
<1> QED
  BY <1>1, <1>2, <1>3, <1>4 DEF Next

\* IInv holds in every reachable state.
THEOREM Inductive == Spec => []IInv
BY InitIInv, StepIInv, PTL DEF Spec

\* The variables of the client, the timer and ARP keep their types.
THEOREM TypeCorrect == Spec => []TypeOK
<1>1. IInv => TypeOK
  BY DEF IInv
<1> QED
  BY <1>1, Inductive, PTL

\* In one session the address in use was requested by the client under its current
\* transaction id, for every schedule of late, repeated and reordered replies: a
\* reply to an earlier discovery installs nothing (discover, handle in dhcp.rs).
THEOREM StaleRepliesInstallNothing == Spec => []LeaseRequestedUnderXid
<1>1. IInv => LeaseRequestedUnderXid
  BY DEF IInv
<1> QED
  BY <1>1, Inductive, PTL

\* A renewal is remembered exactly while the client is bound.
THEOREM RenewalArmed == Spec => []RenewalArmedIffBound
<1>1. IInv => RenewalArmedIffBound
  BY DEF IInv
<1> QED
  BY <1>1, Inductive, PTL

\* A lease has a gateway whenever its transaction named a server.
THEOREM GatewayKnown == Spec => []GatewayKnownWithServer
<1>1. IInv => GatewayKnownWithServer
  BY DEF IInv
<1> QED
  BY <1>1, Inductive, PTL

\* No step outside Init moves on to another transaction id: only due() calls
\* discover(), and there IInv rules out its Bound and its lease-less Renewing
\* case.
LEMMA IdKept ==
  ASSUME IInv, [Next]_vars, state # "Init"
  PROVE  xid' = xid
<1>1. ASSUME NEW m \in Reply, Handle(m)
      PROVE  xid' = xid
  BY <1>1 DEF Handle, HandleOffer, HandleAck, HandleNak
<1>2. ASSUME Due
      PROVE  xid' = xid
  BY <1>2
     DEF IInv, RenewalArmedIffBound, LeaseRequestedUnderXid, Due, Renew,
         RetransmitOrDiscover, clientVars
<1>3. CASE EndTransfer \/ Tick \/ TakeEvent \/ Lose
  BY <1>3 DEF EndTransfer, Tick, TakeEvent, Lose, clientVars
<1>4. CASE UNCHANGED vars
  BY <1>4 DEF vars, clientVars
<1> QED
  BY <1>1, <1>2, <1>3, <1>4 DEF Next

\* A client discovers anew only after a refusal.
THEOREM NothingAbandoned == Spec => DiscoverOnlyAfterRefusal
<1>1. ASSUME IInv, [Next]_vars
      PROVE  [xid' > xid => state = "Init"]_vars
  BY <1>1, IdKept DEF IInv, TypeOK
<1> QED
  BY <1>1, Inductive, PTL DEF Spec, DiscoverOnlyAfterRefusal

\* Under the id of a requesting client only the offered address was ever
\* requested, and under the id of a selecting one nothing.
IdsSpent ==
  /\ \A r \in asked : r[1] <= xid
  /\ state = "Selecting" => \A r \in asked : r[1] # xid
  /\ state = "Requesting" => \A r \in asked : r[1] = xid => r[2] = offered

LEMMA StepIdsSpent == IInv /\ IdsSpent /\ [Next]_vars => IdsSpent'
<1> SUFFICES ASSUME IInv, IdsSpent, [Next]_vars
             PROVE  IdsSpent'
  OBVIOUS
<1>1. xid \in Nat /\ asked \subseteq (Nat \X (Addr \cup {Unspec}))
  BY DEF IInv, TypeOK
<1>2. ASSUME NEW m \in Reply, Handle(m)
      PROVE  IdsSpent'
  BY <1>1, <1>2
     DEF Handle, HandleOffer, HandleAck, HandleNak, SendRequest, IdsSpent
<1>3. CASE Due
  <2>1. CASE state = "Init" /\ RetransmitOrDiscover
    BY <1>1, <2>1 DEF RetransmitOrDiscover, Discover, IdsSpent
  <2>2. CASE Renew
    BY <1>1, <2>2 DEF Renew, SendRequest, IdsSpent, clientVars
  <2>3. CASE UNCHANGED <<clientVars, timerVars, asked, onWire>>
    BY <2>3 DEF IdsSpent, clientVars
  <2>4. CASE state \notin {"Init", "Bound"} /\ RetransmitOrDiscover
    <3>1. state = "Renewing" => lease # None
      BY DEF IInv, LeaseRequestedUnderXid
    <3> QED
      BY <1>1, <2>4, <3>1 DEF RetransmitOrDiscover, SendRequest, IdsSpent, clientVars
  <2> QED
    BY <1>3, <2>1, <2>2, <2>3, <2>4 DEF Due, IInv, RenewalArmedIffBound
<1>4. CASE EndTransfer \/ Tick \/ TakeEvent \/ Lose \/ UNCHANGED vars
  BY <1>4 DEF EndTransfer, Tick, TakeEvent, Lose, vars, clientVars, IdsSpent
<1> QED
  BY <1>2, <1>3, <1>4 DEF Next

\* A server confirms to one client only what this client requested, although
\* handle() never compares the two: within a session the ids do it.
THEOREM OneClientIsConfirmed == Spec => ConfirmsWhatIsRequested
<1>1. Init => IdsSpent
  BY DEF Init, IdsSpent
<1>2. ASSUME IInv, IdsSpent, [Next]_vars
      PROVE  [state = "Requesting" /\ state' = "Bound" => lease'.ip = offered]_vars
  <2> SUFFICES ASSUME state = "Requesting", state' = "Bound"
               PROVE  lease'.ip = offered
    OBVIOUS
  <2>1. PICK m \in Reply : MaySay(m) /\ HandleAck(m)
    <3>1. ~ (Due \/ EndTransfer \/ Tick \/ TakeEvent \/ Lose \/ UNCHANGED vars)
      BY <1>2 DEF IInv, RenewalArmedIffBound, Due, RetransmitOrDiscover, EndTransfer, Tick,
                  TakeEvent, Lose, vars, clientVars
    <3> QED
      BY <1>2, <3>1 DEF Next, Handle, HandleOffer, HandleNak
  <2>2. lease'.ip = m.yiaddr /\ <<xid, m.yiaddr>> \in asked
    BY <1>2, <2>1, LeaseFromType DEF HandleAck, ForUs, MaySay, IInv
  <2> QED
    BY <1>2, <2>2 DEF IdsSpent
<1> QED
  BY <1>1, <1>2, Inductive, StepIdsSpent, PTL DEF Spec, ConfirmsWhatIsRequested

-----------------------------------------------------------------------------
(* The client and the daemon                                               *)

\* The address the link last reported that the daemon still has to do with:
\* the youngest event, else the lease being brought up, else the tunnel's.
Latest ==
  IF events # <<>> THEN events[Len(events)].ip
  ELSE IF wanted # None THEN wanted.ip
  ELSE IF up # None THEN up.ip ELSE Unspec

DaemonTypeOK ==
  /\ up \in Events \cup {None}
  /\ wanted \in Events \cup {None}
  /\ ending \in BOOLEAN
  /\ ending => wanted = None

\* What the rndis-rx thread last told ARP is what it last told the daemon.
ArpAndDaemonAgree == ~ending => hostIp = Latest

TInv == IInv /\ DaemonTypeOK /\ ArpAndDaemonAgree

LEMMA InitTInv == TetherInit => TInv
<1> SUFFICES ASSUME TetherInit PROVE TInv
  OBVIOUS
<1>1. IInv
  BY InitIInv DEF TetherInit
<1>2. DaemonTypeOK
  BY Zenon DEF TetherInit, DaemonTypeOK
<1>3. ArpAndDaemonAgree
  BY DEF TetherInit, Init, ArpAndDaemonAgree, Latest
<1> QED
  BY <1>1, <1>2, <1>3 DEF TInv

\* The next session's client is like the first one, but for what earlier
\* clients asked.
LEMMA NewSessionTInv ==
  ASSUME TInv, NewSession
  PROVE  TInv'
<1>1. events' \in Seq(Events)
  BY DEF NewSession
<1>2. backoff' \in RetryMin..RetryMax /\ next' \in Nat
  BY TimeAssumption DEF NewSession
<1>3. renewAt' \in BOOLEAN /\ onWire' \in BOOLEAN
  BY Zenon DEF NewSession
<1>4. TypeOK'
  BY <1>1, <1>2, <1>3 DEF NewSession, TypeOK, TInv, IInv
<1>5. IInv'
  BY <1>4 DEF NewSession, IInv, OfferKept, LeaseRequestedUnderXid, RenewalArmedIffBound,
              GatewayKnownWithServer
<1>6. DaemonTypeOK'
  BY Zenon DEF NewSession, DaemonTypeOK, TInv
<1>7. ArpAndDaemonAgree'
  BY DEF NewSession, ArpAndDaemonAgree, Latest, TInv, DaemonTypeOK
<1> QED
  BY <1>5, <1>6, <1>7 DEF TInv

\* An accepted ACK tells ARP and the daemon the same address; no other step of
\* the rndis-rx thread touches either.
LEMMA RxStepTInv ==
  ASSUME TInv, RxStep
  PROVE  TInv'
<1>1. IInv'
  BY StepIInv DEF TInv, RxStep, Next
<1>2. DaemonTypeOK'
  BY DEF RxStep, TInv, DaemonTypeOK, daemonVars
<1>3. ArpAndDaemonAgree'
  <2>1. CASE UNCHANGED <<hostIp, events>>
    BY <2>1 DEF RxStep, daemonVars, ArpAndDaemonAgree, Latest, TInv
  <2>2. ASSUME NEW m \in Reply, HandleAck(m)
        PROVE  ArpAndDaemonAgree'
    <3>1. events' = Append(events, Event(lease')) /\ hostIp' = lease'.ip
      BY <2>2 DEF HandleAck
    <3>2. events \in Seq(Events) /\ events' \in Seq(Events)
      BY <1>1 DEF TInv, IInv, TypeOK
    <3>3. events' # <<>> /\ events'[Len(events')] = Event(lease')
      BY <3>1, <3>2
    <3> QED
      BY <3>1, <3>3 DEF ArpAndDaemonAgree, Latest, Event
  <2> QED
    BY <2>1, <2>2 DEF RxStep, Handle, HandleOffer, HandleNak, EndTransfer, Due, Tick, Lose,
                      arpVars
<1> QED
  BY <1>1, <1>2, <1>3 DEF TInv

\* The steps of the daemon that take no event leave the client alone.
LEMMA ClientUntouched ==
  ASSUME TInv, UNCHANGED rxVars, events' \in Seq(Events)
  PROVE  IInv'
BY DEF TInv, IInv, TypeOK, OfferKept, LeaseRequestedUnderXid, RenewalArmedIffBound,
       GatewayKnownWithServer, rxVars, clientVars, timerVars, arpVars

\* Taking the oldest event leaves the youngest, unless it was the only one.
LEMMA TailKeepsLast ==
  ASSUME NEW S, NEW q \in Seq(S), q # <<>>
  PROVE  /\ Head(q) \in S /\ Tail(q) \in Seq(S)
         /\ Tail(q) = <<>> => Head(q) = q[Len(q)]
         /\ Tail(q) # <<>> => Tail(q)[Len(Tail(q))] = q[Len(q)]
<1>1. /\ Head(q) \in S /\ Tail(q) \in Seq(S)
      /\ Len(Tail(q)) = Len(q) - 1 /\ Len(q) \in Nat \ {0}
      /\ \A i \in 1..Len(Tail(q)) : Tail(q)[i] = q[i + 1]
  BY HeadTailProperties, EmptySeq
<1>2. ASSUME Tail(q) = <<>> PROVE Len(q) = 1
  <2> DEFINE n == Len(q)
             m == Len(Tail(q))
  <2>1. n \in Nat /\ m = n - 1
    BY <1>1, Zenon
  <2>2. m = 0
    <3>1. Len(<<>>) = 0
      BY EmptySeq
    <3> QED
      BY <1>2, <3>1, Zenon
  <2> HIDE DEF n, m
  <2>3. n = 1
    BY <2>1, <2>2
  <2> QED
    BY <2>3 DEF n
<1>3. Tail(q) # <<>> => Len(Tail(q)) \in 1..Len(Tail(q))
  BY <1>1
<1> QED
  BY <1>1, <1>2, <1>3

LEMMA DaemonStepTInv ==
  ASSUME TInv, DaemonStep \/ SessionFails
  PROVE  TInv'
<1> USE DEF TInv, DaemonTypeOK
<1>0. events \in Seq(Events) /\ UNCHANGED rxVars /\ None \notin Events
  BY AddrAssumption, LeaseAssumption DEF DaemonStep, SessionFails, IInv, TypeOK
<1>1. CASE D!Down \/ D!Install \/ D!GiveUp \/ D!Leave
  <2>1. events' = events
    BY <1>1 DEF D!Down, D!Install, D!GiveUp, D!Leave
  <2>2. IInv'
    BY <1>0, <2>1, ClientUntouched
  <2>3. DaemonTypeOK'
    <3>1. ending' \in BOOLEAN
      BY <1>1, Zenon DEF D!Down, D!Install, D!GiveUp, D!Leave
    <3>2. up' \in Events \cup {None} /\ wanted' \in Events \cup {None}
      BY <1>1 DEF D!Down, D!Install, D!GiveUp, D!Leave
    <3>3. ending' => wanted' = None
      BY <1>1, Zenon DEF D!Down, D!Install, D!GiveUp, D!Leave
    <3> QED
      BY <3>1, <3>2, <3>3
  <2>4. ArpAndDaemonAgree'
    <3>1. hostIp' = hostIp
      BY <1>0 DEF rxVars, arpVars
    <3> QED
      BY <1>0, <1>1, <2>1, <3>1
         DEF D!Down, D!Install, D!GiveUp, D!Leave, ArpAndDaemonAgree, Latest
  <2> QED
    BY <2>2, <2>3, <2>4
<1>2. CASE D!Renewed \/ D!Replace
  <2>1. events # <<>> /\ wanted = None /\ ~ending /\ events' = Tail(events) /\ ~ending'
    BY <1>2 DEF D!Renewed, D!Replace, D!Polling
  <2>2. /\ Head(events) \in Events /\ Tail(events) \in Seq(Events)
        /\ Tail(events) = <<>> => Head(events) = events[Len(events)]
        /\ Tail(events) # <<>> => Tail(events)[Len(Tail(events))] = events[Len(events)]
    BY <1>0, <2>1, TailKeepsLast
  <2>3. IInv'
    BY <1>0, <2>1, <2>2, ClientUntouched
  <2>4. DaemonTypeOK'
    BY <1>2, <2>2 DEF D!Renewed, D!Replace, D!Polling
  <2>5. hostIp' = events[Len(events)].ip
    BY <1>0, <2>1 DEF ArpAndDaemonAgree, Latest, rxVars, arpVars
  <2>6. CASE Tail(events) # <<>>
    BY <2>1, <2>2, <2>3, <2>4, <2>5, <2>6 DEF ArpAndDaemonAgree, Latest
  <2>7. CASE Tail(events) = <<>>
    <3>1. Latest' = Head(events).ip
      BY <1>0, <1>2, <2>1, <2>2, <2>7
         DEF D!Renewed, D!Replace, D!Polling, D!SameAddress, Latest
    <3> QED
      BY <2>2, <2>3, <2>4, <2>5, <2>7, <3>1 DEF ArpAndDaemonAgree
  <2> QED
    BY <2>6, <2>7
<1> QED
  BY <1>1, <1>2 DEF DaemonStep, SessionFails

\* TInv holds in every reachable state.
THEOREM TetherInductive == TetherSpec => []TInv
<1>1. ASSUME TInv, UNCHANGED tetherVars
      PROVE  TInv'
  BY <1>1
     DEF TInv, IInv, TypeOK, OfferKept, LeaseRequestedUnderXid, RenewalArmedIffBound,
         GatewayKnownWithServer, DaemonTypeOK, ArpAndDaemonAgree, Latest, tetherVars, vars,
         daemonVars, clientVars, timerVars, arpVars
<1>2. TInv /\ [TetherNext]_tetherVars => TInv'
  BY <1>1, RxStepTInv, DaemonStepTInv, NewSessionTInv DEF TetherNext
<1> QED
  BY <1>2, InitTInv, PTL DEF TetherSpec

\* Session after session on the same transaction ids, whatever earlier ones left
\* unanswered: the address in use was requested under the client's id, by it or by an
\* earlier client; a renewal is pending exactly while it is bound; and a lease lacks a
\* gateway only if no server was named.
THEOREM ClientSafeInEverySession ==
  TetherSpec => [](LeaseRequestedUnderXid /\ RenewalArmedIffBound /\ GatewayKnownWithServer)
<1>1. TInv => LeaseRequestedUnderXid /\ RenewalArmedIffBound /\ GatewayKnownWithServer
  BY DEF TInv, IInv
<1> QED
  BY <1>1, TetherInductive, PTL

\* Once the daemon has looked at everything, its tunnel has the address of the
\* client's lease, however many events the channel may hold.
THEOREM LeaseIsFollowed == TetherSpec => []TunnelFollowsLease
<1>1. TInv => TunnelFollowsLease
  <2> SUFFICES ASSUME TInv, Settled, state \in {"Bound", "Renewing"}
               PROVE  up # None /\ up.ip = lease.ip
    BY DEF TunnelFollowsLease
  <2>1. hostIp = lease.ip /\ lease.ip \in Addr
    BY DEF TInv, IInv, LeaseRequestedUnderXid, TypeOK, Lease
  <2>2. hostIp = IF up # None THEN up.ip ELSE Unspec
    BY DEF TInv, Settled, ArpAndDaemonAgree, Latest
  <2> QED
    BY <2>1, <2>2, AddrAssumption
<1> QED
  BY <1>1, TetherInductive, PTL

\* ARP answers for the address of a settled tunnel, refused renewals included.
THEOREM ArpIsServed == TetherSpec => []ArpServesTunnel
<1>1. TInv => ArpServesTunnel
  BY DEF TInv, ArpServesTunnel, Settled, ArpAndDaemonAgree, Latest
<1> QED
  BY <1>1, TetherInductive, PTL
===============================================================================
