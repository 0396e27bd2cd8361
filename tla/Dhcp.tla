-------------------------------- MODULE Dhcp --------------------------------
(***************************************************************************)
(* The DHCP client of the link (netstack/dhcp.rs) as the rndis-rx thread   *)
(* drives it: DhcpClient, the retransmit timer DhcpTimer, and the DHCP part *)
(* of rx_loop (link.rs).  One loop iteration handles the frames of one bulk *)
(* transfer (pc = "rx", any number of Handle steps) and then asks the timer *)
(* (pc = "due").                                                           *)
(*                                                                         *)
(* The phone's DHCP server is external.  Whatever was once asked of it may *)
(* be answered at any later time, any number of times and in any order, or *)
(* never: delay, duplication, reordering and loss of replies need no queue. *)
(*                                                                         *)
(* Transaction ids are numbered along the orbit of the generator in        *)
(* discover(): it has period 2^32, so the n-th discovery has id n.         *)
(***************************************************************************)
EXTENDS Naturals, Sequences

CONSTANTS
  Addr,          \* addresses the server hands out
  Server,        \* addresses a DHCP server or router may have
  None,          \* Option::None
  Unspec,        \* Ipv4Addr::UNSPECIFIED
  OfferAddr,     \* what an OFFER may carry as yiaddr
  RetryMin,      \* DHCP_RETRY_MIN, in ticks of the model clock
  RetryMax,      \* DHCP_RETRY_MAX
  RenewalTimes,  \* renewal times a lease may carry, in ticks
  MaxXid,        \* bound: only transactions below it are refused
  MaxEvents      \* bound: link events the daemon has not yet taken

ASSUME AddrAssumption ==
  /\ None \notin Addr \cup Server
  /\ Unspec \notin Addr \cup Server
  /\ None # Unspec
  /\ OfferAddr \subseteq Addr \cup {Unspec}

ASSUME TimeAssumption ==
  /\ RetryMin \in Nat \ {0}
  /\ RetryMax \in Nat
  /\ RetryMin <= RetryMax
  /\ RenewalTimes \subseteq Nat
  /\ MaxXid \in Nat
  /\ MaxEvents \in Nat \ {0}

VARIABLES
  state, xid, offered, serverId, lease,  \* DhcpClient
  next, backoff, renewAt,                \* DhcpTimer; next counts down to 0
  hostIp, arpKnown,                      \* Arp: host_ip, addresses in the cache
  events,                                \* LinkEvent::Bound not yet taken
  pc,                                    \* where the loop iteration is
  asked, onWire                          \* REQUESTs sent; one is unanswered

clientVars == <<state, xid, offered, serverId, lease>>
timerVars  == <<next, backoff, renewAt>>
arpVars    == <<hostIp, arpKnown>>
vars == <<clientVars, timerVars, arpVars, events, pc, asked, onWire>>

-----------------------------------------------------------------------------
(* Messages                                                                *)

\* A reply as parse() leaves it, in the fields the client reads, with the
\* source address of the datagram that carried it.  No reply carries an id
\* that was never used.
Reply == [type : {"OFFER", "ACK", "NAK"}, xid : 1..xid, chaddr : {"ours", "other"},
          yiaddr : Addr \cup {Unspec}, serverId : Server \cup {None},
          siaddr : Server \cup {Unspec}, router : Server \cup {None},
          renewal : RenewalTimes, src : Server]

Lease == [ip : Addr, router : Server \cup {None},
          serverId : Server \cup {Unspec}, renewal : RenewalTimes]

\* LinkEvent::Bound in what the daemon looks at.
Event(l) == [ip |-> l.ip, router |-> l.router]

Events == [ip : Addr, router : Server \cup {None}]

ASSUME LeaseAssumption == None \notin Lease \cup Events

\* What the server may still say, given everything it was ever asked.  An
\* OFFER answers a DISCOVER, an ACK a REQUEST for the address it carries (or
\* it carries none), a NAK any REQUEST; other hosts get replies of their own.
MaySay(m) ==
  \/ m.chaddr = "other"
  \/ m.type = "OFFER" /\ m.yiaddr \in OfferAddr
  \/ m.type = "ACK" /\ (m.yiaddr = Unspec \/ <<m.xid, m.yiaddr>> \in asked)
  \/ m.type = "NAK" /\ m.xid < MaxXid /\ \E r \in asked : r[1] = m.xid

\* build() of a REQUEST for ip, as requested_ip or as ciaddr, and send_dhcp().
SendRequest(ip) ==
  /\ asked' = asked \cup {<<xid, ip>>}
  /\ onWire' = TRUE

-----------------------------------------------------------------------------
(* DhcpClient                                                              *)

\* discover(): a fresh transaction, nothing offered yet.
Discover ==
  /\ state' = "Selecting"
  /\ xid' = xid + 1
  /\ offered' = None
  /\ serverId' = None
  /\ onWire' = TRUE
  /\ UNCHANGED <<lease, asked>>

\* renew(): ask for the current lease again under the same transaction id.
Renew ==
  IF lease = None
  THEN UNCHANGED <<clientVars, asked, onWire>>
  ELSE /\ state' = "Renewing"
       /\ SendRequest(lease.ip)
       /\ UNCHANGED <<xid, offered, serverId, lease>>

\* Mutant: due() sends what retransmit() returns and never starts over.
RetransmitOnly ==
  \/ /\ state = "Selecting"
     /\ onWire' = TRUE
     /\ UNCHANGED <<clientVars, asked>>
  \/ /\ state = "Requesting"
     /\ SendRequest(offered)
     /\ UNCHANGED clientVars
  \/ /\ state = "Renewing" /\ lease # None
     /\ SendRequest(lease.ip)
     /\ UNCHANGED clientVars
  \/ /\ state \in {"Init", "Bound"}
     /\ UNCHANGED <<clientVars, asked, onWire>>

\* retransmit().unwrap_or_else(discover), as due() calls it.
RetransmitOrDiscover ==
  \/ /\ state = "Selecting"
     /\ onWire' = TRUE
     /\ UNCHANGED <<clientVars, asked>>
  \/ /\ state = "Requesting"
     /\ SendRequest(offered)
     /\ UNCHANGED clientVars
  \/ /\ state = "Renewing" /\ lease # None
     /\ SendRequest(lease.ip)
     /\ UNCHANGED clientVars
  \/ /\ \/ state \in {"Init", "Bound"}
        \/ state = "Renewing" /\ lease = None
     /\ Discover

\* lease_from(): the server is named by the ACK, else by the OFFER, else by
\* siaddr; a missing router option falls back to the server.
LeaseFrom(m) ==
  LET sid == IF m.serverId # None THEN m.serverId
             ELSE IF serverId # None THEN serverId ELSE m.siaddr
  IN  [ip |-> m.yiaddr, serverId |-> sid, renewal |-> m.renewal,
       router |-> IF m.router # None THEN m.router
                  ELSE IF sid = Unspec THEN None ELSE sid]

-----------------------------------------------------------------------------
(* DhcpTimer                                                               *)

\* Mutant: the renewal is not remembered as one.
TimerBoundNoRenewal(l) ==
  /\ backoff' = RetryMin
  /\ renewAt' = FALSE
  /\ next' = l.renewal

\* bound(): next fires at the renewal time.
TimerBound(l) ==
  /\ backoff' = RetryMin
  /\ renewAt' = TRUE
  /\ next' = l.renewal

\* restart(): due at once.
TimerRestart ==
  /\ backoff' = RetryMin
  /\ next' = 0
  /\ renewAt' = FALSE

\* Mutant: the cap is forgotten.
DoubledUncapped(b) == 2 * b

\* (backoff * 2).min(DHCP_RETRY_MAX)
Doubled(b) == IF 2 * b < RetryMax THEN 2 * b ELSE RetryMax

-----------------------------------------------------------------------------
(* The rx thread                                                           *)

\* Mutant: any transaction of this host will do.
ForUsAnyXid(m) == m.chaddr = "ours"

\* The filter at the top of handle(): a reply to this host's transaction.
ForUs(m) == m.xid = xid /\ m.chaddr = "ours"

\* handle() on an OFFER: ask for the offered address.
HandleOffer(m) ==
  /\ m.type = "OFFER" /\ ForUs(m) /\ state = "Selecting"
  /\ offered' = m.yiaddr
  /\ serverId' = m.serverId
  /\ state' = "Requesting"
  /\ SendRequest(m.yiaddr)
  /\ UNCHANGED <<xid, lease, timerVars, arpVars, events, pc>>

\* handle() on an ACK, with what handle_ipv4 does on Event::Bound: arm the
\* renewal, adopt the address in ARP, learn the sender, tell the daemon.
\* An ACK without an address is an error and changes nothing.
HandleAck(m) ==
  /\ m.type = "ACK" /\ ForUs(m) /\ state \in {"Requesting", "Renewing"}
  /\ m.yiaddr # Unspec
  /\ Len(events) < MaxEvents
  /\ state' = "Bound"
  /\ lease' = LeaseFrom(m)
  /\ TimerBound(lease')
  /\ hostIp' = lease'.ip
  /\ arpKnown' = arpKnown \cup {m.src}
  /\ events' = Append(events, Event(lease'))
  /\ UNCHANGED <<xid, offered, serverId, pc, asked, onWire>>

\* handle() on a NAK: forget the lease; handle_ipv4 restarts the timer.
HandleNak(m) ==
  /\ m.type = "NAK" /\ ForUs(m) /\ state \in {"Requesting", "Renewing"}
  /\ state' = "Init"
  /\ lease' = None
  /\ offered' = None
  /\ TimerRestart
  /\ UNCHANGED <<xid, serverId, arpVars, events, pc, asked, onWire>>

\* One DHCP datagram of the transfer in hand; anything else is ignored.
Handle(m) ==
  /\ pc = "rx"
  /\ MaySay(m)
  /\ HandleOffer(m) \/ HandleAck(m) \/ HandleNak(m)

\* The transfer is used up, or wait(TICK) timed out or failed.
EndTransfer ==
  /\ pc = "rx"
  /\ pc' = "due"
  /\ UNCHANGED <<clientVars, timerVars, arpVars, events, asked, onWire>>

\* due(): nothing until the timer expires; then renew a bound lease, or
\* double the backoff and repeat what the state is waiting on.
Due ==
  /\ pc = "due"
  /\ pc' = "rx"
  /\ \/ /\ next > 0
        /\ UNCHANGED <<clientVars, timerVars, asked, onWire>>
     \/ /\ next = 0 /\ renewAt
        /\ renewAt' = FALSE
        /\ next' = RetryMin
        /\ backoff' = RetryMin
        /\ Renew
     \/ /\ next = 0 /\ ~renewAt
        /\ backoff' = Doubled(backoff)
        /\ next' = backoff'
        /\ UNCHANGED renewAt
        /\ RetransmitOrDiscover
  /\ UNCHANGED <<arpVars, events>>

-----------------------------------------------------------------------------
(* Time, the daemon's end of the channel, and the wire                     *)

Tick ==
  /\ next > 0
  /\ next' = next - 1
  /\ UNCHANGED <<clientVars, backoff, renewAt, arpVars, events, pc, asked, onWire>>

\* try_next_event in the daemon's poll loop.
TakeEvent ==
  /\ events # <<>>
  /\ events' = Tail(events)
  /\ UNCHANGED <<clientVars, timerVars, arpVars, pc, asked, onWire>>

\* The message last sent, or the reply to it, is lost.
Lose ==
  /\ onWire
  /\ onWire' = FALSE
  /\ UNCHANGED <<clientVars, timerVars, arpVars, events, pc, asked>>

\* rx_loop up to its loop: a new client and timer, and the first DISCOVER.
Init ==
  /\ state = "Selecting" /\ xid = 1 /\ offered = None /\ serverId = None
  /\ lease = None
  /\ next = RetryMin /\ backoff = RetryMin /\ renewAt = FALSE
  /\ hostIp = Unspec /\ arpKnown = {}
  /\ events = <<>> /\ pc = "rx"
  /\ asked = {} /\ onWire = TRUE

Next ==
  \/ \E m \in Reply : Handle(m)
  \/ EndTransfer \/ Due \/ Tick \/ TakeEvent \/ Lose

Spec == Init /\ [][Next]_vars

-----------------------------------------------------------------------------
(* Properties                                                              *)

\* The types of the client, the timer and the wire; the backoff stays between
\* DHCP_RETRY_MIN and DHCP_RETRY_MAX however long nobody answers (due() line 492).
TypeOK ==
  /\ state \in {"Init", "Selecting", "Requesting", "Bound", "Renewing"}
  /\ xid \in Nat \ {0}
  /\ offered \in Addr \cup {Unspec, None}
  /\ serverId \in Server \cup {None}
  /\ lease \in Lease \cup {None}
  /\ next \in Nat
  /\ backoff \in RetryMin..RetryMax
  /\ renewAt \in BOOLEAN
  /\ hostIp \in Addr \cup {Unspec}
  /\ arpKnown \subseteq Server
  /\ events \in Seq(Events)
  /\ pc \in {"rx", "due"}
  /\ asked \subseteq (Nat \X (Addr \cup {Unspec}))
  /\ onWire \in BOOLEAN

\* The address in use (lease, ARP) was requested under the transaction id the
\* client has now (discover() line 120, handle() line 148).  One client never
\* uses an id twice, so within a session no reply to an earlier discovery,
\* however late or duplicated, installs an address.  The clients of successive
\* sessions use the same ids: there it may have been an earlier one that
\* requested it, and ConfirmsWhatIsRequested is what that breaks.
LeaseRequestedUnderXid ==
  state \in {"Bound", "Renewing"} =>
    /\ lease # None
    /\ <<xid, lease.ip>> \in asked
    /\ hostIp = lease.ip

\* The timer remembers a renewal exactly while the client is bound.  So a
\* bound client renews rather than starting over (due() line 485), and after
\* a refusal due() cannot call renew() on a lease that is gone.
RenewalArmedIffBound == renewAt <=> state = "Bound"

\* A lease has no gateway, which makes Tunnel::up give up the session, only
\* if neither the OFFER nor the ACK of the transaction named a server
\* (lease_from() lines 186-193).
GatewayKnownWithServer ==
  state \in {"Bound", "Renewing"} /\ serverId # None => lease.router # None

\* A new discovery abandons nothing: a client moves on to its next transaction
\* id only when the server has refused the previous one (due() line 494).
DiscoverOnlyAfterRefusal == [][xid' > xid => state = "Init"]_vars

\* "A fresh transaction id keeps stale replies from matching" (dhcp.rs:119),
\* and an id is "random per client so replies can be matched" (dhcp.rs:102):
\* what a server confirms to a requesting client is the address this client
\* requested.  handle() does not compare the two; it relies on the id.
ConfirmsWhatIsRequested ==
  [][state = "Requesting" /\ state' = "Bound" => lease'.ip = offered]_vars

\* dhcp.rs:87: "The server refused; the caller should restart after a
\* backoff."  A refusal should leave at least the minimal backoff to wait.
RefusalBacksOff ==
  [][state' = "Init" /\ state # "Init" => next' >= RetryMin]_vars
=============================================================================
