------------------------------- MODULE Netstack -------------------------------
(***************************************************************************)
(* What becomes of a received bulk transfer and of a packet read from the   *)
(* tunnel: handle_transfer and handle_ipv4 on the rndis-rx thread (link.rs), *)
(* spawn_reader's thread (tunnel.rs), and the ARP responder and cache they  *)
(* share under a lock (netstack/arp.rs).                                   *)
(*                                                                         *)
(* Whether the DHCP client is waiting for an ACK is Dhcp's subject and left *)
(* open here.  The phone is external: it sends the transfers it likes, may  *)
(* change its MAC address, and answers ARP requests.                        *)
(***************************************************************************)
EXTENDS Frames

CONSTANTS
  Mac,           \* unicast addresses the phone may have
  Ip,            \* addresses on the link
  Host,          \* addresses the phone may lease to us
  Unspec,        \* Ipv4Addr::UNSPECIFIED
  None,          \* Option::None
  Gateway,       \* the router of our lease, in Ip
  Transfers,     \* the transfers a phone with this MAC may send
  EntryTtl,      \* ENTRY_TTL, in ticks
  RetryInterval  \* RETRY_INTERVAL, in ticks

\* The words of a header are unsigned (u32_at).
HeadersTyped(t) ==
  /\ t.len \in Nat
  /\ \A p \in DOMAIN t.at :
       p \in Nat /\ t.at[p].msgLen \in Nat /\ t.at[p].dataOffset \in Nat /\ t.at[p].dataLen \in Nat

ASSUME NetstackAssumption ==
  /\ Gateway \in Ip
  /\ Unspec \notin Ip \cup Host /\ None \notin Mac \cup Nat
  /\ \A m \in Mac : \A t \in Transfers[m] : HeadersTyped(t)
  /\ EntryTtl \in Nat \ {0} /\ RetryInterval \in Nat \ {0}

VARIABLES
  transfer, pos,   \* the transfer in hand; the iterator's offset, None between two
  handled,         \* what was made of its frames so far
  hostIp,          \* Arp.host_ip
  cache,           \* Arp.cache: MAC and age, or None
  lastRequest,     \* Arp.last_request: ticks since, RetryInterval if longer or never
  reader,          \* the utun reader runs
  lastDst,         \* the MAC the last packet was sent to
  phone, asked     \* the phone's MAC; it owes an answer to an ARP request

arpVars   == <<hostIp, cache, lastRequest>>
phoneVars == <<phone, asked>>
vars == <<transfer, pos, handled, arpVars, reader, lastDst, phoneVars>>

Entry == [mac : Mac, age : 0..EntryTtl]

-----------------------------------------------------------------------------
(* Arp                                                                     *)

\* Mutant: an entry is good for ever.
LookupForever(ip) == IF cache[ip] = None THEN None ELSE cache[ip].mac

\* lookup(): an entry that is too old is none.
Lookup(ip) ==
  IF cache[ip] = None THEN None
  ELSE IF cache[ip].age < EntryTtl THEN cache[ip].mac ELSE None

\* insert()
Inserted(ip, mac) == [cache EXCEPT ![ip] = [mac |-> mac, age |-> 0]]

\* request(): at most one per RETRY_INTERVAL.
Request(ip) ==
  /\ lastRequest[ip] >= RetryInterval
  /\ lastRequest' = [lastRequest EXCEPT ![ip] = 0]

\* handle(): learn the sender, unless it has no address or a group's.
Learn(p) ==
  cache' = IF p.valid /\ p.senderIp # Unspec /\ p.senderMac \in Mac
           THEN Inserted(p.senderIp, p.senderMac) ELSE cache

\* A request for our address is answered.
Replies(p) == p.valid /\ p.op = "request" /\ p.targetIp = hostIp /\ hostIp # Unspec

-----------------------------------------------------------------------------
(* The rndis-rx thread                                                     *)

NoTransfer == [len |-> 0, at |-> <<>>, sent |-> <<>>, answer |-> FALSE]

NoMessage == [ok |-> FALSE, fields |-> NoFields]

Handled(what, parsed) ==
  handled' = Append(handled, [at |-> pos, what |-> what, parsed |-> parsed])

HandleArp(p) ==
  /\ Learn(p)
  /\ Handled(IF Replies(p) THEN "reply" ELSE "arp", NoMessage)
  /\ UNCHANGED <<hostIp, lastRequest>>

IsDhcp(p, n) == IsUdp(p, n) /\ p.ports = "dhcp"

\* handle_ipv4 on a DHCP message.  An ACK that binds the client gives ARP the
\* address, and the server's MAC.
HandleDhcp(f, p) ==
  LET udp == UdpPayload(p) IN
  \E parsed \in {ParseDhcp(p.message, udp.to - udp.from)} :
    /\ Handled("dhcp", parsed)
    /\ \/ UNCHANGED <<hostIp, cache>>
       \/ /\ parsed.ok /\ parsed.fields.type = <<<<ACK>>>>
          /\ p.message.yiaddr # Unspec
          /\ hostIp' = p.message.yiaddr
          /\ cache' = Inserted(p.srcIp, f.src)
    /\ UNCHANGED lastRequest

\* handle_ipv4 on anything else: into the sink, padding and all.
Deliver == Handled("tunnel", NoMessage) /\ UNCHANGED arpVars

\* What is no Ethernet frame, is for somebody else or of an unknown type.
NotForUs(f, n) == n < HEADER_LEN \/ f.dst = "other" \/ f.type \notin {"ARP", "IPv4"}

Ignore(f, n) ==
  /\ NotForUs(f, n)
  /\ pos' = After(transfer, pos)
  /\ UNCHANGED <<handled, arpVars>>

\* The body of handle_transfer's loop for a frame of n bytes.
Dispatch(f, n) ==
  \/ Ignore(f, n)
  \/ /\ ~NotForUs(f, n)
     /\ pos' = After(transfer, pos)
     /\ \/ f.type = "ARP" /\ HandleArp(f.payload)
        \/ /\ f.type = "IPv4" /\ IsDhcp(f.payload, n - HEADER_LEN)
           /\ HandleDhcp(f, f.payload)
        \/ /\ f.type = "IPv4" /\ ~IsDhcp(f.payload, n - HEADER_LEN)
           /\ Deliver

\* One round of handle_transfer: nothing left, a malformed message, which ends
\* the transfer, or a frame.
NextFrame ==
  /\ pos # None
  /\ \/ /\ Exhausted(transfer, pos) \/ ~WellFormed(transfer, pos)
        /\ transfer' = NoTransfer /\ pos' = None /\ handled' = <<>>
        /\ UNCHANGED arpVars
     \/ /\ ~Exhausted(transfer, pos) /\ WellFormed(transfer, pos)
        /\ LET h == HeaderAt(transfer, pos) IN Dispatch(h.frame, h.dataLen)
        /\ UNCHANGED transfer
  /\ UNCHANGED <<reader, lastDst, phoneVars>>

\* A transfer from the phone.
Receive(t) ==
  /\ transfer' = t /\ pos' = 0 /\ handled' = <<>>
  /\ asked' = (asked /\ ~t.answer)
  /\ UNCHANGED <<arpVars, reader, lastDst, phone>>

-----------------------------------------------------------------------------
(* The utun reader                                                         *)

\* The tunnel comes up once there is a lease, and goes.
TunnelUpOrDown ==
  /\ reader \/ hostIp # Unspec
  /\ reader' = ~reader
  /\ UNCHANGED <<transfer, pos, handled, arpVars, lastDst, phoneVars>>

\* A packet from utun: sent to the gateway, or dropped and the gateway asked for.
ReadPacket ==
  /\ reader
  /\ \/ /\ Lookup(Gateway) # None
        /\ lastDst' = Lookup(Gateway)
        /\ UNCHANGED <<lastRequest, asked>>
     \/ /\ Lookup(Gateway) = None
        /\ Request(Gateway) /\ asked' = TRUE
        /\ UNCHANGED lastDst
     \/ /\ Lookup(Gateway) = None /\ lastRequest[Gateway] < RetryInterval
        /\ UNCHANGED <<lastDst, lastRequest, asked>>
  /\ UNCHANGED <<transfer, pos, handled, hostIp, cache, reader, phone>>

-----------------------------------------------------------------------------
(* Time and the phone                                                      *)

Older(e) == IF e = None THEN None ELSE [e EXCEPT !.age = IF @ < EntryTtl THEN @ + 1 ELSE @]

Tick ==
  /\ cache' = [ip \in Ip |-> Older(cache[ip])]
  /\ lastRequest' = [ip \in Ip |-> IF lastRequest[ip] < RetryInterval
                                   THEN lastRequest[ip] + 1 ELSE lastRequest[ip]]
  /\ UNCHANGED <<transfer, pos, handled, hostIp, reader, lastDst, phoneVars>>

\* External: the phone comes back with another MAC address.
PhoneChangesMac ==
  /\ \E m \in Mac : phone' = m
  /\ UNCHANGED <<transfer, pos, handled, arpVars, reader, lastDst, asked>>

\* rx_loop has yet to read its first transfer.
Init ==
  /\ phone \in Mac /\ asked = FALSE
  /\ transfer = NoTransfer /\ pos = None /\ handled = <<>>
  /\ hostIp = Unspec
  /\ cache = [ip \in Ip |-> None]
  /\ lastRequest = [ip \in Ip |-> RetryInterval]
  /\ reader = FALSE /\ lastDst = None

Next ==
  \/ NextFrame
  \/ pos = None /\ \E t \in Transfers[phone] : Receive(t)
  \/ TunnelUpOrDown \/ ReadPacket
  \/ Tick \/ PhoneChangesMac

Spec == Init /\ [][Next]_vars

\* The threads run and time passes; the host has packets to send, some of them
\* within the time an entry is good for; and the phone answers an ARP request, if
\* not the first then a later one.
FairSpec ==
  /\ Spec
  /\ SF_lastDst(Lookup(Gateway) # None /\ ReadPacket)
  /\ WF_pos(NextFrame) /\ WF_<<lastDst, lastRequest>>(ReadPacket) /\ WF_arpVars(Tick)
  /\ SF_pos(asked /\ pos = None /\ \E t \in Transfers[phone] : t.answer /\ Receive(t))

-----------------------------------------------------------------------------
(* Properties                                                              *)

\* The messages something should become of, as the phone's own records say: those
\* meant for us and in front of the first malformed one.
Meant ==
  {i \in DOMAIN transfer.sent :
     transfer.sent[i].what # "nothing" /\ \A j \in 1..i : transfer.sent[j].good}

\* The n-th of them is the n-th that was handled.
Rank(i) == Cardinality({j \in Meant : j <= i})

\* A transfer is understood as it was sent, through the padding of every layer:
\* each message in front of a malformed one is handled once and in order, DHCP
\* options come out as the server wrote them, DHCP never reaches the tunnel,
\* and nothing else is made of the transfer (handle_transfer, "A malformed
\* header makes every following offset meaningless").
TransferUnderstood ==
  [][pos # None /\ pos' = None =>
      /\ Len(handled) = Cardinality(Meant)
      /\ \A i \in Meant :
           LET s == transfer.sent[i]
               h == handled[Rank(i)]
           IN  /\ h.at = s.at /\ h.parsed = s.parsed
               /\ s.what = IF h.what = "reply" THEN "arp" ELSE h.what]_vars

\* A gateway that keeps its MAC address is the one packets go to, whatever it
\* was before and however many answers are lost: a stale entry is not used
\* for ever (ENTRY_TTL), and it is replaced although packets are dropped
\* meanwhile (spawn_reader).
GatewayFoundAgain ==
  \A m \in Mac : <>[](phone = m /\ reader) => <>[](lastDst = m)
===============================================================================
