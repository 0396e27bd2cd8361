------------------------------ MODULE MCNetstack ------------------------------
(* An instance of Netstack for TLC: what the phone may put into a transfer.  *)
EXTENDS Netstack, SequencesExt

CONSTANTS m1, m2, group, gw, h1

\* An item: a frame of n bytes, what should become of it, and a fault in its
\* RNDIS header.
Item(frame, n, what, parsed) ==
  [frame |-> frame, n |-> n, what |-> what, parsed |-> parsed, fault |-> "none"]

Frame(m, type, payload) == [dst |-> "us", src |-> m, type |-> type, payload |-> payload]

\* ARP, padded to Ethernet's minimum.
ArpPacket(m, op, ip) ==
  [valid |-> TRUE, op |-> op, senderMac |-> m, senderIp |-> ip, targetIp |-> h1]

ArpItem(m, op, ip) == Item(Frame(m, "ARP", ArpPacket(m, op, ip)), 60, "arp", NoMessage)

BadArp(m) ==
  Item(Frame(m, "ARP", [ArpPacket(m, "reply", gw) EXCEPT !.valid = FALSE]), 60, "arp", NoMessage)

\* A UDP datagram of the DHCP server with so many words of IPv4 header.
Datagram(ihl, options) ==
  LET udp == UDP_HEADER_LEN + BOOTP_LEN + 4 + Len(options) IN
  [version |-> 4, ihl |-> ihl, proto |-> "UDP", fragment |-> FALSE,
   totalLen |-> 4 * ihl + udp, udpLen |-> udp, ports |-> "dhcp", srcIp |-> gw,
   message |-> [reply |-> TRUE, cookie |-> TRUE, yiaddr |-> h1, options |-> options]]

DhcpItem(m, ihl, options, padding, parsed) ==
  LET p == Datagram(ihl, options)
  IN  Item(Frame(m, "IPv4", p), HEADER_LEN + p.totalLen + padding, "dhcp", parsed)

\* What a server may write into its options: with data of its length, PAD or END.
Piece == {"type", "router", "short", "dns", "pad", "end"}

Data == [type |-> <<5>>, router |-> <<9, 9, 9, 1>>, short |-> <<9, 9>>,
         dns |-> <<9, 9, 9, 2, 9>>]
Code == [type |-> OPT_MESSAGE_TYPE, router |-> OPT_ROUTER, short |-> OPT_ROUTER,
         dns |-> OPT_DNS]

Write(b, piece) ==
  IF piece = "pad" THEN Append(b, OPT_PAD)
  ELSE IF piece = "end" THEN Append(b, OPT_END)
  ELSE PushOption(b, Code[piece], Data[piece])

\* What the client should make of them: those in front of END.
Read(pieces) ==
  LET last == {i \in DOMAIN pieces : pieces[i] = "end"}
      seen == {pieces[i] : i \in {j \in DOMAIN pieces : \A e \in last : j < e}}
      fields == [f \in DOMAIN Wanted |->
                  IF f = "type" /\ "type" \in seen THEN <<Data.type>>
                  ELSE IF f = "router" /\ "router" \in seen THEN <<Data.router>>
                  ELSE IF f = "dns" /\ "dns" \in seen THEN <<<<9, 9, 9, 2>>>> ELSE <<>>]
  IN  IF "type" \in seen THEN [ok |-> TRUE, fields |-> fields] ELSE NoMessage

Pieces == {<<"type", p, q>> : p, q \in Piece \ {"type"}} \cup {<<p, "type">> : p \in Piece}

Ack == <<"pad", "type", "router", "end">>

Offers(m) ==
  {DhcpItem(m, 5, FoldLeft(Write, <<>>, s), 0, Read(s)) : s \in Pieces}

\* Frames the link has nothing to do with.
Stray(m) ==
  { Item([Frame(m, "ARP", ArpPacket(m, "reply", gw)) EXCEPT !.dst = "other"], 60, "nothing", NoMessage),
    Item(Frame(m, "other", <<>>), 60, "nothing", NoMessage),
    Item(Frame(m, "ARP", <<>>), 10, "nothing", NoMessage) }

\* DHCP in datagrams of several shapes, and what only looks like it.
Datagrams(m) ==
  LET good == DhcpItem(m, 5, FoldLeft(Write, <<>>, Ack), 7, Read(Ack))
      other == [good EXCEPT !.what = "tunnel", !.parsed = NoMessage]
  IN  { good,
        DhcpItem(m, 6, FoldLeft(Write, <<>>, Ack), 0, Read(Ack)),
        DhcpItem(m, 5, <<OPT_MESSAGE_TYPE, 1, 5, OPT_ROUTER, 4, 9>>, 0, NoMessage),
        DhcpItem(m, 5, <<OPT_MESSAGE_TYPE, 1, 5, OPT_ROUTER>>, 0, NoMessage),
        [good EXCEPT !.frame.payload.message.cookie = FALSE, !.parsed = NoMessage],
        [other EXCEPT !.frame.payload.ports = "other"],
        [other EXCEPT !.frame.payload.fragment = TRUE],
        [other EXCEPT !.frame.payload.proto = "TCP"],
        [other EXCEPT !.frame.payload.ihl = 4],
        [other EXCEPT !.n = HEADER_LEN + good.frame.payload.totalLen - 1] }

Arps(m) == {
            ArpItem(m, "request", gw), ArpItem(m, "reply", gw), ArpItem(m, "request", Unspec), BadArp(m),
            [ArpItem(m, "request", gw) EXCEPT !.frame.payload.senderMac = group]}

\* Faults in the header of the RNDIS message.
Faulty(item) == {[item EXCEPT !.fault = f] : f \in {"type", "short", "long", "outside"}}

Put(t, item) ==
  LET u == AppendFrame(t, item.frame, item.n, 4)
      h == u.at[t.len]
      bad == CASE item.fault = "none" -> h
               [] item.fault = "type" -> [h EXCEPT !.type = "other"]
               [] item.fault = "short" -> [h EXCEPT !.msgLen = DATA_HEADER_LEN - 1]
               [] item.fault = "long" -> [h EXCEPT !.msgLen = @ + 1000]
               [] item.fault = "outside" -> [h EXCEPT !.dataLen = @ + 64]
  IN  [len |-> u.len, at |-> [u.at EXCEPT ![t.len] = bad],
       sent |-> Append(t.sent, [at |-> t.len, good |-> item.fault = "none",
                                what |-> item.what, parsed |-> item.parsed]),
       answer |-> t.answer \/ (/\ \A i \in DOMAIN t.sent : t.sent[i].good
                               /\ item.fault = "none" /\ item.n >= HEADER_LEN
                               /\ item.frame.type = "ARP" /\ item.frame.dst = "us"
                               /\ item.frame.payload.op = "reply" /\ item.frame.payload.valid)]

\* From m1: one message of any kind, or two of some, and a few bytes of padding at
\* the end.  From m2: what ARP and the lease learn from.
TransfersOf ==
  [m \in Mac |->
    LET reply == ArpItem(m, "reply", gw)
        good == DhcpItem(m, 5, FoldLeft(Write, <<>>, Ack), 7, Read(Ack))
        some == Stray(m) \cup Faulty(reply) \cup {reply, good, ArpItem(m, "request", gw)}
        lists == IF m = m1
                 THEN {<<i>> : i \in Arps(m) \cup Stray(m) \cup Datagrams(m) \cup Offers(m)}
                      \cup (some \X {reply, good})
                 ELSE {<<reply>>, <<good>>}
    IN  {[t EXCEPT !.len = @ + 20] : t \in {FoldLeft(Put, NoTransfer, s) : s \in lists}}]
===============================================================================
