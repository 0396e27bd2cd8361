-------------------------------- MODULE Frames --------------------------------
(***************************************************************************)
(* The layers of an inbound bulk transfer, each as the part of the bytes it *)
(* takes from the one below: RNDIS messages (rndis/packet.rs), Ethernet     *)
(* (netstack/ethernet.rs), IPv4 and UDP (netstack/ipv4.rs) and the options  *)
(* of a DHCP message (netstack/dhcp.rs).                                   *)
(*                                                                         *)
(* Lengths and offsets are the code's, in bytes.  A transfer is its length  *)
(* and, for the offsets where a PACKET_MSG header can be read, the header;  *)
(* what a header's data is found to contain goes with it as `frame'.        *)
(***************************************************************************)
EXTENDS Integers, Sequences, FiniteSetsExt

DATA_HEADER_LEN == 44
OFFSET_BASE == 8
HEADER_LEN == 14       \* Ethernet
IPV4_HEADER_LEN == 20
UDP_HEADER_LEN == 8
BOOTP_LEN == 236       \* and four bytes of magic cookie

-----------------------------------------------------------------------------
(* RNDIS                                                                   *)

\* The header at pos.  Where none was written the type is not PACKET_MSG.
HeaderAt(t, pos) ==
  IF pos \in DOMAIN t.at THEN t.at[pos]
  ELSE [type |-> "other", msgLen |-> 0, dataOffset |-> 0, dataLen |-> 0, frame |-> <<>>]

\* next(): less than a header left is padding.
Exhausted(t, pos) == t.len - pos < DATA_HEADER_LEN

\* next_frame()'s checks.
WellFormed(t, pos) ==
  LET h == HeaderAt(t, pos) IN
  /\ h.type = "PACKET"
  /\ h.msgLen >= DATA_HEADER_LEN /\ h.msgLen <= t.len - pos
  /\ OFFSET_BASE + h.dataOffset + h.dataLen <= h.msgLen

\* The bytes [from, to) that next_frame() returns, and where it goes on.
Slice(t, pos) ==
  LET h == HeaderAt(t, pos)
      start == pos + OFFSET_BASE + h.dataOffset
  IN  [from |-> start, to |-> start + h.dataLen]

After(t, pos) == pos + HeaderAt(t, pos).msgLen

\* body.next_multiple_of(alignment.max(1))
Padded(n, alignment) ==
  IF alignment = 0 THEN n ELSE ((n + alignment - 1) \div alignment) * alignment

\* append(): a message for a frame of n bytes at the end of the transfer.
AppendFrame(t, frame, n, alignment) ==
  LET h == [type |-> "PACKET", msgLen |-> Padded(DATA_HEADER_LEN + n, alignment),
            dataOffset |-> DATA_HEADER_LEN - OFFSET_BASE, dataLen |-> n, frame |-> frame]
  IN  [len |-> t.len + h.msgLen,
       at |-> [p \in DOMAIN t.at \cup {t.len} |-> IF p = t.len THEN h ELSE t.at[p]]]

-----------------------------------------------------------------------------
(* IPv4 and UDP, in a payload of n bytes                                   *)

\* parse_udp()'s checks.  Bytes behind the datagram are Ethernet's padding.
IsUdp(p, n) ==
  /\ n >= IPV4_HEADER_LEN
  /\ p.version = 4
  /\ 4 * p.ihl >= IPV4_HEADER_LEN /\ 4 * p.ihl <= n
  /\ p.proto = "UDP" /\ ~p.fragment
  /\ p.totalLen >= 4 * p.ihl /\ p.totalLen <= n
  /\ p.totalLen - 4 * p.ihl >= UDP_HEADER_LEN
  /\ p.udpLen >= UDP_HEADER_LEN /\ p.udpLen <= p.totalLen - 4 * p.ihl

\* The bytes of the payload that are the datagram's.
UdpPayload(p) == [from |-> 4 * p.ihl + UDP_HEADER_LEN, to |-> 4 * p.ihl + p.udpLen]

-----------------------------------------------------------------------------
(* DHCP options                                                            *)

OPT_PAD == 0
OPT_SUBNET_MASK == 1
OPT_ROUTER == 3
OPT_DNS == 6
OPT_INTERFACE_MTU == 26
OPT_LEASE_TIME == 51
OPT_MESSAGE_TYPE == 53
OPT_SERVER_ID == 54
OPT_RENEWAL_TIME == 58
OPT_END == 255
ACK == 5               \* a value of OPT_MESSAGE_TYPE

\* The options parse() looks at, each with the bytes it needs.  The domain name
\* is left out: it is only shown.
Wanted == [netmask |-> <<OPT_SUBNET_MASK, 4>>, router |-> <<OPT_ROUTER, 4>>,
           mtu |-> <<OPT_INTERFACE_MTU, 2>>, leaseTime |-> <<OPT_LEASE_TIME, 4>>,
           type |-> <<OPT_MESSAGE_TYPE, 1>>, serverId |-> <<OPT_SERVER_ID, 4>>,
           renewalTime |-> <<OPT_RENEWAL_TIME, 4>>, dns |-> <<OPT_DNS, 0>>]

\* push_option()
PushOption(b, code, data) == b \o <<code, Len(data)>> \o data

NoFields == [f \in DOMAIN Wanted |-> <<>>]

\* The part of an option's data that is kept: the bytes needed, or for OPT_DNS the
\* addresses it holds.
Kept(f, data) ==
  SubSeq(data, 1, IF f = "dns" THEN 4 * (Len(data) \div 4) ELSE Wanted[f][2])

\* An option in front of others: a later one with the same code wins.
InFrontOf(code, data, fields) ==
  [f \in DOMAIN Wanted |->
    IF fields[f] = <<>> /\ Wanted[f][1] = code /\ Len(data) >= Wanted[f][2]
    THEN <<Kept(f, data)>> ELSE fields[f]]

\* Mutant: padding is read as an option with a length.
OptionsPadded(b) ==
  LET walk[i \in 1..(Len(b) + 1)] ==
        IF i > Len(b) \/ b[i] = OPT_END THEN [ok |-> TRUE, fields |-> NoFields]
        ELSE IF i = Len(b) \/ i + 1 + b[i + 1] > Len(b) THEN [ok |-> FALSE, fields |-> NoFields]
        ELSE LET next == i + 2 + b[i + 1]
             IN  [walk[next] EXCEPT !.fields = InFrontOf(b[i], SubSeq(b, i + 2, next - 1), @)]
  IN  walk[1]

\* parse()'s loop over the options, up to OPT_END or the last byte: the fields they
\* set, <<>> or a value; not ok if an option reaches beyond the bytes there are.
Options(b) ==
  LET walk[i \in 1..(Len(b) + 1)] ==
        IF i > Len(b) \/ b[i] = OPT_END THEN [ok |-> TRUE, fields |-> NoFields]
        ELSE IF b[i] = OPT_PAD THEN walk[i + 1]
        ELSE IF i = Len(b) \/ i + 1 + b[i + 1] > Len(b) THEN [ok |-> FALSE, fields |-> NoFields]
        ELSE LET next == i + 2 + b[i + 1]
             IN  [walk[next] EXCEPT !.fields = InFrontOf(b[i], SubSeq(b, i + 2, next - 1), @)]
  IN  walk[1]

\* parse() of a message m that came in n bytes; options beyond them are cut off.
ParseDhcp(m, n) ==
  LET o == Options(SubSeq(m.options, 1, Min({Len(m.options), n - (BOOTP_LEN + 4)})))
  IN  IF /\ n >= BOOTP_LEN + 4 /\ m.reply /\ m.cookie
         /\ o.ok
         /\ o.fields.type \notin {<<>>, <<<<0>>>>}
      THEN o
      ELSE [ok |-> FALSE, fields |-> NoFields]
===============================================================================
