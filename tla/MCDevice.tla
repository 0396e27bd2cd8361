------------------------------- MODULE MCDevice -------------------------------
(* An instance of Device for TLC: the devices that may be plugged in.       *)
EXTENDS Device

ep(address, type) == [address |-> address, type |-> type]

BulkPair == <<ep(130, "Bulk"), ep(2, "Bulk")>>

\* Class descriptors behind a control interface.  Only the complete Union
\* descriptors name a data interface.
Header == <<5, CS_INTERFACE, 0, 16, 1>>
Acm == <<4, CS_INTERFACE, 2, 0>>
Union(n) == <<5, CS_INTERFACE, CDC_UNION, 0, n>>
Extras(n) == {Union(n), Header \o Acm \o Union(n), Union(n) \o Union(n + 1)}
Unnamed == {<<>>, Header \o Acm, <<4, CS_INTERFACE, CDC_UNION, 0>>,
            <<0, CS_INTERFACE, CDC_UNION, 0, 1>>, <<64, CS_INTERFACE, CDC_UNION, 0, 1>>}

ControlIf(number, sig, extra) ==
  [number |-> number, alt |-> 0, sig |-> sig, endpoints |-> <<ep(129, "Interrupt")>>,
   extra |-> extra]
DataIf(number, alt, endpoints) ==
  [number |-> number, alt |-> alt, sig |-> <<CLASS_CDC_DATA, 0, 0>>, endpoints |-> endpoints,
   extra |-> <<>>]

Function(config, control, data, alt) ==
  <<[config |-> config, control |-> control, data |-> data, alt |-> alt, notify |-> TRUE,
     bulkIn |-> 130, bulkOut |-> 2]>>

Android == <<224, 1, 3>>

\* A control interface, and data interfaces 0 to 3: on their own, or with the
\* bulk pair behind another setting, or with half of it.
Datas(alt) ==
  IF alt = 0
  THEN [n \in 1..4 |-> DataIf(n - 1, 0, BulkPair)]
  ELSE <<DataIf(0, 0, <<>>), DataIf(0, 1, BulkPair),
         DataIf(1, 0, Tail(BulkPair)), DataIf(1, 1, BulkPair),
         DataIf(3, 0, <<ep(130, "Interrupt"), ep(2, "Bulk")>>), DataIf(3, 1, BulkPair)>>

Single(value, number, sig, extra, alt) ==
  <<[value |-> value, interfaces |-> <<ControlIf(number, sig, extra)>> \o Datas(alt)]>>

\* One function, its data interface named or not.  Interface 255 has 0 for its
\* next one.
Named ==
  {[active |-> 1, configs |-> Single(1, c, sig, e, a), means |-> Function(1, c, 3, a)] :
     c \in {0, 255}, sig \in CONTROL_SIGNATURES, e \in Extras(3), a \in {0, 1}}
Adjacent ==
  {[active |-> 1, configs |-> Single(1, c, Android, e, a), means |-> Function(1, c, (c + 1) % 256, a)] :
     c \in {0, 255}, e \in Unnamed, a \in {0, 1}}

\* No function: another class, or no data interface where it should be.
Others ==
  {[active |-> 1, configs |-> Single(1, 0, <<2, 6, 0>>, Union(3), 0), means |-> <<>>],
   [active |-> 1, configs |-> Single(1, 0, Android, Union(9), 0), means |-> <<>>],
   [active |-> 1, configs |-> Single(1, 3, Android, <<>>, 0), means |-> <<>>]}

Mtp == <<[value |-> 1, interfaces |-> <<ControlIf(0, <<6, 1, 1>>, <<>>)>>]>>

\* In the second configuration, behind an incomplete function of the first.
Second ==
  [active |-> 0, configs |-> Single(1, 3, Android, <<>>, 0) \o Single(2, 0, Android, <<>>, 1),
   means |-> Function(2, 0, 1, 1)]

\* A phone and something else; and the rest, with nothing beside them and held
\* by another driver, only to be looked at.
Camera == [active |-> 1, configs |-> Mtp, means |-> <<>>]
Xiaomi == [active |-> 1, configs |-> Single(1, 0, <<239, 4, 1>>, Union(1), 0), means |-> Function(1, 0, 1, 0)]
LookedAt == Named \cup Adjacent \cup Others \cup {Xiaomi}
AllKinds == LookedAt \cup {Camera, Second}
OpenKinds == {Second}
===============================================================================
