------------------------------- MODULE Matcher -------------------------------
(***************************************************************************)
(* Finding the RNDIS function in a device's descriptors (usb/matcher.rs,    *)
(* usb/descriptor.rs).  A configuration is its value and its interfaces in  *)
(* the order they are listed, an interface its numbers, its endpoints and   *)
(* the bytes of the class descriptors behind it.  An Option is a sequence   *)
(* of at most one element.                                                 *)
(***************************************************************************)
EXTENDS Integers, Sequences, FiniteSetsExt

CS_INTERFACE == 36
CDC_UNION == 6
CLASS_CDC_DATA == 10

CONTROL_SIGNATURES == {<<224, 1, 3>>, <<2, 2, 255>>, <<239, 4, 1>>}

Direction(e) == IF (e.address \div 128) % 2 = 1 THEN "In" ELSE "Out"

\* The first element for which F gives something, and that: Iterator::find_map.
FindMap(s, F(_)) ==
  LET hits == {i \in DOMAIN s : F(s[i]) # <<>>}
  IN  IF hits = {} THEN <<>> ELSE F(s[Min(hits)])

\* InterfaceDescriptor::endpoint
EndpointOf(i, type, dir) ==
  FindMap(i.endpoints, LAMBDA e : IF e.type = type /\ Direction(e) = dir THEN <<e>> ELSE <<>>)

\* Mutant: a descriptor too short for the field ends the search.
UnionSubordinateStops(extra) ==
  LET walk[i \in 1..(Len(extra) + 1)] ==
        IF i > Len(extra) \/ extra[i] < 2 \/ i + extra[i] > Len(extra) + 1 THEN <<>>
        ELSE IF extra[i] < 5 THEN <<>>
        ELSE IF extra[i + 1] = CS_INTERFACE /\ extra[i + 2] = CDC_UNION THEN <<extra[i + 4]>>
        ELSE walk[i + extra[i]]
  IN  walk[1]

\* union_subordinate()
UnionSubordinate(extra) ==
  LET walk[i \in 1..(Len(extra) + 1)] ==
        IF i > Len(extra) \/ extra[i] < 2 \/ i + extra[i] > Len(extra) + 1 THEN <<>>
        ELSE IF extra[i + 1] = CS_INTERFACE /\ extra[i] >= 5 /\ extra[i + 2] = CDC_UNION
             THEN <<extra[i + 4]>>
        ELSE walk[i + extra[i]]
  IN  walk[1]

\* The interface that should carry the data.  In a release build the sum wraps.
DataNumber(control) ==
  LET named == UnionSubordinate(control.extra)
  IN  IF named # <<>> THEN named[1] ELSE (control.number + 1) % 256

\* build()
Build(config, control) ==
  LET pair(i) ==
        LET bin == EndpointOf(i, "Bulk", "In")
            bout == EndpointOf(i, "Bulk", "Out")
        IN  IF /\ i.number = DataNumber(control) /\ i.sig[1] = CLASS_CDC_DATA
               /\ bin # <<>> /\ bout # <<>>
            THEN <<[config |-> config.value, control |-> control.number,
                    data |-> i.number, alt |-> i.alt,
                    notify |-> EndpointOf(control, "Interrupt", "In") # <<>>,
                    bulkIn |-> bin[1].address, bulkOut |-> bout[1].address]>>
            ELSE <<>>
  IN  FindMap(config.interfaces, pair)

\* find_rndis_in_config()
FindRndisInConfig(config) ==
  FindMap(config.interfaces,
          LAMBDA i : IF i.alt = 0 /\ i.sig \in CONTROL_SIGNATURES THEN Build(config, i) ELSE <<>>)

\* find_rndis()
FindRndis(configs) == FindMap(configs, FindRndisInConfig)
==============================================================================
