---------------------------- MODULE SessionProofs ----------------------------
(***************************************************************************)
(* Proofs about the daemon's sessions: nothing of a tunnel outlives the      *)
(* session, tunnels are taken down in order, a tunnel that is up carries     *)
(* traffic, and Session implements Daemon.                                   *)
(***************************************************************************)
EXTENDS Session, FiniteSetTheorems, SequenceTheorems, TLAPS

\* Where the main thread can be, by what it can own there.
Outside == {"scan", "open", "done"}
Looping == {"poll", "keepalive"}
Empty   == Outside \cup {"dropped", "router", "utun", "halt", "stop"}
Opened  == {"timeout", "ifconfig", "route", "store", "IPv4", "DNS", "spawn", "attach"}
Routed  == {"store", "IPv4", "DNS", "spawn", "attach"}
MayHaveTunnel == {"poll", "keepalive", "detach", "drop"}
Steps == Empty \cup Opened \cup MayHaveTunnel \cup {"join", "release", "unwind"}

\* The variables hold what their declarations in the code let them hold.
TypeInv ==
  /\ pc \in Steps
  /\ leaving \in BOOLEAN /\ tunnel \in BOOLEAN /\ readerStop \in BOOLEAN
  /\ wanted \in Lease \cup {None} /\ lease \in Lease \cup {None}
  /\ unit \in Unit \cup {None}
  /\ held \subseteq Resource
  /\ rx \in {"off", "run", "write"}
  /\ status \in [device : BOOLEAN, shown : Lease \cup {None}]
  /\ route \in [Dest -> Unit \cup {Other, None}]
  /\ store \subseteq Key /\ orphans \subseteq store

\* A key of the store is either owned by the tunnel or left behind, not both.
KeysInv == store \ orphans = held \cap Key

\* Which Arc<Utun> are held where: by the parts of a tunnel, the sink and the
\* reader, all of the same device.
DeviceInv ==
  /\ sink \in {None, unit} /\ reader \in {None, unit}
  /\ "utun" \in held => unit \in Unit
  /\ pc \in Empty => held = {}
  /\ pc \in Opened => "utun" \in held /\ lease \in Lease
  /\ tunnel => pc \in MayHaveTunnel
  /\ pc \in MayHaveTunnel /\ ~tunnel => held = {}
  /\ sink # None => tunnel /\ pc # "drop"
  /\ reader # None => tunnel \/ pc \in {"attach", "join"}
  /\ rx = "write" => sink # None

\* No route leads into a device that is closed.
RouteInv == \A d \in Dest : route[d] \in Unit => route[d] \in OpenUnits

\* What Tunnel::up has configured by each of its steps, and keeps configured
\* until the tunnel is dropped.
ConfiguredInv ==
  /\ tunnel \/ pc \in Routed => route[SubnetOf[lease.ip]] = unit
  /\ tunnel => "utun" \in held /\ lease \in Lease
  /\ tunnel \/ pc \in {"DNS", "spawn", "attach"} => "IPv4" \in held
  /\ (tunnel \/ pc \in {"spawn", "attach"}) /\ lease.dns => "DNS" \in held
  /\ tunnel \/ pc = "attach" => reader = unit /\ ~readerStop
  /\ tunnel /\ pc # "drop" => sink = unit

\* The status shows no tunnel before a session, and the one that is up while
\* the session polls.
StatusInv ==
  /\ pc \in {"scan", "open"} => status.shown = None
  /\ pc \in Looping /\ ~tunnel => status.shown = None
  /\ pc \in Looping /\ tunnel => status.shown = lease

\* A lease is being brought up exactly from the poll that took it to the end
\* of Tunnel::up; the poll loop is not left meanwhile.
WantedInv ==
  /\ pc \in Looping \cup {"halt", "stop"} \cup Outside => wanted = None
  /\ pc \in Looping => ~leaving
  /\ pc \in {"halt", "stop"} => leaving
  /\ leaving => wanted = None
  /\ pc \in {"router", "utun", "unwind"} \cup Opened => ~leaving /\ wanted \in Lease
  /\ pc \in {"detach", "drop", "join", "release", "dropped"} /\ ~leaving => wanted \in Lease
  /\ pc \in Opened => lease = wanted
  /\ pc \in {"utun"} \cup Opened => wanted.router

\* The queue of link events: rndis-rx ends with the Failed it reports, so
\* nothing comes after it.
EventsInv ==
  /\ events \in Seq(Leases \cup {Failed})
  /\ pc \in Outside => rx = "off" /\ events = <<>>
  /\ \A i \in 1..Len(events) : events[i] = Failed => i = Len(events) /\ rx = "off"

IInv == /\ TypeInv /\ KeysInv /\ DeviceInv /\ RouteInv
        /\ ConfiguredInv /\ StatusInv /\ WantedInv /\ EventsInv

-----------------------------------------------------------------------------
(* Lemmas about the operators of the model                                 *)

\* A resource that is given back was held.
LEMMA NextToGoHeld ==
  ASSUME held \subseteq Resource, held # {}
  PROVE  NextToGo \in held
<1> DEFINE First(i) == DropOrder[i] \in held /\ \A j \in 1..(i - 1) : DropOrder[j] \notin held
<1>1. /\ DropOrder[1] \in {"utun", "IPv4"} /\ DropOrder[2] \in {"route", "DNS"}
      /\ DropOrder[3] \in {"IPv4", "route"} /\ DropOrder[4] \in {"DNS", "utun"}
      /\ \A x \in Resource : \/ x = DropOrder[1] \/ x = DropOrder[2]
                             \/ x = DropOrder[3] \/ x = DropOrder[4]
  BY DEF DropOrder, Resource
<1>2. \E i \in 1..4 : DropOrder[i] \in held
  BY <1>1
<1>3. \E i \in 1..4 : First(i)
  <2>1. CASE DropOrder[1] \in held
    BY <2>1
  <2>2. CASE DropOrder[1] \notin held /\ DropOrder[2] \in held
    BY <2>2
  <2>3. CASE DropOrder[1] \notin held /\ DropOrder[2] \notin held /\ DropOrder[3] \in held
    BY <2>3
  <2>4. CASE DropOrder[1] \notin held /\ DropOrder[2] \notin held /\ DropOrder[3] \notin held
    BY <2>4, <1>2
  <2>. QED BY <2>1, <2>2, <2>3, <2>4
<1>4. First(CHOOSE i \in 1..4 : First(i))
  BY <1>3
<1>. QED BY <1>4 DEF NextToGo

\* Closing devices only removes routes, and none through a device kept open.
LEMMA RoutesViaFacts ==
  ASSUME TypeInv, NEW units
  PROVE  /\ RoutesVia(units) \in [Dest -> Unit \cup {Other, None}]
         /\ \A d \in Dest : RoutesVia(units)[d] \in Unit => /\ RoutesVia(units)[d] = route[d]
                                                            /\ route[d] \in units
         /\ \A d \in Dest : route[d] \in units => RoutesVia(units)[d] = route[d]
BY SessionAssumption DEF RoutesVia, TypeInv

-----------------------------------------------------------------------------
(* The invariant is inductive                                              *)

LEMMA InitIInv == Init => IInv
<1> SUFFICES ASSUME Init PROVE IInv
  OBVIOUS
<1>1. TypeInv /\ KeysInv /\ DeviceInv
  BY SessionAssumption, Zenon
  DEF Init, TypeInv, KeysInv, DeviceInv, Steps, Empty, Outside, Opened, MayHaveTunnel, Idle,
      Resource, Key
<1>2. RouteInv
  BY SessionAssumption DEF Init, RouteInv
<1>3. ConfiguredInv /\ StatusInv /\ WantedInv
  BY DEF Init, ConfiguredInv, StatusInv, WantedInv, Routed, Looping, Outside, Opened, Idle
<1>4. EventsInv
  BY DEF Init, EventsInv
<1>. QED BY <1>1, <1>2, <1>3, <1>4 DEF IInv

\* Every step keeps the types.
LEMMA TypeKept == ASSUME IInv, [Next]_vars PROVE TypeInv'
<1> USE DEF tunnelVars, readerVars, linkVars, sysVars, envVars
<1>0. TypeInv /\ WantedInv /\ EventsInv
  BY DEF IInv
<1>t. /\ "scan" \in Steps /\ "open" \in Steps /\ "done" \in Steps /\ "dropped" \in Steps
      /\ "router" \in Steps /\ "utun" \in Steps /\ "halt" \in Steps /\ "stop" \in Steps
      /\ Opened \subseteq Steps /\ MayHaveTunnel \subseteq Steps
      /\ "join" \in Steps /\ "release" \in Steps /\ "unwind" \in Steps
  BY DEF Steps, Empty, Outside
<1>u. UNCHANGED vars => TypeInv'
  BY <1>0 DEF vars, TypeInv
<1>s. /\ Idle \in [device : BOOLEAN, shown : Lease \cup {None}]
      /\ [status EXCEPT !.device = TRUE] \in [device : BOOLEAN, shown : Lease \cup {None}]
  BY <1>0, Zenon DEF TypeInv, Idle
<1>1. Scan \/ OpenFails \/ Open \/ SessionEnds => TypeInv'
  BY <1>0, <1>t, <1>s, Zenon DEF Scan, OpenFails, Open, SessionEnds, TypeInv, MayHaveTunnel
<1>2. Interrupted \/ Keepalive \/ Halt \/ JoinReader \/ DropTunnel => TypeInv'
  BY <1>0, <1>t, Zenon
  DEF Interrupted, Keepalive, Halt, JoinReader, DropTunnel, Leave, TypeInv, MayHaveTunnel
<1>3. PollEvent => TypeInv'
  <2>1. events # <<>> => Head(events) \in Lease \cup {Failed}
    BY <1>0, LeaseAssumption DEF EventsInv
  <2>. QED BY <1>0, <1>t, <2>1, Zenon DEF PollEvent, Bound, Leave, TypeInv, MayHaveTunnel
<1>r. \A units : RoutesVia(units) \in [Dest -> Unit \cup {Other, None}]
  BY <1>0, RoutesViaFacts
<1>4. Detach \/ ReaderStops => TypeInv'
  BY <1>0, <1>t, <1>r DEF Detach, ReaderStops, TypeInv, MayHaveTunnel
<1>4a. ASSUME Kill PROVE TypeInv'
  <2>1. route' \in [Dest -> Unit \cup {Other, None}]
    BY <1>4a, <1>r DEF Kill
  <2>2. status' \in [device : BOOLEAN, shown : Lease \cup {None}]
    BY <1>4a, <1>s DEF Kill
  <2>. QED BY <1>0, <1>4a, <1>t, <2>1, <2>2, Zenon DEF Kill, TypeInv
<1>5. ASSUME Release PROVE TypeInv'
  <2>1. NextToGo \in held
    BY <1>0, <1>5, NextToGoHeld DEF Release, TypeInv
  <2>2. held' \subseteq Resource
    BY <1>0, <1>5 DEF Release, TypeInv
  <2>3. route' \in [Dest -> Unit \cup {Other, None}]
    BY <1>0, <1>5, <1>r DEF Release, TypeInv
  <2>4. store' \subseteq Key /\ orphans' \subseteq store'
    BY <1>0, <1>5, <2>1 DEF Release, TypeInv, IInv, KeysInv
  <2>. QED BY <1>0, <1>5, <2>2, <2>3, <2>4 DEF Release, TypeInv
<1>6. Dropped \/ UpRouter \/ UpConfigure \/ UpStore \/ Spawn => TypeInv'
  BY <1>0, <1>t, Zenon
  DEF Dropped, UpRouter, UpConfigure, UpStore, Spawn, Leave, TypeInv, Opened, MayHaveTunnel
<1>6a. UpUtun => TypeInv'
  BY <1>0, <1>t DEF UpUtun, TypeInv, Opened, Resource
<1>7. ASSUME UpRoute PROVE TypeInv'
  <2>1. route' \in [Dest -> Unit \cup {Other, None}]
    BY <1>0, <1>7, Zenon DEF UpRoute, TypeInv
  <2>. QED BY <1>0, <1>7, <1>t, <2>1 DEF UpRoute, TypeInv, Opened, Resource
<1>7b. ASSUME UpFails PROVE TypeInv'
  <2>1. route' \in [Dest -> Unit \cup {Other, None}]
    BY <1>0, <1>7b DEF UpFails, TypeInv
  <2>. QED BY <1>0, <1>7b, <1>t, <2>1 DEF UpFails, TypeInv
<1>7a. UpKeys => TypeInv'
  BY <1>0, <1>t, ZenonT(30) DEF UpKeys, SetKey, TypeInv, Opened, Resource, Key
<1>8. Attach => TypeInv'
  BY <1>0, <1>t DEF Attach, TypeInv, MayHaveTunnel
<1>9. RxBound \/ RxDeliver \/ RxFails \/ RxStops \/ TxStops \/ Signal \/ Plug \/ OtherRoute => TypeInv'
  BY <1>0
  DEF RxBound, RxDeliver, RxFails, RxStops, TxStops, Signal, Plug, OtherRoute, TypeInv
<1>. QED BY <1>u, <1>1, <1>2, <1>3, <1>4, <1>4a, <1>5, <1>6, <1>6a, <1>7, <1>7a,
           <1>7b, <1>8, <1>9
  DEF Next, Main

\* Every step keeps the books of the store: a key is published and remembered
\* together (Dns::set), and forgotten when it is removed or left (Drop for Dns).
LEMMA KeysKept == ASSUME IInv, [Next]_vars PROVE KeysInv'
<1> USE DEF tunnelVars, readerVars, linkVars, sysVars, envVars
<1>0. TypeInv /\ KeysInv /\ DeviceInv
  BY DEF IInv
<1>1. ASSUME UNCHANGED <<held, store, orphans>> PROVE KeysInv'
  BY <1>0, <1>1 DEF KeysInv
<1>2. ASSUME Release PROVE KeysInv'
  <2>1. NextToGo \in held
    BY <1>0, <1>2, NextToGoHeld DEF Release, TypeInv
  <2>. QED BY <1>0, <1>2, <2>1 DEF Release, TypeInv, KeysInv, Key
<1>3. ASSUME UpUtun PROVE KeysInv'
  BY <1>0, <1>3 DEF UpUtun, DeviceInv, Empty, KeysInv, Key
<1>4. ASSUME UpKeys PROVE KeysInv'
  BY <1>0, <1>4 DEF UpKeys, SetKey, KeysInv, Key
<1>5. ASSUME UpRoute PROVE KeysInv'
  BY <1>0, <1>5 DEF UpRoute, KeysInv, Key
<1>6. ASSUME Kill PROVE KeysInv'
  BY <1>6 DEF Kill, KeysInv
<1>7. Main => Release \/ UpUtun \/ UpKeys \/ UpRoute \/ UNCHANGED <<held, store, orphans>>
  <2>1. Scan \/ OpenFails \/ Open => UNCHANGED <<held, store, orphans>>
    BY DEF Scan, OpenFails, Open
  <2>2. Interrupted \/ Keepalive => UNCHANGED <<held, store, orphans>>
    BY DEF Interrupted, Keepalive
  <2>3. PollEvent => UNCHANGED <<held, store, orphans>>
    BY DEF PollEvent, Bound
  <2>4. DropTunnel \/ JoinReader \/ Dropped => UNCHANGED <<held, store, orphans>>
    BY DEF DropTunnel, JoinReader, Dropped
  <2>5. UpRouter \/ UpConfigure \/ UpStore => UNCHANGED <<held, store, orphans>>
    BY DEF UpRouter, UpConfigure, UpStore
  <2>6. UpFails \/ Spawn => UNCHANGED <<held, store, orphans>>
    BY DEF UpFails, Spawn
  <2>7. Halt \/ SessionEnds => UNCHANGED <<held, store, orphans>>
    BY DEF Halt, SessionEnds
  <2>. QED BY <2>1, <2>2, <2>3, <2>4, <2>5, <2>6, <2>7, Zenon DEF Main
<1>8. Next => Main \/ Kill \/ UNCHANGED <<held, store, orphans>>
  BY Zenon DEF Next, Detach, Attach, RxBound, RxDeliver, RxFails, RxStops, TxStops, ReaderStops,
         Signal, Plug, OtherRoute
<1>. QED BY <1>1, <1>2, <1>3, <1>4, <1>5, <1>6, <1>7, <1>8 DEF vars

\* Every step keeps track of who holds the device.
LEMMA DeviceKept == ASSUME IInv, [Next]_vars PROVE DeviceInv'
<1> USE DEF tunnelVars, readerVars, linkVars, sysVars, envVars
<1>0. TypeInv /\ DeviceInv /\ WantedInv
  BY DEF IInv
<1> USE DEF Empty, Outside, Opened, MayHaveTunnel
<1>1. ASSUME UNCHANGED <<pc, tunnel, lease, unit, held, sink, reader, rx>> PROVE DeviceInv'
  BY <1>0, <1>1 DEF DeviceInv
<1>2. ASSUME Scan \/ OpenFails \/ Open \/ SessionEnds \/ Halt PROVE DeviceInv'
  BY <1>0, <1>2 DEF Scan, OpenFails, Open, SessionEnds, Halt, DeviceInv
<1>3. ASSUME Interrupted \/ Keepalive \/ PollEvent PROVE DeviceInv'
  BY <1>0, <1>3 DEF Interrupted, Keepalive, PollEvent, Bound, Leave, DeviceInv
<1>4. ASSUME Detach PROVE DeviceInv'
  BY <1>0, <1>4 DEF Detach, DeviceInv, TypeInv
<1>5. ASSUME DropTunnel \/ JoinReader PROVE DeviceInv'
  BY <1>0, <1>5 DEF DropTunnel, JoinReader, DeviceInv, TypeInv
<1>6. ASSUME Release PROVE DeviceInv'
  BY <1>0, <1>6 DEF Release, DeviceInv
<1>7. ASSUME Dropped PROVE DeviceInv'
  BY <1>0, <1>7 DEF Dropped, Leave, DeviceInv
<1>8. ASSUME UpUtun PROVE DeviceInv'
  BY <1>0, <1>8 DEF UpUtun, DeviceInv, WantedInv
<1>9. ASSUME UpRouter \/ UpConfigure \/ UpStore \/ UpRoute \/ UpFails PROVE DeviceInv'
  BY <1>0, <1>9 DEF UpRouter, UpConfigure, UpStore, UpRoute, UpFails, UpSteps, DeviceInv
<1>10. ASSUME UpKeys PROVE DeviceInv'
  BY <1>0, <1>10 DEF UpKeys, SetKey, DeviceInv
<1>11. ASSUME Spawn \/ Attach PROVE DeviceInv'
  BY <1>0, <1>11 DEF Spawn, Attach, DeviceInv
<1>12. ASSUME RxDeliver \/ RxFails \/ RxStops PROVE DeviceInv'
  BY <1>0, <1>12 DEF RxDeliver, RxFails, RxStops, DeviceInv
<1>13. ASSUME ReaderStops PROVE DeviceInv'
  BY <1>0, <1>13 DEF ReaderStops, DeviceInv
<1>14. ASSUME Kill PROVE DeviceInv'
  BY <1>14 DEF Kill, DeviceInv
<1>15. RxBound \/ TxStops \/ Signal \/ Plug \/ OtherRoute \/ UNCHANGED vars
         => UNCHANGED <<pc, tunnel, lease, unit, held, sink, reader, rx>>
  BY DEF RxBound, TxStops, Signal, Plug, OtherRoute, vars
<1>. QED BY <1>1, <1>2, <1>3, <1>4, <1>5, <1>6, <1>7, <1>8, <1>9, <1>10, <1>11, <1>12,
            <1>13, <1>14, <1>15 DEF Next, Main

\* No step leaves a route into a closed device: whoever lets go of the last
\* reference takes the routes along.
LEMMA RouteKept == ASSUME IInv, [Next]_vars PROVE RouteInv'
<1> USE DEF tunnelVars, readerVars, linkVars, sysVars, envVars
<1>0. TypeInv /\ DeviceInv /\ RouteInv
  BY DEF IInv
<1>1. ASSUME UNCHANGED route, OpenUnits \subseteq OpenUnits' PROVE RouteInv'
  BY <1>0, <1>1 DEF RouteInv
<1>2. ASSUME route' = RoutesVia(OpenUnits') PROVE RouteInv'
  BY <1>0, <1>2, RoutesViaFacts DEF RouteInv
<1>4. UNCHANGED <<unit, held, sink, reader>> => OpenUnits' = OpenUnits
  BY DEF OpenUnits, Kept
<1>5. ASSUME Detach \/ ReaderStops \/ Kill PROVE RouteInv'
  <2>1. route' = RoutesVia(OpenUnits')
    BY <1>5, Zenon DEF Detach, ReaderStops, Kill, OpenUnits, Kept
  <2>. QED BY <1>2, <2>1
<1>6. ASSUME Release PROVE RouteInv'
  <2>1. CASE NextToGo = "utun"
    <3>1. route' = RoutesVia(OpenUnits')
      BY <1>6, <2>1 DEF Release, OpenUnits, Kept, Key
    <3>. QED BY <1>2, <3>1
  <2>2. CASE NextToGo # "utun"
    <3>1. OpenUnits' = OpenUnits
      BY <1>6, <2>2 DEF Release, OpenUnits, Kept
    <3>2. \/ UNCHANGED route
          \/ route' = [route EXCEPT ![SubnetOf[lease.ip]] = None]
      BY <1>6, <2>2 DEF Release
    <3>3. \A d \in Dest : route'[d] \in Unit => route'[d] = route[d]
      BY <1>0, <3>2, SessionAssumption DEF TypeInv
    <3>. QED BY <1>0, <3>1, <3>3 DEF RouteInv
  <2>. QED BY <2>1, <2>2
<1>7. ASSUME UpUtun PROVE RouteInv'
  <2>1. OpenUnits = {}
    BY <1>0, <1>7 DEF UpUtun, DeviceInv, OpenUnits, Kept, Empty, MayHaveTunnel
  <2>. QED BY <1>1, <1>7, <2>1 DEF UpUtun
<1>8. ASSUME UpRoute PROVE RouteInv'
  <2>1. OpenUnits' = OpenUnits /\ unit \in OpenUnits
    BY <1>0, <1>8, SessionAssumption DEF UpRoute, DeviceInv, OpenUnits, Kept, Opened
  <2>2. \A d \in Dest : route'[d] = route[d] \/ route'[d] = unit
    BY <1>0, <1>8 DEF UpRoute, TypeInv
  <2>. QED BY <1>0, <2>1, <2>2 DEF RouteInv
<1>9. ASSUME UpFails PROVE RouteInv'
  <2>1. OpenUnits' = OpenUnits
    BY <1>9, <1>4 DEF UpFails
  <2>2. \A d \in Dest : route'[d] = route[d] \/ route'[d] = None
    BY <1>0, <1>9 DEF UpFails, TypeInv
  <2>. QED BY <1>0, <2>1, <2>2, SessionAssumption DEF RouteInv
<1>10. ASSUME OtherRoute PROVE RouteInv'
  <2>1. OpenUnits' = OpenUnits
    BY <1>10, <1>4 DEF OtherRoute
  <2>2. \A d \in Dest : route'[d] = route[d] \/ route'[d] = Other
    BY <1>0, <1>10 DEF OtherRoute, TypeInv
  <2>. QED BY <1>0, <2>1, <2>2, SessionAssumption DEF RouteInv
<1>11. ASSUME UpKeys \/ Spawn \/ Attach PROVE RouteInv'
  <2>1. OpenUnits \subseteq OpenUnits'
    BY <1>0, <1>11 DEF UpKeys, SetKey, Spawn, Attach, OpenUnits, Kept, DeviceInv, Opened, MayHaveTunnel
  <2>. QED BY <1>1, <1>11, <2>1 DEF UpKeys, Spawn, Attach
<1>12. Main => \/ Release \/ UpUtun \/ UpRoute \/ UpFails \/ UpKeys \/ Spawn
               \/ UNCHANGED <<unit, held, sink, reader, route>>
  BY SMTT(20) DEF Main, Scan, OpenFails, Open, Interrupted, PollEvent, Bound, Keepalive, DropTunnel,
         JoinReader, Dropped, UpRouter, UpConfigure, UpStore, Halt, SessionEnds
<1>13. Next => \/ Main \/ Detach \/ Attach \/ ReaderStops \/ OtherRoute \/ Kill
               \/ UNCHANGED <<unit, held, sink, reader, route>>
  BY Zenon DEF Next, RxBound, RxDeliver, RxFails, RxStops, TxStops, Signal, Plug
<1>14. ASSUME UNCHANGED <<unit, held, sink, reader, route>> PROVE RouteInv'
  BY <1>1, <1>4, <1>14
<1>. QED BY <1>5, <1>6, <1>7, <1>8, <1>9, <1>10, <1>11, <1>12, <1>13, <1>14 DEF vars

\* Every step keeps what Tunnel::up configured, until the tunnel is dropped.
LEMMA ConfiguredKept == ASSUME IInv, [Next]_vars PROVE ConfiguredInv'
<1> USE DEF tunnelVars, readerVars, linkVars, sysVars, envVars
<1>0. TypeInv /\ DeviceInv /\ ConfiguredInv
  BY DEF IInv
<1>1. ASSUME UNCHANGED <<tunnel, lease, unit, held, sink, readerVars, route>>,
             pc' \in Routed => pc' = pc \/ (pc = "store" /\ pc' = "IPv4"),
             pc' = "drop" \/ pc # "drop"
      PROVE  ConfiguredInv'
  BY <1>0, <1>1 DEF ConfiguredInv, Routed
<1>2. ASSUME tunnel' = FALSE, pc' \notin Routed PROVE ConfiguredInv'
  BY <1>2 DEF ConfiguredInv, Routed
<1>3. Scan \/ OpenFails \/ Open \/ SessionEnds \/ Halt => ConfiguredInv'
  BY <1>1 DEF Scan, OpenFails, Open, SessionEnds, Halt, Routed
<1>4. Interrupted \/ Keepalive \/ PollEvent => ConfiguredInv'
  BY <1>1 DEF Interrupted, Keepalive, PollEvent, Bound, Leave, Routed
<1>5. ASSUME Detach PROVE ConfiguredInv'
  <2>1. CASE ~tunnel
    BY <1>0, <1>2, <1>5, <2>1, Zenon DEF Detach, Routed, TypeInv
  <2>2. CASE tunnel
    <3>1. unit \in Kept(held, None, reader) /\ SubnetOf[lease.ip] \in Dest
      BY <1>0, <2>2, SessionAssumption DEF ConfiguredInv, DeviceInv, Kept, Lease
    <3>2. route'[SubnetOf[lease.ip]] = unit
      BY <1>0, <1>5, <2>2, <3>1, RoutesViaFacts DEF Detach, ConfiguredInv
    <3>. QED BY <1>0, <1>5, <2>2, <3>2, Zenon DEF Detach, ConfiguredInv, Routed
  <2>. QED BY <2>1, <2>2
<1>6. DropTunnel \/ Kill => ConfiguredInv'
  BY <1>2, Zenon DEF DropTunnel, Kill, Routed
<1>7. ASSUME JoinReader \/ Release \/ Dropped \/ UpRouter \/ UpUtun \/ UpFails PROVE ConfiguredInv'
  <2>1. pc \notin MayHaveTunnel /\ pc' \notin Routed /\ UNCHANGED tunnel
    BY <1>0, <1>7, Zenon
    DEF JoinReader, Release, Dropped, UpRouter, UpUtun, UpFails, UpSteps, Leave,
        DeviceInv, MayHaveTunnel, Routed
  <2>. QED BY <1>0, <1>2, <2>1, Zenon DEF DeviceInv, TypeInv
<1>8. ASSUME UpConfigure \/ UpStore PROVE ConfiguredInv'
  BY <1>1, <1>8 DEF UpConfigure, UpStore, Routed
<1>9. ASSUME UpRoute PROVE ConfiguredInv'
  <2>1. ~tunnel /\ SubnetOf[lease.ip] \in Dest
    BY <1>0, <1>9, SessionAssumption DEF UpRoute, DeviceInv, MayHaveTunnel, Opened, Lease
  <2>2. route'[SubnetOf[lease.ip]] = unit
    BY <1>0, <1>9, <2>1 DEF UpRoute, TypeInv
  <2>. QED BY <1>9, <2>1, <2>2 DEF UpRoute, ConfiguredInv
<1>10. ASSUME UpKeys PROVE ConfiguredInv'
  <2>1. ~tunnel
    BY <1>0, <1>10 DEF UpKeys, DeviceInv, MayHaveTunnel
  <2>. QED BY <1>0, <1>10, <2>1 DEF UpKeys, SetKey, ConfiguredInv, Routed
<1>11. ASSUME Spawn PROVE ConfiguredInv'
  <2>1. ~tunnel
    BY <1>0, <1>11 DEF Spawn, DeviceInv, MayHaveTunnel
  <2>. QED BY <1>0, <1>11, <2>1 DEF Spawn, ConfiguredInv, Routed
<1>12. ASSUME Attach PROVE ConfiguredInv'
  BY <1>0, <1>12 DEF Attach, ConfiguredInv, DeviceInv, Opened, Routed
<1>13. ASSUME ReaderStops PROVE ConfiguredInv'
  <2>1. ~tunnel /\ pc # "attach"
    BY <1>0, <1>13 DEF ReaderStops, ConfiguredInv
  <2>2. pc \notin Routed
    BY <1>0, <1>13, <2>1 DEF ReaderStops, DeviceInv, Routed
  <2>. QED BY <1>0, <1>2, <1>13, <2>1, <2>2, Zenon DEF ReaderStops, TypeInv
<1>14. ASSUME OtherRoute PROVE ConfiguredInv'
  <2>1. tunnel \/ pc \in Routed => SubnetOf[lease.ip] \in Dest /\ unit \in Unit
    BY <1>0, SessionAssumption DEF ConfiguredInv, DeviceInv, Lease, Routed, Opened
  <2>2. tunnel \/ pc \in Routed => route'[SubnetOf[lease.ip]] = unit
    BY <1>0, <1>14, <2>1, SessionAssumption, SMTT(20) DEF OtherRoute, ConfiguredInv, TypeInv
  <2>. QED BY <1>0, <1>14, <2>2 DEF OtherRoute, ConfiguredInv
<1>15. RxBound \/ RxDeliver \/ RxFails \/ RxStops \/ TxStops \/ Signal \/ Plug \/ UNCHANGED vars
         => ConfiguredInv'
  BY <1>1 DEF RxBound, RxDeliver, RxFails, RxStops, TxStops, Signal, Plug, vars
<1>. QED BY <1>3, <1>4, <1>5, <1>6, <1>7, <1>8, <1>9, <1>10, <1>11, <1>12, <1>13, <1>14, <1>15
         DEF Next, Main

\* The status changes with the tunnel.
LEMMA StatusKept == ASSUME IInv, [Next]_vars PROVE StatusInv'
<1> USE DEF tunnelVars, readerVars, linkVars, sysVars, envVars
<1>0. TypeInv /\ DeviceInv /\ StatusInv
  BY DEF IInv
<1>1. ASSUME pc' \notin Looping, pc' \notin {"scan", "open"} PROVE StatusInv'
  BY <1>1 DEF StatusInv
<1>2. ASSUME UNCHANGED <<tunnel, lease, status>>, pc' = pc \/ {pc, pc'} \subseteq Looping
      PROVE  StatusInv'
  BY <1>0, <1>2 DEF StatusInv, Looping
<1>3. ASSUME status' = Idle, pc' = "scan" PROVE StatusInv'
  BY <1>3 DEF StatusInv, Looping, Idle
<1>4. ASSUME Scan PROVE StatusInv'
  <2>1. [status EXCEPT !.device = TRUE].shown = status.shown
    BY <1>0 DEF TypeInv
  <2>. QED BY <1>0, <1>4, <2>1, Zenon DEF Scan, StatusInv, Looping
<1>5. ASSUME Open PROVE StatusInv'
  BY <1>0, <1>5 DEF Open, StatusInv, Looping, DeviceInv, MayHaveTunnel
<1>6. ASSUME Attach PROVE StatusInv'
  <2>1. [status EXCEPT !.shown = lease].shown = lease
    BY <1>0 DEF TypeInv
  <2>. QED BY <1>6, <2>1 DEF Attach, StatusInv, Looping
<1>7. OpenFails \/ SessionEnds \/ Kill => StatusInv'
  BY <1>3 DEF OpenFails, SessionEnds, Kill
<1>8. Interrupted \/ PollEvent \/ Keepalive => StatusInv'
  BY <1>1, <1>2, SMTT(20) DEF Interrupted, PollEvent, Bound, Keepalive, Leave, Looping
<1>9. Detach \/ DropTunnel \/ JoinReader \/ Release \/ Dropped \/ Halt => StatusInv'
  BY <1>1, SMTT(20) DEF Detach, DropTunnel, JoinReader, Release, Dropped, Halt, Leave, Looping
<1>10. UpRouter \/ UpUtun \/ UpConfigure \/ UpRoute \/ UpStore \/ UpKeys \/ UpFails \/ Spawn
         => StatusInv'
  BY <1>1, Zenon DEF UpRouter, UpUtun, UpConfigure, UpRoute, UpStore, UpKeys, UpFails, Spawn, Looping
<1>11. RxBound \/ RxDeliver \/ RxFails \/ RxStops \/ TxStops \/ ReaderStops \/ Signal \/ Plug
         \/ OtherRoute \/ UNCHANGED vars => StatusInv'
  BY <1>2 DEF RxBound, RxDeliver, RxFails, RxStops, TxStops, ReaderStops, Signal, Plug,
              OtherRoute, vars
<1>. QED BY <1>4, <1>5, <1>6, <1>7, <1>8, <1>9, <1>10, <1>11 DEF Next, Main

\* A Failed event is not a lease.
LEMMA FailedNoLease == Failed \notin Lease
<1>1. \A l \in Lease : DOMAIN l = {"ip", "router", "dns"}
  BY DEF Lease
<1>2. DOMAIN Failed = {"ip"}
  BY DEF Failed
<1>. QED BY <1>1, <1>2

\* Every step keeps the wanted lease for as long as it is being brought up.
LEMMA WantedKept == ASSUME IInv, [Next]_vars PROVE WantedInv'
<1> USE DEF tunnelVars, readerVars, linkVars, sysVars, envVars
<1>0. TypeInv /\ WantedInv /\ EventsInv
  BY DEF IInv
<1> USE DEF Looping, Outside, Opened
<1>1. ASSUME UNCHANGED <<pc, leaving, wanted, lease>> PROVE WantedInv'
  BY <1>0, <1>1 DEF WantedInv
<1>2. Scan \/ OpenFails \/ Open \/ SessionEnds \/ Halt => WantedInv'
  BY <1>0 DEF Scan, OpenFails, Open, SessionEnds, Halt, WantedInv
<1>3. ASSUME PollEvent PROVE WantedInv'
  <2>1. events # <<>> => Head(events) \in Lease \cup {Failed}
    BY <1>0, LeaseAssumption DEF EventsInv
  <2>. QED BY <1>0, <1>3, <2>1 DEF PollEvent, Bound, Leave, WantedInv
<1>4. Interrupted \/ Keepalive \/ Detach \/ DropTunnel \/ JoinReader => WantedInv'
  <2>1. ASSUME pc \in Looping, UNCHANGED <<wanted, lease>>,
               (pc' = "poll" /\ leaving' = leaving) \/ (pc' = "detach" /\ leaving' = TRUE)
        PROVE  WantedInv'
    BY <1>0, <2>1 DEF WantedInv
  <2>2. ASSUME pc \in {"detach", "drop", "join"}, UNCHANGED <<leaving, wanted, lease>>,
               pc' \in {"drop", "join", "release", "dropped"}
        PROVE  WantedInv'
    BY <1>0, <2>2 DEF WantedInv
  <2>3. Interrupted \/ Keepalive => WantedInv'
    BY <2>1, Zenon DEF Interrupted, Keepalive, Leave
  <2>4. Detach \/ DropTunnel \/ JoinReader => WantedInv'
    BY <2>2 DEF Detach, DropTunnel, JoinReader
  <2> QED
    BY <2>3, <2>4, Zenon
<1>5. Release \/ Dropped => WantedInv'
  <2>1. Release => WantedInv'
    BY <1>1, Zenon DEF Release
  <2>2. ASSUME Dropped PROVE WantedInv'
    <3>1. lease' = lease /\ pc \in {"release", "unwind", "dropped"}
      BY <2>2, Zenon DEF Dropped
    <3>2. CASE pc = "unwind" /\ Leave /\ wanted' = None
      BY <3>1, <3>2 DEF Leave, WantedInv
    <3>3. CASE pc # "unwind" /\ ~leaving /\ pc' = "router" /\ UNCHANGED <<leaving, wanted>>
      BY <1>0, <3>1, <3>3 DEF WantedInv
    <3>4. CASE pc # "unwind" /\ leaving /\ pc' = "halt" /\ UNCHANGED <<leaving, wanted>>
      BY <1>0, <3>1, <3>4 DEF WantedInv
    <3> QED
      BY <2>2, <3>2, <3>3, <3>4, Zenon DEF Dropped
  <2> QED
    BY <2>1, <2>2, Zenon
<1>6. UpRouter => WantedInv'
  BY <1>0 DEF UpRouter, WantedInv
<1>7. UpUtun \/ UpConfigure \/ UpRoute \/ UpStore \/ UpKeys \/ Spawn => WantedInv'
  <2>1. ASSUME pc \in Opened, pc' \in Opened, UNCHANGED <<leaving, wanted, lease>>
        PROVE  WantedInv'
    BY <1>0, <2>1 DEF WantedInv
  <2>2. UpUtun => WantedInv'
    BY <1>0 DEF UpUtun, WantedInv
  <2>3. UpConfigure \/ UpRoute \/ UpStore \/ Spawn => WantedInv'
    BY <2>1 DEF UpConfigure, UpRoute, UpStore, Spawn
  <2>4. UpKeys => WantedInv'
    BY <2>1 DEF UpKeys
  <2> QED
    BY <2>2, <2>3, <2>4, Zenon
<1>8. UpFails \/ Attach => WantedInv'
  BY <1>0 DEF UpFails, UpSteps, Attach, WantedInv
<1>9. Kill => WantedInv'
  BY SMTT(20) DEF Kill, WantedInv
<1>10. RxBound \/ RxDeliver \/ RxFails \/ RxStops \/ TxStops \/ ReaderStops \/ Signal \/ Plug
         \/ OtherRoute \/ UNCHANGED vars => WantedInv'
  BY <1>1, Zenon DEF RxBound, RxDeliver, RxFails, RxStops, TxStops, ReaderStops, Signal, Plug,
              OtherRoute, vars
<1>. QED BY <1>2, <1>3, <1>4, <1>5, <1>6, <1>7, <1>8, <1>9, <1>10 DEF Next, Main

\* Every step keeps the queue: leases, and at its end perhaps Failed.
LEMMA EventsKept == ASSUME IInv, [Next]_vars PROVE EventsInv'
<1> USE DEF tunnelVars, readerVars, linkVars, sysVars, envVars, Outside
<1>0. TypeInv /\ EventsInv
  BY DEF IInv
<1>q. Leases \cup {Failed} # {} /\ Failed \notin Leases
  BY FailedNoLease, LeaseAssumption
<1>1. ASSUME UNCHANGED <<rx, events>>, pc' \in Outside => pc \in Outside PROVE EventsInv'
  BY <1>0, <1>1 DEF EventsInv
<1>2. ASSUME rx' = "off" \/ pc' \notin Outside, events' = <<>> PROVE EventsInv'
  BY <1>2 DEF EventsInv
<1>3. Open \/ SessionEnds \/ Kill => EventsInv'
  BY <1>2 DEF Open, SessionEnds, Kill
<1>4. ASSUME PollEvent PROVE EventsInv'
  <2>1. CASE events = <<>>
    BY <1>1, <1>4, <2>1, SMTT(20) DEF PollEvent
  <2>2. CASE events # <<>>
    <3>1. /\ events' = Tail(events) /\ UNCHANGED rx
          /\ pc' \notin Outside
      BY <1>4, <2>2 DEF PollEvent, Bound, Leave
    <3>2. /\ events' \in Seq(Leases \cup {Failed})
          /\ Len(events) \in Nat /\ Len(events') = Len(events) - 1
          /\ \A i \in 1..Len(events') : events'[i] = events[i + 1]
      BY <1>0, <2>2, <3>1 DEF EventsInv
    <3>3. ASSUME NEW i \in 1..Len(events'), events'[i] = Failed
          PROVE  i = Len(events') /\ rx' = "off"
      <4>1. i + 1 \in 1..Len(events) /\ events[i + 1] = Failed
        BY <3>2, <3>3
      <4>2. i + 1 = Len(events) /\ rx = "off"
        BY <1>0, <4>1 DEF EventsInv
      <4>. QED BY <3>1, <3>2, <4>2
    <3>. QED BY <3>1, <3>2, <3>3, Zenon DEF EventsInv
  <2>. QED BY <2>1, <2>2
<1>5. ASSUME RxBound PROVE EventsInv'
  <2>1. PICK l \in Leases : events' = Append(events, l)
    BY <1>5 DEF RxBound
  <2>2. rx = "run" /\ UNCHANGED <<pc, rx>>
    BY <1>5 DEF RxBound
  <2>3. \A i \in 1..Len(events) : events[i] # Failed
    BY <1>0, <2>2 DEF EventsInv
  <2>. QED BY <1>0, <1>q, <2>1, <2>2, <2>3 DEF EventsInv
<1>6. ASSUME RxFails PROVE EventsInv'
  <2>1. \A i \in 1..Len(events) : events[i] # Failed
    BY <1>0, <1>6 DEF EventsInv, RxFails
  <2>. QED BY <1>0, <1>6, <2>1 DEF EventsInv, RxFails
<1>7. ASSUME RxDeliver \/ RxStops PROVE EventsInv'
  BY <1>0, <1>7 DEF EventsInv, RxDeliver, RxStops
<1>8. Scan \/ OpenFails \/ Interrupted \/ Keepalive \/ Detach \/ DropTunnel \/ JoinReader
        \/ Release \/ Dropped \/ Halt \/ Attach => EventsInv'
  BY <1>1, SMTT(20) DEF Scan, OpenFails, Interrupted, Keepalive, Detach, DropTunnel, JoinReader,
              Release, Dropped, Halt, Attach, Leave
<1>9. UpRouter \/ UpUtun \/ UpConfigure \/ UpRoute \/ UpStore \/ UpKeys \/ UpFails \/ Spawn
        => EventsInv'
  BY <1>1, Zenon DEF UpRouter, UpUtun, UpConfigure, UpRoute, UpStore, UpKeys, UpFails, Spawn
<1>10. TxStops \/ ReaderStops \/ Signal \/ Plug \/ OtherRoute \/ UNCHANGED vars => EventsInv'
  BY <1>1 DEF TxStops, ReaderStops, Signal, Plug, OtherRoute, vars
<1>. QED BY <1>3, <1>4, <1>5, <1>6, <1>7, <1>8, <1>9, <1>10 DEF Next, Main

LEMMA StepIInv == IInv /\ [Next]_vars => IInv'
BY TypeKept, KeysKept, DeviceKept, RouteKept, ConfiguredKept, StatusKept, WantedKept,
   EventsKept DEF IInv

\* The inductive invariant holds in every state of every session.
THEOREM SessionInv == Spec => []IInv
BY InitIInv, StepIInv, PTL DEF Spec

-----------------------------------------------------------------------------
(* The safety properties                                                   *)

\* At most one device is open, and none when nobody holds one.
LEMMA DevicesOpen ==
  ASSUME DeviceInv
  PROVE  /\ OpenUnits \subseteq {unit}
         /\ held = {} /\ sink = None /\ reader = None => OpenUnits = {}
BY DEF DeviceInv, OpenUnits, Kept

\* Where nothing is held the system is as it was.
LEMMA EmptyRestored ==
  ASSUME IInv, pc \in Outside \cup {"stop"}
  PROVE  Restored
<1>0. TypeInv /\ KeysInv /\ DeviceInv /\ RouteInv
  BY DEF IInv
<1>1. held = {} /\ sink = None /\ reader = None
  BY <1>0 DEF DeviceInv, Empty, Outside, MayHaveTunnel
<1>2. OpenUnits = {}
  BY <1>0, <1>1, DevicesOpen
<1>3. store \subseteq orphans
  BY <1>0, <1>1 DEF KeysInv
<1>. QED BY <1>0, <1>2, <1>3 DEF Restored, RouteInv

\* Between sessions, and when the daemon has ended, no device, no route into
\* one and no owned key is left, whatever step of Tunnel::up failed and
\* however the session ended (run, run_session and the Drops of tunnel.rs).
THEOREM SystemRestored == Spec => []NothingLeftBehind
<1>1. IInv => NothingLeftBehind
  BY EmptyRestored DEF NothingLeftBehind, Outside
<1>. QED BY <1>1, SessionInv, PTL

\* One device at a time, no packet written into a tunnel from its drop on, and
\* the link stopped only once the system is restored (daemon.rs, run_session).
THEOREM TornDownInOrder == Spec => []TeardownInOrder
<1>1. ASSUME IInv PROVE TeardownInOrder
  <2>1. Cardinality(OpenUnits) <= 1
    <3>1. IsFiniteSet({unit}) /\ Cardinality({unit}) = 1
      BY FS_Singleton
    <3>2. OpenUnits \in SUBSET {unit}
      BY <1>1, DevicesOpen DEF IInv
    <3>. QED BY <3>1, <3>2, FS_Subset
  <2>2. pc \in {"drop", "join", "release", "dropped", "halt", "stop"} => rx # "write"
    BY <1>1 DEF IInv, DeviceInv, MayHaveTunnel
  <2>3. pc = "stop" => Restored
    BY <1>1, EmptyRestored
  <2>. QED BY <2>1, <2>2, <2>3 DEF TeardownInOrder
<1>. QED BY <1>1, SessionInv, PTL

\* While the session polls with a tunnel up, sink, reader, route, resolver and
\* status are those of that tunnel, across renewals and replacements.
THEOREM TunnelUp == Spec => []TunnelCarriesTraffic
<1>1. ASSUME IInv PROVE TunnelCarriesTraffic
  <2>1. ASSUME pc \in Looping PROVE status.shown = IF tunnel THEN lease ELSE None
    BY <1>1, <2>1 DEF IInv, StatusInv
  <2>2. ASSUME pc \in Looping, tunnel
        PROVE  /\ sink = unit /\ reader = unit /\ ~readerStop
               /\ route[SubnetOf[lease.ip]] = unit
               /\ "IPv4" \in held /\ (lease.dns => "DNS" \in held)
    BY <1>1, <2>2 DEF IInv, ConfiguredInv, Looping
  <2>3. \A k \in Key : k \in held => k \in store \ orphans
    BY <1>1 DEF IInv, KeysInv
  <2>. QED BY <2>1, <2>2, <2>3 DEF TunnelCarriesTraffic, Looping, Key
<1>. QED BY <1>1, SessionInv, PTL

-----------------------------------------------------------------------------
(* Session implements Daemon                                               *)

\* The lease of the tunnel that is up, as Daemon sees it.
UpLease == IF tunnel THEN lease ELSE None

\* What Daemon sees of a step that it takes no part in.
Stutter == UNCHANGED <<UpLease, wanted, leaving, Reported>>

\* While rndis-rx runs every event is a lease.
LEMMA ReportedRunning ==
  ASSUME IInv, rx # "off"
  PROVE  Reported = events
BY DEF IInv, EventsInv, Reported

\* Reporting a lease, and reporting Failed.
LEMMA ReportedAppend ==
  ASSUME IInv, rx # "off"
  PROVE  /\ \A l \in Leases : events' = Append(events, l) => Reported' = Append(Reported, l)
         /\ events' = Append(events, Failed) => Reported' = Reported
<1>0. Reported = events /\ events \in Seq(Leases \cup {Failed})
  BY ReportedRunning DEF IInv, EventsInv
<1>1. ASSUME NEW l \in Leases, events' = Append(events, l) PROVE Reported' = Append(Reported, l)
  <2>1. l # Failed
    BY FailedNoLease, LeaseAssumption
  <2>2. events' # <<>> /\ events'[Len(events')] = l
    BY <1>0, <1>1
  <2>. QED BY <1>0, <1>1, <2>1, <2>2 DEF Reported
<1>2. ASSUME events' = Append(events, Failed) PROVE Reported' = Reported
  <2>1. /\ events' # <<>> /\ events'[Len(events')] = Failed
        /\ SubSeq(events', 1, Len(events') - 1) = events
    BY <1>0, <1>2
  <2>. QED BY <1>0, <2>1 DEF Reported
<1>. QED BY <1>1, <1>2

\* Taking a lease takes the first one reported.
LEMMA ReportedTail ==
  ASSUME IInv, events # <<>>, events' = Tail(events), Head(events) # Failed
  PROVE  /\ Reported # <<>> /\ Head(Reported) = Head(events)
         /\ Reported' = Tail(Reported)
<1>0. /\ events \in Seq(Leases \cup {Failed})
      /\ Len(events) \in Nat \ {0}
      /\ Head(events) = events[1]
      /\ Len(Tail(events)) = Len(events) - 1
      /\ \A i \in 1..(Len(events) - 1) : Tail(events)[i] = events[i + 1]
  BY DEF IInv, EventsInv
<1>1. CASE events[Len(events)] # Failed
  <2>1. Reported = events
    BY <1>1 DEF Reported
  <2>2. Reported' = events'
    <3>1. CASE Len(events) = 1
      BY <1>0, <3>1 DEF Reported
    <3>2. CASE Len(events) # 1
      <4>1. events'[Len(events')] = events[Len(events)]
        BY <1>0, <3>2
      <4>. QED BY <1>1, <4>1 DEF Reported
    <3>. QED BY <3>1, <3>2
  <2>. QED BY <2>1, <2>2
<1>2. CASE events[Len(events)] = Failed
  <2>1. Len(events) > 1
    BY <1>0, <1>2
  <2>2. Reported = SubSeq(events, 1, Len(events) - 1)
    BY <1>2 DEF Reported
  <2>3. events'[Len(events')] = Failed /\ events' # <<>>
    <3>1. events'[Len(events')] = events[Len(events)]
      BY <1>0, <2>1
    <3>2. Len(events') # 0
      BY <1>0, <2>1
    <3>. QED BY <1>2, <3>1, <3>2, Zenon
  <2>4. Reported' = SubSeq(events', 1, Len(events') - 1)
    BY <2>3 DEF Reported
  <2>5. Reported # <<>> /\ Head(Reported) = Head(events)
    BY <1>0, <2>1, <2>2
  <2>6. SubSeq(Tail(events), 1, Len(Tail(events)) - 1) = Tail(SubSeq(events, 1, Len(events) - 1))
    <3> DEFINE S == Leases \cup {Failed}
               n == Len(events)
               A == SubSeq(Tail(events), 1, n - 2)
               B == Tail(SubSeq(events, 1, n - 1))
    <3>1. A \in Seq(S) /\ Len(A) = n - 2 /\ \A i \in 1..(n - 2) : A[i] = events[i + 1]
      BY <1>0, <2>1
    <3>2. B \in Seq(S) /\ Len(B) = n - 2 /\ \A i \in 1..(n - 2) : B[i] = events[i + 1]
      <4> DEFINE C == SubSeq(events, 1, n - 1)
      <4>1. C \in Seq(S) /\ Len(C) = n - 1 /\ \A i \in 1..(n - 1) : C[i] = events[i]
        BY <1>0, <2>1
      <4>2. n \in Nat /\ n > 1
        BY <1>0, <2>1
      <4> HIDE DEF C, n, S
      <4>3. Tail(C) \in Seq(S) /\ Len(Tail(C)) = n - 2 /\ \A i \in 1..(n - 2) : Tail(C)[i] = C[i + 1]
        BY <4>1, <4>2
      <4>. QED BY <4>1, <4>2, <4>3 DEF C
    <3>3. A = B
      <4> HIDE DEF A, B, S, n
      <4>. QED BY <3>1, <3>2, SeqEqual, Zenon
    <3>4. Len(Tail(events)) - 1 = n - 2
      BY <1>0
    <3>. QED BY <3>3, <3>4
  <2>. QED BY <2>2, <2>4, <2>5, <2>6, Zenon
<1>. QED BY <1>1, <1>2

LEMMA InitRefines == Init => D!Init
BY DEF Init, D!Init, Reported

\* The tunnel that is up, as Daemon sees it, before and after a step.
LEMMA UpLeaseFacts ==
  ASSUME IInv
  PROVE  /\ tunnel => UpLease = lease /\ lease \in Lease /\ UpLease # None
         /\ ~tunnel => UpLease = None
         /\ UNCHANGED <<tunnel, lease>> => UNCHANGED UpLease
         /\ tunnel' = FALSE => UpLease' = None
BY LeaseAssumption DEF IInv, ConfiguredInv, UpLease

\* Every step of a session is a step of Daemon, or leaves what it sees alone.
LEMMA StepRefines == IInv /\ [Next]_vars => [D!Next]_(D!vars)
<1> SUFFICES ASSUME IInv, [Next]_vars PROVE D!Next \/ Stutter
  BY DEF Stutter, UpLease, D!vars
<1> USE DEF tunnelVars, readerVars, linkVars, sysVars, envVars
<1>0. TypeInv /\ DeviceInv /\ WantedInv /\ EventsInv
  BY DEF IInv
<1>e. UNCHANGED events => UNCHANGED Reported
  BY DEF Reported
<1>1. ASSUME UNCHANGED <<tunnel, lease, wanted, leaving, events>> PROVE Stutter
  BY <1>1, <1>e DEF Stutter, UpLease
<1>2. ASSUME Leave, UNCHANGED <<tunnel, lease, wanted>>, wanted = None, ~leaving,
             UNCHANGED Reported
      PROVE  D!Next
  BY <1>2 DEF Leave, D!Next, D!Leave
<1>3. ASSUME Open PROVE D!Next \/ Stutter
  <2>1. events = <<>> /\ events' = <<>> /\ ~tunnel /\ UNCHANGED <<tunnel, lease, wanted>>
    BY <1>0, <1>3 DEF Open, EventsInv, Outside, DeviceInv, MayHaveTunnel
  <2>2. Reported = <<>> /\ Reported' = <<>>
    BY <2>1 DEF Reported
  <2>3. CASE leaving
    BY <1>3, <2>1, <2>2, <2>3 DEF Open, D!Next, D!Begin
  <2>4. CASE ~leaving
    <3>1. leaving = FALSE
      BY <1>0, <2>4 DEF TypeInv
    <3>2. UNCHANGED leaving
      BY <1>3, <3>1, Zenon DEF Open
    <3>3. UNCHANGED <<UpLease, wanted, Reported>>
      BY <2>1, <2>2 DEF UpLease
    <3>. QED BY <3>2, <3>3 DEF Stutter
  <2>. QED BY <2>3, <2>4
<1>4. ASSUME Interrupted \/ Keepalive PROVE D!Next \/ Stutter
  BY <1>0, <1>1, <1>2, <1>4, <1>e, Zenon DEF Interrupted, Keepalive, Leave, WantedInv, Looping
<1>5. ASSUME PollEvent PROVE D!Next \/ Stutter
  <2>0. wanted = None /\ ~leaving
    BY <1>0, <1>5 DEF PollEvent, WantedInv, Looping
  <2>1. CASE events = <<>>
    BY <1>1, <1>5, <2>1 DEF PollEvent
  <2>2. CASE events # <<>> /\ Head(events) = Failed
    <3>1. Len(events) = 1 /\ events' = Tail(events)
      <4>1. Len(events) \in Nat \ {0} /\ Head(events) = events[1]
        BY <1>0, <2>2 DEF EventsInv
      <4>2. events' = Tail(events)
        BY <1>5, <2>2 DEF PollEvent
      <4>3. 1 \in 1..Len(events) /\ events[1] = Failed
        BY <2>2, <4>1
      <4>. QED BY <1>0, <4>2, <4>3, Zenon DEF EventsInv
    <3>2. Reported = <<>> /\ Reported' = <<>>
      BY <1>0, <2>2, <3>1 DEF Reported, EventsInv
    <3>. QED BY <1>2, <1>5, <2>0, <2>2, <3>2 DEF PollEvent, Bound
  <2>3. CASE events # <<>> /\ Head(events) # Failed
    <3>1. /\ events' = Tail(events) /\ Bound(Head(events))
      BY <1>5, <2>3 DEF PollEvent
    <3>2. /\ Reported # <<>> /\ Head(Reported) = Head(events)
          /\ Reported' = Tail(Reported)
      BY <2>3, <3>1, ReportedTail
    <3>3. CASE tunnel /\ lease.ip = Head(events).ip
      <4>1. D!Renewed
        BY <2>0, <3>1, <3>2, <3>3, UpLeaseFacts
        DEF Bound, D!Renewed, D!Polling, D!SameAddress, UpLease
      <4>. QED BY <4>1 DEF D!Next
    <3>4. CASE ~(tunnel /\ lease.ip = Head(events).ip)
      <4>1. D!Replace
        BY <2>0, <3>1, <3>2, <3>4, UpLeaseFacts
        DEF Bound, D!Replace, D!Polling, D!SameAddress, UpLease
      <4>. QED BY <4>1 DEF D!Next
    <3>. QED BY <3>3, <3>4
  <2>. QED BY <2>1, <2>2, <2>3
<1>6. ASSUME DropTunnel PROVE D!Next \/ Stutter
  <2>0. UNCHANGED <<wanted, leaving, Reported>> /\ tunnel' = FALSE /\ UpLease' = None
    BY <1>6, <1>e, UpLeaseFacts, Zenon DEF DropTunnel
  <2>1. CASE tunnel
    <3>1. wanted # None \/ leaving
      BY <1>0, <1>6, LeaseAssumption DEF DropTunnel, WantedInv
    <3>2. D!Down
      BY <2>0, <2>1, <3>1, UpLeaseFacts DEF D!Down, UpLease
    <3>. QED BY <3>2 DEF D!Next
  <2>2. CASE ~tunnel
    BY <2>0, <2>2, UpLeaseFacts DEF Stutter
  <2>. QED BY <2>1, <2>2
<1>7. ASSUME Dropped PROVE D!Next \/ Stutter
  <2>1. CASE pc = "unwind"
    <3>1. /\ wanted # None /\ ~leaving /\ ~tunnel
      BY <1>0, <2>1, LeaseAssumption DEF WantedInv, DeviceInv, MayHaveTunnel
    <3>2. wanted' = None /\ leaving' = TRUE /\ UNCHANGED <<tunnel, lease, Reported>>
      BY <1>7, <1>e, <2>1 DEF Dropped, Leave
    <3>3. D!GiveUp
      BY <3>1, <3>2 DEF D!GiveUp
    <3>. QED BY <3>3 DEF D!Next
  <2>2. CASE pc # "unwind"
    BY <1>1, <1>7, <2>2 DEF Dropped
  <2>. QED BY <2>1, <2>2
<1>8. ASSUME UpUtun PROVE Stutter
  <2>1. ~tunnel /\ UNCHANGED <<tunnel, wanted, leaving, Reported>>
    BY <1>0, <1>8, <1>e DEF UpUtun, DeviceInv, MayHaveTunnel
  <2>. QED BY <2>1 DEF Stutter, UpLease
<1>9. ASSUME Attach PROVE D!Next
  <2>1. /\ wanted \in Lease /\ wanted.router /\ lease = wanted /\ ~leaving /\ ~tunnel
    BY <1>0, <1>9 DEF Attach, WantedInv, DeviceInv, Opened, MayHaveTunnel
  <2>2. wanted # None /\ wanted.router # FALSE
    BY <2>1, LeaseAssumption
  <2>3. tunnel' = TRUE /\ wanted' = None /\ UNCHANGED <<lease, leaving, Reported>>
    BY <1>9, <1>e DEF Attach
  <2>4. D!Install
    BY <2>1, <2>2, <2>3 DEF D!Install
  <2>. QED BY <2>4 DEF D!Next
<1>10. ASSUME SessionEnds PROVE D!Next
  <2>1. leaving /\ ~tunnel
    BY <1>0, <1>10 DEF SessionEnds, WantedInv, DeviceInv, MayHaveTunnel
  <2>2. Reported' = <<>> /\ UNCHANGED <<tunnel, lease, wanted, leaving>>
    BY <1>10 DEF SessionEnds, Reported
  <2>3. D!LinkDown
    BY <2>1, <2>2 DEF D!LinkDown
  <2>. QED BY <2>3 DEF D!Next
<1>11. ASSUME RxBound PROVE D!Next
  <2>1. \E l \in Leases : Reported' = Append(Reported, l)
    BY <1>11, ReportedAppend DEF RxBound
  <2>2. D!Report
    BY <1>11, <2>1 DEF RxBound, D!Report
  <2>. QED BY <2>2 DEF D!Next
<1>12. ASSUME RxFails PROVE Stutter
  BY <1>12, ReportedAppend DEF RxFails, Stutter, UpLease
<1>13. ASSUME Kill PROVE D!Next
  <2>1. D!Restart
    BY <1>13 DEF Kill, D!Restart, Reported
  <2>. QED BY <2>1 DEF D!Next
<1>14. Scan \/ OpenFails \/ Detach \/ JoinReader \/ Release \/ Halt => Stutter
  BY <1>1, SMTT(20) DEF Scan, OpenFails, Detach, JoinReader, Release, Halt
<1>15. UpRouter \/ UpConfigure \/ UpRoute \/ UpStore \/ UpKeys \/ UpFails \/ Spawn => Stutter
  BY <1>1, ZenonT(30) DEF UpRouter, UpConfigure, UpRoute, UpStore, UpKeys, UpFails, Spawn
<1>16. RxDeliver \/ RxStops \/ TxStops \/ ReaderStops \/ Signal \/ Plug \/ OtherRoute
         \/ UNCHANGED vars => Stutter
  BY <1>1, Zenon DEF RxDeliver, RxStops, TxStops, ReaderStops, Signal, Plug, OtherRoute, vars
<1>. QED BY <1>3, <1>4, <1>5, <1>6, <1>7, <1>8, <1>9, <1>10, <1>11, <1>12, <1>13, <1>14,
            <1>15, <1>16 DEF Next, Main

\* A session implements what Daemon promises: reported leases are looked at in
\* order and each once, a renewal leaves the tunnel alone, the tunnel goes only
\* for another one or with the session, and a failed Tunnel::up ends it
\* (run_session's poll loop, whatever Tunnel::up and its Drop do in between).
THEOREM SessionImplementsDaemon == Spec => DaemonContract
<1>1. Spec => [][D!Next]_(D!vars)
  BY SessionInv, StepRefines, PTL DEF Spec
<1>. QED BY <1>1, InitRefines, PTL DEF Spec, DaemonContract, D!Spec

-----------------------------------------------------------------------------
(* The way to the end                                                      *)

\* How many steps the main thread can still take when nothing new is begun, at
\* each of its places; giving back what is held takes one step for each.
Place ==
  [done |-> 0, scan |-> 1, stop |-> 2, halt |-> 3, dropped |-> 4, release |-> 4, join |-> 9,
   drop |-> 10, detach |-> 11, poll |-> 12, unwind |-> 12, open |-> 13, keepalive |-> 13,
   attach |-> 14, spawn |-> 15, DNS |-> 17, IPv4 |-> 18, store |-> 19, route |-> 20,
   ifconfig |-> 21, timeout |-> 22, utun |-> 23, router |-> 24]

Down == {"detach", "drop", "join", "release", "dropped"}

\* A tunnel that goes for another one is followed by bringing that one up.
Left(p, l, n) ==
  Place[p] + (IF p \in {"release", "unwind"} THEN n ELSE 0)
           + (IF p \in Down /\ ~l THEN 21 ELSE 0)

StepsLeft == Left(pc, leaving, Cardinality(held))

\* Once a signal has arrived every step of the main thread brings the end of the
\* daemon nearer, and nothing that other threads, the phone or the system do moves
\* it away, unless the process is killed: so the daemon takes at most 32 more steps,
\* whatever it was doing (run, run_session, Tunnel::up and the drops).
EndNears ==
  [][requested /\ requested' => \/ StepsLeft' < StepsLeft
                                \/ UNCHANGED <<pc, leaving, held>>]_vars

\* A tunnel holds at most the four resources.
LEMMA HeldCounted ==
  ASSUME NEW h, h \subseteq Resource
  PROVE  IsFiniteSet(h) /\ Cardinality(h) \in 0..4
<1>1. IsFiniteSet({}) /\ Cardinality({}) = 0
  BY FS_EmptySet
<1>2. IsFiniteSet({"utun"}) /\ Cardinality({"utun"}) = 1
  BY FS_Singleton
<1>3. IsFiniteSet({"utun", "route"}) /\ Cardinality({"utun", "route"}) = 2
  <2>1. {"utun"} \cup {"route"} = {"utun", "route"} /\ "route" \notin {"utun"}
    OBVIOUS
  <2>. QED BY <1>2, <2>1, FS_AddElement
<1>4. IsFiniteSet({"utun", "route", "IPv4"}) /\ Cardinality({"utun", "route", "IPv4"}) = 3
  <2>1. /\ {"utun", "route"} \cup {"IPv4"} = {"utun", "route", "IPv4"}
        /\ "IPv4" \notin {"utun", "route"}
    OBVIOUS
  <2>. QED BY <1>3, <2>1, FS_AddElement
<1>5. IsFiniteSet(Resource) /\ Cardinality(Resource) = 4
  <2>1. /\ {"utun", "route", "IPv4"} \cup {"DNS"} = Resource
        /\ "DNS" \notin {"utun", "route", "IPv4"}
    BY DEF Resource
  <2>. QED BY <1>4, <2>1, FS_AddElement
<1>6. IsFiniteSet(h) /\ Cardinality(h) <= 4
  BY <1>5, FS_Subset
<1>. QED BY <1>6, FS_CardinalityType

\* What that is at each place.
LEMMA Lefts ==
  ASSUME NEW l, NEW n \in 0..4, NEW more, more = (IF l THEN 0 ELSE 21)
  PROVE  /\ Left("done", l, n) = 0 /\ Left("scan", l, n) = 1 /\ Left("stop", l, n) = 2
         /\ Left("halt", l, n) = 3 /\ Left("poll", l, n) = 12 /\ Left("open", l, n) = 13
         /\ Left("keepalive", l, n) = 13 /\ Left("attach", l, n) = 14
         /\ Left("spawn", l, n) = 15 /\ Left("DNS", l, n) = 17 /\ Left("IPv4", l, n) = 18
         /\ Left("store", l, n) = 19 /\ Left("route", l, n) = 20
         /\ Left("ifconfig", l, n) = 21 /\ Left("timeout", l, n) = 22
         /\ Left("utun", l, n) = 23 /\ Left("router", l, n) = 24
         /\ Left("unwind", l, n) = 12 + n
         /\ Left("dropped", l, n) = 4 + more /\ Left("release", l, n) = 4 + n + more
         /\ Left("join", l, n) = 9 + more /\ Left("drop", l, n) = 10 + more
         /\ Left("detach", l, n) = 11 + more
<1>1. ASSUME NEW p, p \notin {"release", "unwind"} \cup Down PROVE Left(p, l, n) = Place[p] + 0 + 0
  BY <1>1, Zenon DEF Left
<1>2. /\ Left("done", l, n) = 0 /\ Left("scan", l, n) = 1 /\ Left("stop", l, n) = 2
      /\ Left("halt", l, n) = 3 /\ Left("poll", l, n) = 12 /\ Left("open", l, n) = 13
      /\ Left("keepalive", l, n) = 13 /\ Left("attach", l, n) = 14
  BY <1>1 DEF Place, Down
<1>3. /\ Left("spawn", l, n) = 15 /\ Left("DNS", l, n) = 17 /\ Left("IPv4", l, n) = 18
      /\ Left("store", l, n) = 19 /\ Left("route", l, n) = 20
      /\ Left("ifconfig", l, n) = 21 /\ Left("timeout", l, n) = 22
      /\ Left("utun", l, n) = 23 /\ Left("router", l, n) = 24
  BY <1>1 DEF Place, Down
<1>4. /\ Place["unwind"] = 12 /\ Place["dropped"] = 4 /\ Place["release"] = 4
      /\ Place["join"] = 9 /\ Place["drop"] = 10 /\ Place["detach"] = 11
  BY DEF Place
<1>5. /\ Left("unwind", l, n) = 12 + n + 0 /\ Left("release", l, n) = 4 + n + more
      /\ Left("dropped", l, n) = 4 + 0 + more /\ Left("join", l, n) = 9 + 0 + more
      /\ Left("drop", l, n) = 10 + 0 + more /\ Left("detach", l, n) = 11 + 0 + more
  BY <1>4, Zenon DEF Left, Down
<1>6. more \in Int
  OBVIOUS
<1>. QED BY <1>2, <1>3, <1>5, <1>6

\* There is always a bound on the steps left, and it is 0 only at the end.
LEMMA StepsLeftBounded ==
  ASSUME TypeInv
  PROVE  StepsLeft \in 0..32 /\ (StepsLeft = 0 <=> pc = "done")
<1> DEFINE n == Cardinality(held)
           more == IF leaving THEN 0 ELSE 21
<1>1. n \in 0..4 /\ more \in {0, 21}
  BY HeldCounted DEF TypeInv
<1>2. pc \in Steps /\ StepsLeft = Left(pc, leaving, n)
  BY DEF TypeInv, StepsLeft
<1> HIDE DEF n
<1>3. CASE pc \in Empty
  <2>1. pc \in {"scan", "open", "done", "dropped", "router", "utun", "halt", "stop"}
    BY <1>3 DEF Empty, Outside
  <2>. QED BY <1>1, <1>2, <2>1, Lefts
<1>4. CASE pc \in Opened
  BY <1>1, <1>2, <1>4, Lefts DEF Opened
<1>5. CASE pc \in MayHaveTunnel \cup {"join", "release", "unwind"}
  BY <1>1, <1>2, <1>5, Lefts DEF MayHaveTunnel
<1>. QED BY <1>2, <1>3, <1>4, <1>5 DEF Steps

\* Every step of the main thread after a signal takes one away.
LEMMA StepNears ==
  ASSUME IInv, [Next]_vars, requested, requested'
  PROVE  StepsLeft' < StepsLeft \/ UNCHANGED <<pc, leaving, held>>
<1> DEFINE n == Cardinality(held)
           m == Cardinality(held')
<1>0. TypeInv /\ TypeInv'
  BY TypeKept DEF IInv
<1>c. n \in 0..4 /\ m \in 0..4
  BY <1>0, HeldCounted DEF TypeInv
<1>s. StepsLeft = Left(pc, leaving, n) /\ StepsLeft' = Left(pc', leaving', m)
  BY DEF StepsLeft
<1> HIDE DEF n, m
<1>1. ASSUME Scan \/ OpenFails \/ Open PROVE StepsLeft' < StepsLeft
  <2>1. \/ pc = "scan" /\ pc' = "done"
        \/ pc = "open" /\ pc' \in {"scan", "poll"}
    BY <1>1, Zenon DEF Scan, OpenFails, Open
  <2>. QED BY <1>c, <1>s, <2>1, Lefts
<1>2. ASSUME Interrupted \/ Keepalive \/ Attach PROVE StepsLeft' < StepsLeft
  <2>1. \/ pc \in {"poll", "keepalive"} /\ pc' = "detach" /\ leaving'
        \/ pc = "keepalive" /\ pc' = "poll"
        \/ pc = "attach" /\ pc' = "keepalive"
    BY <1>2, Zenon DEF Interrupted, Keepalive, Leave, Attach
  <2>. QED BY <1>c, <1>s, <2>1, Lefts
<1>3. ~PollEvent
  BY DEF PollEvent
<1>4. ASSUME Detach \/ DropTunnel \/ JoinReader PROVE StepsLeft' < StepsLeft
  <2>1. /\ leaving' = leaving
        /\ \/ pc = "detach" /\ pc' = "drop"
           \/ pc = "drop" /\ pc' \in {"join", "dropped"}
           \/ pc = "join" /\ pc' = "release"
    BY <1>4, Zenon DEF Detach, DropTunnel, JoinReader
  <2>. QED BY <1>c, <1>s, <2>1, Lefts
<1>5. ASSUME Release PROVE StepsLeft' < StepsLeft
  <2>1. NextToGo \in held
    BY <1>0, <1>5, NextToGoHeld DEF Release, TypeInv
  <2>2. held' = held \ {NextToGo} /\ pc' = pc /\ leaving' = leaving
        /\ pc \in {"release", "unwind"}
    BY <1>5, Zenon DEF Release
  <2>3. IsFiniteSet(held)
    BY <1>0, HeldCounted DEF TypeInv
  <2>4. m = n - 1
    BY <2>1, <2>2, <2>3, FS_RemoveElement DEF n, m
  <2>5. CASE pc = "release"
    BY <2>2, <2>4, <2>5, <1>c, <1>s, Lefts
  <2>6. CASE pc = "unwind"
    BY <2>2, <2>4, <2>6, <1>c, <1>s, Lefts
  <2>. QED BY <2>2, <2>5, <2>6, Zenon
<1>6. ASSUME Dropped PROVE StepsLeft' < StepsLeft
  <2>1. n = 0
    BY <1>6, FS_EmptySet DEF Dropped, n
  <2>2. \/ pc = "unwind" /\ pc' = "detach" /\ leaving'
        \/ pc \in {"release", "dropped"} /\ ~leaving /\ pc' = "router"
        \/ pc \in {"release", "dropped"} /\ leaving /\ pc' = "halt"
    BY <1>6, Zenon DEF Dropped, Leave
  <2>. QED BY <2>1, <2>2, <1>c, <1>s, Lefts
<1>7. ASSUME UpRouter \/ UpUtun \/ UpConfigure \/ UpRoute \/ UpStore PROVE StepsLeft' < StepsLeft
  <2>1. \/ pc = "router" /\ pc' = "utun"
        \/ pc = "utun" /\ pc' = "timeout"
        \/ pc = "timeout" /\ pc' = "ifconfig"
        \/ pc = "ifconfig" /\ pc' = "route"
        \/ pc = "route" /\ pc' = "store"
        \/ pc = "store" /\ pc' = "IPv4"
    BY <1>7, Zenon DEF UpRouter, UpUtun, UpConfigure, UpRoute, UpStore
  <2>. QED BY <1>c, <1>s, <2>1, Lefts
<1>8. ASSUME UpKeys \/ UpFails \/ Spawn PROVE StepsLeft' < StepsLeft
  <2>1. \/ pc = "IPv4" /\ pc' \in {"DNS", "spawn"}
        \/ pc = "DNS" /\ pc' = "spawn"
        \/ pc = "spawn" /\ pc' = "attach"
        \/ pc \in UpSteps /\ pc' = "unwind"
    BY <1>8, Zenon DEF UpKeys, UpFails, Spawn
  <2>. QED BY <1>c, <1>s, <2>1, Lefts DEF UpSteps
<1>9. ASSUME Halt \/ SessionEnds PROVE StepsLeft' < StepsLeft
  <2>1. (pc = "halt" /\ pc' = "stop") \/ (pc = "stop" /\ pc' = "scan")
    BY <1>9, Zenon DEF Halt, SessionEnds
  <2>. QED BY <1>c, <1>s, <2>1, Lefts
<1>10. ~Kill
  BY Zenon DEF Kill
<1>11. RxBound \/ RxDeliver \/ RxFails \/ RxStops \/ TxStops \/ ReaderStops \/ Signal \/ Plug
         \/ OtherRoute \/ UNCHANGED vars => UNCHANGED <<pc, leaving, held>>
  BY Zenon DEF RxBound, RxDeliver, RxFails, RxStops, TxStops, ReaderStops, Signal, Plug,
               OtherRoute, vars, tunnelVars
<1>. QED BY <1>1, <1>2, <1>3, <1>4, <1>5, <1>6, <1>7, <1>8, <1>9, <1>10, <1>11, Zenon
         DEF Next, Main

\* After a signal the main thread takes at most 32 steps (EndNears): the part of
\* SignalEndsDaemon that does not depend on fairness.
THEOREM SignalBoundsSteps ==
  Spec => [](StepsLeft \in 0..32 /\ (StepsLeft = 0 <=> pc = "done")) /\ EndNears
<1>1. IInv => StepsLeft \in 0..32 /\ (StepsLeft = 0 <=> pc = "done")
  BY StepsLeftBounded DEF IInv
<1>2. IInv /\ [Next]_vars
        => [requested /\ requested' => \/ StepsLeft' < StepsLeft
                                       \/ UNCHANGED <<pc, leaving, held>>]_vars
  BY StepNears, Zenon
<1>. QED BY <1>1, <1>2, SessionInv, PTL DEF Spec, EndNears
=============================================================================
