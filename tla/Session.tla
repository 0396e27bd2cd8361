------------------------------- MODULE Session -------------------------------
(***************************************************************************)
(* The resident daemon (daemon.rs) and the tunnels it brings up and takes   *)
(* down (tunnel.rs, tun/net.rs, tun/dns.rs), against the system state they  *)
(* must restore: the utun devices, the routing table and SCDynamicStore.    *)
(*                                                                         *)
(* Four threads take steps: the main thread (pc), rndis-rx, rndis-tx and    *)
(* the utun reader.  What rndis-rx receives is left open: it may report any *)
(* lease, deliver packets into the sink, or report a failed link.           *)
(*                                                                         *)
(* The kernel and SCDynamicStore are external: a utun device lives as long  *)
(* as something refers to it, its routes go with it, and the keys of the    *)
(* store outlive the process.                                              *)
(***************************************************************************)
EXTENDS Naturals, Sequences, FiniteSets

CONSTANTS
  Ip,         \* addresses a lease may carry
  Dest,       \* subnets
  SubnetOf,   \* subnet_of(ip, netmask), a function from Ip to Dest
  Unit,       \* utun units that may be free
  Other,      \* some interface that is not ours
  OthersNets, \* subnets that interface has a route for when the daemon starts
  None,       \* Option::None
  Leases,     \* leases the link may report
  MaxEvents,  \* bound: link events not yet taken
  MayKill     \* whether the process may be killed and started again

ASSUME SessionAssumption ==
  /\ SubnetOf \in [Ip -> Dest]
  /\ OthersNets \subseteq Dest
  /\ None \notin Unit /\ Other \notin Unit /\ None # Other
  /\ MaxEvents \in Nat
  /\ MayKill \in BOOLEAN

VARIABLES
  pc, leaving,           \* main thread; leaving: the poll loop was left
  wanted,                \* the lease being brought up
  tunnel, lease, unit,   \* tunnel.is_some(); the lease and utun of what is held
  held,                  \* resources owned by the tunnel, whole or in part
  sink,                  \* the utun the SwitchableSink holds
  reader, readerStop,    \* the utun the reader holds; its shutdown flag
  rx, tx, linkStop,      \* link threads and their shutdown flag
  events,                \* LinkEvents not yet taken
  status,                \* what the status socket shows
  route, store, orphans, \* system; keys in the store that nobody owns
  plugged, requested     \* phone attached; shutdown signal received

tunnelVars == <<wanted, tunnel, lease, unit, held>>
readerVars == <<reader, readerStop>>
linkVars   == <<rx, tx, linkStop, events>>
sysVars    == <<route, store, orphans>>
envVars    == <<plugged, requested>>
vars == <<pc, leaving, tunnelVars, sink, readerVars, linkVars, status, sysVars, envVars>>

-----------------------------------------------------------------------------
(* Data                                                                    *)

\* A lease in what the session looks at: its address, whether it has a router
\* and whether it has DNS servers.
Lease == [ip : Ip, router : BOOLEAN, dns : BOOLEAN]

ASSUME LeaseAssumption == None \notin Lease /\ Leases \subseteq Lease

Resource == {"utun", "route", "IPv4", "DNS"}
Key == {"IPv4", "DNS"}

Failed == [ip |-> None]

Idle == [device |-> FALSE, shown |-> None]

\* The devices kept open by an Arc<Utun>: the tunnel's (while it holds h), the
\* sink's (s) and the reader's (r).
Kept(h, s, r) == ((IF "utun" \in h THEN {unit} ELSE {}) \cup {s, r}) \ {None}

OpenUnits == Kept(held, sink, reader)

\* External: a utun that is not kept open closes and takes its routes along.
RoutesVia(units) == [d \in Dest |-> IF route[d] \in Unit \ units THEN None ELSE route[d]]

\* The steps of Tunnel::up that can fail, in order.
UpSteps == {"router", "utun", "timeout", "ifconfig", "route", "store", "IPv4", "DNS"}

-----------------------------------------------------------------------------
(* run(): scan, one session after another, until a signal arrives          *)

\* while !requested: find a phone; without one, wait for a hotplug event.
\* The phone found may be gone by the time it is opened.
Scan ==
  /\ pc = "scan"
  /\ \/ requested /\ pc' = "done" /\ UNCHANGED status
     \/ /\ ~requested /\ plugged
        /\ pc' = "open"
        /\ status' = [status EXCEPT !.device = TRUE]
  /\ UNCHANGED <<leaving, tunnelVars, sink, readerVars, linkVars, sysVars, envVars>>

\* device::open fails: the session is over before it has a link.
OpenFails ==
  /\ pc = "open"
  /\ pc' = "scan"
  /\ status' = Idle
  /\ UNCHANGED <<leaving, tunnelVars, sink, readerVars, linkVars, sysVars, envVars>>

\* device::open, then Link::start with a sink nothing is attached to.
Open ==
  /\ pc = "open" /\ plugged
  /\ pc' = "poll"
  /\ leaving' = FALSE
  /\ rx' = "run" /\ tx' = "run" /\ linkStop' = FALSE
  /\ events' = <<>>
  /\ UNCHANGED <<tunnelVars, sink, readerVars, status, sysVars, envVars>>

-----------------------------------------------------------------------------
(* run_session: the poll loop                                              *)

\* Leaving the loop: the teardown starts with the sink.
Leave == pc' = "detach" /\ leaving' = TRUE

Interrupted ==
  /\ pc = "poll" /\ requested
  /\ Leave
  /\ UNCHANGED <<tunnelVars, sink, readerVars, linkVars, status, sysVars, envVars>>

\* Mutant: a renewal that changes anything else replaces the tunnel as well.
BoundWholeLease(l) ==
  /\ l # Failed
  /\ IF tunnel /\ lease = l
     THEN pc' = "keepalive" /\ UNCHANGED wanted
     ELSE pc' = "detach" /\ wanted' = l
  /\ UNCHANGED <<leaving, tunnel, lease, unit, held>>

\* A confirmed lease: the same address is only a renewal, another address
\* replaces the tunnel.
Bound(l) ==
  /\ l # Failed
  /\ IF tunnel /\ lease.ip = l.ip
     THEN pc' = "keepalive" /\ UNCHANGED wanted
     ELSE pc' = "detach" /\ wanted' = l
  /\ UNCHANGED <<leaving, tunnel, lease, unit, held>>

\* try_next_event and the match on what it returns.
PollEvent ==
  /\ pc = "poll" /\ ~requested
  /\ \/ /\ events = <<>>
        /\ pc' = "keepalive"
        /\ UNCHANGED <<leaving, tunnelVars, events>>
     \/ /\ events # <<>>
        /\ events' = Tail(events)
        /\ \/ Bound(Head(events))
           \/ Head(events) = Failed /\ Leave /\ UNCHANGED tunnelVars
  /\ UNCHANGED <<sink, readerVars, rx, tx, linkStop, status, sysVars, envVars>>

\* The keepalive is not due, or it is answered, or it fails.
Keepalive ==
  /\ pc = "keepalive"
  /\ \/ pc' = "poll" /\ UNCHANGED leaving
     \/ Leave
  /\ UNCHANGED <<tunnelVars, sink, readerVars, linkVars, status, sysVars, envVars>>

-----------------------------------------------------------------------------
(* Taking a tunnel down                                                    *)

\* Mutant: detach does not take the lock that deliver holds.
DetachWithoutLock ==
  /\ pc = "detach"
  /\ pc' = "drop"
  /\ sink' = None
  /\ route' = RoutesVia(Kept(held, None, reader))
  /\ UNCHANGED <<leaving, tunnelVars, readerVars, linkVars, status, store, orphans, envVars>>

\* sink.detach(): waits for a packet being delivered.
Detach ==
  /\ pc = "detach" /\ rx # "write"
  /\ pc' = "drop"
  /\ sink' = None
  /\ route' = RoutesVia(Kept(held, None, reader))
  /\ UNCHANGED <<leaving, tunnelVars, readerVars, linkVars, status, store, orphans, envVars>>

\* Mutant: the reader is joined without being told to stop.
DropTunnelNoFlag ==
  /\ pc = "drop"
  /\ pc' = IF tunnel THEN "join" ELSE "dropped"
  /\ tunnel' = FALSE
  /\ UNCHANGED <<leaving, wanted, lease, unit, held, sink, readerVars, linkVars, status,
                 sysVars, envVars>>

\* tunnel = None or drop(tunnel): Tunnel's Drop tells the reader to stop...
DropTunnel ==
  /\ pc = "drop"
  /\ pc' = IF tunnel THEN "join" ELSE "dropped"
  /\ tunnel' = FALSE
  /\ readerStop' = (tunnel \/ readerStop)
  /\ UNCHANGED <<leaving, wanted, lease, unit, held, sink, reader, linkVars, status,
                 sysVars, envVars>>

\* ... joins it, and then the fields go.
JoinReader ==
  /\ pc = "join" /\ reader = None
  /\ pc' = "release"
  /\ UNCHANGED <<leaving, tunnelVars, sink, readerVars, linkVars, status, sysVars, envVars>>

\* Fields drop in declaration order (utun, _routes, _dns); the locals of a
\* failed Tunnel::up drop in reverse.  Dns drains its keys in push order.
DropOrder ==
  IF pc = "release" THEN <<"utun", "route", "IPv4", "DNS">>
                    ELSE <<"IPv4", "DNS", "route", "utun">>

\* The held resource that goes next.
NextToGo ==
  DropOrder[CHOOSE i \in 1..4 : /\ DropOrder[i] \in held
                                /\ \A j \in 1..(i - 1) : DropOrder[j] \notin held]

\* Give back one resource.  `route delete` takes whatever route leads to the
\* subnet by then, or fails; the store may refuse to remove a key.  Both
\* failures are only logged.
Release ==
  /\ pc \in {"release", "unwind"} /\ held # {}
  /\ held' = held \ {NextToGo}
  /\ \/ /\ NextToGo = "utun"
        /\ route' = RoutesVia(Kept({}, sink, reader))
        /\ UNCHANGED <<store, orphans>>
     \/ /\ NextToGo = "route"
        /\ route' \in {route, [route EXCEPT ![SubnetOf[lease.ip]] = None]}
        /\ UNCHANGED <<store, orphans>>
     \/ /\ NextToGo \in Key
        /\ \/ store' = store \ {NextToGo} /\ UNCHANGED orphans
           \/ orphans' = orphans \cup {NextToGo} /\ UNCHANGED store
        /\ UNCHANGED route
  /\ UNCHANGED <<pc, leaving, wanted, tunnel, lease, unit, sink, readerVars, linkVars,
                 status, envVars>>

\* Nothing is held any more.  A failed Tunnel::up leaves the loop; after the
\* old tunnel either the new one or the rest of the teardown follows.
Dropped ==
  /\ pc \in {"release", "unwind", "dropped"} /\ held = {}
  /\ \/ pc = "unwind" /\ Leave /\ wanted' = None
     \/ pc # "unwind" /\ ~leaving /\ pc' = "router" /\ UNCHANGED <<leaving, wanted>>
     \/ pc # "unwind" /\ leaving /\ pc' = "halt" /\ UNCHANGED <<leaving, wanted>>
  /\ UNCHANGED <<tunnel, lease, unit, held, sink, readerVars, linkVars, status, sysVars,
                 envVars>>

-----------------------------------------------------------------------------
(* Tunnel::up and what follows it in run_session                           *)

\* A lease without a router is refused before anything is opened.
UpRouter ==
  /\ pc = "router" /\ wanted.router
  /\ pc' = "utun"
  /\ UNCHANGED <<leaving, tunnelVars, sink, readerVars, linkVars, status, sysVars, envVars>>

\* Utun::open: the first unit that is free.
UpUtun ==
  /\ pc = "utun"
  /\ \E u \in Unit \ OpenUnits : unit' = u
  /\ held' = {"utun"}
  /\ lease' = wanted
  /\ pc' = "timeout"
  /\ UNCHANGED <<leaving, wanted, tunnel, sink, readerVars, linkVars, status, sysVars, envVars>>

\* set_read_timeout, then configure_interface: no state the model keeps.
UpConfigure ==
  /\ \/ pc = "timeout" /\ pc' = "ifconfig"
     \/ pc = "ifconfig" /\ pc' = "route"
  /\ UNCHANGED <<leaving, tunnelVars, sink, readerVars, linkVars, status, sysVars, envVars>>

\* Routes::add: delete what leads to the subnet, then add our route.
UpRoute ==
  /\ pc = "route"
  /\ route' = [route EXCEPT ![SubnetOf[lease.ip]] = unit]
  /\ held' = held \cup {"route"}
  /\ pc' = "store"
  /\ UNCHANGED <<leaving, wanted, tunnel, lease, unit, sink, readerVars, linkVars, status,
                 store, orphans, envVars>>

\* SCDynamicStoreBuilder::build.
UpStore ==
  /\ pc = "store"
  /\ pc' = "IPv4"
  /\ UNCHANGED <<leaving, tunnelVars, sink, readerVars, linkVars, status, sysVars, envVars>>

\* Mutant: set does not remember the key.
SetKeyForgets(k) ==
  /\ store' = store \cup {k}
  /\ orphans' = orphans \ {k}
  /\ UNCHANGED held

\* Dns::set: publish a key and remember to remove it.
SetKey(k) ==
  /\ store' = store \cup {k}
  /\ orphans' = orphans \ {k}
  /\ held' = held \cup {k}

\* Dns::install: the IPv4 service, then the resolver if there are servers.
UpKeys ==
  /\ \/ pc = "IPv4" /\ SetKey("IPv4") /\ pc' = IF lease.dns THEN "DNS" ELSE "spawn"
     \/ pc = "DNS" /\ SetKey("DNS") /\ pc' = "spawn"
  /\ UNCHANGED <<leaving, wanted, tunnel, lease, unit, sink, readerVars, linkVars, status,
                 route, envVars>>

\* Any of these steps may fail.  Routes::add has by then deleted what led to
\* the subnet.
UpFails ==
  /\ pc \in UpSteps
  /\ pc = "router" => ~wanted.router
  /\ route' \in IF pc = "route" THEN {route, [route EXCEPT ![SubnetOf[lease.ip]] = None]}
                               ELSE {route}
  /\ pc' = "unwind"
  /\ UNCHANGED <<leaving, tunnelVars, sink, readerVars, linkVars, status, store, orphans,
                 envVars>>

\* spawn_reader: Tunnel::up succeeds.
Spawn ==
  /\ pc = "spawn"
  /\ reader' = unit /\ readerStop' = FALSE
  /\ pc' = "attach"
  /\ UNCHANGED <<leaving, tunnelVars, sink, linkVars, status, sysVars, envVars>>

\* Mutant: the new tunnel gets no inbound packets.
AttachNothing ==
  /\ pc = "attach" /\ rx # "write"
  /\ status' = [status EXCEPT !.shown = lease]
  /\ tunnel' = TRUE
  /\ wanted' = None
  /\ pc' = "keepalive"
  /\ UNCHANGED <<leaving, lease, unit, held, sink, readerVars, linkVars, sysVars, envVars>>

\* sink.attach, then the status shows the tunnel.
Attach ==
  /\ pc = "attach" /\ rx # "write"
  /\ sink' = unit
  /\ status' = [status EXCEPT !.shown = lease]
  /\ tunnel' = TRUE
  /\ wanted' = None
  /\ pc' = "keepalive"
  /\ UNCHANGED <<leaving, lease, unit, held, readerVars, linkVars, sysVars, envVars>>

-----------------------------------------------------------------------------
(* The end of the session                                                  *)

\* control.halt(), whose result is ignored, and link.shutdown()'s flag.
Halt ==
  /\ pc = "halt"
  /\ pc' = "stop"
  /\ linkStop' = TRUE
  /\ UNCHANGED <<leaving, tunnelVars, sink, readerVars, rx, tx, events, status, sysVars,
                 envVars>>

\* Both link threads joined: run() resets the status and looks again.
SessionEnds ==
  /\ pc = "stop" /\ rx = "off" /\ tx = "off"
  /\ pc' = "scan"
  /\ status' = Idle
  /\ events' = <<>>
  /\ UNCHANGED <<leaving, tunnelVars, sink, readerVars, rx, tx, linkStop, sysVars, envVars>>

-----------------------------------------------------------------------------
(* The other threads                                                       *)

\* handle_ipv4 reports a lease that the DHCP client confirmed.
RxBound ==
  /\ rx = "run" /\ Len(events) < MaxEvents
  /\ \E l \in Leases : events' = Append(events, l)
  /\ UNCHANGED <<pc, leaving, tunnelVars, sink, readerVars, rx, tx, linkStop, status,
                 sysVars, envVars>>

\* SwitchableSink::deliver with a sink: the lock is held while it writes.
RxDeliver ==
  /\ \/ rx = "run" /\ sink # None /\ rx' = "write"
     \/ rx = "write" /\ rx' = "run"
  /\ UNCHANGED <<pc, leaving, tunnelVars, sink, readerVars, tx, linkStop, events, status,
                 sysVars, envVars>>

\* A fatal error, too many stalls or a failed recovery ends the thread.
RxFails ==
  /\ rx = "run"
  /\ events' = Append(events, Failed)
  /\ rx' = "off"
  /\ UNCHANGED <<pc, leaving, tunnelVars, sink, readerVars, tx, linkStop, status,
                 sysVars, envVars>>

\* Both link threads look at the flag at least once per TICK.
RxStops ==
  /\ rx = "run" /\ linkStop
  /\ rx' = "off"
  /\ UNCHANGED <<pc, leaving, tunnelVars, sink, readerVars, tx, linkStop, events, status,
                 sysVars, envVars>>

TxStops ==
  /\ tx = "run" /\ linkStop
  /\ tx' = "off"
  /\ UNCHANGED <<pc, leaving, tunnelVars, sink, readerVars, rx, linkStop, events, status,
                 sysVars, envVars>>

\* The reader looks at its flag at least once per read timeout; its Arc goes.
ReaderStops ==
  /\ reader # None /\ readerStop
  /\ reader' = None
  /\ route' = RoutesVia(Kept(held, sink, None))
  /\ UNCHANGED <<pc, leaving, tunnelVars, sink, readerStop, linkVars, status, store,
                 orphans, envVars>>

-----------------------------------------------------------------------------
(* The environment                                                         *)

\* SIGINT or SIGTERM.
Signal ==
  /\ ~requested
  /\ requested' = TRUE
  /\ UNCHANGED <<pc, leaving, tunnelVars, sink, readerVars, linkVars, status, sysVars, plugged>>

Plug ==
  /\ plugged' = ~plugged
  /\ UNCHANGED <<pc, leaving, tunnelVars, sink, readerVars, linkVars, status, sysVars, requested>>

\* Another interface comes up on a subnet nobody has a route for.
OtherRoute ==
  /\ \E d \in Dest : route[d] = None /\ route' = [route EXCEPT ![d] = Other]
  /\ UNCHANGED <<pc, leaving, tunnelVars, sink, readerVars, linkVars, status, store,
                 orphans, envVars>>

\* SIGKILL, and launchd starts the daemon again (KeepAlive in the plist).
Kill ==
  /\ MayKill /\ pc # "done"
  /\ pc' = "scan" /\ leaving' = FALSE
  /\ wanted' = None /\ tunnel' = FALSE /\ held' = {}
  /\ sink' = None /\ reader' = None /\ readerStop' = FALSE
  /\ rx' = "off" /\ tx' = "off" /\ linkStop' = FALSE /\ events' = <<>>
  /\ status' = Idle
  /\ route' = RoutesVia({})
  /\ orphans' = store
  /\ requested' = FALSE
  /\ UNCHANGED <<lease, unit, store, plugged>>

Init ==
  /\ pc = "scan" /\ leaving = FALSE
  /\ wanted = None /\ tunnel = FALSE /\ lease = None /\ unit = None /\ held = {}
  /\ sink = None /\ reader = None /\ readerStop = FALSE
  /\ rx = "off" /\ tx = "off" /\ linkStop = FALSE /\ events = <<>>
  /\ status = Idle
  /\ route = [d \in Dest |-> IF d \in OthersNets THEN Other ELSE None]
  /\ store = {} /\ orphans = {}
  /\ plugged = FALSE /\ requested = FALSE

\* The steps of the main thread that wait for nobody.
Main ==
  \/ Scan \/ OpenFails \/ Open
  \/ Interrupted \/ PollEvent \/ Keepalive
  \/ DropTunnel \/ JoinReader \/ Release \/ Dropped
  \/ UpRouter \/ UpUtun \/ UpConfigure \/ UpRoute \/ UpStore \/ UpKeys \/ UpFails \/ Spawn
  \/ Halt \/ SessionEnds

Next ==
  \/ Main \/ Detach \/ Attach
  \/ RxBound \/ RxDeliver \/ RxFails \/ RxStops \/ TxStops \/ ReaderStops
  \/ Signal \/ Plug \/ OtherRoute \/ Kill

Spec == Init /\ [][Next]_vars

\* Every thread keeps running.  The sink's mutex is not fair, so the main
\* thread is assumed to get it some time between two packets.  A read on an
\* unplugged phone completes with Disconnected.
Fairness ==
  /\ WF_vars(Main)
  /\ SF_vars(Detach) /\ SF_vars(Attach)
  /\ WF_vars(rx = "write" /\ RxDeliver)
  /\ SF_vars(~plugged /\ RxFails)
  /\ SF_vars(RxStops) /\ WF_vars(TxStops) /\ WF_vars(ReaderStops)

FairSpec == Spec /\ Fairness

-----------------------------------------------------------------------------
(* Properties                                                              *)

\* Nothing of the tunnel is left: no device, no route through one, and no key
\* but those a killed daemon left or the store refused to remove.
Restored ==
  /\ OpenUnits = {}
  /\ \A d \in Dest : route[d] \notin Unit
  /\ store \subseteq orphans

\* Between sessions, and when the daemon has ended, the system is as it was,
\* whichever step of Tunnel::up failed and however the session ended: "restore
\* the system on unplug" (daemon.rs:2), "Dropping it restores the system"
\* (tunnel.rs:32).
NothingLeftBehind == pc \in {"scan", "open", "done"} => Restored

\* "Order matters: stop delivering, restore routes and DNS, then stop the link
\* threads" (daemon.rs:223): from the drop of a tunnel on, no packet is being
\* written into it; the old one is gone, device and all, before the next is
\* opened (daemon.rs:160), no Arc in the sink or in the reader keeping it alive;
\* and the link is told to stop when nothing is held.
TeardownInOrder ==
  /\ Cardinality(OpenUnits) <= 1
  /\ pc \in {"drop", "join", "release", "dropped", "halt", "stop"} => rx # "write"
  /\ pc = "stop" => Restored

\* While the daemon polls with a tunnel up, packets flow both ways and the
\* system is configured for that tunnel, through any number of renewals,
\* replacements and other interfaces coming up; and `muta status` shows this
\* tunnel, or none if there is none (daemon.rs:171).
TunnelCarriesTraffic ==
  pc \in {"poll", "keepalive"} =>
    /\ status.shown = IF tunnel THEN lease ELSE None
    /\ tunnel => /\ sink = unit
                 /\ reader = unit /\ ~readerStop
                 /\ route[SubnetOf[lease.ip]] = unit
                 /\ "IPv4" \in store \ orphans
                 /\ lease.dns => "DNS" \in store \ orphans

\* The leases among the events: rndis-rx ends with the Failed it reports, so
\* only the last event can be one.
Reported ==
  IF events # <<>> /\ events[Len(events)] = Failed
  THEN SubSeq(events, 1, Len(events) - 1)
  ELSE events

\* What the daemon promises about its tunnel (Daemon), whatever the steps of
\* bringing one up and taking it down do: reported leases are looked at in
\* order and each once, a renewal of the address in use leaves the tunnel
\* alone, the tunnel goes only for another one or with the session, and after
\* a failed Tunnel::up the session takes no further lease.
D == INSTANCE Daemon WITH
       NoRouter <- FALSE,
       up <- IF tunnel THEN lease ELSE None,
       ending <- leaving,
       events <- Reported

DaemonContract == D!Spec

\* A signal ends the daemon, whatever it is doing (daemon.rs:27), unless the
\* process that received it is killed first.
SignalEndsDaemon == requested ~> (pc = "done" \/ ~requested)

\* A phone that stays unplugged leaves the system restored (daemon.rs:2).
UnplugRestores == ~plugged ~> (plugged \/ Restored)

\* README.md:39: "Ctrl-C restores your routes and DNS."  A route that was there
\* when the daemon started should be there when it has ended.
RoutesAsBefore == pc = "done" => \A d \in OthersNets : route[d] = Other
=============================================================================
