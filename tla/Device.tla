-------------------------------- MODULE Device --------------------------------
(***************************************************************************)
(* From the bus to a session: the daemon's loop of scans and waits          *)
(* (daemon.rs), finding and opening the phone (device.rs), the hotplug      *)
(* thread (usb/nusb_backend.rs), and within it the control channel of       *)
(* RndisControl, a new one each time the phone is opened.                   *)
(*                                                                         *)
(* The bus is external: devices come, each time with another id, and go at  *)
(* any moment, also while they are being opened.  What is claimed and       *)
(* opened is released by Drop on every way out and has no state of its own. *)
(***************************************************************************)
EXTENDS RndisControl, Matcher, SequencesExt

CONSTANTS
  Kinds,      \* devices there are: their descriptors, the configuration active at
              \* first (0: none), and the function that is meant
  Claimable,  \* those whose interfaces no other driver holds
  Alone,      \* bound: those that are looked at with nothing else on the bus
  MaxAttach   \* bound: how often something is plugged in

ASSUME DeviceAssumption ==
  /\ Claimable \subseteq Kinds /\ Alone \subseteq Kinds
  /\ MaxAttach \in Nat

VARIABLES
  bus,            \* what is attached, in the order of a list, with its state
  attached,       \* how many have been
  main,           \* where the daemon's main thread is
  todo,           \* find(): the ids still to inspect
  found, peer,    \* the phone and function in hand; the id last opened
  watching, raw,  \* whether nusb's watch is set up; its events nobody took yet
  ids, events     \* the hotplug thread's id map; whether its channel holds events

busVars  == <<bus, attached>>
plugVars == <<watching, raw, ids, events>>
scanVars == <<main, todo, found, peer>>
allVars  == <<vars, busVars, plugVars, scanVars>>

Ids == 1..MaxAttach

\* The function found in a device, if it has one.
RndisOf == [k \in Kinds |-> FindRndis(k.configs)]

BusIds == {bus[i].id : i \in DOMAIN bus}

Present(n) == n \in BusIds

At(n) == CHOOSE i \in DOMAIN bus : bus[i].id = n

\* The phone in hand is still there.
Connected == found # None /\ Present(found.id)

-----------------------------------------------------------------------------
(* The bus and the hotplug thread                                          *)

\* The loop of the usb-hotplug thread: an event of nusb's becomes one of ours,
\* unless it is the disconnection of a device never seen.
Translate(map, e) == IF e[1] = "connected" THEN map \cup {e[2]} ELSE map \ {e[2]}

Translated(map, e) == e[1] = "connected" \/ e[2] \in map

\* nusb reports e.  The thread takes it, once it runs: that it does so at once only
\* hides a delay between the two channels.
Report(e) ==
  \/ ~watching /\ UNCHANGED plugVars
  \/ watching /\ main = "list" /\ raw' = Append(raw, e) /\ UNCHANGED <<watching, ids, events>>
  \/ /\ watching /\ main # "list"
     /\ ids' = Translate(ids, e) /\ events' = (events \/ Translated(ids, e))
     /\ UNCHANGED <<watching, raw>>

\* External: a device is plugged in.  Bound: not while there is a control channel,
\* which does not look at the bus, or something under way in an earlier one.
Attach(k) ==
  /\ attached < MaxAttach
  /\ step = "closed" /\ commands = <<>> /\ replies = <<>>
  /\ bus # <<>> => k \notin Alone /\ \A i \in DOMAIN bus : bus[i].kind \notin Alone
  /\ attached' = attached + 1
  /\ bus' = Append(bus, [id |-> attached', kind |-> k, config |-> k.active, alt |-> 0])
  /\ Report(<<"connected", attached'>>)
  /\ UNCHANGED <<vars, scanVars>>

\* External: one goes.  Nothing is heard any more of the one opened last.
Detach(i) ==
  /\ bus' = RemoveAt(bus, i)
  /\ Report(<<"disconnected", bus[i].id>>)
  /\ IF peer = bus[i].id THEN PhoneGoes ELSE UNCHANGED vars
  /\ UNCHANGED <<attached, scanVars>>

-----------------------------------------------------------------------------
(* run() up to a session                                                   *)

\* watch(): set up first...
Watch ==
  /\ main = "start"
  /\ \/ main' = "list" /\ watching' = TRUE
     \/ main' = "scan" /\ UNCHANGED watching
  /\ UNCHANGED <<vars, busVars, raw, ids, events, todo, found, peer>>

\* Mutant: the map starts empty.
ListNothing ==
  /\ main = "list" /\ main' = "scan"
  /\ ids' = FoldLeft(Translate, {}, raw) /\ raw' = <<>>
  /\ events' = (raw # <<>>)
  /\ UNCHANGED <<vars, busVars, watching, todo, found, peer>>

\* ... then the devices already there are listed, and the thread starts.  If that
\* fails there is no watch after all.
List ==
  /\ main = "list" /\ main' = "scan"
  /\ raw' = <<>>
  /\ \/ /\ ids' = FoldLeft(Translate, BusIds, raw)
        /\ events' = (\E i \in DOMAIN raw : raw[i][1] = "connected")
        /\ UNCHANGED watching
     \/ watching' = FALSE /\ UNCHANGED <<ids, events>>
  /\ UNCHANGED <<vars, busVars, todo, found, peer>>

\* find(): the list...
Scan ==
  /\ main = "scan" /\ main' = "find"
  /\ todo' = [i \in DOMAIN bus |-> bus[i].id]
  /\ UNCHANGED <<vars, busVars, plugVars, found, peer>>

\* ... and one device of it after the other.  One that cannot be opened is not
\* ours; one without RNDIS is idle; the first with it is taken.
Inspect ==
  /\ main = "find" /\ todo # <<>>
  /\ todo' = Tail(todo)
  /\ \/ main' = main /\ UNCHANGED found
     \/ /\ Present(Head(todo))
        /\ LET f == RndisOf[bus[At(Head(todo))].kind] IN
             \/ f = <<>> /\ main' = main /\ UNCHANGED found
             \/ /\ f # <<>>
                /\ main' = "open"
                /\ found' = [id |-> Head(todo), function |-> f[1]]
  /\ UNCHANGED <<vars, busVars, plugVars, peer>>

Idle ==
  /\ main = "find" /\ todo = <<>>
  /\ main' = "wait"
  /\ UNCHANGED <<vars, busVars, plugVars, todo, found, peer>>

\* Mutant: the wait has no timeout.
WaitForever ==
  /\ main = "wait" /\ main' = "scan"
  /\ events /\ events' \in BOOLEAN
  /\ UNCHANGED <<vars, busVars, watching, raw, ids, todo, found, peer>>

\* wait_for_attach(): an event of the channel, which may have been the last, or
\* HOTPLUG_WAIT is over.
Wait ==
  /\ main = "wait" /\ main' = "scan"
  /\ events' \in BOOLEAN /\ (events' => events)
  /\ UNCHANGED <<vars, busVars, watching, raw, ids, todo, found, peer>>

-----------------------------------------------------------------------------
(* open()                                                                  *)

\* A call fails, and open() with it.
Fails == main' = "close" /\ UNCHANGED <<vars, bus>>

Goes(next) == Connected /\ main' = next

OpenDevice ==
  /\ main = "open"
  /\ \/ /\ Goes("configure")
        /\ peer' = found.id
        /\ IF peer = found.id THEN UNCHANGED vars ELSE PhoneGoes
        /\ UNCHANGED bus
     \/ Fails /\ UNCHANGED peer
  /\ UNCHANGED <<attached, plugVars, todo, found>>

\* Mutant: a device that cannot say which configuration is active keeps it.
ConfigureKnown ==
  /\ main = "configure"
  /\ LET i == At(found.id)
         value == found.function.config
     IN  \/ /\ Goes("claim")
            /\ bus' = IF bus[i].config \in {0, value} THEN bus
                      ELSE [bus EXCEPT ![i].config = value, ![i].alt = 0]
            /\ UNCHANGED vars
         \/ Fails
  /\ UNCHANGED <<attached, plugVars, todo, found, peer>>

\* The RNDIS configuration is selected unless it is the active one.
Configure ==
  /\ main = "configure"
  /\ LET i == At(found.id)
         value == found.function.config
     IN  \/ /\ Goes("claim")
            /\ bus' = IF bus[i].config = value THEN bus
                      ELSE [bus EXCEPT ![i].config = value, ![i].alt = 0]
            /\ UNCHANGED vars
         \/ Fails
  /\ UNCHANGED <<attached, plugVars, todo, found, peer>>

\* Both interfaces.
Claim ==
  /\ main = "claim"
  /\ \/ /\ Goes("alt") /\ bus[At(found.id)].kind \in Claimable
        /\ UNCHANGED <<vars, bus>>
     \/ Fails
  /\ UNCHANGED <<attached, plugVars, todo, found, peer>>

SetAlt ==
  /\ main = "alt"
  /\ \/ /\ Goes("control")
        /\ bus' = IF found.function.alt = 0 THEN bus
                  ELSE [bus EXCEPT ![At(found.id)].alt = found.function.alt]
        /\ UNCHANGED vars
     \/ Fails
  /\ UNCHANGED <<attached, plugVars, todo, found, peer>>

\* The transport, whose notification endpoint may fail to open, and the Rndis.
Control ==
  /\ main = "control"
  /\ \/ main' = "bringup" /\ Reopen /\ UNCHANGED bus
     \/ found.function.notify /\ Fails
  /\ UNCHANGED <<attached, plugVars, todo, found, peer>>

\* bring_up() returns.
BroughtUp ==
  /\ main = "bringup"
  /\ \/ step = "up" /\ main' = "endpoints"
     \/ step = "failed" /\ main' = "close"
  /\ UNCHANGED <<vars, busVars, plugVars, todo, found, peer>>

\* The bulk endpoints; if one fails to open the Rndis goes without a HALT.
Endpoints ==
  /\ main = "endpoints"
  /\ \/ Goes("session") /\ UNCHANGED <<vars, bus>>
     \/ Fails
  /\ UNCHANGED <<attached, plugVars, todo, found, peer>>

\* run_session() returns, after halt().
SessionOver ==
  /\ main = "session" /\ step = "failed"
  /\ main' = "close"
  /\ UNCHANGED <<vars, busVars, plugVars, todo, found, peer>>

\* Everything is dropped, and run() scans again.
Release ==
  /\ main = "close" /\ main' = "scan"
  /\ found' = None /\ todo' = <<>>
  /\ \/ step = "closed" /\ UNCHANGED vars
     \/ step # "closed" /\ Close
  /\ UNCHANGED <<busVars, plugVars, peer>>

-----------------------------------------------------------------------------
(* The control channel in it                                               *)

\* A command reaches a phone that is there.
Transaction ==
  /\ main \in {"bringup", "session"}
  /\ \/ Send /\ (commands' # commands => Connected)
     \/ NoReply \/ Complete \/ Service
  /\ UNCHANGED <<busVars, plugVars, scanVars>>

UseIt ==
  /\ main = "session"
  /\ Use \/ (Halt /\ (commands' # commands => Connected))
  /\ UNCHANGED <<busVars, plugVars, scanVars>>

\* External.  What the phone says while nobody listens it may as well say later.
Phone ==
  /\ main \in {"bringup", "session"} /\ Present(peer)
  /\ PhoneAnswers \/ PhoneSpeaks
  /\ UNCHANGED <<busVars, plugVars, scanVars>>

Time == Tick /\ UNCHANGED <<busVars, plugVars, scanVars>>

DeviceInit ==
  /\ Init
  /\ bus = <<>> /\ attached = 0
  /\ main = "start" /\ todo = <<>> /\ found = None /\ peer = 0
  /\ watching = FALSE /\ raw = <<>> /\ ids = {} /\ events = FALSE

Opening == OpenDevice \/ Configure \/ Claim \/ SetAlt \/ Control \/ BroughtUp \/ Endpoints

Main == Watch \/ List \/ Scan \/ Inspect \/ Idle \/ Wait \/ Opening \/ SessionOver \/ Release

DeviceNext ==
  \/ Main \/ Transaction \/ UseIt \/ Time \/ Phone
  \/ \E k \in Kinds : Attach(k)
  \/ \E i \in DOMAIN bus : Detach(i)

DeviceSpec == DeviceInit /\ [][DeviceNext]_allVars

\* Both threads run and time passes.  A device that stays is not for ever in
\* use by somebody else when a scan comes to it.
DeviceFairness ==
  /\ WF_scanVars(Main)
  /\ WF_<<step, phase>>((Transaction \/ UseIt) /\ phase = "send")
  /\ WF_left(Time)
  /\ WF_<<step, phase>>(left = 0 /\ NoReply /\ UNCHANGED <<busVars, plugVars, scanVars>>)
  /\ SF_main(Inspect /\ main' = "open")

FairDevice == DeviceSpec /\ DeviceFairness

-----------------------------------------------------------------------------
(* Properties                                                              *)

\* The function found in a device's descriptors is the one the device means:
\* the control interface of the first that is complete, with the data interface
\* its Union descriptor names, or else the next one, and the alternate setting
\* with the bulk pair (usb/matcher.rs, "The control/data pairing follows the
\* CDC Union functional descriptor when present").
FoundAsMeant == \A i \in DOMAIN bus : RndisOf[bus[i].kind] = bus[i].kind.means

\* The RNDIS messages go to the device the scan found, with the configuration
\* and alternate setting active that the function belongs to, although the
\* device was closed in between and may have been replaced (open).
OpenedAsFound ==
  main \in {"bringup", "endpoints", "session"} /\ Connected =>
    LET d == bus[At(found.id)] IN
    /\ <<found.function>> = d.kind.means
    /\ d.config = found.function.config /\ d.alt = found.function.alt

\* "Seed the id map with devices already present so their disconnects can still
\* be resolved" (nusb_backend.rs:40): once the thread runs, it knows the devices
\* on the bus and no others, however plugging and the two calls of watch()
\* interleave.
DisconnectsResolved == watching /\ main # "list" => ids = BusIds

\* A phone that stays attached is opened again and again until a session lasts,
\* whatever it was doing when it was plugged in and whatever else there is: no
\* plug event is needed for it, none that was missed or used up prevents it
\* (run, find, wait_for_attach).
AttachedIsTried ==
  \A n \in Ids :
    <>[](\E i \in DOMAIN bus : bus[i].id = n /\ bus[i].kind.means # <<>>)
      => []<>(main \notin {"scan", "find", "wait"})
===============================================================================
