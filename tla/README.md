# muta in TLA+

muta tethers a Mac to an Android phone over USB: a root daemon speaks RNDIS to the
phone, gets an address by DHCP, and publishes a utun interface with routes and DNS.
This directory models the daemon and its installation, model-checks them with TLC and
proves part of what is checked with TLAPS. Paths such as `link.rs` are relative to
`src/src/`.

## 1. The system

One process, started by launchd or by hand. Threads: the main thread (`daemon::run`),
`rndis-rx`, `rndis-tx` and the utun reader for each session, `ctl-server` and
`usb-hotplug` for the whole run.

| Part | State | Operations | Module |
|---|---|---|---|
| Daemon (`daemon.rs`, `signals.rs`) | session or none, tunnel, shutdown flag | scan, open, poll events, keepalive, tear down | `Session`, `Device`; abstractly `Daemon` |
| Tunnel (`tunnel.rs`, `tun/*.rs`) | utun, route, two SCDynamicStore keys, reader thread | `Tunnel::up` (eight fallible steps), `Drop`; sink attach, detach, deliver | `Session` |
| DHCP client (`netstack/dhcp.rs`, `link.rs: DhcpTimer`) | state, transaction id, offer, lease; deadline, backoff | discover, handle, retransmit, renew, due | `Dhcp`; with the daemon `Tether` |
| Link, transmit (`link.rs: Tx, tx_loop`) | batch, transfers in flight | fill, flush, reap, recover | `LinkTx`; the endpoint's contract `Endpoint` |
| Link, receive (`link.rs: rx_loop`) | queued reads, stall counter | wait, resubmit, recover, fail | `LinkRx`; `Endpoint` |
| Frames (`rndis/packet.rs`, `netstack/*.rs`) | none | decode, parse, options | `Frames` |
| ARP and dispatch (`netstack/arp.rs`, `link.rs: handle_transfer`, `tunnel.rs: spawn_reader`) | host address, cache, request times | handle, lookup, request, deliver | `Netstack` |
| RNDIS control (`rndis/control.rs`, `transport.rs`) | request id, link state, limits | bring_up, query, set, keepalive, halt | `RndisControl` |
| Matching (`usb/matcher.rs`, `usb/descriptor.rs`) | none | find_rndis | `Matcher` |
| Discovery, opening, hotplug (`device.rs`, `usb/nusb_backend.rs`) | id map, events | find, open, watch, wait | `Device` |
| Status server (`status.rs`) | socket path, shared status, flag | start, update, serve, drop | `StatusServer` |
| Service (`service.rs`) | installed files, launchd job, pid file | install, uninstall, log rotation | `Service` |

How they interact: `rndis-rx` owns the DHCP client and reports each confirmed lease on a
channel; the daemon turns it into a tunnel, attaches the tunnel's utun to the sink that
`rndis-rx` delivers into, and starts the reader, which looks the gateway up in the ARP
cache it shares with `rndis-rx` and queues frames for `rndis-tx`. Teardown runs against
that: sink, tunnel, RNDIS halt, link threads.

What is hard here: messages of the phone that are late, repeated, lost, refused or
malformed; a tunnel that fails half-way up or is replaced while packets are being
delivered; devices that come and go between any two steps; threads that must all see a
flag before the system is restored; a killed process or an interrupted install whose
files, store keys and socket survive it; stalled endpoints that may be cleared only when
idle; limits a device advertises. `PROJECT.json` lists these hazards by source line.

## 2. Modules

Each definition's source lines are in `PROJECT.json` under `map`. Definitions whose
comment begins with "Mutant:" are wrong variants of the definition that follows them;
they show that a property would notice the mistake and are part of no specification.
`MC*` modules are instances for TLC, `*Proofs` hold the theorems.

### Composition

    Daemon  <-- implemented by --  Session        (DaemonContract)
    Daemon  -- composed with Dhcp -->  Tether
    Endpoint  <-- implemented by --  LinkTx, LinkRx   (EndpointContract)
    RndisControl, Matcher  -- extended by -->  Device   (implements RndisControl)
    Frames  -- extended by -->  Netstack
    StatusServer  -- extended by -->  Service

`Daemon` is what the DHCP client needs to know of the daemon: which lease has a tunnel,
which one is being brought up, whether the session is ending. `Session`, with all the
steps of tunnels and threads, is checked and proved to implement it; `Tether` uses it in
their place, so that the client and the daemon can be explored side by side over any
number of sessions. `Device` adds steps to `RndisControl` and restricts when its own are
taken; `DeviceImplementsControl` proves that this is all it does. `Endpoint` is the contract that `usb/backend.rs` states in comments.

### Dhcp and Tether

State: the fields of `DhcpClient` and of `DhcpTimer` (`next` as a countdown, `renewAt` as
a flag), ARP's host address and learned senders, and the lease events the daemon has not
taken. One iteration of `rx_loop` is any number of `Handle` steps and then `Due`.
`HandleAck` includes what `handle_ipv4` does on `Event::Bound`. The server is external
and has no queue: whatever was ever asked (`asked`) may be answered at any time, any
number of times, or never, so delay, duplication, reordering and loss are all there.
Transaction ids are numbered along the orbit of the 32-bit generator, whose period is
2^32. In `Tether` a new session has a new client that starts at the same id, since
`rx_loop` seeds it from the stable host MAC, while `asked` stays.

### Session

`pc` is the main thread's place in `run`, `run_session`, `Tunnel::up` and the drops. A
utun is open while the tunnel, the sink or the reader holds its `Arc`; `OpenUnits` is the
set of those. `held` is what a whole or partial tunnel owns; `Release` gives it back in
the order Rust drops fields (whole tunnel) or locals (failed `Tunnel::up`). `route` and
`store` are the system; `orphans` are keys nobody owns any more. `Detach` and `Attach`
take the sink's lock, which `deliver` holds while `rx = "write"`. `Kill` is SIGKILL
followed by launchd's restart. The rx thread may report any lease at any time.

### LinkTx, LinkRx, Endpoint

A frame is its length and a transfer its result. What the endpoint does is external:
transfers complete in order, a stall halts it, a halted endpoint rejects what is
submitted, and cancelling makes what is pending complete as cancelled, or never. `pc`
follows `tx_loop`/`rx_loop` statement by statement; `ret` is where `flush` and `reap`
return to. `Endpoint` allows a submit only with room, a cancellation only after a stall,
and `clear_halt` only with nothing pending.

### Frames and Netstack

Lengths and offsets are the code's, in bytes: a transfer is its length and the headers
that can be read at given offsets, each with what its data contains. `NextFrame` is one
round of `handle_transfer` with everything the frame causes: an ARP reply, a learned
sender, a DHCP message parsed option by option, a packet for the tunnel, or the end of a
malformed transfer. `ReadPacket` is one round of the reader. The phone may change its MAC
address; ARP entries and the rate limit age with `Tick`. A transfer carries, for the
property only, what its sender meant by each message.

### RndisControl, Matcher, Device

`step` is the question of `bring_up` or `keepalive` that is being asked, `phase` whether
it was sent. The phone takes commands in order, answers each at most once, late, wrongly
or not at all, and sends indications and pings of its own. Completions carry, for the
property only, the question they answer. `Matcher` is `find_rndis` as operators over
descriptors with the union descriptor's bytes; `control.number + 1` wraps as in a release
build (in a debug build interface 255 panics). `Device` is the main thread's loop of
`find`, `open` and `wait_for_attach` one call at a time, any of which may fail, the
`usb-hotplug` thread, and a bus on which devices come and go; each opened phone is a new
`Rndis` whose ids start at 1 while old answers may be under way. A list that fails is
tried again after `RETRY_DELAY`: a stuttering step.

### StatusServer and Service

`file` is the socket path: absent, listened on, or left over. `main` is `start`, the run
and `Drop`; `thread` is `serve` and `handle`. `Service` puts around it `install` and
`uninstall` step by step (`tool`, `count`), the files, launchd (`job`, `enabled`), the
daemon before the status server (`early`: before its signal handlers, before its pid is
written) and newsyslog. Either command can fail or be interrupted at every step; the
daemon can be killed, signalled, booted out or rebooted at every step.

## 3. Runs

Passing runs (`tlc -config <cfg> <module>`); sizes are distinct states.

| Run | cfg | States | Shows |
|---|---|---|---|
| `tether` | `MCTether` | 96,312 | DHCP client and daemon over any number of sessions: only what was requested under the client's current id (by it, or by an earlier session's client with the same id) is installed, a renewal is armed exactly while bound, tunnel and ARP follow the lease, and the phone is tethered again. |
| `session` | `MCSession` | 232,228 | Any step of a bring-up failing, tunnels replaced during delivery, kills at every step: nothing left behind, teardown in order, traffic and status as the tunnel says; a signal ends the daemon, unplugging restores; `Session` implements `Daemon`. |
| `tx` | `MCLinkTx` | 75,881 | Batching at the device's limits, stalls, hung transfers, shutdown; `LinkTx` implements `Endpoint`. |
| `rx` | `MCLinkRx` | 3,558 | The read queue through errors, stalls and recoveries; `LinkRx` implements `Endpoint`. |
| `netstack` | `MCNetstack` | 24,560 | Transfers of one or two messages of every kind, with padding in every layer and each kind of malformed header: handled as sent; a gateway whose MAC changes is found again. |
| `control` | `MCDevice` | 409,529 | Descriptors of every shape; devices that are replaced, unplugged or plugged in between any two calls; transactions with old answers, pings and failures in between. |
| `status` | `MCService` | 644,469 | Up to three installs and uninstalls of two releases, interrupted anywhere, with reboots, rotations and kills; two clients of the status server. |

Runs that show a disagreement between the code and what the repository says about it:

| Run | Property | The code | The repository says |
|---|---|---|---|
| `dhcp_refusal` | `RefusalBacksOff` | After a NAK the timer is due at once (`link.rs:473`). | "the caller should restart after a backoff" (`netstack/dhcp.rs:87`) |
| `tether_ids` | `ConfirmsWhatIsRequested` | Every session's client starts from the same id (`link.rs:396`), so a late ACK to an earlier session's request is taken for the answer to the current one, for another address. | "`xid` should be random per client so replies can be matched" (`netstack/dhcp.rs:102`) |
| `session_routes` | `RoutesAsBefore` | `Routes::add` deletes any route to the phone's subnet, and nothing puts it back (`tun/net.rs:82`). | "Ctrl-C restores your routes and DNS" (repository README, line 39) |
| `tx_size` | `WithinAdvertisedSize` | `fits` looks at the length before padding and before the extra byte, so a transfer can exceed the limit (`link.rs:213`). | "batches only up to the advertised limit" (repository README, line 100) |
| `status_idle_client` | `RunReturns` | A client that connects and stays silent blocks the thread that `Drop` joins (`status.rs:133`). | "Returns once a shutdown signal has been handled" (`daemon.rs:27`) |

`TransferBounded` says by how much `tx_size` can go wrong: by no more than the alignment.
The mix-up of `tether_ids` needs two sessions: within one, `OneClientIsConfirmed` proves
that it cannot happen. `LeaseRequestedUnderXid` does not exclude it: it ties the address in
use to a request under the client's current id, which keeps out replies to earlier
discoveries of the same client, and over sessions the request may be an earlier client's
under that id. Even then the address is one the server confirmed to this Mac, and
tunnel and ARP agree on it (`TunnelFollowsLease`, `ArpServesTunnel`).

### Bounds

- `Tether`: two addresses (a stale one and a current one), one server, a backoff of 1 to
  2, so renewals, retransmissions and the cap race. `MaxXid = 2`: the first transaction of
  each session may be refused, and its replies reach the second and the next session's
  first. One report under way; the theorems hold for any number. The number of sessions is
  unbounded. `dhcp_refusal` also lets an OFFER carry no address, as `handle` does.
- `Session`: two addresses of one subnet (a replaced tunnel reuses the route), a renewal
  that changes the resolver and a lease without a router, two utun units, one other
  interface that has or gains a route to the same subnet, and one queued lease plus a
  failure. Kills and sessions are unbounded.
- `LinkTx`: lengths 20, 133 and 200 with a header of 44, alignment 8, limit 243 and 64-byte
  packets: short frames fill a transfer's last packet exactly; 20 followed by 133 fits
  unpadded and not padded; 200 never fits. Two packets a transfer, two transfers, two
  queued frames.
- `LinkRx`: three reads, the code's five stalls.
- `Netstack`: a phone with two MACs. From the first, one message of any kind, or two of
  the kinds that can follow or precede a malformed one; from the second, what ARP and the
  lease learn from. DHCP options are the message type followed by any two pieces, or
  preceded by any one, out of an option, a short one, one whose length is no multiple of
  four, PAD and END. Ages end at the expiry.
- `Device`: two attachments, so that a device can be replaced by another of the same or
  another kind while it is inspected or opened. Descriptors with every signature, a union
  descriptor on its own, behind others, twice, truncated or missing, interface numbers 0
  and 255, both alternate settings, and a second configuration; those in `Alone` are only
  looked at, which keeps them from multiplying the states of a session. Request ids wrap
  at 3 (a bring-up takes four), one pending command, one ready reply, a deadline of two
  ticks.
- `Service`: three commands are an install, a reinstall or uninstall over it, and one more
  over what that left. Two attempts of ten at bootstrap: one that is refused and one that
  is the last. Two clients (one may block the other) of the service installed first.

`CHECK_DEADLOCK FALSE` is set for the two link threads only: they end, and then nothing
more happens.

### Fairness

- Threads keep running (weak fairness on a thread's steps).
- `Tether`: time passes, and the server's answer is not lost every time (strong fairness on
  an answer to the last message); refusals are finitely many in a session through
  `MaxXid`. `AlwaysTetheredAgain` states the rest of its premise: sessions do not keep
  failing, and the server settles on an address.
- `Session`: the sink's mutex is not fair, so getting it some time between two packets is
  an assumption (strong fairness on `Detach` and `Attach`). An unplugged phone's reads
  complete with an error: the USB stack's promise. Nothing forces packets, leases or
  successful steps.
- `LinkTx`: nothing is asked of the bus for `StopEndsThread`; the other senders end after
  the flag is set, because the tunnel was dropped before and the rx thread sees the same
  flag. `HaltCleared` states its own premise, `DeviceWorks`: transfers complete, clearing
  the halt does not fail for ever, and frames that fit keep coming. It needs the last: the
  transmit thread reaps after a flush or an idle tick, and a stream of frames none of which
  fits leads to neither.
- `LinkRx`: the thread only.
- `Netstack`: packets keep coming from the tunnel, and a phone that is asked for its MAC
  answers some time (strong fairness on an answer). A packet is some time read while the
  entry is fresh: packets are more frequent than the five minutes of `ENTRY_TTL`.
- `Device`: the threads and the clock; the phone need never answer. That an attached phone
  can be opened for inspection some time (strong fairness on `Inspect`) is an assumption.
- `Service`: the daemon's threads. Clients in `Polite` send their line or hang up, as `muta
  status` does. In `status` all are polite; `status_idle_client` drops that for one.

## 4. Proofs

For every set of constants that satisfies the modules' assumptions:

| Module | Theorem | Statement |
|---|---|---|
| `TetherProofs` | `TypeCorrect` | `Spec => []TypeOK`, with the backoff between its minimum and maximum |
| | `StaleRepliesInstallNothing` | `Spec => []LeaseRequestedUnderXid` |
| | `RenewalArmed` | `Spec => []RenewalArmedIffBound` |
| | `GatewayKnown` | `Spec => []GatewayKnownWithServer` |
| | `NothingAbandoned` | `Spec => DiscoverOnlyAfterRefusal` |
| | `OneClientIsConfirmed` | `Spec => ConfirmsWhatIsRequested` |
| | `ClientSafeInEverySession` | the client's invariants under `TetherSpec` |
| | `LeaseIsFollowed` | `TetherSpec => []TunnelFollowsLease` |
| | `ArpIsServed` | `TetherSpec => []ArpServesTunnel` |
| `LinkRxProofs` | `QueueAlwaysFull` | `Spec => []QueueFull` |
| | `NeverEndsUnnoticed` | `Spec => []EndsWithNotice` |
| | `KeepsEndpointContract` | `Spec => EndpointContract`: a refinement |
| | `StopBoundsSteps` | `Spec => EndNears`, at most `RX_DEPTH + 4` steps |
| `ServiceProofs` | `BinaryBehindPlist` | `ServiceSpec => []PlistNamesBinary` |
| | `RotationNeverKills` | `ServiceSpec => RotationHarmless` |
| | `InstallTakesEffect` | `ServiceSpec => []InstalledRuns` |
| | `RemovedFilesStayGone` | `ServiceSpec => []RemovedStaysGone` |
| | `LeftoversHarmless` | `ServiceSpec => []LeftoverSocketHarmless` |
| | `RepliesCurrent` | `ServiceSpec => []ReplyIsCurrent` |
| | `DropBoundsSteps` | `ServiceSpec => ReturnNears`, at most 4 steps |
| `SessionProofs` | `SystemRestored` | `Spec => []NothingLeftBehind` |
| | `TornDownInOrder` | `Spec => []TeardownInOrder` |
| | `TunnelUp` | `Spec => []TunnelCarriesTraffic` |
| | `SessionImplementsDaemon` | `Spec => DaemonContract`: a refinement |
| | `SignalBoundsSteps` | `Spec => EndNears`, at most 32 steps |
| `DeviceProofs` | `ControlTyped`, `LimitsAlwaysUsable` | `Spec => []TypeOK`, `Spec => []LimitsUsable` |
| | `RightAnswer` | `Spec => AnswersTheQuestion` |
| | `DeadlineAlwaysStands` | `Spec => DeadlineStands` |
| | `DeviceImplementsControl`, `DeviceControl` | `DeviceSpec => Spec`, hence the four above under `DeviceSpec` |
| | `MapIsTheBus` | `DeviceSpec => []DisconnectsResolved` |
| | `OpenedIsFound` | `DeviceSpec => [](FoundAsMeant => OpenedAsFound)` |
| | `FoundIsMeant`, `OpenedIsMeant` | `KindsDescribed => (DeviceSpec => []FoundAsMeant)`, the same for `OpenedAsFound` |
| `ParsingProofs` | `FirstUnionNames` | what `union_subordinate` returns, for every string of bytes |
| | `FindsFirstFunction` | `FindRndis(configs) = Meaning(configs)`, for all descriptors |
| | `LastOptionWins` | what `parse` makes of the options, for every string of bytes |
| | `NothingBehindEnd` | what follows `OPT_END` changes nothing |
| | `PushedIsRead` | `parse` reads what `push_option` wrote |
| `LinkTxProofs` | `TransfersBounded` | `MaxPacket > 1 => (Spec => TransferBounded)` |
| | `FramesInOrder` | `Spec => FramesKeptInOrder` |
| | `LinkTxKeepsContract` | `Spec => EndpointContract`: a refinement |
| | `StopBoundsSteps` | `Spec => EndNears`, with a measure in three parts |
| `NetstackProofs` | `AppendedIsRead` | `next_frame` reads what `append` wrote, for every length and alignment |
| | `AppendedIsRecorded` | a transfer written with `append` is `Recorded` |
| | `ReadsInside` | `Spec => RoundsInside`: no slice outside its message or the transfer, each round moves on |
| | `TransfersUnderstood` | `RecordsTrue => (Spec => TransferUnderstood)` |

`GatewayKnownWithServer`, `DiscoverOnlyAfterRefusal`, `RoundsInside`, `LinkRx`'s `TypeOK`
and the properties of steps towards an end (`EndNears`, `ReturnNears`, `DeadlineStands`)
are only proved; no run repeats them.

Assumptions, each evaluated by TLC in the runs: `AddrAssumption` and `LeaseAssumption`
(`None` and the unspecified address are not addresses or leases), `TimeAssumption`
(`1 <= RetryMin <= RetryMax`, times are naturals), `RxAssumption` (`RX_DEPTH` is positive),
`ServiceAssumption` and `StatusAssumption` (releases are told apart from a half-written
file and from none, a client from none), `SessionAssumption` (a utun unit is neither none
nor another interface; every address has a subnet), `ControlAssumption` (a bring-up's
three ids come before the wrap, `U32Max > 2`; limits are naturals), `DeviceAssumption`,
`TxAssumption` (lengths are naturals; alignment, limits and depth are positive, which
`LimitsUsable` gives and `RndisControl` proves), `NetstackAssumption` (the words of a header
are unsigned).

**Dhcp.** None of the invariants is inductive alone. `due` calls `renew` when a renewal is
remembered, and `renew` needs a lease: that follows from `RenewalArmedIffBound` together
with `LeaseRequestedUnderXid`. `due` starts over when nothing is remembered, and only
`RenewalArmedIffBound` says that the client is then not bound. `retransmit` in Requesting
needs an offer, hence `OfferKept`. So the inductive invariant is

    IInv == /\ TypeOK /\ OfferKept /\ LeaseRequestedUnderXid
            /\ RenewalArmedIffBound /\ GatewayKnownWithServer

with one lemma for each of OFFER, ACK, NAK and `due`, and the steps that touch only the
clock, the channel or the wire together. That an accepted ACK was asked for under the
current id comes from the server (`MaySay`) and the client's filter (`ForUs`) together.

**Tether.** `IInv` survives `NewSession` because it speaks of `asked` only positively. That
the tunnel follows the lease needs to know what is in between: `Latest` is the address of
the youngest report, else of the lease being brought up, else of the tunnel, and
`ArpAndDaemonAgree` says that, unless the session is ending, it is the address ARP
answers for, which `LeaseRequestedUnderXid` ties to the lease. When nothing is in between both
properties follow.

**LinkRx.** `QueueFull` needs `Within`: while a recovery drains, there are never more reads
than there were. The same facts give each step of the thread a step of `Endpoint`.

**Service.** `PInv` says what each step of a command finds done by the ones before it
(`StepsDone`): a plist is written only behind the renamed binary and goes before it.
`RInv`: a pid in the file is that of a daemon that has its handler. `JInv`: a daemon runs
only under a job, and a bootstrap that succeeds met none. `UInv` (with `SInv` for the
socket): each file that was removed stays so, because a job that is no longer loaded is
not started again and the daemon that is ending only removes. `Gone(n)` is what the first
n removals leave. `RemovedStaysGone` speaks of the six files on `uninstall`'s list and of
nothing else: `muta.new` (`staged`), which an install that is cut short between the copy and
the rename leaves, is not on it and survives an uninstall.

`SInv` also gives the status server's own property: whatever was left at the path is gone
when `start` comes to bind. `VInv` adds that the version a client connected at, the one
`serve` cloned and the present one are in this order while the client is being served.

**Session.** The inductive invariant says, for every place of the main thread, what a
tunnel on its way up or down holds, and that the system contains this and nothing else:
`KeysInv` for the store (a key is held, or was orphaned by a kill), `DeviceInv` for the
three `Arc`s of the utun (sink, tunnel, reader), `RouteInv`, `ConfiguredInv` for a finished
tunnel, `StatusInv`, `WantedInv` for the lease being brought up, and `EventsInv`, that only
the last event can be a failure. The refinement maps the events to the leases among them;
`EventsInv` is what makes taking the first event the same on both sides.

**RndisControl.** `transact` compares types and ids, and the two MAC queries share a type.
They are told apart by their ids: a bring-up starts at 1, so the permanent address is always
asked for under id 2 and the current one under 3, in every session. `IdInv` and `OwnId` say
so of the client and of all that is under way; a wrapped id can meet one of them only in a
keepalive, whose type differs.

**Device.** `HotplugInv`: until the list is taken, the last event waiting about a device
says whether it is on the bus. `watch` folds these events over the list, and `FoldTranslate`
shows that the fold yields what was said last of each device. This is an induction over
the events, which the provers cannot do with the library's theorem: a closed form
(`LastSaid`) solves the fold's recursion, and a least counterexample (`LeastOf`) shows that
no other solution exists. `OpenInv` follows a phone from the scan to the session: ids are
never given out twice, so whatever has the id of what was found is that device.
`OpenedIsFound` is stated under `FoundAsMeant`, which depends on the descriptors alone.
`KindsDescribed` says that what a device means is `Meaning` of its descriptors, and then
`FindsFirstFunction` gives both properties for all devices. The hypothesis names the
definition `means` is to be compared with and excludes no descriptors; in the instance
`means` is written down for each kind by hand, and `Meaning` agrees with it for all 62.

**Parsing.** `find_rndis`, `union_subordinate` and the walk over the DHCP options are
compared with definitions that do not walk. `Starts` is the least set that holds the first
byte and, with the start of a whole descriptor, the byte behind it; the Union descriptor
that counts is the least of those that start in it. `Meaning` is the least triple of
configuration, control and data interface, in the order they are listed, that has what a
function needs. `Pieces` is the least set of places where an option or a pad begins; a
field is what the greatest of its `Givers` carries, and a message is refused if one of the
pieces is cut off. That the recursive functions compute this is an induction over the
bytes, done without the library's theorem: `WalkExists` makes a solution of the recursion
as the union of its approximations, so that `CHOOSE` has one to take, and where the walk
would go astray there is a least place (`LeastOf`) at which it does. `Closed(b)` says that
the pieces of `b` end exactly at its end; `FrontPieces` shows what is behind such bytes not
to touch how they are read, and both `NothingBehindEnd` and `PushedIsRead` rest on it.
`PushedIsRead` gives `Closed` again, so it holds of any number of options in a row.

**LinkTx.** `HandInv` says when a frame is in hand, `RoomInv` that the flush made for it has
emptied the batch unless the thread was told to stop. `BatchInv` keeps the batch within the
limit plus a padding, and adds what makes that inductive: at the very bound the length is
no multiple of the packet size, so the terminating byte is not added again.
`TransferBounded` needs `MaxPacket > 1`: the
terminating byte is added whenever the length is a multiple of the packet size. With
packets of one byte, which `link.rs:268` allows and USB does not have for bulk endpoints,
it always is, and a flush that returns without sending because it is told to stop adds a
byte each time: TLC finds the bound violated for `MaxPacket = 1`, not for 2.

**Netstack.** `ReadsInside` takes the headers as they come. `TransfersUnderstood` is about a
transfer whose sender's records are true (`Recorded`): messages follow one another, a good
one can be read and calls for what is said of it, and where the first bad one or the end is
nothing can be read. `ThroughInv` says that the loop is behind the first k of them and has
handled those meant for us, one by one. So what TLC shows for a message of each kind and for
pairs holds for any number in a row. All transfers of the `netstack` run satisfy `Recorded`,
and `AppendedIsRecorded` shows that any sender meets it that writes messages the way
`packet::append` does, with less than a header of padding behind them.

**Ways to an end.** Four liveness properties say that something ends: the daemon after a
signal, the link threads when told to stop, `run` when it drops the status server, a
transaction with the phone. What of them does not depend on fairness is proved: a measure
(`StepsLeft`; in `LinkTx` the triple `Work`, `Stage`, `Waits`; in `RndisControl` the time
left) that every step of the thread in question makes less and that nobody else's step
changes, a kill apart. So no interleaving with the other threads, the phone or the clients
can put the end off, however deep the queues are and however many frames or clients wait. What
is left to TLC is that the thread is never stuck on the way. `LinkTx`'s measure
counts once the last `FrameSender` is gone (`~sending`), since until then frames may still
be queued.

Only model-checked: every liveness property as such (fairness is beyond the prover). The
violations of section 3 are TLC's.

## 5. Not modelled

- Building bytes: `rndis/wire.rs`'s encoders, Ethernet, IPv4 and UDP headers, checksums,
  DHCP encoding, the plist's text. The models say what decoding lets through.
- Reading and writing the utun (`tun/utun.rs`), which is I/O; the packets are in
  `Netstack`.
- Lease expiry: the code parses the lease time and never enforces it. A renewal that keeps
  the address and changes router, DNS servers or MTU is modelled as it is, not applied;
  nothing says what should happen.
- Two daemons at once, which share the status socket's path; two commands at once.
- Pid reuse: a stale pid belongs to nobody.
- A second phone: `find` stops at the first RNDIS function, and one that can never be
  opened keeps a second from being tried.
- Counters in the status, logging, `probe.rs`, argument parsing in `main.rs`.

Modelled, but with nothing to hold it against: a bulk endpoint that cannot be opened ends
`open` without a HALT (`device.rs:118`); a `bootout` that fails leaves the job loaded
although `uninstall` says "uninstalled." (`service.rs:73`); a failed install leaves
`muta.new`, which `uninstall` does not remove (`service.rs:48`, 76-83) and which keeps it
from removing the directory (`service.rs:92`); a killed daemon's DNS key stays with a next
lease that has no DNS servers (`tun/dns.rs:58`), and `NothingLeftBehind` excuses it; ARP's
cache and request times are never pruned (`netstack/arp.rs:111`); output between launchd's
opening the log and the pid's being written may go to a rotated file (`service.rs:223`).
