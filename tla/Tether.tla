-------------------------------- MODULE Tether --------------------------------
(***************************************************************************)
(* The DHCP client of the link (Dhcp) and the daemon that installs what it  *)
(* reports (Daemon), side by side and session after session: rx_loop on the *)
(* rndis-rx thread, run_session's poll loop on the main thread, and between *)
(* them the channel of link events.                                        *)
(*                                                                         *)
(* A session starts with a new client, but rx_loop seeds its transaction id *)
(* from the host's MAC address, which "is stable": every client of a phone  *)
(* goes through the same ids.  What earlier clients asked may therefore     *)
(* still be answered to the current one.                                   *)
(***************************************************************************)
EXTENDS Dhcp

VARIABLES
  up, wanted, ending   \* see Daemon

daemonVars == <<up, wanted, ending>>
rxVars == <<clientVars, timerVars, arpVars, pc, asked, onWire>>
tetherVars == <<vars, daemonVars>>

D == INSTANCE Daemon WITH Leases <- Events, NoRouter <- None

\* The rndis-rx thread, the clock and the wire.
RxStep ==
  /\ \/ \E m \in Reply : Handle(m)
     \/ EndTransfer \/ Due \/ Tick \/ Lose
  /\ UNCHANGED daemonVars

\* The main thread, which the session's failing interrupts.
DaemonStep ==
  /\ D!Renewed \/ D!Replace \/ D!Down \/ D!Install \/ D!GiveUp
  /\ UNCHANGED rxVars

SessionFails == D!Leave /\ UNCHANGED rxVars

\* link.shutdown() joined the threads of the last session; the next one has a
\* new client, timer, ARP cache and channel, and sends its first DISCOVER.
NewSession ==
  /\ ending /\ up = None
  /\ ending' = FALSE
  /\ state' = "Selecting" /\ xid' = 1 /\ offered' = None /\ serverId' = None
  /\ lease' = None
  /\ next' = RetryMin /\ backoff' = RetryMin /\ renewAt' = FALSE
  /\ hostIp' = Unspec /\ arpKnown' = {}
  /\ events' = <<>> /\ pc' = "rx"
  /\ onWire' = TRUE
  /\ UNCHANGED <<asked, up, wanted>>

TetherInit == Init /\ up = None /\ wanted = None /\ ending = FALSE

TetherNext == RxStep \/ DaemonStep \/ SessionFails \/ NewSession

TetherSpec == TetherInit /\ [][TetherNext]_tetherVars

\* The answer to what the client last sent.
Answer(m) ==
  /\ onWire /\ m.type # "NAK" /\ m.yiaddr # Unspec
  /\ Handle(m)
  /\ UNCHANGED daemonVars

\* The threads run and time passes.  The server answers unless the exchange
\* is lost, and it is not lost every time: an assumption on the phone.
TetherFairness ==
  /\ WF_tetherVars(EndTransfer /\ UNCHANGED daemonVars)
  /\ WF_tetherVars(Due /\ UNCHANGED daemonVars)
  /\ WF_tetherVars(Tick /\ UNCHANGED daemonVars)
  /\ WF_tetherVars(DaemonStep) /\ WF_tetherVars(NewSession)
  /\ SF_tetherVars(\E m \in Reply : Answer(m))

FairTether == TetherSpec /\ TetherFairness

-----------------------------------------------------------------------------
(* Properties                                                              *)

\* Nothing the link reported is still to be looked at or brought up.
Settled == events = <<>> /\ wanted = None /\ ~ending

\* The daemon's tunnel follows the client's lease: once every report is looked
\* at, a bound or renewing client's address is the tunnel's, through any
\* number of renewals, refusals, changes of address and sessions
\* (daemon.rs:150 compares addresses only).
TunnelFollowsLease ==
  Settled /\ state \in {"Bound", "Renewing"} => up # None /\ up.ip = lease.ip

\* ARP answers for the tunnel's address whenever a settled tunnel is up, even
\* after a refused renewal: handle() then drops the lease (dhcp.rs:174), and
\* neither ARP nor the daemon is told.
ArpServesTunnel == Settled /\ up # None => hostIp = up.ip

\* A tunnel without a lease is not for good: unless sessions keep failing, the
\* server offers nothing, or it confirms a different address every time, the
\* client is bound again and again and the tunnel is the one for its lease,
\* however many exchanges are lost and after any finite number of refusals.
AlwaysTetheredAgain ==
  \A a \in Addr :
    <>[](~ending /\ offered # Unspec /\ (lease # None => lease.ip = a)) =>
      []<>(state = "Bound" /\ up # None /\ up.ip = a)
===============================================================================
