-------------------------------- MODULE Daemon --------------------------------
(***************************************************************************)
(* What the daemon promises the link and the system: the tunnel it holds,   *)
(* as run_session's poll loop (daemon.rs) decides about it, without the     *)
(* steps of bringing one up or taking it down.  Session is shown to         *)
(* implement this module; Tether composes it with the DHCP client.          *)
(***************************************************************************)
EXTENDS Sequences

CONSTANTS
  Leases,    \* leases the link may report, records with at least ip and router
  NoRouter,  \* what the router field of a lease without one holds
  None       \* Option::None

VARIABLES
  up,       \* the lease of the tunnel that is up
  wanted,   \* the lease a tunnel is being brought up for
  ending,   \* the session is being given up
  events    \* leases reported and not yet looked at, oldest first

vars == <<up, wanted, ending, events>>

Init == up = None /\ wanted = None /\ ending = FALSE /\ events = <<>>

\* The link reports a confirmed lease.
Report ==
  /\ \E l \in Leases : events' = Append(events, l)
  /\ UNCHANGED <<up, wanted, ending>>

\* The next event, while the poll loop runs and nothing is being brought up.
Polling == events # <<>> /\ wanted = None /\ ~ending

SameAddress == up # None /\ up.ip = Head(events).ip

\* Mutant: any lease is a renewal once there is a tunnel.
RenewedAny ==
  /\ Polling /\ up # None
  /\ events' = Tail(events)
  /\ UNCHANGED <<up, wanted, ending>>

\* A lease for the address in use is only a renewal.
Renewed ==
  /\ Polling /\ SameAddress
  /\ events' = Tail(events)
  /\ UNCHANGED <<up, wanted, ending>>

\* Any other lease is to replace the tunnel.
Replace ==
  /\ Polling /\ ~SameAddress
  /\ wanted' = Head(events) /\ events' = Tail(events)
  /\ UNCHANGED <<up, ending>>

\* The tunnel goes: for another one, or with the session.
Down ==
  /\ up # None /\ (wanted # None \/ ending)
  /\ up' = None
  /\ UNCHANGED <<wanted, ending, events>>

\* Tunnel::up succeeded.
Install ==
  /\ wanted # None /\ up = None /\ ~ending
  /\ wanted.router # NoRouter
  /\ up' = wanted /\ wanted' = None
  /\ UNCHANGED <<ending, events>>

\* Tunnel::up failed, and the session with it.
GiveUp ==
  /\ wanted # None /\ up = None /\ ~ending
  /\ wanted' = None /\ ending' = TRUE
  /\ UNCHANGED <<up, events>>

\* The poll loop is left: a signal, a failed link or a failed keepalive.
Leave ==
  /\ wanted = None /\ ~ending
  /\ ending' = TRUE
  /\ UNCHANGED <<up, wanted, events>>

\* The link is gone, and what it reported with it.
LinkDown ==
  /\ ending /\ up = None
  /\ events' = <<>>
  /\ UNCHANGED <<up, wanted, ending>>

\* A session with the next device.
Begin ==
  /\ ending /\ up = None /\ events = <<>>
  /\ ending' = FALSE
  /\ UNCHANGED <<up, wanted, events>>

\* The daemon is killed, or returns, and starts again.
Restart == up' = None /\ wanted' = None /\ ending' = FALSE /\ events' = <<>>

Next ==
  \/ Report \/ Renewed \/ Replace \/ Down \/ Install \/ GiveUp \/ Leave
  \/ LinkDown \/ Begin \/ Restart

Spec == Init /\ [][Next]_vars
===============================================================================
