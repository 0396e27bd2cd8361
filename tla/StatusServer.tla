----------------------------- MODULE StatusServer -----------------------------
(***************************************************************************)
(* The status socket (status.rs) as daemon::run uses it: start() binds the  *)
(* path and spawns the ctl-server thread, which serves one client at a      *)
(* time; the daemon updates the shared status; dropping the server raises   *)
(* its flag, joins the thread and removes the path.  The daemon may be      *)
(* killed at any step and started again, with the socket file still there.  *)
(***************************************************************************)
EXTENDS Naturals, Sequences, Functions

CONSTANTS
  Client,      \* processes that connect to the socket
  Polite,      \* those that send a line or hang up, as print_status does
  MaxVersion,  \* bound: updates of the status in one run of the daemon
  None

ASSUME StatusAssumption ==
  Polite \subseteq Client /\ MaxVersion \in Nat /\ None \notin Client

VARIABLES
  main,      \* where run() is
  signal,    \* signals::requested()
  file,      \* SOCKET_PATH: "none", "live", or "stale" (nobody listens)
  fault,     \* whether the system failed one of start's or serve's calls
  version,   \* the shared Status, as the number of updates it has seen
  flag,      \* the server's shutdown flag
  thread,    \* where the ctl-server thread is
  snap,      \* the status serve cloned
  serving,   \* the client it serves
  backlog,   \* connected clients it has not accepted
  conn,      \* each client's connection
  since      \* the version each client connected at

mainVars == <<main, signal, file, fault, version>>
threadVars == <<flag, thread, snap, serving>>
clientVars == <<backlog, conn, since>>
vars == <<mainVars, threadVars, clientVars>>

Open == {"waiting", "sent"}

\* The clients whose connections end with the listener or the process.
Cut(cs) == [c \in Client |-> IF c \in cs /\ conn[c] \in Open THEN "closed" ELSE conn[c]]

-----------------------------------------------------------------------------
(* The daemon's main thread                                                *)

\* Mutant: the socket of a previous run is left in place.
RemoveNothing ==
  /\ main = "start" /\ main' = "bind"
  /\ UNCHANGED <<signal, file, fault, version, threadVars, clientVars>>

RemoveStale ==
  /\ main = "start" /\ main' = "bind"
  /\ file' = "none"
  /\ UNCHANGED <<signal, fault, version, threadVars, clientVars>>

\* bind() fails if the path exists, and for reasons of the system's own; run()
\* then goes on without a server.
Bind ==
  /\ main = "bind"
  /\ \/ /\ file = "none"
        /\ main' = "permit" /\ file' = "live"
        /\ UNCHANGED fault
     \/ /\ main' = "run" /\ fault' = (file = "none")
        /\ UNCHANGED file
  /\ UNCHANGED <<signal, version, threadVars, clientVars>>

\* set_permissions and spawn; if one fails, the listener closes but its path
\* stays behind.
Spawn ==
  /\ main = "permit" /\ main' = "run"
  /\ \/ /\ thread' = "loop" /\ flag' = FALSE
        /\ UNCHANGED <<file, fault, snap, serving, clientVars>>
     \/ /\ file' = "stale" /\ fault' = TRUE
        /\ conn' = Cut(Range(backlog)) /\ backlog' = <<>>
        /\ UNCHANGED <<threadVars, since>>
  /\ UNCHANGED <<signal, version>>

\* update()
Update ==
  /\ main = "run" /\ thread # "none" /\ version < MaxVersion
  /\ version' = version + 1
  /\ UNCHANGED <<main, signal, file, fault, threadVars, clientVars>>

\* run() returns, dropping the server if there is one: the flag...
Drop ==
  /\ main = "run" /\ signal
  /\ IF thread = "none" THEN main' = "ended" /\ UNCHANGED flag
                        ELSE main' = "join" /\ flag' = TRUE
  /\ UNCHANGED <<signal, file, fault, version, thread, snap, serving, clientVars>>

\* ... the join, and the path.
Join ==
  /\ main = "join" /\ thread = "done"
  /\ main' = "ended" /\ thread' = "none" /\ file' = "none"
  /\ UNCHANGED <<signal, fault, version, flag, snap, serving, clientVars>>

-----------------------------------------------------------------------------
(* The ctl-server thread                                                   *)

\* serve returns, and the listener closes with it; its path may be gone already.
Leave ==
  /\ thread' = "done" /\ file' = IF file = "live" THEN "stale" ELSE file
  /\ conn' = Cut(Range(backlog)) /\ backlog' = <<>>

\* Mutant: the loop goes on for as long as there are clients.
LoopWhileClients ==
  /\ thread = "loop"
  /\ IF flag /\ backlog = <<>> THEN Leave ELSE thread' = "accept" /\ UNCHANGED <<file, conn, backlog>>
  /\ UNCHANGED <<main, signal, fault, version, flag, snap, serving, since>>

Loop ==
  /\ thread = "loop"
  /\ IF flag THEN Leave ELSE thread' = "accept" /\ UNCHANGED <<file, conn, backlog>>
  /\ UNCHANGED <<main, signal, fault, version, flag, snap, serving, since>>

\* Mutant: the status is the one cloned for the client before.
AcceptOldStatus ==
  /\ thread = "accept"
  /\ \/ /\ backlog # <<>>
        /\ thread' = "read" /\ serving' = Head(backlog) /\ backlog' = Tail(backlog)
     \/ backlog = <<>> /\ thread' = "loop" /\ UNCHANGED <<serving, backlog>>
  /\ UNCHANGED <<mainVars, flag, snap, conn, since>>

\* accept(): a client, whose status is cloned now; none; or an error.
Accept ==
  /\ thread = "accept"
  /\ \/ /\ backlog # <<>>
        /\ thread' = "read"
        /\ serving' = Head(backlog) /\ backlog' = Tail(backlog)
        /\ snap' = version
        /\ UNCHANGED <<file, fault, conn>>
     \/ /\ backlog = <<>>
        /\ thread' = "loop"
        /\ UNCHANGED <<file, fault, serving, backlog, snap, conn>>
     \/ /\ Leave
        /\ fault' = TRUE
        /\ UNCHANGED <<serving, snap>>
  /\ UNCHANGED <<main, signal, version, flag, since>>

\* Mutant: a client that hangs up is waited for.
HandleOnlyLine ==
  /\ thread = "read" /\ conn[serving] = "sent"
  /\ thread' = "loop" /\ serving' = None
  /\ conn' = [conn EXCEPT ![serving] = "answered"]
  /\ UNCHANGED <<mainVars, flag, snap, backlog, since>>

\* handle(): read_line returns with a line or at the end of the stream, and
\* not before; the reply to a client that is gone is lost.
Handle ==
  /\ thread = "read" /\ conn[serving] # "waiting"
  /\ thread' = "loop" /\ serving' = None
  /\ conn' = [conn EXCEPT ![serving] = IF @ = "sent" THEN "answered" ELSE @]
  /\ UNCHANGED <<mainVars, flag, snap, backlog, since>>

-----------------------------------------------------------------------------
(* Clients, signals and crashes                                            *)

\* query(): connecting to the path; refused when nobody listens there.
Connect(c) ==
  /\ conn[c] \notin Open /\ c # serving /\ c \notin Range(backlog)
  /\ IF file = "live"
     THEN /\ conn' = [conn EXCEPT ![c] = "waiting"]
          /\ since' = [since EXCEPT ![c] = version]
          /\ backlog' = Append(backlog, c)
     ELSE conn' = [conn EXCEPT ![c] = "refused"] /\ UNCHANGED <<since, backlog>>
  /\ UNCHANGED <<mainVars, threadVars>>

SendLine(c) ==
  /\ conn[c] = "waiting" /\ conn' = [conn EXCEPT ![c] = "sent"]
  /\ UNCHANGED <<mainVars, threadVars, backlog, since>>

HangUp(c) ==
  /\ conn[c] \in Open /\ conn' = [conn EXCEPT ![c] = "closed"]
  /\ UNCHANGED <<mainVars, threadVars, backlog, since>>

\* SIGINT or SIGTERM.
Signal ==
  /\ main \notin {"ended", "killed"} /\ signal' = TRUE
  /\ UNCHANGED <<main, file, fault, version, threadVars, clientVars>>

\* The process dies where it is.
Kill ==
  /\ main \notin {"ended", "killed"} /\ main' = "killed"
  /\ file' = IF file = "live" THEN "stale" ELSE file
  /\ thread' = "none" /\ serving' = None
  /\ backlog' = <<>> /\ conn' = Cut(Client)
  /\ UNCHANGED <<signal, fault, version, flag, snap, since>>

Restart ==
  /\ main \in {"ended", "killed"} /\ main' = "start"
  /\ signal' = FALSE /\ fault' = FALSE /\ version' = 0
  /\ flag' = FALSE /\ snap' = 0
  /\ since' = [c \in Client |-> 0]
  /\ UNCHANGED <<file, thread, serving, backlog, conn>>

Init ==
  /\ main = "start" /\ signal = FALSE /\ file \in {"none", "stale"}
  /\ fault = FALSE /\ version = 0
  /\ flag = FALSE /\ thread = "none" /\ snap = 0 /\ serving = None
  /\ backlog = <<>>
  /\ conn = [c \in Client |-> "new"] /\ since = [c \in Client |-> 0]

Main == RemoveStale \/ Bind \/ Spawn \/ Drop \/ Join

Server == Loop \/ Accept \/ Handle

Next ==
  \/ Main \/ Update \/ Server \/ Signal \/ Kill \/ Restart
  \/ \E c \in Client : Connect(c) \/ SendLine(c) \/ HangUp(c)

Spec == Init /\ [][Next]_vars

\* Both threads run, and a polite client does what it came for.
Fairness ==
  /\ WF_vars(Main) /\ WF_vars(Server)
  /\ \A c \in Polite : WF_vars(conn[c] = "waiting" /\ (SendLine(c) \/ HangUp(c)))

FairSpec == Spec /\ Fairness

-----------------------------------------------------------------------------
(* Properties                                                              *)

\* "Serves the current status" (status.rs:55): the reply, cloned before the
\* client's line is read, shows a status that was current at some moment after
\* the client connected.
ReplyIsCurrent == thread = "read" => since[serving] <= snap /\ snap <= version

\* "A socket left by a previous run would make bind fail" (status.rs:64): a
\* daemon killed at any point never leaves a path that keeps the next one from
\* serving; only a failing system call does.
LeftoverSocketHarmless == main = "run" /\ thread = "none" => fault

\* A client that has sent its line is not left waiting, whatever the order in
\* which others connect, ask or hang up, and whenever the daemon stops: it is
\* answered or its connection ends (serve, handle).
ClientsServed == \A c \in Client : conn[c] = "sent" ~> conn[c] # "sent"

\* "Run until interrupted. Returns once a shutdown signal has been handled."
\* (daemon.rs:27): dropping the status server does not keep run() from returning.
RunReturns == signal ~> main \in {"ended", "killed"}
=============================================================================
