-------------------------------- MODULE Service --------------------------------
(***************************************************************************)
(* The daemon as a service (service.rs): `muta install' and `muta           *)
(* uninstall', step by step and interrupted at any of them, against the     *)
(* files they write and remove, launchd and newsyslog; and the daemon's     *)
(* side, from exec to StatusServer and its end, which is run() of           *)
(* StatusServer with the log and its pid file around it.                    *)
(*                                                                         *)
(* launchd is external: it starts the program of a loaded job whenever it   *)
(* is not running (RunAtLoad, KeepAlive), ends a job that is booted out with *)
(* SIGTERM and, in time, SIGKILL, "rejects a bootstrap while the previous   *)
(* job is still exiting", and loads what it finds at boot.  So is           *)
(* newsyslog, which moves the log aside and signals the pid it finds.       *)
(***************************************************************************)
EXTENDS StatusServer

CONSTANTS
  Release,      \* versions of muta that are installed, one after the other
  Attempts,     \* bootstrap()'s attempts
  MaxCommands   \* bound: how often install or uninstall is run

ASSUME ServiceAssumption ==
  /\ None \notin Release \cup {"part", "whole"} /\ "part" \notin Release
  /\ Attempts \in Nat \ {0} /\ MaxCommands \in Nat

VARIABLES
  tool, count,            \* where install or uninstall is; which attempt or file
  ours, outcome, commands, \* the release that was run; how it ended; how many were
  target, staged,         \* the installed binary and the one beside it: a release or "part"
  plist, conf,            \* the plist, which may be "part"; whether there is newsyslog's file
  job, enabled,           \* launchd: the job; whether its label is enabled
  early, image,           \* how far the daemon is before StatusServer; what it was started from
  log, toLog,             \* whether there is a log; whether the daemon's output goes there
  rotating, pidFile       \* SIGHUP reopens the log; whose pid is in PID_PATH

toolVars  == <<tool, count, ours, outcome, commands>>
fileVars  == <<target, staged, plist, conf>>
jobVars   == <<job, enabled>>
logVars   == <<log, toLog, rotating, pidFile>>
earlyVars == <<early, image>>
allVars   == <<vars, toolVars, fileVars, jobVars, logVars, earlyVars>>

\* Bound: with clients of the status server around there are no further commands and
\* no rotation of the log, which have nothing to do with them.
NoClients == \A c \in Client : conn[c] = "new"

Running == main \notin {"ended", "killed"}

-----------------------------------------------------------------------------
(* The daemon                                                              *)

\* signals::install(): until then SIGTERM kills.
InstallSignals ==
  /\ Running /\ early = "exec" /\ early' = "signals"
  /\ UNCHANGED <<vars, toolVars, fileVars, jobVars, logVars, image>>

\* Mutant: SIGHUP keeps its default action.
FollowLogNoHandler ==
  /\ Running /\ early = "signals"
  /\ early' = IF toLog THEN "pid" ELSE "ready"
  /\ UNCHANGED <<vars, toolVars, fileVars, jobVars, logVars, image>>

\* follow_log_rotation(): if the output goes to the log, the handler first...
FollowLog ==
  /\ Running /\ early = "signals"
  /\ early' = IF toLog THEN "pid" ELSE "ready"
  /\ rotating' = toLog
  /\ UNCHANGED <<vars, toolVars, fileVars, jobVars, log, toLog, pidFile, image>>

\* ... then the pid, which may fail.
WritePid ==
  /\ Running /\ early = "pid" /\ early' = "ready"
  /\ pidFile' \in {"own", pidFile}
  /\ UNCHANGED <<vars, toolVars, fileVars, jobVars, log, toLog, rotating, image>>

\* The rest of run(), which gives the pid file up before the status server.
Serving ==
  /\ early = "ready"
  /\ \/ RemoveStale /\ UNCHANGED pidFile
     \/ Bind /\ UNCHANGED pidFile
     \/ Spawn /\ UNCHANGED pidFile
     \/ ~NoClients /\ Update /\ UNCHANGED pidFile
     \/ Drop /\ pidFile' = IF rotating THEN "none" ELSE pidFile
     \/ Join /\ UNCHANGED pidFile
     \/ Server /\ UNCHANGED pidFile
  /\ UNCHANGED <<toolVars, fileVars, jobVars, log, toLog, rotating, earlyVars>>

\* The process is gone; a pid it wrote is nobody's now.
Dies ==
  /\ Kill
  /\ pidFile' = IF pidFile = "own" THEN "stale" ELSE pidFile

Killed == Dies /\ UNCHANGED <<toolVars, fileVars, jobVars, log, toLog, rotating, earlyVars>>

\* SIGTERM
Terminated ==
  \/ ~Running /\ UNCHANGED <<vars, pidFile>>
  \/ Running /\ early = "exec" /\ Dies
  \/ Running /\ early # "exec" /\ Signal /\ UNCHANGED pidFile

\* SIGTERM from somebody else than launchd.
Signalled ==
  /\ Running /\ Terminated
  /\ UNCHANGED <<toolVars, fileVars, jobVars, log, toLog, rotating, earlyVars>>

-----------------------------------------------------------------------------
(* launchd and newsyslog                                                   *)

\* launchd opens the log and starts what the plist names, if it can be run.
Start ==
  /\ job = "loaded" /\ ~Running
  /\ log' = TRUE
  /\ \/ /\ target \in Release
        /\ Restart
        /\ early' = "exec" /\ image' = target
        /\ toLog' = TRUE /\ rotating' = FALSE
     \/ target \notin Release /\ UNCHANGED <<vars, earlyVars, toLog, rotating>>
  /\ UNCHANGED <<toolVars, fileVars, jobVars, pidFile>>

\* launchctl bootout: the job is told to exit, and its label may end up disabled;
\* or it fails.
Bootout ==
  \/ /\ job = "loaded" /\ job' = "exiting"
     /\ enabled' \in {enabled, FALSE}
     /\ Terminated
  \/ UNCHANGED <<vars, jobVars, pidFile>>

\* The job has exited.
Exited ==
  /\ job = "exiting" /\ ~Running /\ job' = "none"
  /\ UNCHANGED <<vars, toolVars, fileVars, enabled, logVars, earlyVars>>

\* newsyslog moves the log aside, makes a new one and signals the pid in the file.
\* The pid of a process that is gone belongs to nobody.
Rotate ==
  /\ conf /\ log /\ NoClients
  /\ \/ /\ pidFile = "own" /\ rotating
        /\ toLog' = TRUE
        /\ UNCHANGED <<vars, pidFile>>
     \/ /\ pidFile = "own" /\ ~rotating
        /\ toLog' = FALSE /\ Dies
     \/ /\ pidFile # "own"
        /\ toLog' = FALSE /\ UNCHANGED <<vars, pidFile>>
  /\ UNCHANGED <<toolVars, fileVars, jobVars, log, rotating, earlyVars>>

\* The machine goes down and comes back.  A command is lost with it; what was in
\* /var/run is taken to be still there.
Reboot ==
  /\ IF Running THEN Kill ELSE UNCHANGED vars
  /\ job' = IF plist = "whole" /\ enabled THEN "loaded" ELSE "none"
  /\ pidFile' = IF pidFile = "own" THEN "stale" ELSE pidFile
  /\ IF tool = "idle" THEN UNCHANGED <<tool, count, ours, outcome>>
     ELSE tool' = "idle" /\ outcome' = "failed" /\ count' = 0 /\ ours' = None
  /\ UNCHANGED <<commands, fileVars, enabled, log, toLog, rotating, earlyVars>>

-----------------------------------------------------------------------------
(* install()                                                               *)

\* A command that is run, one at a time.
Command(first, release) ==
  /\ tool = "idle" /\ commands < MaxCommands /\ NoClients
  /\ tool' = first /\ ours' = release
  /\ count' = 1 /\ outcome' = "none" /\ commands' = commands + 1
  /\ UNCHANGED <<vars, fileVars, jobVars, logVars, earlyVars>>

Goes(next) == tool' = next /\ UNCHANGED <<ours, outcome, commands>>

\* The step in hand fails, or somebody interrupts the command.
Fails ==
  /\ tool # "idle"
  /\ tool' = "idle" /\ outcome' = "failed" /\ count' = 0 /\ ours' = None
  /\ UNCHANGED <<vars, fileVars, jobVars, logVars, earlyVars, commands>>

\* Whatever launchctl says, if there is a plist to name a service.
StopService(first, next) ==
  /\ tool = first /\ Goes(next)
  /\ IF plist # None THEN Bootout ELSE UNCHANGED <<vars, jobVars, pidFile>>
  /\ UNCHANGED <<fileVars, log, toLog, rotating, earlyVars, count>>

\* root_owned_dir, and the copy beside the target, unless this is the target that
\* runs: begun,...
Copy ==
  /\ tool = "copy"
  /\ \/ Goes("copied") /\ staged' = "part"
     \/ Goes("plist") /\ target = ours /\ UNCHANGED staged
  /\ UNCHANGED <<vars, target, plist, conf, jobVars, logVars, earlyVars, count>>

\* ... finished,...
Copied ==
  /\ tool = "copied" /\ Goes("rename")
  /\ staged' = ours
  /\ UNCHANGED <<vars, target, plist, conf, jobVars, logVars, earlyVars, count>>

\* ... and, its mode and owner set, moved over the target.
Rename ==
  /\ tool = "rename" /\ Goes("plist")
  /\ target' = staged /\ staged' = None
  /\ UNCHANGED <<vars, plist, conf, jobVars, logVars, earlyVars, count>>

\* write_root_file, which is not done in one, for the plist; and for newsyslog.
WritePlist ==
  /\ \/ tool = "plist" /\ Goes("plisted") /\ plist' = "part"
     \/ tool = "plisted" /\ Goes("conf") /\ plist' = "whole"
  /\ UNCHANGED <<vars, target, staged, conf, jobVars, logVars, earlyVars, count>>

WriteConf ==
  /\ tool = "conf" /\ Goes("bootstrap")
  /\ conf' = TRUE
  /\ UNCHANGED <<vars, target, staged, plist, jobVars, logVars, earlyVars, count>>

\* Mutant: the last failure is not one.
BootstrapOrNot ==
  /\ tool = "bootstrap"
  /\ \/ job = "none" /\ job' = "loaded" /\ Goes("enable") /\ UNCHANGED count
     \/ count < Attempts /\ count' = count + 1 /\ Goes("bootstrap") /\ UNCHANGED job
     \/ count = Attempts /\ Goes("enable") /\ UNCHANGED <<count, job>>
  /\ UNCHANGED <<vars, fileVars, enabled, logVars, earlyVars>>

\* bootstrap(): refused while the job is there or exiting, and for other reasons;
\* the last attempt that is fails the command.
Bootstrap ==
  /\ tool = "bootstrap"
  /\ \/ job = "none" /\ job' = "loaded" /\ Goes("enable") /\ UNCHANGED count
     \/ count < Attempts /\ count' = count + 1 /\ Goes("bootstrap") /\ UNCHANGED job
  /\ UNCHANGED <<vars, fileVars, enabled, logVars, earlyVars>>

\* launchctl enable, whose result is ignored.
Enable ==
  /\ tool = "enable" /\ tool' = "idle"
  /\ enabled' \in {TRUE, enabled}
  /\ outcome' = "installed" /\ count' = 0
  /\ UNCHANGED <<vars, fileVars, job, logVars, earlyVars, ours, commands>>

-----------------------------------------------------------------------------
(* uninstall()                                                             *)

\* Mutant: the binary goes first.
RemovedBinaryFirst == <<"target", "plist", "conf", "log", "pid", "socket">>

\* Mutant: the pid file is forgotten.
RemovedNoPid == <<"plist", "conf", "log", "socket", "target">>

\* What is removed, in this order.
Removed == <<"plist", "conf", "log", "pid", "socket", "target">>

\* The next of them goes, if it is there.  After the last one the command is
\* through, whether or not the job could be stopped.
RemoveFile ==
  /\ tool = "remove"
  /\ LET f == Removed[count] IN
       /\ plist' = IF f = "plist" THEN None ELSE plist
       /\ conf' = (conf /\ f # "conf")
       /\ log' = (log /\ f # "log") /\ toLog' = (toLog /\ f # "log")
       /\ pidFile' = IF f = "pid" THEN "none" ELSE pidFile
       /\ file' = IF f = "socket" THEN "none" ELSE file
       /\ target' = IF f = "target" THEN None ELSE target
  /\ IF count < Len(Removed)
     THEN count' = count + 1 /\ UNCHANGED <<tool, outcome>>
     ELSE /\ tool' = "idle" /\ count' = 0
          /\ outcome' = IF job = "loaded" THEN "not stopped" ELSE "uninstalled"
  /\ UNCHANGED <<main, signal, fault, version, threadVars, clientVars, ours, commands, staged,
                 jobVars, rotating, earlyVars>>

-----------------------------------------------------------------------------

Install ==
  \/ StopService("stop", "copy") \/ Copy \/ Copied \/ Rename
  \/ WritePlist \/ WriteConf \/ Bootstrap \/ Enable

Uninstall == StopService("bootout", "remove") \/ RemoveFile

\* Bound: status clients only come to the service installed first.
Asks(c) ==
  /\ outcome = "installed" /\ commands = 1 /\ Connect(c)
  /\ UNCHANGED <<toolVars, fileVars, jobVars, logVars, earlyVars>>

GoesOn(c) ==
  /\ SendLine(c) \/ HangUp(c)
  /\ UNCHANGED <<toolVars, fileVars, jobVars, logVars, earlyVars>>

Daemon == InstallSignals \/ FollowLog \/ WritePid \/ Serving

ServiceInit ==
  /\ main = "ended" /\ signal = FALSE /\ file = "none" /\ fault = FALSE /\ version = 0
  /\ flag = FALSE /\ thread = "none" /\ snap = 0 /\ serving = None
  /\ backlog = <<>> /\ conn = [c \in Client |-> "new"] /\ since = [c \in Client |-> 0]
  /\ tool = "idle" /\ count = 0 /\ ours = None /\ outcome = "none" /\ commands = 0
  /\ target = None /\ staged = None /\ plist = None /\ conf = FALSE
  /\ job = "none" /\ enabled = TRUE
  /\ early = "exec" /\ image = None
  /\ log = FALSE /\ toLog = FALSE /\ rotating = FALSE /\ pidFile = "none"

ServiceNext ==
  \/ \E r \in Release : Command("stop", r)
  \/ Command("bootout", None)
  \/ Install \/ Uninstall \/ Fails
  \/ Daemon \/ Killed \/ Signalled \/ (\E c \in Client : Asks(c) \/ GoesOn(c))
  \/ Start \/ Exited \/ Rotate \/ Reboot

ServiceSpec == ServiceInit /\ [][ServiceNext]_allVars

\* The threads run and a polite client does what it came for.
ServiceFairness ==
  /\ WF_<<main, early>>(Daemon) /\ WF_<<thread, conn>>(early = "ready" /\ Serving)
  /\ \A c \in Polite : WF_conn(conn[c] = "waiting" /\ GoesOn(c))

FairService == ServiceSpec /\ ServiceFairness

-----------------------------------------------------------------------------
(* Properties                                                              *)

\* A plist that launchd would load names a binary that is there and whole: after
\* an install or an uninstall that failed, was interrupted or lost to a reboot at
\* any step, and after any number of them ("so a failed copy cannot leave a
\* half-written binary that launchd would try to run", service.rs:46).
PlistNamesBinary == plist = "whole" => target \in Release

\* After an install that succeeded what runs is what was installed, although the
\* service before it may have refused to stop, exited late, been started again
\* meanwhile or answered for the new one (install, bootstrap).
InstalledRuns == outcome = "installed" /\ Running => image = ours

\* Rotating the log never ends the daemon: a pid newsyslog finds is that of a
\* process that handles SIGHUP or of none, whatever was killed or restarted
\* before (follow_log_rotation, "newsyslog sends SIGHUP after moving the log aside").
RotationHarmless == [][Rotate => main' = main]_allVars

\* What uninstall removes stays removed, if the job could be stopped: although the
\* daemon may still have been starting or ending meanwhile, once it has ended, not
\* killed and with no failing system call, there is no plist, newsyslog file, log, pid
\* file, socket or installed binary (uninstall, release_log, StatusServer's Drop).
\* The copy beside the binary, muta.new, is none of them: one that an interrupted
\* install left stays, which is why staged is not in the formula.
RemovedStaysGone ==
  outcome = "uninstalled" /\ main = "ended" /\ ~fault =>
    /\ plist = None /\ target = None /\ ~conf /\ ~log
    /\ pidFile = "none" /\ file = "none"
===============================================================================
