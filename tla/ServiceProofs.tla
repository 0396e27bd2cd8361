---------------------------- MODULE ServiceProofs ----------------------------
(***************************************************************************)
(* Proofs about Service for any releases, any number of commands and of     *)
(* attempts, and any clients of the status server: a plist that is whole    *)
(* names a whole binary, an install that succeeded takes effect, rotating   *)
(* the log never ends the daemon, and uninstall leaves nothing.             *)
(***************************************************************************)
EXTENDS Service, TLAPS

-----------------------------------------------------------------------------
(* The binary behind the plist                                             *)

Past == {"plist", "plisted", "conf", "bootstrap", "enable"}

\* What each step of install and uninstall finds done by the ones before it.
StepsDone ==
  /\ tool \in {"stop", "copy", "copied", "rename"} \cup Past => ours \in Release
  /\ tool = "rename" => staged = ours
  /\ tool \in Past => target = ours
  /\ tool = "remove" => count \in 1..6 /\ (count > 1 => plist = None)
  /\ tool = "bootout" => count = 1

PInv == StepsDone /\ PlistNamesBinary

LEMMA InitPInv == ServiceInit => PInv
BY ServiceAssumption DEF ServiceInit, PInv, StepsDone, PlistNamesBinary, Past

\* Steps that touch neither the commands nor the files they write.
LEMMA OthersKeepPInv ==
  ASSUME PInv, UNCHANGED <<tool, count, ours, fileVars>>
  PROVE  PInv'
BY DEF PInv, StepsDone, PlistNamesBinary, Past, fileVars

LEMMA CommandKeepsPInv ==
  ASSUME PInv, NEW r, NEW first,
         (first = "stop" /\ r \in Release) \/ first = "bootout",
         Command(first, r)
  PROVE  PInv'
BY DEF PInv, StepsDone, PlistNamesBinary, Past, fileVars, Command

LEMMA InstallKeepsPInv ==
  ASSUME PInv, Install
  PROVE  PInv'
<1> USE DEF PInv, StepsDone, PlistNamesBinary, Past, fileVars, Goes
<1>1. CASE StopService("stop", "copy")
  BY <1>1 DEF StopService
<1>2. CASE Copy
  BY <1>2 DEF Copy
<1>3. CASE Copied
  BY <1>3 DEF Copied
<1>4. CASE Rename
  BY <1>4 DEF Rename
<1>5. CASE WritePlist
  BY <1>5 DEF WritePlist
<1>6. CASE WriteConf
  BY <1>6 DEF WriteConf
<1>7. CASE Bootstrap
  BY <1>7 DEF Bootstrap
<1>8. CASE Enable
  BY <1>8 DEF Enable
<1> QED
  BY <1>1, <1>2, <1>3, <1>4, <1>5, <1>6, <1>7, <1>8 DEF Install

LEMMA UninstallKeepsPInv ==
  ASSUME PInv, Uninstall
  PROVE  PInv'
<1> USE DEF PInv, StepsDone, PlistNamesBinary, Past, fileVars
<1>1. CASE StopService("bootout", "remove")
  BY <1>1 DEF StopService, Goes
<1>2. CASE RemoveFile
  <2>1. /\ Len(Removed) = 6 /\ Removed[1] = "plist"
        /\ \A i \in 1..6 : Removed[i] = "target" => i = 6
    BY DEF Removed
  <2>2. /\ tool = "remove"
        /\ plist' = IF Removed[count] = "plist" THEN None ELSE plist
        /\ target' = IF Removed[count] = "target" THEN None ELSE target
        /\ IF count < Len(Removed) THEN count' = count + 1 /\ tool' = tool ELSE tool' = "idle"
    BY <1>2, Zenon DEF RemoveFile
  <2>3. StepsDone'
    BY <2>1, <2>2
  <2>4. PlistNamesBinary'
    BY <2>1, <2>2, ServiceAssumption
  <2> QED
    BY <2>3, <2>4
<1> QED
  BY <1>1, <1>2 DEF Uninstall

\* The daemon, its clients, launchd and newsyslog leave the commands and their files.
LEMMA EnvironmentLeavesFiles ==
  ASSUME Daemon \/ Killed \/ Signalled \/ Start \/ Exited \/ Rotate
           \/ \E c \in Client : Asks(c) \/ GoesOn(c)
  PROVE  UNCHANGED <<toolVars, fileVars>>
BY Zenon DEF Daemon, InstallSignals, FollowLog, WritePid, Serving, Killed, Signalled, Start, Exited,
             Rotate, Asks, GoesOn

LEMMA NextPInv == PInv /\ [ServiceNext]_allVars => PInv'
<1> SUFFICES ASSUME PInv, [ServiceNext]_allVars PROVE PInv'
  OBVIOUS
<1>1. CASE \E r \in Release : Command("stop", r)
  BY <1>1, CommandKeepsPInv
<1>2. CASE Command("bootout", None)
  BY <1>2, CommandKeepsPInv
<1>3. CASE Install
  BY <1>3, InstallKeepsPInv
<1>4. CASE Uninstall
  BY <1>4, UninstallKeepsPInv
<1>5. CASE Fails \/ Reboot
  BY <1>5 DEF PInv, StepsDone, PlistNamesBinary, Past, fileVars, Fails, Reboot
<1>6. CASE Daemon \/ Killed \/ Signalled \/ Start \/ Exited \/ Rotate
             \/ \E c \in Client : Asks(c) \/ GoesOn(c)
  <2>1. UNCHANGED <<toolVars, fileVars>>
    BY <1>6, EnvironmentLeavesFiles, Zenon
  <2> QED
    BY <2>1, OthersKeepPInv DEF toolVars
<1>7. CASE UNCHANGED allVars
  BY <1>7, OthersKeepPInv DEF allVars, toolVars
<1> QED
  BY <1>1, <1>2, <1>3, <1>4, <1>5, <1>6, <1>7 DEF ServiceNext

\* Whatever fails, is interrupted or lost to a reboot, launchd is never left with a
\* plist whose binary is missing or half-written.
THEOREM BinaryBehindPlist == ServiceSpec => []PlistNamesBinary
<1>1. PInv => PlistNamesBinary
  BY DEF PInv
<1> QED
  BY InitPInv, NextPInv, <1>1, PTL DEF ServiceSpec

-----------------------------------------------------------------------------
(* Rotating the log                                                        *)

\* A pid in the file is that of a daemon that has its handler and has not given the
\* file up.
RInv ==
  /\ pidFile \in {"none", "own", "stale"}
  /\ pidFile = "own" => Running /\ rotating /\ early = "ready" /\ main # "join"
  /\ early = "pid" => rotating
  /\ early \in {"exec", "signals", "pid"} => main \in {"start", "ended", "killed"}
  /\ early \in {"exec", "signals", "pid", "ready"}

LEMMA InitRInv == ServiceInit => RInv
BY DEF ServiceInit, RInv, Running

LEMMA TerminatedKeepsRInv ==
  ASSUME RInv, Terminated, UNCHANGED <<rotating, early>>
  PROVE  RInv'
BY DEF RInv, Running, Terminated, Dies, Kill, Signal, vars, mainVars

LEMMA UnchangedKeepsRInv ==
  ASSUME RInv, UNCHANGED <<main, rotating, early, pidFile>>
  PROVE  RInv'
BY DEF RInv, Running

LEMMA StopKeepsRInv ==
  ASSUME RInv, NEW a, NEW b, StopService(a, b)
  PROVE  RInv'
<1>1. UNCHANGED <<rotating, early>> /\ (Terminated \/ UNCHANGED <<main, pidFile>>)
  BY Zenon DEF StopService, Bootout, earlyVars, vars, mainVars
<1> QED
  BY <1>1, TerminatedKeepsRInv, UnchangedKeepsRInv

LEMMA ServingKeepsRInv ==
  ASSUME RInv, Serving
  PROVE  RInv'
<1> USE DEF RInv, Running
<1>0. early = "ready" /\ UNCHANGED <<rotating, early>>
  BY DEF Serving, earlyVars
<1>1. CASE (RemoveStale \/ Bind \/ Spawn \/ Update \/ Join \/ Server) /\ UNCHANGED pidFile
  BY <1>0, <1>1 DEF RemoveStale, Bind, Spawn, Update, Join, Server, Loop, Accept, Handle, mainVars
<1>2. CASE Drop /\ pidFile' = IF rotating THEN "none" ELSE pidFile
  BY <1>0, <1>2 DEF Drop
<1> QED
  BY <1>1, <1>2 DEF Serving

LEMMA NextRInv == RInv /\ [ServiceNext]_allVars => RInv'
<1> SUFFICES ASSUME RInv, [ServiceNext]_allVars PROVE RInv'
  OBVIOUS
<1>1. CASE (\E r \in Release : Command("stop", r)) \/ Command("bootout", None) \/ Fails \/ Exited
             \/ (\E c \in Client : Asks(c) \/ GoesOn(c)) \/ UNCHANGED allVars
  <2>1. UNCHANGED <<main, rotating, early, pidFile>>
    BY <1>1, Zenon DEF Command, Fails, Exited, Asks, GoesOn, Connect, SendLine, HangUp, allVars, vars,
                       mainVars, logVars, earlyVars
  <2> QED
    BY <2>1, UnchangedKeepsRInv
<1>2. CASE StopService("stop", "copy") \/ StopService("bootout", "remove")
  BY <1>2, StopKeepsRInv
<1>3. CASE Copy \/ Copied \/ Rename \/ WritePlist \/ WriteConf \/ Bootstrap \/ Enable
  <2>1. UNCHANGED <<main, rotating, early, pidFile>>
    BY <1>3, Zenon DEF Copy, Copied, Rename, WritePlist, WriteConf, Bootstrap, Enable, vars, mainVars,
                       logVars, earlyVars
  <2> QED
    BY <2>1, UnchangedKeepsRInv
<1>4. CASE RemoveFile
  <2>1. UNCHANGED <<main, rotating, early>> /\ pidFile' \in {"none", pidFile}
    BY <1>4, Zenon DEF RemoveFile, earlyVars
  <2> QED
    BY <2>1 DEF RInv, Running
<1>5. CASE InstallSignals \/ FollowLog \/ WritePid
  BY <1>5 DEF RInv, Running, InstallSignals, FollowLog, WritePid, vars, mainVars, logVars
<1>6. CASE Serving
  BY <1>6, ServingKeepsRInv
<1>7. CASE Killed \/ Signalled
  <2>1. UNCHANGED <<rotating, early>> /\ (Dies \/ Terminated)
    BY <1>7, Zenon DEF Killed, Signalled, earlyVars
  <2> QED
    BY <2>1, TerminatedKeepsRInv DEF RInv, Running, Dies, Kill
<1>8. CASE Start
  BY <1>8 DEF RInv, Running, Start, Restart, vars, mainVars, earlyVars
<1>9. CASE Rotate
  <2>1. UNCHANGED <<rotating, early>> /\ (Dies \/ UNCHANGED <<main, pidFile>>)
    BY <1>9, Zenon DEF Rotate, vars, mainVars, earlyVars
  <2> QED
    BY <2>1 DEF RInv, Running, Dies, Kill
<1>10. CASE Reboot
  BY <1>10 DEF RInv, Running, Reboot, Kill, vars, mainVars, earlyVars
<1> QED
  BY <1>1, <1>2, <1>3, <1>4, <1>5, <1>6, <1>7, <1>8, <1>9, <1>10
     DEF ServiceNext, Install, Uninstall, Daemon

\* The pid newsyslog signals is never that of a daemon whose SIGHUP is deadly.
THEOREM RotationNeverKills == ServiceSpec => RotationHarmless
<1>1. RInv /\ [ServiceNext]_allVars => [Rotate => main' = main]_allVars
  BY Zenon DEF RInv, Rotate, vars, mainVars
<1> QED
  BY InitRInv, NextRInv, <1>1, PTL DEF ServiceSpec, RotationHarmless

-----------------------------------------------------------------------------
(* What an install leaves running                                          *)

\* A daemon only runs under a job, and a bootstrap that succeeds met none: what is
\* started from then on is the new binary.
JInv ==
  /\ tool # "idle" => outcome = "none"
  /\ job = "none" => ~Running
  /\ tool = "enable" => (Running => image = ours)
  /\ outcome = "installed" => target = ours /\ InstalledRuns

LEMMA InitJInv == ServiceInit => JInv
BY DEF ServiceInit, JInv, Running, InstalledRuns

\* Steps of the daemon and of what may end it.
LEMMA DaemonKeepsJInv ==
  ASSUME JInv, Running' => Running, UNCHANGED <<toolVars, target, image, job>>
  PROVE  JInv'
BY DEF JInv, InstalledRuns, toolVars

LEMMA TerminatedOnlyEnds ==
  ASSUME Terminated \/ Dies
  PROVE  Running' => Running
BY DEF Terminated, Dies, Kill, Signal, Running, vars, mainVars

LEMMA StopKeepsJInv ==
  ASSUME JInv, NEW a, NEW b, a \notin {"idle", "enable"}, b \notin {"idle", "enable"},
         StopService(a, b)
  PROVE  JInv'
<1>1. UNCHANGED <<target, image>> /\ tool = a /\ Goes(b)
  BY Zenon DEF StopService, earlyVars, fileVars
<1>2. \/ Terminated /\ job' = "exiting"
      \/ UNCHANGED <<main, job>>
  BY Zenon DEF StopService, Bootout, vars, mainVars, jobVars
<1> QED
  BY <1>1, <1>2, TerminatedOnlyEnds DEF JInv, Running, InstalledRuns, Goes

LEMMA InstallKeepsJInv ==
  ASSUME JInv, PInv,
         Copy \/ Copied \/ Rename \/ WritePlist \/ WriteConf \/ Bootstrap \/ Enable
  PROVE  JInv'
<1> USE DEF JInv, Running, InstalledRuns, Goes, vars, mainVars, jobVars, earlyVars, fileVars
<1>1. CASE Copy \/ Copied \/ Rename \/ WritePlist \/ WriteConf
  BY <1>1, Zenon DEF Copy, Copied, Rename, WritePlist, WriteConf
<1>2. CASE Bootstrap
  BY <1>2 DEF Bootstrap
<1>3. CASE Enable
  BY <1>3 DEF Enable, PInv, StepsDone, Past
<1> QED
  BY <1>1, <1>2, <1>3, SMTT(20)

LEMMA NextJInv == PInv /\ JInv /\ [ServiceNext]_allVars => JInv'
<1> SUFFICES ASSUME PInv, JInv, [ServiceNext]_allVars PROVE JInv'
  OBVIOUS
<1>1. CASE (\E r \in Release : Command("stop", r)) \/ Command("bootout", None)
  BY <1>1 DEF JInv, Running, InstalledRuns, Command, vars, mainVars, jobVars, earlyVars
<1>2. CASE StopService("stop", "copy") \/ StopService("bootout", "remove")
  BY <1>2, StopKeepsJInv
<1>3. CASE Copy \/ Copied \/ Rename \/ WritePlist \/ WriteConf \/ Bootstrap \/ Enable
  BY <1>3, InstallKeepsJInv
<1>4. CASE RemoveFile
  <2>1. /\ tool = "remove" /\ UNCHANGED <<main, job, image, ours>>
        /\ \/ UNCHANGED <<tool, outcome>>
           \/ tool' = "idle" /\ outcome' \in {"not stopped", "uninstalled"}
    BY <1>4, Zenon DEF RemoveFile, earlyVars, jobVars
  <2> QED
    BY <2>1, Zenon DEF JInv, Running, InstalledRuns
<1>5. CASE Fails \/ Exited
  BY <1>5 DEF JInv, Running, InstalledRuns, Fails, Exited, vars, mainVars, jobVars, earlyVars,
              toolVars, fileVars
<1>6. CASE Daemon
  <2>1. UNCHANGED <<toolVars, target, image, job>>
    BY <1>6, Zenon DEF Daemon, InstallSignals, FollowLog, WritePid, Serving, fileVars, jobVars,
                       earlyVars
  <2>2. CASE InstallSignals \/ FollowLog \/ WritePid
    BY <2>1, <2>2, DaemonKeepsJInv DEF InstallSignals, FollowLog, WritePid, Running
  <2>3. CASE Serving
    <3>1. RemoveStale \/ Bind \/ Spawn \/ Update \/ Drop \/ Join
            \/ UNCHANGED main
      BY <2>3, Zenon DEF Serving, Server, Loop, Accept, Handle, mainVars
    <3>2. Running' => Running
      BY <3>1 DEF RemoveStale, Bind, Spawn, Update, Drop, Join, Running
    <3> QED
      BY <2>1, <3>2, DaemonKeepsJInv
  <2> QED
    BY <1>6, <2>2, <2>3 DEF Daemon
<1>7. CASE Killed \/ Signalled
  <2>1. UNCHANGED <<toolVars, target, image, job>> /\ (Terminated \/ Dies)
    BY <1>7, Zenon DEF Killed, Signalled, fileVars, jobVars, earlyVars
  <2> QED
    BY <2>1, DaemonKeepsJInv, TerminatedOnlyEnds
<1>8. CASE (\E c \in Client : Asks(c) \/ GoesOn(c)) \/ UNCHANGED allVars
  <2>1. UNCHANGED <<toolVars, target, image, job, main>>
    BY <1>8, Zenon DEF Asks, GoesOn, Connect, SendLine, HangUp, allVars, vars, mainVars, fileVars,
                       jobVars, earlyVars
  <2> QED
    BY <2>1, DaemonKeepsJInv DEF Running
<1>9. CASE Start
  <2>1. CASE image' = target
    BY <1>9, <2>1 DEF Start, JInv, PInv, StepsDone, Past, InstalledRuns, Running, toolVars, fileVars,
                      jobVars
  <2>2. CASE UNCHANGED <<main, image>>
    BY <1>9, <2>2 DEF Start, JInv, InstalledRuns, Running, toolVars, fileVars, jobVars
  <2> QED
    BY <1>9, <2>1, <2>2, Zenon DEF Start, vars, mainVars, earlyVars
<1>10. CASE Rotate
  <2>1. UNCHANGED <<toolVars, target, image, job>> /\ (Dies \/ UNCHANGED main)
    BY <1>10, Zenon DEF Rotate, vars, mainVars, fileVars, jobVars, earlyVars
  <2> QED
    BY <2>1, DaemonKeepsJInv, TerminatedOnlyEnds DEF Running
<1>11. CASE Reboot
  BY <1>11 DEF JInv, Running, InstalledRuns, Reboot, Kill, vars, mainVars, earlyVars, fileVars
<1> QED
  BY <1>1, <1>2, <1>3, <1>4, <1>5, <1>6, <1>7, <1>8, <1>9, <1>10, <1>11
     DEF ServiceNext, Install, Uninstall

\* Once install has succeeded nothing older runs.
THEOREM InstallTakesEffect == ServiceSpec => []InstalledRuns
<1>1. JInv => InstalledRuns
  BY DEF JInv, InstalledRuns
<1> QED
  BY InitPInv, NextPInv, InitJInv, NextJInv, <1>1, PTL DEF ServiceSpec

-----------------------------------------------------------------------------
(* What an uninstall leaves                                                *)

\* The socket's path: who is to remove it.
SInv ==
  /\ main = "bind" => file = "none"
  /\ thread # "none" => main \in {"run", "join"}
  /\ main = "join" => thread # "none"
  /\ main = "run" /\ thread = "none" => fault
  /\ main = "ended" /\ ~fault => file = "none"

\* What stays removed, once the job cannot be started again.
Gone(n) ==
  /\ n > 2 => ~conf
  /\ n > 3 => ~log
  /\ n > 4 => (pidFile = "stale" => main = "killed")

UInv ==
  /\ tool = "remove" /\ job # "loaded" => Gone(count)
  /\ outcome = "uninstalled" =>
       tool = "idle" /\ job # "loaded" /\ plist = None /\ target = None /\ Gone(6)

LEMMA InitSInv == ServiceInit => SInv
BY DEF ServiceInit, SInv

LEMMA UnchangedKeepsSInv ==
  ASSUME SInv, UNCHANGED <<main, fault, thread>>, file' \in {"none", file}
  PROVE  SInv'
BY DEF SInv

LEMMA KillKeepsSInv ==
  ASSUME Kill
  PROVE  SInv'
BY DEF SInv, Kill

LEMMA TerminatedKeepsSInv ==
  ASSUME SInv, Terminated \/ Dies
  PROVE  SInv'
<1>1. Kill \/ UNCHANGED <<main, fault, thread, file>>
  BY Zenon DEF Terminated, Dies, Signal, vars, mainVars, threadVars
<1> QED
  BY <1>1, KillKeepsSInv, UnchangedKeepsSInv

LEMMA ServingKeepsSInv ==
  ASSUME SInv, Serving
  PROVE  SInv'
<1>1. CASE RemoveStale \/ Drop \/ Join \/ Update
  BY <1>1 DEF SInv, RemoveStale, Drop, Join, Update, threadVars
<1>2. CASE Bind
  <2>1. CASE main' = "permit" /\ UNCHANGED thread
    BY <1>2, <2>1 DEF SInv, Bind
  <2>2. CASE main' = "run" /\ UNCHANGED thread /\ fault' = (file = "none")
    BY <1>2, <2>2, Zenon DEF SInv, Bind
  <2> QED
    BY <1>2, <2>1, <2>2, Zenon DEF Bind, threadVars
<1>3. CASE Spawn
  BY <1>3 DEF SInv, Spawn, threadVars
<1>4. CASE Server
  <2>1. /\ UNCHANGED main /\ thread # "none" /\ thread' # "none"
        /\ fault' = fault \/ fault' = TRUE
    BY <1>4 DEF Server, Loop, Leave, Accept, Handle, mainVars
  <2> QED
    BY <2>1 DEF SInv
<1> QED
  BY <1>1, <1>2, <1>3, <1>4, Zenon DEF Serving

LEMMA NextSInv == SInv /\ [ServiceNext]_allVars => SInv'
<1> SUFFICES ASSUME SInv, [ServiceNext]_allVars PROVE SInv'
  OBVIOUS
<1>1. CASE Serving
  BY <1>1, ServingKeepsSInv
<1>2. CASE Start
  <2>1. CASE Restart
    BY <2>1 DEF SInv, Restart
  <2>2. CASE UNCHANGED vars
    BY <2>2, UnchangedKeepsSInv DEF vars, mainVars, threadVars
  <2> QED
    BY <1>2, <2>1, <2>2, Zenon DEF Start
<1>3. CASE ~Serving /\ ~Start
  <2>1. \/ Terminated \/ Dies \/ Kill
        \/ UNCHANGED <<main, fault, thread>> /\ file' \in {"none", file}
    <3>1. CASE Install
      BY <3>1, Zenon DEF Install, StopService, Bootout, Copy, Copied, Rename, WritePlist, WriteConf,
                         Bootstrap, Enable, vars, mainVars, threadVars
    <3>2. CASE Uninstall
      BY <3>2, Zenon DEF Uninstall, StopService, Bootout, RemoveFile, vars, mainVars, threadVars
    <3>3. CASE Killed \/ Signalled \/ Rotate \/ Reboot
      BY <3>3, Zenon DEF Killed, Signalled, Rotate, Reboot, vars, mainVars, threadVars
    <3>4. CASE InstallSignals \/ FollowLog \/ WritePid \/ Fails \/ Exited
                 \/ (\E r \in Release : Command("stop", r)) \/ Command("bootout", None)
      BY <3>4, Zenon DEF InstallSignals, FollowLog, WritePid, Fails, Exited, Command, vars, mainVars,
                         threadVars
    <3>5. CASE (\E c \in Client : Asks(c) \/ GoesOn(c)) \/ UNCHANGED allVars
      BY <3>5, Zenon DEF Asks, GoesOn, Connect, SendLine, HangUp, allVars, vars, mainVars, threadVars
    <3> QED
      BY <1>3, <3>1, <3>2, <3>3, <3>4, <3>5, Zenon DEF ServiceNext, Daemon
  <2> QED
    BY <2>1, KillKeepsSInv, TerminatedKeepsSInv, UnchangedKeepsSInv
<1> QED
  BY <1>1, <1>2, <1>3

LEMMA InitUInv == ServiceInit => UInv
BY DEF ServiceInit, UInv

\* No pid becomes stale but by the death of its process, and the dead stay so.
StaleOnlyByDeath ==
  pidFile' = "stale" => main' = "killed" \/ (pidFile = "stale" /\ main # "killed")

LEMMA TerminatedStale ==
  ASSUME Terminated \/ Dies \/ UNCHANGED <<main, pidFile>>
  PROVE  StaleOnlyByDeath
BY DEF StaleOnlyByDeath, Terminated, Dies, Kill, Signal, vars, mainVars, Running

LEMMA OthersKeepUInv ==
  ASSUME UInv, StaleOnlyByDeath, (job = "loaded") <=> (job' = "loaded"),
         UNCHANGED <<tool, count, outcome, plist, target, conf, log>>
  PROVE  UInv'
BY DEF UInv, Gone, StaleOnlyByDeath

LEMMA RemoveKeepsUInv ==
  ASSUME UInv, PInv, RemoveFile, tool # "idle" => outcome = "none"
  PROVE  UInv'
<1> DEFINE f == Removed[count]
<1>1. /\ UNCHANGED <<main, job>>
      /\ f = "conf" => ~conf'
      /\ f = "log" => ~log'
      /\ (conf' => conf) /\ (log' => log)
  BY Zenon DEF RemoveFile, jobVars
<1>2. /\ tool = "remove" /\ count \in 1..6 /\ (count > 1 => plist = None)
      /\ plist' = IF f = "plist" THEN None ELSE plist
      /\ pidFile' = IF f = "pid" THEN "none" ELSE pidFile
      /\ target' = IF f = "target" THEN None ELSE target
      /\ count < 6 => count' = count + 1 /\ UNCHANGED <<tool, outcome>>
  BY Zenon DEF RemoveFile, PInv, StepsDone, Removed
<1>2a. ASSUME count = 6
      PROVE  tool' = "idle" /\ (job = "loaded" => outcome' = "not stopped")
  <2>1. ~(count < Len(Removed))
    BY <1>2a DEF Removed
  <2> QED
    BY <2>1, Zenon DEF RemoveFile
<1>3. /\ count = 1 => f = "plist"
      /\ count = 2 => f = "conf"
      /\ count = 3 => f = "log"
      /\ count = 4 => f = "pid"
      /\ count = 5 => f = "socket"
      /\ count = 6 => f = "target"
  BY DEF Removed
<1>4. job # "loaded" => Gone(count)
  BY <1>2 DEF UInv
<1> HIDE DEF f
<1>5. ASSUME job # "loaded", count < 6 PROVE Gone(count)'
  <2>1. count' = count + 1
    BY <1>2, <1>5
  <2> QED
    BY <1>1, <1>2, <1>3, <1>4, <1>5, <2>1 DEF Gone
<1>6. ASSUME job # "loaded", count = 6
      PROVE  plist' = None /\ target' = None /\ Gone(6)'
  BY <1>1, <1>2, <1>3, <1>4, <1>6 DEF Gone
<1> QED
  <2>1. CASE count < 6
    <3>1. outcome' = "none" /\ tool' = "remove" /\ job' = job
      BY <1>1, <1>2, <2>1
    <3> QED
      BY <1>5, <2>1, <3>1 DEF UInv
  <2>2. CASE count = 6
    <3>1. tool' = "idle" /\ job' = job /\ (job = "loaded" => outcome' = "not stopped")
      BY <1>1, <1>2a, <2>2, Zenon
    <3>2. CASE job = "loaded"
      <4>1. outcome' # "uninstalled" /\ tool' # "remove"
        BY <3>1, <3>2, Zenon
      <4> QED
        BY <4>1 DEF UInv
    <3>3. CASE job # "loaded"
      <4>1. plist' = None /\ target' = None /\ Gone(6)'
        BY <1>6, <2>2, <3>3
      <4>2. tool' = "idle" /\ tool' # "remove" /\ job' # "loaded"
        BY <3>1, <3>3, Zenon
      <4> QED
        BY <4>1, <4>2, Zenon DEF UInv
    <3> QED
      BY <3>2, <3>3
  <2>3. count \in 1..6
    BY <1>2
  <2> QED
    BY <2>1, <2>2, <2>3

LEMMA NextUInv == PInv /\ RInv /\ JInv /\ UInv /\ [ServiceNext]_allVars => UInv'
<1> SUFFICES ASSUME PInv, RInv, JInv, UInv, [ServiceNext]_allVars PROVE UInv'
  OBVIOUS
<1>0. tool # "idle" => outcome = "none"
  BY DEF JInv
<1>1. CASE (\E r \in Release : Command("stop", r)) \/ Command("bootout", None) \/ Fails
  BY <1>1 DEF UInv, Command, Fails
<1>2. CASE StopService("stop", "copy")
  BY <1>0, <1>2 DEF UInv, StopService, Goes
<1>3. CASE StopService("bootout", "remove")
  <2>1. tool = "bootout" /\ count' = count /\ count = 1 /\ UNCHANGED outcome
    BY <1>3 DEF StopService, Goes, PInv, StepsDone
  <2> QED
    BY <1>0, <2>1 DEF UInv, Gone
<1>4. CASE Copy \/ Copied \/ Rename \/ WritePlist \/ WriteConf \/ Bootstrap \/ Enable
  BY <1>0, <1>4, Zenon DEF UInv, Copy, Copied, Rename, WritePlist, WriteConf, Bootstrap, Enable, Goes
<1>5. CASE RemoveFile
  BY <1>0, <1>5, RemoveKeepsUInv
<1>6. CASE InstallSignals \/ FollowLog \/ WritePid \/ Serving
  <2>1. UNCHANGED <<tool, count, outcome, plist, target, conf, log, job>>
    BY <1>6, Zenon DEF InstallSignals, FollowLog, WritePid, Serving, toolVars, fileVars, jobVars, logVars
  <2>2. StaleOnlyByDeath
    <3>1. CASE InstallSignals \/ FollowLog \/ WritePid
      BY <3>1 DEF StaleOnlyByDeath, InstallSignals, FollowLog, WritePid, vars, mainVars, logVars
    <3>2. CASE Serving
      <4>1. /\ pidFile' \in {"none", pidFile}
            /\ RemoveStale \/ Bind \/ Spawn \/ Update \/ Drop \/ Join \/ UNCHANGED main
        BY <3>2, Zenon DEF Serving, Server, Loop, Accept, Handle, mainVars
      <4> QED
        BY <4>1 DEF StaleOnlyByDeath, RemoveStale, Bind, Spawn, Update, Drop, Join
    <3> QED
      BY <1>6, <3>1, <3>2, SMTT(20)
  <2> QED
    BY <2>1, <2>2, OthersKeepUInv
<1>7. CASE Killed \/ Signalled \/ Rotate \/ Exited \/ (\E c \in Client : Asks(c) \/ GoesOn(c))
             \/ UNCHANGED allVars
  <2>1. /\ UNCHANGED <<tool, count, outcome, plist, target, conf, log>>
        /\ Terminated \/ Dies \/ UNCHANGED <<main, pidFile>>
        /\ job' = job \/ (job = "exiting" /\ job' = "none")
    BY <1>7, Zenon DEF Killed, Signalled, Rotate, Exited, Asks, GoesOn, Connect, SendLine, HangUp,
                       allVars, vars, mainVars, toolVars, fileVars, jobVars, logVars
  <2> QED
    BY <2>1, TerminatedStale, OthersKeepUInv
<1>8. CASE Start
  BY <1>8 DEF UInv, Start, toolVars, jobVars
<1>9. CASE Reboot
  <2>1. CASE tool = "idle"
    <3>1. StaleOnlyByDeath
      BY <1>9 DEF RInv, StaleOnlyByDeath, Reboot, Kill, vars, mainVars, Running
    <3> QED
      BY <1>9, <2>1, <3>1, ServiceAssumption DEF UInv, Gone, Reboot, fileVars, StaleOnlyByDeath
  <2>2. CASE tool # "idle"
    BY <1>9, <2>2 DEF UInv, Reboot
  <2> QED
    BY <2>1, <2>2
<1> QED
  BY <1>1, <1>2, <1>3, <1>4, <1>5, <1>6, <1>7, <1>8, <1>9
     DEF ServiceNext, Install, Uninstall, Daemon

\* The six files uninstall removes (plist, newsyslog file, log, pid file, socket,
\* installed binary) are all gone once the daemon of the job it stopped has ended.
\* The copy an interrupted install may have left beside the binary is not among them.
THEOREM RemovedFilesStayGone == ServiceSpec => []RemovedStaysGone
<1>1. RInv /\ SInv /\ UInv => RemovedStaysGone
  BY DEF RInv, SInv, UInv, Gone, Running, RemovedStaysGone
<1> QED
  BY InitPInv, NextPInv, InitJInv, NextJInv, InitRInv, NextRInv, InitSInv, NextSInv, InitUInv, NextUInv,
     <1>1, PTL DEF ServiceSpec

\* A socket left by a daemon that was killed at any step, or by an uninstall that was
\* cut short, keeps no later daemon from serving (start in status.rs removes it
\* first): a daemon without its server met a failing system call.
THEOREM LeftoversHarmless == ServiceSpec => []LeftoverSocketHarmless
<1>1. SInv => LeftoverSocketHarmless
  BY DEF SInv, LeftoverSocketHarmless
<1> QED
  BY InitSInv, NextSInv, <1>1, PTL DEF ServiceSpec

-----------------------------------------------------------------------------
(* What a status client is told                                            *)

\* The versions clients connected at and the one serve cloned lie in the order the
\* status went through them.
VInv ==
  /\ version \in Nat /\ snap \in 0..version
  /\ since \in [Client -> 0..version]
  /\ backlog \in Seq(Client)
  /\ thread = "read" => serving \in Client /\ since[serving] <= snap

LEMMA InitVInv == ServiceInit => VInv
BY DEF ServiceInit, VInv

\* Steps that neither update nor serve.
LEMMA OthersKeepVInv ==
  ASSUME VInv, UNCHANGED <<version, snap, since, serving>>,
         backlog' \in {backlog, <<>>}, thread' \in {thread, "none", "loop", "done", "accept"}
  PROVE  VInv'
<1>1. backlog' \in Seq(Client)
  <2>1. <<>> \in Seq(Client)
    OBVIOUS
  <2> QED
    BY <2>1, Zenon DEF VInv
<1>2. thread' = "read" => thread = "read"
  OBVIOUS
<1> QED
  BY <1>1, <1>2 DEF VInv

LEMMA ConnectKeepsVInv ==
  ASSUME VInv, NEW c \in Client, Connect(c)
  PROVE  VInv'
<1>1. UNCHANGED <<version, snap, thread, serving>> /\ c # serving
  BY DEF Connect, mainVars, threadVars
<1>2. \/ UNCHANGED <<since, backlog>>
      \/ since' = [since EXCEPT ![c] = version] /\ backlog' = Append(backlog, c)
  BY Zenon DEF Connect
<1>3. since' \in [Client -> 0..version]
  <2>1. since' = since \/ since' = [since EXCEPT ![c] = version]
    BY <1>2, Zenon
  <2>2. since \in [Client -> 0..version] /\ version \in 0..version
    BY DEF VInv
  <2> QED
    BY <2>1, <2>2
<1>3a. backlog' \in Seq(Client)
  <2>1. backlog' = backlog \/ backlog' = Append(backlog, c)
    BY <1>2, Zenon
  <2>2. backlog \in Seq(Client)
    BY DEF VInv
  <2> QED
    BY <2>1, <2>2
<1>4. thread = "read" => since'[serving] = since[serving]
  BY <1>1, <1>2 DEF VInv
<1> QED
  BY <1>1, <1>3, <1>3a, <1>4 DEF VInv

LEMMA AcceptKeepsVInv ==
  ASSUME VInv, Accept
  PROVE  VInv'
<1>1. CASE backlog # <<>> /\ thread' = "read" /\ serving' = Head(backlog) /\ backlog' = Tail(backlog)
             /\ snap' = version
  <2>1. UNCHANGED <<version, since>>
    BY DEF Accept
  <2>2. Head(backlog) \in Client /\ Tail(backlog) \in Seq(Client)
    BY <1>1 DEF VInv
  <2> QED
    BY <1>1, <2>1, <2>2 DEF VInv
<1>2. CASE thread' \in {"loop", "done"} /\ backlog' \in {backlog, <<>>} /\ UNCHANGED <<serving, snap>>
  <2>1. UNCHANGED <<version, since>>
    BY DEF Accept
  <2> QED
    BY <1>2, <2>1, OthersKeepVInv
<1> QED
  BY <1>1, <1>2 DEF Accept, Leave

LEMMA ServingKeepsVInv ==
  ASSUME VInv, Serving
  PROVE  VInv'
<1>1. CASE Accept
  BY <1>1, AcceptKeepsVInv
<1>2. CASE Update
  <2>1. version' = version + 1 /\ UNCHANGED <<snap, since, serving, thread, backlog>>
    BY <1>2 DEF Update, threadVars, clientVars
  <2>2. since \in [Client -> 0..(version + 1)] /\ snap \in 0..(version + 1)
    BY DEF VInv
  <2> QED
    BY <2>1, <2>2 DEF VInv
<1>3. CASE Handle
  BY <1>3 DEF VInv, Handle, mainVars
<1>4. CASE RemoveStale \/ Bind \/ Spawn \/ Drop \/ Join \/ Loop
  <2>1. /\ UNCHANGED <<version, snap, since, serving>>
        /\ backlog' \in {backlog, <<>>}
        /\ thread' \in {thread, "none", "loop", "done", "accept"}
    BY <1>4 DEF RemoveStale, Bind, Spawn, Drop, Join, Loop, Leave, threadVars, clientVars
  <2> QED
    BY <2>1, OthersKeepVInv, SMTT(20)
<1> QED
  BY <1>1, <1>2, <1>3, <1>4, Zenon DEF Serving, Server

LEMMA KillKeepsVInv ==
  ASSUME VInv, Kill
  PROVE  VInv'
BY DEF VInv, Kill

LEMMA NextVInv == SInv /\ VInv /\ [ServiceNext]_allVars => VInv'
<1> SUFFICES ASSUME SInv, VInv, [ServiceNext]_allVars PROVE VInv'
  OBVIOUS
<1>1. CASE Serving
  BY <1>1, ServingKeepsVInv
<1>2. CASE \E c \in Client : Asks(c)
  BY <1>2, ConnectKeepsVInv DEF Asks
<1>3. CASE Start
  <2>1. CASE Restart
    <3>1. thread' # "read"
      BY <2>1 DEF SInv, Restart
    <3> QED
      BY <2>1, <3>1 DEF VInv, Restart
  <2>2. CASE UNCHANGED vars
    BY <2>2, OthersKeepVInv DEF vars, mainVars, threadVars, clientVars
  <2> QED
    BY <1>3, <2>1, <2>2, Zenon DEF Start
<1>4. CASE ~Serving /\ ~Start /\ ~\E c \in Client : Asks(c)
  <2>1. Kill \/ UNCHANGED <<version, threadVars, backlog, since>>
    <3>1. CASE Install
      BY <3>1, Zenon DEF Install, StopService, Bootout, Terminated, Dies, Signal, Copy, Copied,
                         Rename, WritePlist, WriteConf, Bootstrap, Enable, vars, mainVars, clientVars
    <3>2. CASE Uninstall
      BY <3>2, Zenon DEF Uninstall, StopService, Bootout, Terminated, Dies, Signal, RemoveFile, vars,
                         mainVars, clientVars
    <3>3. CASE Killed \/ Signalled \/ Rotate \/ Reboot
      BY <3>3, Zenon DEF Killed, Signalled, Terminated, Dies, Signal, Rotate, Reboot, vars, mainVars,
                         clientVars
    <3>4. CASE InstallSignals \/ FollowLog \/ WritePid \/ Fails \/ Exited
                 \/ (\E r \in Release : Command("stop", r)) \/ Command("bootout", None)
      BY <3>4, Zenon DEF InstallSignals, FollowLog, WritePid, Fails, Exited, Command, vars, mainVars,
                         clientVars
    <3>5. CASE (\E c \in Client : GoesOn(c)) \/ UNCHANGED allVars
      BY <3>5, Zenon DEF GoesOn, SendLine, HangUp, allVars, vars, mainVars, clientVars
    <3> QED
      BY <1>4, <3>1, <3>2, <3>3, <3>4, <3>5, Zenon DEF ServiceNext, Daemon
  <2> QED
    BY <2>1, KillKeepsVInv, OthersKeepVInv DEF threadVars
<1> QED
  BY <1>1, <1>2, <1>3, <1>4

\* What `muta status' is told was the status at some moment since it connected,
\* for any number of clients and of updates between (serve clones the status when it
\* accepts, handle reads the line after that).
THEOREM RepliesCurrent == ServiceSpec => []ReplyIsCurrent
<1>1. VInv => ReplyIsCurrent
  BY DEF VInv, ReplyIsCurrent
<1> QED
  BY InitSInv, NextSInv, InitVInv, NextVInv, <1>1, PTL DEF ServiceSpec

-----------------------------------------------------------------------------
(* The way out of run()                                                    *)

\* The server's thread while it is joined: its flag is up.
FlagInv ==
  /\ thread \in {"none", "loop", "accept", "read", "done"}
  /\ main = "join" => flag /\ thread # "none"

\* How many steps the two threads can still take once the server is dropped.
StepsLeft ==
  IF main # "join" THEN 0
  ELSE CASE thread = "done" -> 1
         [] thread = "loop" -> 2
         [] thread = "read" -> 3
         [] OTHER           -> 4

\* Once run() drops the status server, every step of the two threads leads nearer to
\* its return, and none of the clients', the tools' or launchd's away from it but a
\* kill: no more than one client is served, however many are connected (serve, Drop).
ReturnNears ==
  [][main = "join" => \/ Serving /\ StepsLeft' < StepsLeft
                      \/ ~Serving /\ (main' = "killed" \/ UNCHANGED StepsLeft)]_allVars

\* Whoever is not the daemon leaves its threads alone or kills it.
LEMMA OthersLeaveThreads ==
  ASSUME [ServiceNext]_allVars, ~Serving, ~Start
  PROVE  Kill \/ UNCHANGED <<main, flag, thread>>
<1>1. Terminated \/ Dies => Kill \/ UNCHANGED <<main, flag, thread>>
  BY Zenon DEF Terminated, Dies, Signal, vars, mainVars, threadVars
<1>2. CASE Install \/ Uninstall
  <2>1. Terminated \/ UNCHANGED <<main, flag, thread>>
    BY <1>2, Zenon DEF Install, Uninstall, StopService, Bootout, Copy, Copied, Rename, WritePlist,
                       WriteConf, Bootstrap, Enable, RemoveFile, vars, mainVars, threadVars
  <2> QED
    BY <1>1, <2>1, Zenon
<1>3. CASE Killed \/ Signalled \/ Rotate \/ Reboot
  <2>1. Terminated \/ Dies \/ Kill \/ UNCHANGED <<main, flag, thread>>
    BY <1>3, Zenon DEF Killed, Signalled, Rotate, Reboot, vars, mainVars, threadVars
  <2> QED
    BY <1>1, <2>1, Zenon
<1>4. CASE InstallSignals \/ FollowLog \/ WritePid \/ Fails \/ Exited
             \/ (\E r \in Release : Command("stop", r)) \/ Command("bootout", None)
  BY <1>4, Zenon DEF InstallSignals, FollowLog, WritePid, Fails, Exited, Command, vars, mainVars,
                     threadVars
<1>5. CASE (\E c \in Client : Asks(c) \/ GoesOn(c)) \/ UNCHANGED allVars
  BY <1>5, Zenon DEF Asks, GoesOn, Connect, SendLine, HangUp, allVars, vars, mainVars, threadVars
<1> QED
  BY <1>2, <1>3, <1>4, <1>5, Zenon DEF ServiceNext, Daemon

LEMMA NextFlagInv == SInv /\ FlagInv /\ [ServiceNext]_allVars => FlagInv'
<1> SUFFICES ASSUME SInv, FlagInv, [ServiceNext]_allVars PROVE FlagInv'
  OBVIOUS
<1>1. CASE Serving
  <2>1. CASE RemoveStale \/ Bind \/ Spawn \/ Update
    BY <2>1 DEF FlagInv, RemoveStale, Bind, Spawn, Update, threadVars
  <2>2. CASE Drop \/ Join
    BY <2>2 DEF FlagInv, Drop, Join
  <2>3. CASE Server
    BY <2>3 DEF FlagInv, Server, Loop, Leave, Accept, Handle, mainVars
  <2> QED
    BY <1>1, <2>1, <2>2, <2>3, Zenon DEF Serving
<1>2. CASE Start
  <2>1. CASE Restart
    BY <2>1 DEF FlagInv, Restart
  <2>2. CASE UNCHANGED vars
    BY <2>2 DEF FlagInv, vars, mainVars, threadVars
  <2> QED
    BY <1>2, <2>1, <2>2, Zenon DEF Start
<1>3. CASE Kill
  BY <1>3 DEF FlagInv, Kill
<1>4. CASE UNCHANGED <<main, flag, thread>>
  BY <1>4 DEF FlagInv
<1> QED
  BY <1>1, <1>2, <1>3, <1>4, OthersLeaveThreads, Zenon

\* A step of the daemon takes one away.
LEMMA ReturnStep ==
  ASSUME FlagInv, [ServiceNext]_allVars, main = "join"
  PROVE  \/ Serving /\ StepsLeft' < StepsLeft
         \/ ~Serving /\ (main' = "killed" \/ UNCHANGED StepsLeft)
<1>0. thread \in {"loop", "accept", "read", "done"} /\ flag
  BY DEF FlagInv
<1>1. ASSUME Serving PROVE StepsLeft' < StepsLeft
  <2>1. Join \/ (Server /\ UNCHANGED main)
    BY <1>1, Zenon DEF Serving, RemoveStale, Bind, Spawn, Update, Drop, Server, Loop, Accept, Handle,
                       mainVars
  <2>2. CASE Join
    <3>1. thread = "done" /\ main' = "ended"
      BY <2>2 DEF Join
    <3> QED
      BY <3>1 DEF StepsLeft
  <2>3. CASE Server /\ UNCHANGED main
    <3>1. \/ thread = "loop" /\ thread' = "done"
          \/ thread = "read" /\ thread' = "loop"
          \/ thread = "accept" /\ thread' \in {"read", "loop", "done"}
      BY <1>0, <2>3, Zenon DEF Server, Loop, Leave, Accept, Handle
    <3> QED
      BY <2>3, <3>1 DEF StepsLeft
  <2> QED
    BY <2>1, <2>2, <2>3
<1>2. ASSUME ~Serving PROVE main' = "killed" \/ UNCHANGED StepsLeft
  <2>1. ~Start
    BY DEF Start, Running
  <2>2. Kill \/ UNCHANGED <<main, flag, thread>>
    BY <1>2, <2>1, OthersLeaveThreads, Zenon
  <2> QED
    BY <2>2 DEF Kill, StepsLeft
<1> QED
  BY <1>1, <1>2

\* Once the server is dropped run() returns within four steps of its two threads
\* (ReturnNears), any number of clients being connected: the part of RunReturns that
\* depends neither on fairness nor on the client in hand sending its line.
THEOREM DropBoundsSteps ==
  ServiceSpec => [](StepsLeft \in 0..4 /\ (StepsLeft = 0 <=> main # "join")) /\ ReturnNears
<1>1. ServiceInit => FlagInv
  BY DEF ServiceInit, FlagInv
<1>2. FlagInv => StepsLeft \in 0..4 /\ (StepsLeft = 0 <=> main # "join")
  BY DEF FlagInv, StepsLeft
<1>3. FlagInv /\ [ServiceNext]_allVars
        => [main = "join" => \/ Serving /\ StepsLeft' < StepsLeft
                             \/ ~Serving /\ (main' = "killed" \/ UNCHANGED StepsLeft)]_allVars
  BY ReturnStep, Zenon
<1> QED
  BY <1>1, <1>2, <1>3, NextFlagInv, InitSInv, NextSInv, PTL DEF ServiceSpec, ReturnNears
=============================================================================
