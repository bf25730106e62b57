-------------------------------- MODULE Host --------------------------------
(***************************************************************************)
(* The daemon's machine: processes of op-forward serve, started by launchd *)
(* or by hand, that take over one Unix socket path (listenUnix), while     *)
(* op-forward update (cmd/update.go) replaces the binary and restarts the  *)
(* daemon, and op-forward service (cmd/service.go) loads and unloads the   *)
(* launchd job.                                                            *)
(*                                                                         *)
(* No process handles SIGTERM: a daemon that is stopped leaves its socket  *)
(* file behind, and may be stopped between any two of its steps.           *)
(***************************************************************************)
EXTENDS Naturals

CONSTANTS
    Procs,          \* process ids; the id of a process that has ended is used again
    NoFile,         \* what the socket path is when there is no file
    StaleFile,      \* a socket file whose process has ended
    NoProc,         \* no process
    MaxByHand,      \* bound: how often a daemon is started by hand
    MaxCrashes,     \* bound: how often a daemon crashes or the machine reboots
    MaxService      \* bound: how often the service command is run

ASSUME HostAssumption ==
    /\ {NoFile, StaleFile, NoProc} \cap Procs = {}
    /\ NoFile # StaleFile
    /\ {MaxByHand, MaxCrashes, MaxService} \subseteq Nat

VARIABLES
    place,      \* where each process is in serve, "none" when it does not run
    image,      \* the release each process runs
    managed,    \* the processes launchd has started for the job
    dying,      \* the processes SIGTERM was sent to
    path,       \* the socket path: no file, a stale one, or the one a process has bound
    job,        \* launchd holds the job
    plist,      \* the LaunchAgent file exists
    legacy,     \* launchctl's load and unload work on this machine
    binary,     \* the release of the installed binary
    service,    \* where op-forward service is
    update,     \* where op-forward update is
    target,     \* the process the update takes for the daemon
    byHand, crashes, services,  \* how often that has happened
    beside,     \* history: the other daemons that ran when the update looked for one
    settled     \* history: the daemons that were reachable while no other was starting, and
                \* have answered every probe since

processes == <<place, image, managed, dying, path>>
launchd   == <<job, plist, legacy>>
updating  == <<binary, update, target, beside>>
bounds    == <<byHand, crashes, services>>
vars      == <<processes, launchd, updating, service, bounds, settled>>

\* The steps of listenUnix, and the serving that follows them.
Starting == {"lstat", "probe", "remove", "bind", "listen", "chmod", "close"}
Place    == Starting \cup {"none", "serving"}

\* The kernel accepts connections from listen(2) on, /health answers only when serving.
Accepting == {"chmod", "close", "serving"}

Release == {"none", "old", "new"}

\* "idle" stands for a command that has ended, or does not run.
ServicePlace == {"idle", "writePlist", "unload", "load", "bootout", "bootstrap",
                 "unloadOnly", "removePlist"}

\* "healthy" and "unconfirmed": the update has ended, with and without an answer.
UpdateEnded == {"idle", "healthy", "unconfirmed"}
UpdatePlace == UpdateEnded \cup {"replace", "find", "signal", "waiting"}

\* The update has replaced the binary, and has done what it does about the daemon.
Restarted == {"waiting", "healthy", "unconfirmed"}

TypeOK ==
    /\ place \in [Procs -> Place]
    /\ image \in [Procs -> Release]
    /\ \A p \in Procs : image[p] = "none" <=> place[p] = "none"
    /\ managed \subseteq {p \in Procs : place[p] # "none"}
    /\ dying \subseteq {p \in Procs : place[p] # "none"}
    /\ path \in Procs \cup {NoFile, StaleFile}
    /\ job \in BOOLEAN /\ plist \in BOOLEAN /\ legacy \in BOOLEAN
    /\ binary \in {"old", "new"}
    /\ service \in ServicePlace
    /\ update \in UpdatePlace
    /\ target \in Procs \cup {NoProc}
    /\ byHand \in Nat /\ crashes \in Nat /\ services \in Nat
    /\ beside \subseteq Procs
    /\ settled \subseteq {p \in Procs : place[p] = "serving"}

\* Nothing runs; the service may be installed, and an earlier boot may have left a file.
Init ==
    /\ place = [p \in Procs |-> "none"]
    /\ image = [p \in Procs |-> "none"]
    /\ managed = {} /\ dying = {}
    /\ path \in {NoFile, StaleFile}
    /\ job \in BOOLEAN /\ plist = job
    /\ legacy \in BOOLEAN
    /\ binary = "old"
    /\ service = "idle"
    /\ update = "idle" /\ target = NoProc /\ beside = {}
    /\ byHand = 0 /\ crashes = 0 /\ services = 0
    /\ settled = {}

-----------------------------------------------------------------------------
(* Daemon processes. *)

Runs(p) == place[p] # "none"

Goto(p, next) ==
    /\ place' = [place EXCEPT ![p] = next]
    /\ UNCHANGED <<image, managed, dying>>

Start(p) ==
    /\ ~Runs(p)
    /\ place' = [place EXCEPT ![p] = "lstat"]
    /\ image' = [image EXCEPT ![p] = binary]

\* The process is gone; a socket file it has bound stays.
Gone(p) ==
    /\ place' = [place EXCEPT ![p] = "none"]
    /\ image' = [image EXCEPT ![p] = "none"]
    /\ managed' = managed \ {p}
    /\ dying' = dying \ {p}

Exit(p) == Gone(p) /\ path' = IF path = p THEN StaleFile ELSE path

\* RunAtLoad and KeepAlive: the job has one process, and gets a new one when it ended.
Launch(p) ==
    /\ job
    /\ managed = {}
    /\ Start(p)
    /\ managed' = {p}
    /\ UNCHANGED <<dying, path, bounds>>

StartByHand(p) ==
    /\ byHand < MaxByHand
    /\ Start(p)
    /\ byHand' = byHand + 1
    /\ UNCHANGED <<managed, dying, path, crashes, services>>

\* Mutant: what is found at the path is taken to be stale.
LstatOnly(p) ==
    /\ place[p] = "lstat"
    /\ Goto(p, IF path = NoFile THEN "bind" ELSE "remove")
    /\ UNCHANGED <<path, bounds>>

Lstat(p) ==
    /\ place[p] = "lstat"
    /\ Goto(p, IF path = NoFile THEN "bind" ELSE "probe")
    /\ UNCHANGED <<path, bounds>>

\* A listener that answers is another daemon.  Any failure means a stale socket, that of a
\* listener that has not answered in time included.
Probe(p) ==
    /\ place[p] = "probe"
    /\ \/ /\ path \in Procs /\ place[path] \in Accepting
          /\ Exit(p)
       \/ Goto(p, "remove") /\ UNCHANGED path
    /\ UNCHANGED bounds

\* Mutant: a stale socket is left to be bound over.
RemoveNothing(p) ==
    /\ place[p] = "remove"
    /\ Goto(p, "bind")
    /\ UNCHANGED <<path, bounds>>

\* Whatever is at the path by now is removed.
Remove(p) ==
    /\ place[p] = "remove"
    /\ \/ path = NoFile /\ Exit(p)
       \/ path # NoFile /\ path' = NoFile /\ Goto(p, "bind")
    /\ UNCHANGED bounds

Bind(p) ==
    /\ place[p] = "bind"
    /\ \/ path # NoFile /\ Exit(p)
       \/ path = NoFile /\ path' = p /\ Goto(p, "listen")
    /\ UNCHANGED bounds

Listen(p) ==
    /\ place[p] = "listen"
    /\ Goto(p, "chmod")
    /\ UNCHANGED <<path, bounds>>

\* Chmod goes by the name: it fails if the file is gone, and is content with another's.
Chmod(p) ==
    /\ place[p] = "chmod"
    /\ Goto(p, IF path = NoFile THEN "close" ELSE "serving")
    /\ UNCHANGED <<path, bounds>>

\* ln.Close removes the file of that name, and serve returns the error of Chmod.
Close(p) ==
    /\ place[p] = "close"
    /\ path' = NoFile
    /\ Gone(p)
    /\ UNCHANGED bounds

\* SIGTERM takes effect.
Die(p) == p \in dying /\ Runs(p) /\ Exit(p) /\ UNCHANGED bounds

Crash(p) ==
    /\ Runs(p)
    /\ crashes < MaxCrashes
    /\ crashes' = crashes + 1
    /\ Exit(p)
    /\ UNCHANGED <<byHand, services>>

ListenStep(p) ==
    Lstat(p) \/ Probe(p) \/ Remove(p) \/ Bind(p) \/ Listen(p) \/ Chmod(p) \/ Close(p)

ProcessStep ==
    /\ \E p \in Procs : Launch(p) \/ StartByHand(p) \/ ListenStep(p) \/ Die(p) \/ Crash(p)
    /\ UNCHANGED <<launchd, updating, service>>

-----------------------------------------------------------------------------
(* op-forward update: performUpdate. *)

\* The latest release is not the one that runs this command, and its binary is downloaded.
\* A command that fails before, or is up to date, changes nothing.
LookUp ==
    /\ update \in UpdateEnded
    /\ binary = "old"
    /\ update' = "replace"
    /\ UNCHANGED <<binary, target, beside>>

\* Mutant: the daemon is restarted by the release it already runs.
ReplaceBinaryLater ==
    /\ update = "replace"
    /\ update' = "find"
    /\ UNCHANGED <<binary, target, beside>>

ReplaceBinary ==
    /\ update = "replace"
    /\ \/ update' = "find" /\ binary' = "new"
       \/ update' = "idle" /\ UNCHANGED binary
    /\ UNCHANGED <<target, beside>>

\* pgrep's first process, whoever has started it.
FindDaemon ==
    /\ update = "find"
    /\ LET running == {p \in Procs : Runs(p)}
       IN  \/ running = {} /\ update' = "unconfirmed" /\ UNCHANGED <<target, beside>>
           \/ \E p \in running :
                 target' = p /\ beside' = running \ {p} /\ update' = "signal"
    /\ UNCHANGED binary

\* Mutant: the daemon is found, and left alone.
SignalNobody ==
    /\ update = "signal"
    /\ target' = NoProc
    /\ update' = "waiting"
    /\ UNCHANGED <<dying, binary, beside, place, image, managed, path>>

\* Mutant: the process id is signalled whatever has become of it.
SignalUnchecked ==
    /\ update = "signal"
    /\ target' = NoProc
    /\ dying' = dying \cup {target}
    /\ update' = "waiting"
    /\ UNCHANGED <<binary, beside, place, image, managed, path>>

\* The process may have ended since; its id may be a stranger's by now, or a daemon's.
Signal ==
    /\ update = "signal"
    /\ target' = NoProc
    /\ \/ Runs(target) /\ dying' = dying \cup {target} /\ update' = "waiting"
       \/ ~Runs(target) /\ update' \in {"unconfirmed", "waiting"} /\ UNCHANGED dying
    /\ beside' = IF update' = "waiting" THEN beside ELSE {}
    /\ UNCHANGED <<binary, place, image, managed, path>>

Reachable(p) == path = p /\ place[p] = "serving"

\* waitForHealth: any daemon that answers, or the timeout.
WaitForHealth ==
    /\ update = "waiting"
    /\ \/ update' = "healthy" /\ \E p \in Procs : Reachable(p)
       \/ update' = "unconfirmed"
    /\ beside' = {}
    /\ UNCHANGED <<binary, target>>

\* The user ends the command; another one finds the release up to date.
Interrupt ==
    /\ update \notin UpdateEnded
    /\ update' = "idle" /\ target' = NoProc /\ beside' = {}
    /\ UNCHANGED binary

UpdateWork ==
    \/ (ReplaceBinary \/ FindDaemon \/ WaitForHealth) /\ UNCHANGED processes
    \/ Signal

UpdateStep ==
    /\ \/ (LookUp \/ Interrupt) /\ UNCHANGED processes
       \/ UpdateWork
    /\ UNCHANGED <<launchd, service, bounds>>

-----------------------------------------------------------------------------
(* op-forward service: serviceInstall and serviceUninstall. *)

StartService ==
    /\ service = "idle"
    /\ services < MaxService
    /\ services' = services + 1
    /\ service' \in {"writePlist", "unloadOnly"}
    /\ UNCHANGED <<processes, launchd, byHand, crashes>>

WritePlist ==
    /\ service = "writePlist"
    /\ \/ service' = "unload" /\ plist' = TRUE
       \/ service' = "idle" /\ UNCHANGED plist
    /\ UNCHANGED <<processes, job, legacy, bounds>>

\* launchd gives up the job and stops its process.
DropJob == job' = FALSE /\ dying' = dying \cup managed

\* Its result is discarded; there may be no job, or launchctl no such command.
Unload ==
    /\ \/ service = "unload" /\ service' = "load"
       \/ service = "unloadOnly" /\ service' = "removePlist"
    /\ \/ legacy /\ job /\ DropJob
       \/ ~(legacy /\ job) /\ UNCHANGED <<job, dying>>
    /\ UNCHANGED <<place, image, managed, path, plist, legacy, bounds>>

Load ==
    /\ service = "load"
    /\ IF legacy THEN job' = TRUE /\ service' = "idle"
       ELSE service' = "bootout" /\ UNCHANGED job
    /\ UNCHANGED <<processes, plist, legacy, bounds>>

Bootout ==
    /\ service = "bootout"
    /\ service' = "bootstrap"
    /\ \/ job /\ DropJob
       \/ ~job /\ UNCHANGED <<job, dying>>
    /\ UNCHANGED <<place, image, managed, path, plist, legacy, bounds>>

\* launchd may refuse it while the process of the old job has not ended.
Bootstrap ==
    /\ service = "bootstrap"
    /\ \/ service' = "idle" /\ job' = TRUE
       \/ managed # {} /\ service' = "idle" /\ UNCHANGED job
    /\ UNCHANGED <<processes, plist, legacy, bounds>>

RemovePlist ==
    /\ service = "removePlist"
    /\ service' = "idle"
    /\ plist' = FALSE \/ UNCHANGED plist
    /\ UNCHANGED <<processes, job, legacy, bounds>>

ServiceWork == WritePlist \/ Unload \/ Load \/ Bootout \/ Bootstrap \/ RemovePlist

ServiceStep == (StartService \/ ServiceWork) /\ UNCHANGED updating

\* Every process ends; at login launchd loads what LaunchAgents holds.
Reboot ==
    /\ crashes < MaxCrashes
    /\ crashes' = crashes + 1
    /\ place' = [p \in Procs |-> "none"]
    /\ image' = [p \in Procs |-> "none"]
    /\ managed' = {} /\ dying' = {}
    /\ path' = IF path = NoFile THEN NoFile ELSE StaleFile
    /\ job' = plist
    /\ service' = "idle"
    /\ update' = "idle" /\ target' = NoProc /\ beside' = {}
    /\ UNCHANGED <<plist, legacy, binary, byHand, services>>

-----------------------------------------------------------------------------
\* The listener of the path lets a probe go unanswered.
Unanswered == \E p \in Procs : place[p] = "probe" /\ place'[p] = "remove"

\* A daemon is settled once it is reachable while no other one is starting, and until it
\* misses a probe.
Settle ==
    settled' = {q \in Procs : place'[q] = "serving" /\
                  ( (q \in settled /\ ~Unanswered)
                    \/ (path' = q /\ \A p \in Procs \ {q} : place'[p] \notin Starting) )}

Next == (ProcessStep \/ UpdateStep \/ ServiceStep \/ Reboot) /\ Settle

Spec == Init /\ [][Next]_vars

\* A process that runs goes on, SIGTERM ends it, launchd keeps the job alive, and the
\* commands do not stop of themselves.  Nothing is assumed of operators and crashes.
FairSpec ==
    /\ Spec
    /\ WF_place(\E p \in Procs : Launch(p))
    /\ \A p \in Procs : WF_place(ListenStep(p) \/ Die(p))
    /\ WF_update(UpdateWork)
    /\ WF_service(ServiceWork)

-----------------------------------------------------------------------------
(* Properties. *)

\* A daemon that was reachable at a moment when no other one was starting stays
\* reachable until its process ends or it misses a probe, however many daemons are started
\* beside it, and whatever stale file they find ("a live listener that answers the probe ...
\* is never removed").  Two that start together may still take the path from each other.
SettledReachable == \A q \in settled : path = q

\* When the update reports that the daemon is serving again, what has answered runs the
\* new release, unless it is the very process that was sent SIGTERM and has not ended yet,
\* or another one that ran beside it.
ServingAgainTrue ==
    [][update = "waiting" /\ update' = "healthy" =>
          \A p \in Procs :
              Reachable(p) => image[p] = "new" \/ p \in dying \/ p \in beside]_vars

\* While launchd holds the job, and nobody starts a daemon by hand, a daemon becomes
\* reachable again after any crash, reboot, update or installation ("is restarted if it
\* exits").
ServedWhileLoaded ==
    job ~> (\E p \in Procs : Reachable(p)) \/ ~job \/ byHand > 0

\* Whatever the update says of the daemon, once it has replaced the binary and was not
\* interrupted, the new release serves in the end ("so launchd respawns it with the
\* updated binary").
UpdateTakesEffect ==
    (update \in Restarted /\ job) ~>
        (\E p \in Procs : Reachable(p) /\ image[p] = "new") \/ ~job \/ byHand > 0
=============================================================================
