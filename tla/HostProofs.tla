----------------------------- MODULE HostProofs -----------------------------
(***************************************************************************)
(* The safety properties of Host, for any set of processes and any bounds. *)
(***************************************************************************)
EXTENDS Host, TLAPS

\* What makes TypeOK inductive: the update signals a process it has found.
TypeInv == TypeOK /\ (update = "signal" => target \in Procs)

LEMMA InitType == Init => TypeInv
  BY HostAssumption DEF Init, TypeInv, TypeOK, Place, Starting, Release, ServicePlace,
                        UpdatePlace, UpdateEnded

\* The part of TypeOK that is about processes.
ProcessType ==
    /\ place \in [Procs -> Place]
    /\ image \in [Procs -> Release]
    /\ \A p \in Procs : image[p] = "none" <=> place[p] = "none"
    /\ managed \subseteq {p \in Procs : place[p] # "none"}
    /\ dying \subseteq {p \in Procs : place[p] # "none"}
    /\ path \in Procs \cup {NoFile, StaleFile}

LEMMA ExitType ==
    ASSUME ProcessType, NEW p \in Procs, Exit(p)
    PROVE  ProcessType'
  BY DEF ProcessType, Exit, Gone, Place, Release

LEMMA GotoType ==
    ASSUME ProcessType, NEW p \in Procs, place[p] # "none",
           NEW next \in Place \ {"none"}, Goto(p, next),
           path' \in Procs \cup {NoFile, StaleFile}
    PROVE  ProcessType'
  BY DEF ProcessType, Goto, Place

\* A step of listenUnix keeps the process variables well formed, and leaves the rest.
LEMMA ListenStepType ==
    ASSUME ProcessType, NEW p \in Procs, ListenStep(p)
    PROVE  ProcessType'
<1> USE DEF Runs
<1>1. CASE Lstat(p)
  BY <1>1, GotoType DEF Lstat, Place, Starting, ProcessType
<1>2. CASE Probe(p)
  BY <1>2, GotoType, ExitType DEF Probe, Place, Starting, ProcessType
<1>3. CASE Remove(p)
  BY <1>3, GotoType, ExitType DEF Remove, Place, Starting, ProcessType
<1>4. CASE Bind(p)
  BY <1>4, GotoType, ExitType DEF Bind, Place, Starting, ProcessType
<1>5. CASE Listen(p)
  BY <1>5, GotoType DEF Listen, Place, Starting, ProcessType
<1>6. CASE Chmod(p)
  BY <1>6, GotoType DEF Chmod, Place, Starting, ProcessType
<1>7. CASE Close(p)
  BY <1>7 DEF Close, Gone, ProcessType, Place, Starting, Release
<1> QED
  BY <1>1, <1>2, <1>3, <1>4, <1>5, <1>6, <1>7 DEF ListenStep

LEMMA ProcessStepType ==
    ASSUME ProcessType, binary \in {"old", "new"}, ProcessStep
    PROVE  ProcessType'
<1>1. PICK p \in Procs : Launch(p) \/ StartByHand(p) \/ ListenStep(p) \/ Die(p) \/ Crash(p)
  BY DEF ProcessStep
<1>2. CASE Launch(p) \/ StartByHand(p)
  BY <1>2 DEF Launch, StartByHand, Start, Runs, ProcessType, Place, Starting, Release
<1>3. CASE ListenStep(p)
  BY <1>3, ListenStepType
<1>4. CASE Die(p) \/ Crash(p)
  BY <1>4, ExitType DEF Die, Crash
<1> QED
  BY <1>1, <1>2, <1>3, <1>4

LEMMA BoundsType ==
    ASSUME TypeOK, ProcessStep \/ UpdateStep \/ ServiceStep \/ Reboot
    PROVE  byHand' \in Nat /\ crashes' \in Nat /\ services' \in Nat
<1>1. CASE ProcessStep
  <2>1. PICK p \in Procs : Launch(p) \/ StartByHand(p) \/ ListenStep(p) \/ Die(p) \/ Crash(p)
    BY <1>1 DEF ProcessStep
  <2> QED
    BY <2>1 DEF TypeOK, bounds, Launch, StartByHand, ListenStep, Die, Crash, Lstat, Probe,
                Remove, Bind, Listen, Chmod, Close
<1>2. CASE UpdateStep
  BY <1>2 DEF UpdateStep, TypeOK, bounds
<1>3. CASE ServiceStep
  BY <1>3 DEF ServiceStep, ServiceWork, StartService, WritePlist, Unload, Load, Bootout,
              Bootstrap, RemovePlist, TypeOK, bounds
<1>4. CASE Reboot
  BY <1>4 DEF Reboot, TypeOK
<1> QED
  BY <1>1, <1>2, <1>3, <1>4

LEMMA ServiceStepType ==
    ASSUME TypeInv, ServiceStep
    PROVE  /\ ProcessType'
           /\ job' \in BOOLEAN /\ plist' \in BOOLEAN /\ legacy' \in BOOLEAN
           /\ service' \in ServicePlace
<1> USE DEF TypeInv, TypeOK, ServiceStep, ProcessType, ServicePlace, processes, launchd
<1>1. CASE StartService
  BY <1>1 DEF StartService
<1>2. CASE WritePlist
  BY <1>2 DEF WritePlist
<1>3. CASE Unload
  BY <1>3 DEF Unload, DropJob
<1>4. CASE Load
  BY <1>4 DEF Load
<1>5. CASE Bootout
  BY <1>5 DEF Bootout, DropJob
<1>6. CASE Bootstrap
  BY <1>6 DEF Bootstrap
<1>7. CASE RemovePlist
  BY <1>7 DEF RemovePlist
<1> QED
  BY <1>1, <1>2, <1>3, <1>4, <1>5, <1>6, <1>7 DEF ServiceWork

LEMMA UpdateStepType ==
    ASSUME TypeInv, UpdateStep
    PROVE  /\ ProcessType'
           /\ binary' \in {"old", "new"}
           /\ update' \in UpdatePlace
           /\ target' \in Procs \cup {NoProc}
           /\ update' = "signal" => target' \in Procs
           /\ beside' \subseteq Procs
<1> USE DEF TypeInv, TypeOK, UpdateStep, UpdateWork, ProcessType, UpdatePlace, UpdateEnded,
            processes
<1>1. CASE LookUp /\ UNCHANGED processes
  BY <1>1 DEF LookUp
<1>2. CASE ReplaceBinary /\ UNCHANGED processes
  BY <1>2 DEF ReplaceBinary
<1>3. CASE FindDaemon /\ UNCHANGED processes
  BY <1>3 DEF FindDaemon, Runs
<1>4. CASE Signal
  BY <1>4 DEF Signal, Runs
<1>5. CASE WaitForHealth /\ UNCHANGED processes
  BY <1>5 DEF WaitForHealth
<1>6. CASE Interrupt /\ UNCHANGED processes
  BY <1>6 DEF Interrupt
<1> QED
  BY <1>1, <1>2, <1>3, <1>4, <1>5, <1>6

LEMMA NextType == TypeInv /\ [Next]_vars => TypeInv'
<1> SUFFICES ASSUME TypeInv, [Next]_vars PROVE TypeInv'
  OBVIOUS
<1>0. ProcessType /\ binary \in {"old", "new"}
  BY DEF TypeInv, TypeOK, ProcessType
<1>1. CASE UNCHANGED vars
  BY <1>1 DEF vars, processes, launchd, updating, bounds, TypeInv, TypeOK
<1>2. CASE Next
  <2>1. settled' \subseteq {p \in Procs : place'[p] = "serving"}
    BY <1>2 DEF Next, Settle
  <2>2. byHand' \in Nat /\ crashes' \in Nat /\ services' \in Nat
    BY <1>2, BoundsType DEF Next, TypeInv
  <2>3. CASE ProcessStep
    BY <2>1, <2>2, <2>3, <1>0, ProcessStepType
       DEF TypeInv, TypeOK, ProcessType, ProcessStep, launchd, updating
  <2>4. CASE UpdateStep
    <3>1. UNCHANGED <<launchd, service>>
      BY <2>4 DEF UpdateStep
    <3> QED
      BY <2>1, <2>2, <2>4, <3>1, UpdateStepType DEF TypeInv, TypeOK, ProcessType, launchd
  <2>5. CASE ServiceStep
    <3>1. UNCHANGED updating
      BY <2>5 DEF ServiceStep
    <3> QED
      BY <2>1, <2>2, <2>5, <3>1, ServiceStepType DEF TypeInv, TypeOK, ProcessType, updating
  <2>6. CASE Reboot
    BY <2>1, <2>2, <2>6
       DEF TypeInv, TypeOK, Reboot, Place, Release, ServicePlace, UpdatePlace, UpdateEnded
  <2> QED
    BY <1>2, <2>3, <2>4, <2>5, <2>6 DEF Next
<1> QED
  BY <1>1, <1>2

THEOREM TypeInvariant == Spec => []TypeInv
  BY InitType, NextType, PTL DEF Spec

\* TypeOK holds in every behaviour, for any number of daemons.
THEOREM TypeCorrect == Spec => []TypeOK
  BY TypeInvariant, PTL DEF TypeInv

-----------------------------------------------------------------------------
\* A settled daemon has the path, and no other daemon is past its probe without serving:
\* what could still take the path away is what has begun before the daemon was settled.
Past == {"remove", "bind", "listen", "chmod", "close"}

SettledInv ==
    \A q \in settled :
        /\ path = q
        /\ place[q] = "serving"
        /\ \A p \in Procs \ {q} : place[p] \notin Past

\* A daemon that exits leaves the path of another one alone.
LEMMA ExitSettled ==
    ASSUME ProcessType, NEW p \in Procs, Exit(p), NEW q \in Procs \ {p}, path = q
    PROVE  path' = q /\ place'[q] = place[q] /\ place'[p] = "none"
           /\ \A r \in Procs \ {p} : place'[r] = place[r]
  BY DEF ProcessType, Exit, Gone

\* No step of a process takes the path from a settled daemon that goes on running and
\* answers.
LEMMA ProcessSettled ==
    ASSUME TypeInv, SettledInv, ProcessStep, NEW q \in settled, place'[q] = "serving",
           ~Unanswered
    PROVE  path' = q /\ \A p \in Procs \ {q} : place'[p] \notin Past
<1>0. ProcessType /\ q \in Procs
  BY DEF TypeInv, TypeOK, ProcessType
<1>1. path = q /\ place[q] = "serving" /\ \A p \in Procs \ {q} : place[p] \notin Past
  BY DEF SettledInv
<1>2. PICK p \in Procs : Launch(p) \/ StartByHand(p) \/ ListenStep(p) \/ Die(p) \/ Crash(p)
  BY DEF ProcessStep
<1>3. CASE Launch(p) \/ StartByHand(p)
  BY <1>0, <1>1, <1>3 DEF Launch, StartByHand, Start, Runs, ProcessType, Past
<1>4. CASE Die(p) \/ Crash(p)
  <2>1. Exit(p)
    BY <1>4 DEF Die, Crash
  <2>2. p # q
    BY <2>1, <1>0 DEF Exit, Gone, ProcessType
  <2> QED
    BY <2>1, <2>2, <1>0, <1>1, ExitSettled DEF Past
<1>5. CASE ListenStep(p)
  <2>1. p # q /\ place[p] \notin Past
    BY <1>1, <1>5 DEF ListenStep, Lstat, Probe, Remove, Bind, Listen, Chmod, Close, Past
  <2>2. Lstat(p) \/ Probe(p)
    BY <2>1, <1>5 DEF ListenStep, Remove, Bind, Listen, Chmod, Close, Past
  <2>3. CASE Lstat(p)
    <3>1. path # NoFile
      BY <1>0, <1>1, HostAssumption
    <3> QED
      BY <2>3, <3>1, <1>0, <1>1 DEF Lstat, Goto, Past, ProcessType
  <2>4. CASE Probe(p)
    <3>0. ~Goto(p, "remove")
      BY <2>4, <1>0 DEF Probe, Goto, Unanswered, ProcessType
    <3>1. Exit(p)
      BY <2>4, <3>0 DEF Probe
    <3> QED
      BY <3>1, <2>1, <1>0, <1>1, ExitSettled DEF Past
  <2> QED
    BY <2>2, <2>3, <2>4
<1> QED
  BY <1>2, <1>3, <1>4, <1>5

\* The commands do not touch the path, nor do they move a process.
LEMMA CommandSettled ==
    ASSUME UpdateStep \/ ServiceStep
    PROVE  path' = path /\ place' = place
  BY DEF UpdateStep, UpdateWork, Signal, ServiceStep, ServiceWork, StartService, WritePlist,
         Unload, Load, Bootout, Bootstrap, RemovePlist, processes

LEMMA NextSettled == TypeInv /\ TypeInv' /\ SettledInv /\ [Next]_vars => SettledInv'
<1> SUFFICES ASSUME TypeInv, TypeInv', SettledInv, [Next]_vars PROVE SettledInv'
  OBVIOUS
<1>1. CASE UNCHANGED vars
  BY <1>1 DEF vars, processes, SettledInv
<1>2. CASE Next
  <2> SUFFICES ASSUME NEW q \in settled'
               PROVE  /\ path' = q
                      /\ place'[q] = "serving"
                      /\ \A p \in Procs \ {q} : place'[p] \notin Past
    BY DEF SettledInv
  <2>1. q \in Procs /\ place'[q] = "serving"
    BY <1>2 DEF Next, Settle
  <2>2. CASE q \in settled /\ ~Unanswered
    <3>1. CASE ProcessStep
      BY <2>1, <2>2, <3>1, ProcessSettled
    <3>2. CASE UpdateStep \/ ServiceStep
      BY <2>1, <2>2, <3>2, CommandSettled DEF SettledInv
    <3>3. CASE Reboot
      BY <2>1, <3>3 DEF Reboot
    <3> QED
      BY <1>2, <3>1, <3>2, <3>3 DEF Next
  <2>3. CASE q \notin settled \/ Unanswered
    <3>1. path' = q /\ \A p \in Procs \ {q} : place'[p] \notin Starting
      BY <1>2, <2>3 DEF Next, Settle
    <3> QED
      BY <2>1, <3>1 DEF Starting, Past
  <2> QED
    BY <2>2, <2>3
<1> QED
  BY <1>1, <1>2

\* SettledReachable holds in every behaviour, for any number of daemons.
THEOREM SettledStaysReachable == Spec => []SettledReachable
<1>1. Init => SettledInv
  BY DEF Init, SettledInv
<1>2. SettledInv => SettledReachable
  BY DEF SettledInv, SettledReachable
<1> QED
  BY <1>1, <1>2, NextSettled, TypeInvariant, PTL DEF Spec

-----------------------------------------------------------------------------
\* A process that runs the old release, once the update has replaced the binary, is the
\* one it takes for the daemon, or one that ran beside it; and the one it took for the
\* daemon is sent SIGTERM.
UpdateInv ==
    /\ update \in {"find", "signal", "waiting"} => binary = "new"
    /\ update = "signal" =>
          \A p \in Procs : image[p] = "old" => p = target \/ p \in beside
    /\ update = "waiting" =>
          \A p \in Procs : image[p] = "old" => p \in dying \/ p \in beside

\* A process that runs after a step ran before it, or runs the release that is installed.
ImageKept(p) ==
    image'[p] # "none" =>
        image'[p] = binary \/ (image'[p] = image[p] /\ (p \in dying => p \in dying'))

LEMMA ListenStepImage ==
    ASSUME ProcessType, NEW p \in Procs, ListenStep(p), NEW q \in Procs
    PROVE  ImageKept(q)
  BY DEF ProcessType, ImageKept, ListenStep, Lstat, Probe, Remove, Bind, Listen, Chmod,
         Close, Goto, Exit, Gone

LEMMA ProcessImage ==
    ASSUME ProcessType, ProcessStep, NEW q \in Procs
    PROVE  ImageKept(q)
<1>1. PICK p \in Procs : Launch(p) \/ StartByHand(p) \/ ListenStep(p) \/ Die(p) \/ Crash(p)
  BY DEF ProcessStep
<1>2. CASE Launch(p) \/ StartByHand(p)
  BY <1>2 DEF Launch, StartByHand, Start, Runs, ProcessType, ImageKept
<1>3. CASE ListenStep(p)
  BY <1>3, ListenStepImage
<1>4. CASE Die(p) \/ Crash(p)
  BY <1>4 DEF Die, Crash, Exit, Gone, ProcessType, ImageKept
<1> QED
  BY <1>1, <1>2, <1>3, <1>4

LEMMA ServiceImage ==
    ASSUME ServiceStep
    PROVE  image' = image /\ dying \subseteq dying'
  BY DEF ServiceStep, ServiceWork, StartService, WritePlist, Unload, Load, Bootout,
         Bootstrap, RemovePlist, DropJob, processes

LEMMA UpdateStepInv ==
    ASSUME TypeInv, UpdateInv, UpdateStep
    PROVE  UpdateInv'
<1> USE DEF TypeInv, TypeOK, UpdateInv, UpdateStep, UpdateWork, UpdateEnded, processes
<1>1. CASE LookUp /\ UNCHANGED processes
  BY <1>1 DEF LookUp
<1>2. CASE ReplaceBinary /\ UNCHANGED processes
  BY <1>2 DEF ReplaceBinary
<1>3. CASE FindDaemon /\ UNCHANGED processes
  BY <1>3 DEF FindDaemon, Runs
<1>4. CASE Signal
  BY <1>4 DEF Signal, Runs
<1>5. CASE WaitForHealth /\ UNCHANGED processes
  BY <1>5 DEF WaitForHealth
<1>6. CASE Interrupt /\ UNCHANGED processes
  BY <1>6 DEF Interrupt
<1> QED
  BY <1>1, <1>2, <1>3, <1>4, <1>5, <1>6

LEMMA NextUpdate == TypeInv /\ UpdateInv /\ [Next]_vars => UpdateInv'
<1> SUFFICES ASSUME TypeInv, UpdateInv, [Next]_vars PROVE UpdateInv'
  OBVIOUS
<1>0. ProcessType
  BY DEF TypeInv, TypeOK, ProcessType
<1>1. CASE UNCHANGED vars
  BY <1>1 DEF vars, processes, updating, UpdateInv
<1>2. CASE ProcessStep
  <2>1. UNCHANGED updating
    BY <1>2 DEF ProcessStep
  <2>2. \A p \in Procs : ImageKept(p)
    BY <1>0, <1>2, ProcessImage
  <2> QED
    BY <2>1, <2>2 DEF UpdateInv, ImageKept, updating
<1>3. CASE UpdateStep
  BY <1>3, UpdateStepInv
<1>4. CASE ServiceStep
  <2>1. UNCHANGED updating
    BY <1>4 DEF ServiceStep
  <2> QED
    BY <2>1, <1>4, ServiceImage DEF UpdateInv, updating
<1>5. CASE Reboot
  BY <1>5 DEF Reboot, UpdateInv
<1> QED
  BY <1>1, <1>2, <1>3, <1>4, <1>5 DEF Next

\* ServingAgainTrue holds in every behaviour, for any number of daemons.
THEOREM ServingAgainAlwaysTrue == Spec => ServingAgainTrue
<1> DEFINE True == update = "waiting" /\ update' = "healthy" =>
                       \A p \in Procs :
                           Reachable(p) => image[p] = "new" \/ p \in dying \/ p \in beside
<1>1. Init => UpdateInv
  BY DEF Init, UpdateInv
<1>2. TypeInv /\ UpdateInv => True
  <2> SUFFICES ASSUME TypeInv, UpdateInv, update = "waiting",
                      NEW p \in Procs, Reachable(p)
               PROVE  image[p] = "new" \/ p \in dying \/ p \in beside
    OBVIOUS
  <2>1. image[p] \in {"old", "new"}
    BY DEF TypeInv, TypeOK, Reachable, Release
  <2> QED
    BY <2>1 DEF UpdateInv
<1>3. TypeInv /\ UpdateInv => [True]_vars
  BY <1>2
<1>4. Spec => [][True]_vars
  BY <1>1, <1>3, NextUpdate, TypeInvariant, PTL DEF Spec
<1> QED
  BY <1>4 DEF ServingAgainTrue
=============================================================================
