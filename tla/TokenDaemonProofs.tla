-------------------------- MODULE TokenDaemonProofs --------------------------
(***************************************************************************)
(* Proofs about TokenDaemon, for any sets of handlers and of starting      *)
(* processes and any bound.                                                *)
(***************************************************************************)
EXTENDS TokenDaemon, TLAPS

\* The two constructors make tokens, and the contents of no file but a token's
\* is one.
LEMMA TokenFacts ==
    /\ \A n \in Nat : Access(n) \in Token /\ Refresh(n) \in Token
    /\ \A n, m \in Nat : Access(n) # Refresh(m)
    /\ \A n, m \in Nat : Access(n) = Access(m) => n = m
    /\ Legacy \in Token
    /\ NoToken \notin Token
    /\ Unreadable \notin Token
    /\ Token \subseteq FileContent
    /\ NoToken \in FileContent
    /\ Unreadable \in FileContent
BY DEF Access, Refresh, Legacy, NoToken, Unreadable, Token, FileContent, Kind

\* Writing a token, or deleting files, leaves the three files well-formed.
LEMMA DiskTyped ==
    ASSUME disk \in [File -> FileContent], NEW f \in File, NEW t \in Token
    PROVE  [disk EXCEPT ![f] = t] \in [File -> FileContent]
BY TokenFacts

\* The steps of a starting process that write no file and take no listener.
Reads(p) ==
    \/ StartProcess(p) \/ StatRefresh(p) \/ LoadLegacy(p) \/ ReuseRefresh(p)
    \/ MissRefresh(p) \/ FailToListen(p) \/ Die(p)

\* The writes of a rotation.
Writes(h) == SaveAccess(h) \/ SaveRefresh(h) \/ SaveSession(h)

\* The steps that end a request.
Ends(h) == ReplyPair(h) \/ Refuse(h) \/ ReplyResult(h)

\* The other steps of a request, which change what it does next and nothing else.
Checks(h) == Authenticate(h) \/ CheckRequest(h)

\* A step is one of these.
StepKinds ==
    \/ UNCHANGED vars
    \/ \E p \in Starters : \/ Reads(p) \/ SaveMigrated(p) \/ GenerateRefresh(p)
                           \/ IssueAccess(p) \/ WriteSession(p) \/ Listen(p)
    \/ Stop
    \/ \E S \in Removals : RemoveFiles(S)
    \/ \E k \in Expiring : Tick(k)
    \/ \E h \in Handlers :
          \/ \E step \in {"awaitLock", "authenticate"} : Receive(h, step)
          \/ LockRefresh(h) \/ Writes(h) \/ Swap(h) \/ Ends(h) \/ Checks(h)

LEMMA StepSplit == [Next]_vars => StepKinds
BY DEF Next, StartupStep, HandlerStep, Environment, ReceiveRefresh, ReceiveExecute, StepKinds,
       Reads, Writes, Ends, Checks

\* What a process reads, and how it ends, touches nothing but its own memory.
LEMMA ReadsFrame ==
    ASSUME NEW p \in Starters, Reads(p)
    PROVE  /\ UNCHANGED <<disk, crossed, serving, accessToken, refreshToken, mu, pc, fresh,
                          bearer, stale, minted, expired, retired, promised>>
           /\ company' = company \/ StartProcess(p)
BY DEF Reads, StartProcess, StatRefresh, LoadLegacy, ReuseRefresh, MissRefresh, FailToListen,
       Die, Exit, Go, server, history

\* What a process that is not there yet does to the files leaves the one that serves alone.
LEMMA StarterFrame ==
    ASSUME NEW p \in Starters,
           SaveMigrated(p) \/ GenerateRefresh(p) \/ IssueAccess(p) \/ WriteSession(p)
    PROVE  /\ UNCHANGED <<company, serving, accessToken, refreshToken, mu, pc, fresh, bearer,
                          stale, expired, retired, promised>>
           /\ minted' \in {minted, minted + 1}
BY DEF SaveMigrated, GenerateRefresh, IssueAccess, WriteSession, Exit, Go, server, history

\* A request leaves the starting processes alone, but for what they have read of a file it
\* writes.
LEMMA HandlerFrame ==
    ASSUME NEW h \in Handlers,
           \/ \E step \in {"awaitLock", "authenticate"} : Receive(h, step)
           \/ LockRefresh(h) \/ Writes(h) \/ Swap(h) \/ Ends(h) \/ Checks(h)
    PROVE  /\ UNCHANGED <<phase, loaded, issued, company, crossed, serving, expired>>
           /\ outdated' = outdated \/ SaveRefresh(h)
           /\ minted' = minted \/ LockRefresh(h)
           /\ disk' = disk \/ Writes(h)
           /\ retired' = retired \/ Swap(h)
           /\ UNCHANGED <<accessToken, refreshToken>> \/ Swap(h)
BY DEF Receive, LockRefresh, Refused, Writes, SaveAccess, SaveRefresh, SaveSession, Swap, Ends, ReplyPair,
       Refuse, ReplyResult, Finish, Checks, Authenticate, CheckRequest, starting, history

\* The hosts the daemon is first started on are well-typed.
LEMMA TypeInit == Init => TypeOK
<1> SUFFICES ASSUME Init PROVE TypeOK
  OBVIOUS
<1>1. disk \in [File -> FileContent]
  BY TokenFacts DEF Init, InitialDisk, File
<1> QED
  BY <1>1, DaemonAssumption, TokenFacts DEF Init, TypeOK, Phase, PC, Kind

\* One step keeps every variable in its type.
LEMMA TypeStep == TypeOK /\ MemoryInv /\ [Next]_vars => TypeOK'
<1> SUFFICES ASSUME TypeOK, MemoryInv, StepKinds PROVE TypeOK'
  BY StepSplit
<1> USE DaemonAssumption, TokenFacts
<1>1. CASE UNCHANGED vars
  BY <1>1 DEF vars, starting, server, history, TypeOK
<1>2. ASSUME NEW p \in Starters, Reads(p) PROVE TypeOK'
  BY <1>2, ReadsFrame DEF Reads, StartProcess, StatRefresh, LoadLegacy, ReuseRefresh,
     MissRefresh, FailToListen, Die, Exit, Go, TypeOK, Phase, Usable
<1>3. ASSUME NEW p \in Starters, SaveMigrated(p) PROVE TypeOK'
  <2>1. crossed' \in BOOLEAN
    BY <1>3, Zenon DEF SaveMigrated, TypeOK
  <2>2. disk' \in [File -> FileContent]
    BY <1>3, DiskTyped DEF SaveMigrated, TypeOK, MemoryInv, Loaded, Saved, SaveFailed, File
  <2> QED
    BY <1>3, <2>1, <2>2 DEF SaveMigrated, TypeOK, Outdate, Go, Phase, server, history
<1>4. ASSUME NEW p \in Starters, GenerateRefresh(p) PROVE TypeOK'
  <2>1. crossed' \in BOOLEAN
    BY <1>4, Zenon DEF GenerateRefresh, TypeOK
  <2>2. disk' \in [File -> FileContent] /\ Refresh(minted + 1) \in Token
    BY <1>4, DiskTyped DEF GenerateRefresh, TypeOK, Saved, SaveFailed, File
  <2> QED
    BY <1>4, <2>1, <2>2 DEF GenerateRefresh, TypeOK, Outdate, Go, Exit, Phase, server, history
<1>5. ASSUME NEW p \in Starters, IssueAccess(p) PROVE TypeOK'
  BY <1>5, DiskTyped DEF IssueAccess, TypeOK, Saved, SaveFailed, Go, Exit, Phase, File, server,
     history
<1>6. ASSUME NEW p \in Starters, WriteSession(p) PROVE TypeOK'
  <2>1. disk' \in [File -> FileContent]
    BY <1>6, DiskTyped DEF WriteSession, TypeOK, MemoryInv, Pending, Saved, SaveFailed, File
  <2> QED
    BY <1>6, <2>1 DEF WriteSession, TypeOK, Go, Phase, server, history
<1>7. ASSUME NEW p \in Starters, Listen(p) PROVE TypeOK'
  BY <1>7 DEF Listen, TypeOK, Phase, Go, Exit, history
<1>8. CASE Stop
  <2>1. \A h \in Handlers : Access(fresh[h]) \in Token
    BY DEF TypeOK
  <2>2. retired' \subseteq Token
    BY <1>8, <2>1 DEF Stop, TypeOK, MemoryInv
  <2> QED
    BY <1>8, <2>1, <2>2 DEF Stop, TypeOK, PC, starting
<1>9. ASSUME NEW S \in Removals, RemoveFiles(S) PROVE TypeOK'
  <2>1. S \subseteq File
    OBVIOUS
  <2>2. disk' \in [File -> FileContent]
    BY <1>9, <2>1 DEF RemoveFiles, TypeOK
  <2> QED
    BY <1>9, <2>2 DEF RemoveFiles, TypeOK, starting, server
<1>10. ASSUME NEW k \in Expiring, Tick(k) PROVE TypeOK'
  BY <1>10 DEF Tick, TypeOK, starting, server, history
<1>11. ASSUME NEW h \in Handlers, NEW step \in {"awaitLock", "authenticate"}, Receive(h, step)
       PROVE  TypeOK'
  <2>1. Bearers \subseteq Token \cup {NoToken}
    BY DEF Bearers, TypeOK
  <2> QED
    BY <1>11, <2>1 DEF Receive, TypeOK, Spent, starting, PC, history
<1>12. ASSUME NEW h \in Handlers, LockRefresh(h) PROVE TypeOK'
  <2>1. /\ pc' \in [Handlers -> PC] /\ bearer' \in [Handlers -> Token \cup {NoToken}]
        /\ stale' \in [Handlers -> BOOLEAN]
    BY <1>12 DEF LockRefresh, Refused, TypeOK, PC, Rotating, PreSwap
  <2>2. minted' \in Nat /\ fresh' \in [Handlers -> Nat] /\ mu' \in Handlers \cup {NoHandler}
    BY <1>12 DEF LockRefresh, Refused, TypeOK
  <2> QED
    BY <1>12, <2>1, <2>2 DEF LockRefresh, TypeOK, starting, history
<1>13. ASSUME NEW h \in Handlers, Writes(h) PROVE TypeOK'
  <2>1. Access(fresh[h]) \in Token /\ Refresh(fresh[h]) \in Token
    BY DEF TypeOK
  <2>2. disk' \in [File -> FileContent]
    BY <1>13, <2>1, DiskTyped DEF Writes, SaveAccess, SaveRefresh, SaveSession, Saved,
       SaveFailed, TypeOK, File
  <2>3. pc' \in [Handlers -> PC] /\ promised' \in Token \cup {NoToken} /\ outdated' \subseteq Starters
    BY <1>13 DEF Writes, SaveAccess, SaveRefresh, SaveSession, TypeOK, PC, Rotating, PreSwap,
       history, starting, Outdate
  <2> QED
    BY <1>13, <2>2, <2>3, HandlerFrame DEF Writes, SaveAccess, SaveRefresh, SaveSession, TypeOK,
       starting, history
<1>14. ASSUME NEW h \in Handlers, Swap(h) PROVE TypeOK'
  <2>1. /\ Access(fresh[h]) \in Token /\ Refresh(fresh[h]) \in Token
        /\ accessToken \in Token /\ refreshToken \in Token
    BY <1>14 DEF Swap, TypeOK, MemoryInv
  <2> QED
    BY <1>14, <2>1 DEF Swap, TypeOK, PC, Rotating, starting
<1>15. ASSUME NEW h \in Handlers, Ends(h) PROVE TypeOK'
  <2>1. Refresh(fresh[h]) \in Token
    BY DEF TypeOK
  <2>2. Finish(h) /\ promised' \in Token \cup {NoToken}
    BY <1>15, <2>1 DEF Ends, ReplyPair, Refuse, ReplyResult, TypeOK
  <2> QED
    BY <2>2 DEF Finish, TypeOK, PC, starting
<1>16. ASSUME NEW h \in Handlers, Checks(h) PROVE TypeOK'
  BY <1>16 DEF Checks, Authenticate, Refused, CheckRequest, TypeOK, starting, history, PC
<1> QED
  BY <1>1, <1>2, <1>3, <1>4, <1>5, <1>6, <1>7, <1>8, <1>9, <1>10, <1>11, <1>12, <1>13,
     <1>14, <1>15, <1>16 DEF StepKinds

\* One step keeps the tokens in memory that a starting or serving process relies on.
LEMMA MemoryStep == TypeOK /\ MemoryInv /\ [Next]_vars => MemoryInv'
<1> SUFFICES ASSUME TypeOK, MemoryInv, StepKinds PROVE MemoryInv'
  BY StepSplit
<1> USE DaemonAssumption, TokenFacts DEF MemoryInv, Loaded, Pending, TypeOK
<1>1. CASE UNCHANGED vars
  BY <1>1 DEF vars, starting, server, history
<1>2. ASSUME NEW p \in Starters, Reads(p) PROVE MemoryInv'
  BY <1>2, ReadsFrame DEF Reads, StartProcess, StatRefresh, LoadLegacy, ReuseRefresh,
     MissRefresh, FailToListen, Die, Exit, Go, Usable
<1>3. ASSUME NEW p \in Starters, SaveMigrated(p) PROVE MemoryInv'
  BY <1>3 DEF SaveMigrated, Go, server
<1>4. ASSUME NEW p \in Starters, GenerateRefresh(p) PROVE MemoryInv'
  BY <1>4 DEF GenerateRefresh, Go, Exit, server
<1>5. ASSUME NEW p \in Starters, IssueAccess(p) PROVE MemoryInv'
  BY <1>5 DEF IssueAccess, Go, Exit, server
<1>6. ASSUME NEW p \in Starters, WriteSession(p) PROVE MemoryInv'
  BY <1>6 DEF WriteSession, Go, server
<1>7. ASSUME NEW p \in Starters, Listen(p) PROVE MemoryInv'
  BY <1>7 DEF Listen, Go, Exit
<1>8. CASE Stop
  BY <1>8 DEF Stop, starting
<1>9. ASSUME NEW S \in Removals, RemoveFiles(S) PROVE MemoryInv'
  BY <1>9 DEF RemoveFiles, starting, server
<1>10. ASSUME NEW k \in Expiring, Tick(k) PROVE MemoryInv'
  BY <1>10 DEF Tick, starting, server
<1>11. ASSUME NEW h \in Handlers, NEW step \in {"awaitLock", "authenticate"}, Receive(h, step)
       PROVE  MemoryInv'
  BY <1>11 DEF Receive, starting
<1>12. ASSUME NEW h \in Handlers,
              LockRefresh(h) \/ Writes(h) \/ Swap(h) \/ Ends(h) \/ Checks(h)
       PROVE  MemoryInv'
  <2>1. /\ serving /\ accessToken' \in Token /\ refreshToken' \in Token
        /\ \A g \in Handlers : pc'[g] # "idle" => pc[g] # "idle"
    BY <1>12 DEF LockRefresh, Refused, Writes, SaveAccess, SaveRefresh, SaveSession, Swap, Ends,
       ReplyPair, Refuse, ReplyResult, Finish, Checks, Authenticate, CheckRequest
  <2> QED
    BY <1>12, <2>1, HandlerFrame
<1> QED
  BY <1>1, <1>2, <1>3, <1>4, <1>5, <1>6, <1>7, <1>8, <1>9, <1>10, <1>11, <1>12 DEF StepKinds

\* Every reachable state is well-typed, whatever the disk, the operator and other processes do.
THEOREM TypeCorrect == Spec => []TypeOK
<1>1. Init => MemoryInv
  BY TokenFacts DEF Init, MemoryInv, Loaded, Pending
<1> QED
  BY <1>1, TypeInit, TypeStep, MemoryStep, PTL DEF Spec

-----------------------------------------------------------------------------
(* What holds whatever the disk, the operator and other processes do, one lemma *)
(* per conjunct.                                                                *)

\* Handlers take mu before they rotate and hold it to the reply.
LEMMA LockStep == TypeOK /\ MemoryInv /\ LockInv /\ [Next]_vars => LockInv'
<1> SUFFICES ASSUME TypeOK, MemoryInv, LockInv, StepKinds PROVE LockInv'
  BY StepSplit
<1> USE DaemonAssumption DEF LockInv
<1>1. ASSUME UNCHANGED <<serving, mu, pc>> PROVE LockInv'
  BY <1>1
<1>2. CASE UNCHANGED vars
  BY <1>1, <1>2 DEF vars, server
<1>3. ASSUME NEW p \in Starters, Reads(p) PROVE LockInv'
  BY <1>1, <1>3, ReadsFrame
<1>4. ASSUME NEW p \in Starters,
             SaveMigrated(p) \/ GenerateRefresh(p) \/ IssueAccess(p) \/ WriteSession(p)
      PROVE  LockInv'
  BY <1>1, <1>4, StarterFrame
<1>5. ASSUME NEW p \in Starters, Listen(p) PROVE LockInv'
  BY <1>5 DEF Listen
<1>6. CASE Stop
  BY <1>6 DEF Stop, Rotating, PreSwap
<1>7. ASSUME NEW S \in Removals, RemoveFiles(S) PROVE LockInv'
  BY <1>1, <1>7 DEF RemoveFiles, server
<1>8. ASSUME NEW k \in Expiring, Tick(k) PROVE LockInv'
  BY <1>1, <1>8 DEF Tick, server
<1>9. ASSUME NEW h \in Handlers, NEW step \in {"awaitLock", "authenticate"}, Receive(h, step)
      PROVE  LockInv'
  BY <1>9 DEF Rotating, PreSwap, Receive, TypeOK
<1>10. ASSUME NEW h \in Handlers, LockRefresh(h) PROVE LockInv'
  BY <1>10 DEF TypeOK, MemoryInv, LockRefresh, Refused
<1>11. ASSUME NEW h \in Handlers, Writes(h) PROVE LockInv'
  BY <1>11, HandlerFrame DEF TypeOK, Rotating, PreSwap, Writes, SaveAccess, SaveRefresh, SaveSession
<1>12. ASSUME NEW h \in Handlers, Swap(h) PROVE LockInv'
  BY <1>12 DEF TypeOK, Rotating, PreSwap, Swap
<1>13. ASSUME NEW h \in Handlers, Ends(h) PROVE LockInv'
  BY <1>13 DEF TypeOK, Rotating, PreSwap, Ends, ReplyPair, Refuse, ReplyResult, Finish
<1>14. ASSUME NEW h \in Handlers, Checks(h) PROVE LockInv'
  BY <1>14 DEF TypeOK, Rotating, PreSwap, Checks, Authenticate, Refused, CheckRequest
<1> QED
  BY <1>2, <1>3, <1>4, <1>5, <1>6, <1>7, <1>8, <1>9, <1>10, <1>11, <1>12, <1>13, <1>14
     DEF StepKinds

\* What was generated before was generated before a later step, too.
LEMMA KnownGrows ==
    ASSUME TypeOK, minted' \in {minted, minted + 1}, NEW t \in Token, Known(t, minted)
    PROVE  Known(t, minted')
BY DEF TypeOK, Known, Token

\* The next number is new.
LEMMA NextIsNew ==
    ASSUME TypeOK
    PROVE  /\ \A t \in Token : Known(t, minted) => t # Access(minted + 1) /\ t # Refresh(minted + 1)
           /\ Known(Access(minted + 1), minted + 1) /\ Known(Refresh(minted + 1), minted + 1)
           /\ Access(minted + 1) \in Token /\ Refresh(minted + 1) \in Token
BY DEF TypeOK, Known, Token, Access, Refresh, Kind

\* The pair of a rotation in flight has been generated.
LEMMA PairKnown ==
    ASSUME AnyInv, NEW h \in Handlers, pc[h] \in Rotating
    PROVE  /\ Known(Access(fresh[h]), minted) /\ Known(Refresh(fresh[h]), minted)
           /\ Access(fresh[h]) \in Token /\ Refresh(fresh[h]) \in Token
<1>1. fresh[h] \in Nat /\ Access(fresh[h]) \in Token /\ Refresh(fresh[h]) \in Token
  BY TokenFacts DEF AnyInv, TypeOK
<1>2. CASE pc[h] \in PreSwap
  BY <1>1, <1>2 DEF AnyInv, PairInv, Known, Access, Refresh
<1>3. CASE pc[h] = "replyPair"
  BY <1>1, <1>3 DEF AnyInv, PairInv, KnownInv, Known, Access, Refresh
<1> QED
  BY <1>1, <1>2, <1>3 DEF Rotating

\* No step puts a token anywhere that was not generated yet.
LEMMA KnownStep == AnyInv /\ [Next]_vars => KnownInv'
<1> SUFFICES ASSUME AnyInv, StepKinds PROVE KnownInv'
  BY StepSplit
<1> USE DaemonAssumption, TokenFacts
<1>a. TypeOK /\ MemoryInv /\ KnownInv
  BY DEF AnyInv
<1>1. ASSUME UNCHANGED <<minted, loaded, issued, disk, retired, accessToken, refreshToken>>
      PROVE  KnownInv'
  BY <1>a, <1>1 DEF KnownInv
<1>2. CASE UNCHANGED vars
  BY <1>1, <1>2 DEF vars, starting, server, history
<1>3. ASSUME NEW p \in Starters, Reads(p) PROVE KnownInv'
  <2>1. \A q \in Starters : /\ loaded'[q] \in {loaded[q], NoToken, disk["session"], disk["refresh"]}
                            /\ issued'[q] \in {issued[q], NoToken}
    BY <1>a, <1>3 DEF Reads, StartProcess, StatRefresh, LoadLegacy, ReuseRefresh, MissRefresh,
       FailToListen, Die, Exit, Go, TypeOK
  <2> QED
    BY <1>a, <1>3, <2>1, ReadsFrame DEF KnownInv, File
<1>4. ASSUME NEW p \in Starters, SaveMigrated(p) PROVE KnownInv'
  <2>1. /\ UNCHANGED <<minted, retired, accessToken, refreshToken, issued>>
        /\ \A q \in Starters : loaded'[q] \in {loaded[q], NoToken}
        /\ \A f \in File : disk'[f] \in {disk[f], loaded[p]}
    BY <1>a, <1>4 DEF SaveMigrated, TypeOK, Saved, SaveFailed, server, history
  <2> QED
    BY <1>a, <2>1 DEF KnownInv
<1>5. ASSUME NEW p \in Starters, GenerateRefresh(p) PROVE KnownInv'
  <2>1. /\ minted' = minted + 1 /\ UNCHANGED <<retired, accessToken, refreshToken>>
        /\ \A q \in Starters : /\ loaded'[q] \in {loaded[q], NoToken, Refresh(minted + 1)}
                               /\ issued'[q] \in {issued[q], NoToken}
        /\ \A f \in File : disk'[f] \in {disk[f], Refresh(minted + 1)}
    BY <1>a, <1>5 DEF GenerateRefresh, Exit, TypeOK, Saved, SaveFailed, server, history
  <2>2. \A t \in Token : Known(t, minted) => Known(t, minted')
    BY <1>a, <2>1, KnownGrows
  <2> QED
    BY <1>a, <2>1, <2>2, NextIsNew DEF KnownInv, TypeOK
<1>6. ASSUME NEW p \in Starters, IssueAccess(p) PROVE KnownInv'
  <2>1. /\ minted' = minted + 1 /\ UNCHANGED <<retired, accessToken, refreshToken>>
        /\ \A q \in Starters : /\ loaded'[q] \in {loaded[q], NoToken}
                               /\ issued'[q] \in {issued[q], NoToken, Access(minted + 1)}
        /\ \A f \in File : disk'[f] \in {disk[f], Access(minted + 1)}
    BY <1>a, <1>6 DEF IssueAccess, Exit, TypeOK, Saved, SaveFailed, server, history
  <2>2. \A t \in Token : Known(t, minted) => Known(t, minted')
    BY <1>a, <2>1, KnownGrows
  <2>3. Access(minted + 1).kind = "access"
    BY DEF Access
  <2> QED
    BY <1>a, <2>1, <2>2, <2>3, NextIsNew DEF KnownInv, TypeOK
<1>7. ASSUME NEW p \in Starters, WriteSession(p) PROVE KnownInv'
  <2>1. /\ UNCHANGED <<minted, retired, accessToken, refreshToken, loaded, issued>>
        /\ \A f \in File : disk'[f] \in {disk[f], issued[p]}
    BY <1>a, <1>7 DEF WriteSession, TypeOK, Saved, SaveFailed, server, history
  <2> QED
    BY <1>a, <2>1 DEF KnownInv
<1>8. ASSUME NEW p \in Starters, Listen(p) PROVE KnownInv'
  <2>1. /\ UNCHANGED <<minted, retired, disk>> /\ accessToken' = issued[p] /\ refreshToken' = loaded[p]
        /\ \A q \in Starters : loaded'[q] \in {loaded[q], NoToken} /\ issued'[q] \in {issued[q], NoToken}
    BY <1>a, <1>8 DEF Listen, Exit, TypeOK, history
  <2> QED
    BY <1>a, <2>1 DEF KnownInv
<1>9. CASE Stop
  <2>1. serving /\ accessToken \in Token /\ refreshToken \in Token
    BY <1>a, <1>9 DEF Stop, MemoryInv
  <2>2. \A h \in Handlers : pc[h] \in Rotating => Known(Access(fresh[h]), minted)
    BY PairKnown
  <2>3. \A t \in retired' : Known(t, minted)
    BY <1>a, <1>9, <2>1, <2>2 DEF KnownInv, Stop
  <2> QED
    BY <1>a, <1>9, <2>3 DEF KnownInv, Stop, starting
<1>10. ASSUME NEW S \in Removals, RemoveFiles(S) PROVE KnownInv'
  BY <1>a, <1>10 DEF KnownInv, Known, File, RemoveFiles, starting, server
<1>11. ASSUME NEW k \in Expiring, Tick(k) PROVE KnownInv'
  BY <1>1, <1>11 DEF Tick, starting, server, history
<1>12. ASSUME NEW h \in Handlers, NEW step \in {"awaitLock", "authenticate"}, Receive(h, step)
       PROVE  KnownInv'
  BY <1>1, <1>12 DEF Receive, starting, history
<1>13. ASSUME NEW h \in Handlers, LockRefresh(h) PROVE KnownInv'
  <2>1. /\ minted' \in {minted, minted + 1}
        /\ UNCHANGED <<retired, loaded, issued, disk, accessToken, refreshToken>>
    BY <1>13 DEF LockRefresh, Refused, starting, history
  <2>2. \A t \in Token : Known(t, minted) => Known(t, minted')
    BY <1>a, <2>1, KnownGrows
  <2> QED
    BY <1>a, <2>1, <2>2 DEF KnownInv, TypeOK
<1>14. ASSUME NEW h \in Handlers, Writes(h) PROVE KnownInv'
  <2>1. Known(Access(fresh[h]), minted) /\ Known(Refresh(fresh[h]), minted)
    BY <1>14, PairKnown DEF Writes, SaveAccess, SaveRefresh, SaveSession, Rotating, PreSwap
  <2>2. \A f \in File : disk'[f] \in {disk[f], Access(fresh[h]), Refresh(fresh[h])}
    BY <1>a, <1>14 DEF Writes, SaveAccess, SaveRefresh, SaveSession, Saved, SaveFailed, TypeOK
  <2>3. UNCHANGED <<minted, retired, loaded, issued, accessToken, refreshToken>>
    BY <1>14 DEF Writes, SaveAccess, SaveRefresh, SaveSession, starting, history
  <2> QED
    BY <1>a, <2>1, <2>2, <2>3 DEF KnownInv
<1>15. ASSUME NEW h \in Handlers, Swap(h) PROVE KnownInv'
  <2>1. accessToken \in Token /\ refreshToken \in Token
    BY <1>a, <1>15 DEF Swap, MemoryInv
  <2>2. Known(Access(fresh[h]), minted) /\ Known(Refresh(fresh[h]), minted)
        /\ Access(fresh[h]).kind = "access"
    BY <1>15, PairKnown DEF Swap, Rotating, PreSwap, Access
  <2> QED
    BY <1>a, <1>15, <2>1, <2>2 DEF Swap, KnownInv, starting
<1>16. ASSUME NEW h \in Handlers, Ends(h) PROVE KnownInv'
  BY <1>1, <1>16 DEF Ends, ReplyPair, Refuse, ReplyResult, Finish, starting
<1>17. ASSUME NEW h \in Handlers, Checks(h) PROVE KnownInv'
  BY <1>1, <1>17 DEF Checks, Authenticate, Refused, CheckRequest, starting, history
<1> QED
  BY <1>2, <1>3, <1>4, <1>5, <1>6, <1>7, <1>8, <1>9, <1>10, <1>11, <1>12, <1>13, <1>14, <1>15,
     <1>16, <1>17 DEF StepKinds

\* The pair of a rotation is new, and nobody else replaces the one in memory meanwhile.
LEMMA PairStep == AnyInv /\ [Next]_vars => PairInv'
<1> SUFFICES ASSUME AnyInv, StepKinds PROVE PairInv'
  BY StepSplit
<1> USE DaemonAssumption, TokenFacts DEF AnyInv
<1>1. ASSUME UNCHANGED <<pc, bearer, refreshToken, accessToken, fresh, retired>>,
             minted' \in {minted, minted + 1}
      PROVE  PairInv'
  BY <1>1 DEF PairInv, TypeOK
<1>2. CASE UNCHANGED vars
  BY <1>1, <1>2 DEF vars, server, history
<1>3. ASSUME NEW p \in Starters, Reads(p) PROVE PairInv'
  BY <1>1, <1>3, ReadsFrame
<1>4. ASSUME NEW p \in Starters,
             SaveMigrated(p) \/ GenerateRefresh(p) \/ IssueAccess(p) \/ WriteSession(p)
      PROVE  PairInv'
  BY <1>1, <1>4, StarterFrame
<1>5. ASSUME NEW p \in Starters, Listen(p) PROVE PairInv'
  BY <1>5 DEF Listen, PairInv, PreSwap, MemoryInv
<1>6. CASE Stop
  BY <1>6 DEF PairInv, PreSwap, Stop
<1>7. ASSUME NEW S \in Removals, RemoveFiles(S) PROVE PairInv'
  BY <1>7 DEF MemoryInv, PairInv, PreSwap, RemoveFiles, NobodyRuns, server
<1>8. ASSUME NEW k \in Expiring, Tick(k) PROVE PairInv'
  BY <1>1, <1>8 DEF Tick, server, history
<1>9. ASSUME NEW h \in Handlers, NEW step \in {"awaitLock", "authenticate"}, Receive(h, step)
      PROVE  PairInv'
  <2>1. /\ pc'[h] \notin PreSwap \cup {"replyPair"}
        /\ \A g \in Handlers \ {h} : pc'[g] = pc[g] /\ bearer'[g] = bearer[g]
        /\ UNCHANGED <<refreshToken, accessToken, fresh, retired, minted>>
    BY <1>9 DEF Receive, PreSwap, TypeOK, history
  <2> QED
    BY <2>1 DEF PairInv
<1>10. ASSUME NEW h \in Handlers, LockRefresh(h) PROVE PairInv'
  <2>1. minted + 1 \in Nat /\ accessToken \in Token /\ refreshToken \in Token
    BY <1>10 DEF LockRefresh, Refused, TypeOK, MemoryInv
  <2>2. {Access(minted + 1), Refresh(minted + 1)} \cap (retired \cup {accessToken, refreshToken}) = {}
    BY <2>1, NextIsNew DEF KnownInv, TypeOK
  <2>3. \A g \in Handlers : pc'[g] \in PreSwap /\ g # h => pc[g] \in PreSwap /\ fresh'[g] = fresh[g]
    BY <1>10 DEF LockRefresh, Refused, TypeOK
  <2>4. /\ pc'[h] \in PreSwap =>
              fresh'[h] = minted + 1 /\ minted' = minted + 1 /\ bearer'[h] = refreshToken
        /\ \A g \in Handlers \ {h} : bearer'[g] = bearer[g]
    BY <1>10 DEF LockRefresh, Refused, TypeOK, PreSwap
  <2>5. /\ minted' \in {minted, minted + 1} /\ retired' = retired
        /\ accessToken' = accessToken /\ refreshToken' = refreshToken
        /\ \A g \in Handlers : pc'[g] = "replyPair" => pc[g] = "replyPair" /\ fresh'[g] = fresh[g]
    BY <1>10 DEF LockRefresh, Refused, TypeOK, history
  <2>6. \A g \in Handlers : fresh[g] \in Nat
    BY DEF TypeOK
  <2> QED
    <3>1. ASSUME NEW g \in Handlers, pc'[g] \in PreSwap
          PROVE  /\ bearer'[g] = refreshToken /\ fresh'[g] <= minted'
                 /\ {Access(fresh'[g]), Refresh(fresh'[g])}
                       \cap (retired \cup {accessToken, refreshToken}) = {}
      <4>1. CASE g = h
        BY <2>1, <2>2, <2>4, <3>1, <4>1
      <4>2. CASE g # h
        <5>1. /\ bearer[g] = refreshToken /\ fresh[g] <= minted
              /\ {Access(fresh[g]), Refresh(fresh[g])}
                    \cap (retired \cup {accessToken, refreshToken}) = {}
          BY <2>3, <3>1, <4>2 DEF PairInv
        <5>2. bearer'[g] = bearer[g] /\ fresh'[g] = fresh[g]
          BY <2>3, <2>4, <3>1, <4>2
        <5>3. minted <= minted' /\ minted \in Nat /\ minted' \in Nat /\ fresh[g] \in Nat
          BY <2>5, <2>6 DEF TypeOK
        <5> QED
          BY <5>1, <5>2, <5>3
      <4> QED
        BY <4>1, <4>2
    <3> QED
      BY <2>5, <3>1 DEF PairInv
<1>11. ASSUME NEW h \in Handlers, Writes(h) PROVE PairInv'
  BY <1>11 DEF TypeOK, LockInv, PairInv, Rotating, PreSwap, Writes, SaveAccess, SaveRefresh,
     SaveSession, history
<1>12. ASSUME NEW h \in Handlers, Swap(h) PROVE PairInv'
  BY <1>12 DEF TypeOK, LockInv, PairInv, Rotating, PreSwap, Swap
<1>13. ASSUME NEW h \in Handlers, Ends(h) PROVE PairInv'
  <2>1. /\ pc'[h] \notin PreSwap \cup {"replyPair"}
        /\ \A g \in Handlers \ {h} : pc'[g] = pc[g] /\ bearer'[g] = bearer[g] /\ fresh'[g] = fresh[g]
        /\ UNCHANGED <<refreshToken, accessToken, retired, minted>>
    BY <1>13 DEF TypeOK, PreSwap, Ends, ReplyPair, Refuse, ReplyResult, Finish
  <2> QED
    BY <2>1 DEF PairInv
<1>14. ASSUME NEW h \in Handlers, Checks(h) PROVE PairInv'
  BY <1>14 DEF TypeOK, PairInv, PreSwap, Checks, Authenticate, Refused, CheckRequest, history
<1> QED
  BY <1>2, <1>3, <1>4, <1>5, <1>6, <1>7, <1>8, <1>9, <1>10, <1>11, <1>12, <1>13, <1>14
     DEF StepKinds

\* The clock only passes what was generated, and refresh tokens after access tokens.
LEMMA ExpiryStep == AnyInv /\ [Next]_vars => ExpiryInv'
<1> SUFFICES ASSUME AnyInv, StepKinds PROVE ExpiryInv'
  BY StepSplit
<1> USE DEF AnyInv, TypeOK, ExpiryInv
<1>1. ASSUME NEW k \in Expiring, Tick(k) PROVE ExpiryInv'
  <2>1. Expiring \subseteq Kind
    BY DaemonAssumption
  <2> QED
    BY <1>1, <2>1 DEF Tick, Kind
<1>2. ASSUME expired' = expired, minted' \in {minted, minted + 1} PROVE ExpiryInv'
  BY <1>2 DEF Kind
<1>3. CASE UNCHANGED vars \/ Stop
  BY <1>2, <1>3 DEF vars, Stop
<1>4. ASSUME NEW p \in Starters, Reads(p) PROVE ExpiryInv'
  BY <1>2, <1>4, ReadsFrame
<1>5. ASSUME NEW p \in Starters,
             SaveMigrated(p) \/ GenerateRefresh(p) \/ IssueAccess(p) \/ WriteSession(p)
      PROVE  ExpiryInv'
  BY <1>2, <1>5, StarterFrame
<1>6. ASSUME NEW p \in Starters, Listen(p) PROVE ExpiryInv'
  BY <1>2, <1>6 DEF Listen
<1>7. ASSUME NEW S \in Removals, RemoveFiles(S) PROVE ExpiryInv'
  BY <1>2, <1>7 DEF RemoveFiles
<1>8. ASSUME NEW h \in Handlers,
             \/ \E step \in {"awaitLock", "authenticate"} : Receive(h, step)
             \/ LockRefresh(h) \/ Writes(h) \/ Swap(h) \/ Ends(h) \/ Checks(h)
      PROVE  ExpiryInv'
  BY <1>2, <1>8 DEF Receive, LockRefresh, Refused, Writes, SaveAccess, SaveRefresh, SaveSession, Swap,
     Ends, ReplyPair, Refuse, ReplyResult, Finish, Checks, Authenticate, CheckRequest
<1> QED
  BY <1>1, <1>3, <1>4, <1>5, <1>6, <1>7, <1>8 DEF StepKinds

\* Another write of refresh.token makes a starting process outdated, and a clock that moves on
\* revives no token.
LEMMA ReliedStep == AnyInv /\ [Next]_vars => ReliedInv'
<1> SUFFICES ASSUME AnyInv, StepKinds PROVE ReliedInv'
  BY StepSplit
<1> USE DaemonAssumption, TokenFacts DEF AnyInv, ReliedInv, Loaded
<1>1. ASSUME UNCHANGED <<phase, loaded, outdated, serving, expired>>,
             disk'["refresh"] = disk["refresh"]
      PROVE  ReliedInv'
  BY <1>1
<1>2. CASE UNCHANGED vars
  BY <1>1, <1>2 DEF vars, starting, server
<1>3. ASSUME NEW p \in Starters, Reads(p) PROVE ReliedInv'
  <2>1. /\ disk' = disk /\ serving' = serving /\ expired' = expired
        /\ \A q \in Starters \ {p} :
              phase'[q] = phase[q] /\ loaded'[q] = loaded[q] /\ (q \in outdated' <=> q \in outdated)
    BY <1>3, ReadsFrame DEF Reads, StartProcess, StatRefresh, LoadLegacy, ReuseRefresh, MissRefresh,
       FailToListen, Die, Exit, Go, TypeOK
  <2>2. \/ phase'[p] \in {"none", "migrate", "loadRefresh"}
        \/ phase'[p] \in {"loadLegacy", "saveMigrated"} /\ (p \in outdated' \/ disk["refresh"] = NoToken)
        \/ phase'[p] = "generate" /\ ~Usable(disk["refresh"], expired)
        \/ phase'[p] = "issueAccess" /\ loaded'[p] = disk["refresh"] /\ disk["refresh"] \in Token
    BY <1>3 DEF Reads, StartProcess, StatRefresh, LoadLegacy, ReuseRefresh, MissRefresh,
       FailToListen, Die, Exit, Go, TypeOK, Exists, Usable
  <2> QED
    BY <2>1, <2>2
<1>4. ASSUME NEW p \in Starters, SaveMigrated(p) PROVE ReliedInv'
  <2>1. /\ UNCHANGED <<serving, expired>> /\ phase' = [phase EXCEPT ![p] = "loadRefresh"]
        /\ \A q \in Starters \ {p} : loaded'[q] = loaded[q]
        /\ \/ disk'["refresh"] = loaded[p] /\ loaded[p] \in Token /\ Outdate(Starters \ {p})
           \/ disk' = disk /\ outdated' = outdated
    BY <1>4 DEF SaveMigrated, Go, Saved, SaveFailed, server, MemoryInv, TypeOK, File
  <2> QED
    BY <2>1 DEF Outdate, Relying, TypeOK
<1>5. ASSUME NEW p \in Starters, GenerateRefresh(p) PROVE ReliedInv'
  <2>1. UNCHANGED <<serving, expired>> /\ \A q \in Starters \ {p} : loaded'[q] = loaded[q]
    BY <1>5 DEF GenerateRefresh, Exit, server, TypeOK
  <2>2. CASE disk' = disk /\ phase' = [phase EXCEPT ![p] = "none"] /\ outdated' = outdated \ {p}
    BY <2>1, <2>2 DEF TypeOK
  <2>3. CASE /\ disk' = [disk EXCEPT !["refresh"] = Refresh(minted + 1)]
             /\ phase' = [phase EXCEPT ![p] = "issueAccess"]
             /\ loaded' = [loaded EXCEPT ![p] = Refresh(minted + 1)] /\ Outdate(Starters \ {p})
    <3>1. disk'["refresh"] = Refresh(minted + 1) /\ loaded'[p] = Refresh(minted + 1)
          /\ Refresh(minted + 1) \in Token
      BY <2>3 DEF TypeOK, File
    <3> QED
      BY <2>1, <2>3, <3>1 DEF Outdate, Relying, TypeOK
  <2> QED
    BY <1>5, <2>2, <2>3 DEF GenerateRefresh, Saved, SaveFailed, Exit, Go
<1>6. ASSUME NEW p \in Starters, IssueAccess(p) \/ WriteSession(p) PROVE ReliedInv'
  <2>1. UNCHANGED <<serving, expired>> /\ disk'["refresh"] = disk["refresh"]
    BY <1>6 DEF IssueAccess, WriteSession, Saved, SaveFailed, server, TypeOK, File
  <2>2. /\ \A q \in Starters \ {p} :
              phase'[q] = phase[q] /\ loaded'[q] = loaded[q] /\ (q \in outdated' <=> q \in outdated)
        /\ phase[p] \in Loaded
        /\ \/ phase'[p] = "none"
           \/ phase'[p] \in Loaded /\ loaded'[p] = loaded[p] /\ outdated' = outdated
    BY <1>6 DEF IssueAccess, WriteSession, Exit, Go, TypeOK
  <2> QED
    BY <2>1, <2>2
<1>7. ASSUME NEW p \in Starters, Listen(p) PROVE ReliedInv'
  <2>1. /\ UNCHANGED <<disk, expired>> /\ phase[p] \in Loaded /\ phase'[p] = "none"
        /\ \A q \in Starters \ {p} :
              phase'[q] = phase[q] /\ loaded'[q] = loaded[q] /\ (q \in outdated' <=> q \in outdated)
    BY <1>7 DEF Listen, Exit, Go, TypeOK
  <2> QED
    BY <2>1
<1>8. CASE Stop
  BY <1>8 DEF Stop, starting
<1>9. ASSUME NEW S \in Removals, RemoveFiles(S) PROVE ReliedInv'
  BY <1>9 DEF RemoveFiles, NobodyRuns, starting, server
<1>10. ASSUME NEW k \in Expiring, Tick(k) PROVE ReliedInv'
  <2>1. \A j \in Kind : expired'[j] \in Nat /\ expired[j] \in Nat /\ expired'[j] >= expired[j]
    BY <1>10 DEF Tick, TypeOK
  <2>2. ~Usable(disk["refresh"], expired) => ~Usable(disk["refresh"], expired')
    BY <2>1 DEF Usable, IsExpired, Token
  <2>3. UNCHANGED <<disk, phase, loaded, outdated, serving>>
    BY <1>10 DEF Tick, starting, server
  <2> QED
    BY <2>2, <2>3
<1>11. ASSUME NEW h \in Handlers, SaveRefresh(h) PROVE ReliedInv'
  <2>1. /\ UNCHANGED <<serving, expired, phase, loaded>>
        /\ \/ disk'["refresh"] = Refresh(fresh[h]) /\ Outdate(Starters)
           \/ disk' = disk /\ outdated' = outdated
    BY <1>11 DEF SaveRefresh, Saved, SaveFailed, TypeOK, File
  <2>2. Refresh(fresh[h]) \in Token
    BY DEF TypeOK
  <2> QED
    BY <2>1, <2>2 DEF Outdate, Relying, TypeOK
<1>12. ASSUME NEW h \in Handlers,
              \/ \E step \in {"awaitLock", "authenticate"} : Receive(h, step)
              \/ LockRefresh(h) \/ SaveAccess(h) \/ SaveSession(h) \/ Swap(h) \/ Ends(h) \/ Checks(h)
       PROVE  ReliedInv'
  BY <1>1, <1>12 DEF Receive, LockRefresh, Refused, SaveAccess, SaveSession, Saved, SaveFailed, Swap,
     Ends, ReplyPair, Refuse, ReplyResult, Finish, Checks, Authenticate, CheckRequest, starting,
     TypeOK, File
<1> QED
  BY <1>2, <1>3, <1>4, <1>5, <1>6, <1>7, <1>8, <1>9, <1>10, <1>11, <1>12 DEF StepKinds, Writes

LEMMA AnyInit == Init => AnyInv
<1> SUFFICES ASSUME Init PROVE AnyInv
  OBVIOUS
<1>1. TypeOK
  BY TypeInit
<1>2. MemoryInv /\ LockInv /\ PairInv /\ ReliedInv
  BY TokenFacts
     DEF Init, MemoryInv, Loaded, Pending, LockInv, PairInv, Rotating, PreSwap, ReliedInv
<1>3. KnownInv
  BY TokenFacts DEF Init, InitialDisk, File, KnownInv, Known, Legacy
<1>4. ExpiryInv
  BY DEF Init, ExpiryInv, Kind
<1> QED
  BY <1>1, <1>2, <1>3, <1>4 DEF AnyInv

LEMMA AnyStep == AnyInv /\ [Next]_vars => AnyInv'
  BY TypeStep, MemoryStep, LockStep, KnownStep, PairStep, ExpiryStep, ReliedStep DEF AnyInv

LEMMA AnyInvariance == Spec => []AnyInv
  BY AnyInit, AnyStep, PTL DEF Spec

\* Only one step ends a rotation with a pair in memory.
LEMMA OnlySwapSwaps ==
    ASSUME AnyInv, Next, NEW h \in Handlers, pc[h] = "swap", pc'[h] = "replyPair"
    PROVE  Swap(h)
<1>1. StepKinds /\ TypeOK /\ MemoryInv
  BY StepSplit DEF AnyInv
<1>2. ~Stop
  BY DEF Stop
<1>3. \A p \in Starters : ~(Reads(p) \/ SaveMigrated(p) \/ GenerateRefresh(p) \/ IssueAccess(p)
                            \/ WriteSession(p) \/ Listen(p))
  BY ReadsFrame, StarterFrame DEF Listen
<1>4. \A g \in Handlers : ~\E step \in {"awaitLock", "authenticate"} : Receive(g, step)
  BY <1>1 DEF Receive, TypeOK
<1>5. \A g \in Handlers : ~LockRefresh(g) /\ ~Writes(g) /\ ~Ends(g) /\ ~Checks(g)
  BY <1>1 DEF LockRefresh, Refused, Writes, SaveAccess, SaveRefresh, SaveSession, Ends, ReplyPair,
     Refuse, ReplyResult, Finish, Checks, Authenticate, CheckRequest, TypeOK
<1>6. \A g \in Handlers : Swap(g) => g = h
  BY <1>1 DEF Swap, TypeOK
<1> QED
  BY <1>1, <1>2, <1>3, <1>4, <1>5, <1>6 DEF StepKinds, vars, server, RemoveFiles, Tick

\* A rotation spends the refresh token in use for a pair that was never accepted, and no other
\* is in flight, whatever the disk, the operator and other processes do.
RotationReplacesPair ==
    [][\A h \in Handlers :
          (pc[h] = "swap" /\ pc'[h] = "replyPair") =>
              /\ bearer[h] = refreshToken
              /\ {accessToken, refreshToken} \subseteq retired'
              /\ {accessToken', refreshToken'} \cap retired' = {}
              /\ \A g \in Handlers \ {h} : pc[g] \notin Rotating]_vars

THEOREM RotatesAlone == Spec => RotationReplacesPair
<1> DEFINE Replaces ==
             \A h \in Handlers :
                 (pc[h] = "swap" /\ pc'[h] = "replyPair") =>
                     /\ bearer[h] = refreshToken
                     /\ {accessToken, refreshToken} \subseteq retired'
                     /\ {accessToken', refreshToken'} \cap retired' = {}
                     /\ \A g \in Handlers \ {h} : pc[g] \notin Rotating
<1>1. AnyInv /\ [Next]_vars => [Replaces]_vars
  <2> SUFFICES ASSUME AnyInv, Next, NEW h \in Handlers, pc[h] = "swap", pc'[h] = "replyPair"
               PROVE  /\ bearer[h] = refreshToken
                      /\ {accessToken, refreshToken} \subseteq retired'
                      /\ {accessToken', refreshToken'} \cap retired' = {}
                      /\ \A g \in Handlers \ {h} : pc[g] \notin Rotating
    BY DEF vars
  <2>1. Swap(h)
    BY OnlySwapSwaps
  <2> QED
    BY <2>1 DEF Swap, AnyInv, PairInv, LockInv, PreSwap, Rotating
<1>2. Spec => [][Replaces]_vars
  BY <1>1, AnyInvariance, PTL DEF Spec
<1> QED
  BY <1>2 DEF RotationReplacesPair

-----------------------------------------------------------------------------
(* What holds of the access token until processes cross, whatever the disk and the *)
(* operator do.                                                                    *)

\* What has happened stays.
LEMMA CrossedStays == [Next]_vars => (crossed => crossed')
<1> SUFFICES ASSUME StepKinds, crossed PROVE crossed'
  BY StepSplit
<1>1. CASE UNCHANGED vars
  BY <1>1 DEF vars, starting
<1>2. ASSUME NEW p \in Starters, Reads(p) PROVE crossed'
  BY <1>2, ReadsFrame
<1>3. ASSUME NEW p \in Starters, SaveMigrated(p) \/ GenerateRefresh(p) \/ Listen(p) PROVE crossed'
  BY <1>3 DEF SaveMigrated, GenerateRefresh, Listen
<1>4. ASSUME NEW p \in Starters, IssueAccess(p) \/ WriteSession(p) PROVE crossed'
  BY <1>4 DEF IssueAccess, WriteSession
<1>5. CASE Stop
  BY <1>5 DEF Stop, starting
<1>6. ASSUME NEW S \in Removals, RemoveFiles(S) PROVE crossed'
  BY <1>6 DEF RemoveFiles, starting
<1>7. ASSUME NEW k \in Expiring, Tick(k) PROVE crossed'
  BY <1>7 DEF Tick, starting
<1>8. ASSUME NEW h \in Handlers,
             \/ \E step \in {"awaitLock", "authenticate"} : Receive(h, step)
             \/ LockRefresh(h) \/ Writes(h) \/ Swap(h) \/ Ends(h) \/ Checks(h)
      PROVE  crossed'
  BY <1>8, HandlerFrame
<1> QED
  BY <1>1, <1>2, <1>3, <1>4, <1>5, <1>6, <1>7, <1>8 DEF StepKinds

\* A process that migrates without crossing finds no other one that has its tokens.
LEMMA MigratesAlone ==
    ASSUME AnyInv, NEW p \in Starters, SaveMigrated(p), ~crossed'
    PROVE  \/ disk' = disk /\ outdated' = outdated
           \/ /\ disk["refresh"] = NoToken /\ disk' = [disk EXCEPT !["refresh"] = loaded[p]]
              /\ ~serving /\ \A q \in Starters : phase[q] \notin Loaded
<1>1. ASSUME p \notin outdated PROVE disk["refresh"] = NoToken /\ ~serving /\ \A q \in Starters : phase[q] \notin Loaded
  BY <1>1, TokenFacts DEF SaveMigrated, AnyInv, ReliedInv
<1> QED
  BY <1>1 DEF SaveMigrated, Saved, SaveFailed

\* The access token of every process is one of its own.
LEMMA NewStep == AnyInv /\ NewInv /\ [Next]_vars /\ ~crossed' => NewInv'
<1> SUFFICES ASSUME AnyInv, NewInv, StepKinds, ~crossed' PROVE NewInv'
  BY StepSplit
<1> USE DaemonAssumption, TokenFacts DEF Loaded, Pending
<1>a. TypeOK /\ MemoryInv /\ KnownInv /\ PairInv /\ LockInv
  BY DEF AnyInv
<1>b. \A p \in Starters : phase[p] \in Pending =>
         issued[p] \in Token /\ issued[p].kind = "access" /\ Known(issued[p], minted)
  BY <1>a DEF MemoryInv, KnownInv
<1>1. ASSUME UNCHANGED <<phase, loaded, issued, retired, accessToken, refreshToken, fresh>>,
             disk'["refresh"] = disk["refresh"],
             \A h \in Handlers : pc'[h] \in Rotating => pc[h] \in Rotating
      PROVE  NewInv'
  BY <1>1 DEF NewInv
<1>2. CASE UNCHANGED vars
  BY <1>1, <1>2 DEF vars, starting, server, history
<1>3. ASSUME NEW p \in Starters, Reads(p) PROVE NewInv'
  <2>1. \A q \in Starters :
           /\ phase'[q] \in Pending => phase[q] \in Pending /\ issued'[q] = issued[q]
           /\ phase'[q] \in Loaded =>
                 \/ phase[q] \in Loaded /\ loaded'[q] = loaded[q]
                 \/ loaded'[q] = disk["refresh"]
    BY <1>a, <1>3 DEF Reads, StartProcess, StatRefresh, LoadLegacy, ReuseRefresh, MissRefresh,
       FailToListen, Die, Exit, Go, TypeOK
  <2> QED
    BY <1>3, <2>1, ReadsFrame DEF NewInv
<1>4. ASSUME NEW p \in Starters, SaveMigrated(p) PROVE NewInv'
  <2>1. /\ UNCHANGED <<issued, retired, accessToken, refreshToken, fresh, pc>>
        /\ \A q \in Starters : phase'[q] \in Loaded => phase[q] \in Loaded /\ loaded'[q] = loaded[q]
        /\ \A q \in Starters : phase'[q] \in Pending => phase[q] \in Pending
    BY <1>a, <1>4 DEF SaveMigrated, Go, TypeOK, server, history
  <2>2. disk' = disk \/ \A q \in Starters : phase[q] \notin Loaded
    BY <1>4, MigratesAlone
  <2> QED
    BY <2>1, <2>2 DEF NewInv
<1>5. ASSUME NEW p \in Starters, GenerateRefresh(p) PROVE NewInv'
  <2>1. /\ UNCHANGED <<retired, accessToken, refreshToken, fresh, pc>>
        /\ disk'["refresh"] \in {disk["refresh"], Refresh(minted + 1)}
        /\ \A q \in Starters : phase'[q] \in Pending => phase[q] \in Pending /\ issued'[q] = issued[q]
        /\ \A q \in Starters : phase'[q] \in Loaded =>
              \/ phase[q] \in Loaded /\ loaded'[q] = loaded[q]
              \/ loaded'[q] = Refresh(minted + 1)
    BY <1>a, <1>5 DEF GenerateRefresh, Saved, SaveFailed, Exit, Go, TypeOK, File, server, history
  <2>2. \A q \in Starters : phase[q] \in Pending => issued[q] # Refresh(minted + 1)
    BY <1>b DEF Refresh
  <2> QED
    BY <2>1, <2>2 DEF NewInv
<1>6. ASSUME NEW p \in Starters, IssueAccess(p) PROVE NewInv'
  <2>1. /\ UNCHANGED <<retired, accessToken, refreshToken, fresh, pc>>
        /\ disk'["refresh"] = disk["refresh"]
        /\ \A q \in Starters : phase'[q] \in Loaded => phase[q] \in Loaded /\ loaded'[q] = loaded[q]
        /\ \A q \in Starters : phase'[q] \in Pending =>
              \/ phase[q] \in Pending /\ issued'[q] = issued[q]
              \/ q = p /\ issued'[q] = Access(minted + 1)
    BY <1>a, <1>6 DEF IssueAccess, Saved, SaveFailed, Exit, Go, TypeOK, File, server, history
  <2>2. /\ Access(minted + 1) \notin retired \cup {accessToken, refreshToken, disk["refresh"]}
        /\ \A h \in Handlers : pc[h] \in Rotating => Access(fresh[h]) # Access(minted + 1)
        /\ \A q \in Starters : phase[q] \in Loaded => loaded[q] # Access(minted + 1)
        /\ \A q \in Starters : phase[q] \in Pending => issued[q] # Access(minted + 1)
    <3>1. \A t \in Token : Known(t, minted) => t # Access(minted + 1)
      BY <1>a, NextIsNew
    <3>2. Access(minted + 1) \in Token
      BY <1>a, NextIsNew
    <3>3. Access(minted + 1) \notin retired \cup {accessToken, refreshToken, disk["refresh"]}
      BY <1>a, <3>1, <3>2 DEF KnownInv, TypeOK, File
    <3>4. \A h \in Handlers : pc[h] \in Rotating => Access(fresh[h]) # Access(minted + 1)
      BY <3>1, PairKnown
    <3>5. \A q \in Starters : phase[q] \in Loaded => loaded[q] # Access(minted + 1)
      BY <1>a, <3>1 DEF MemoryInv, KnownInv
    <3>6. \A q \in Starters : phase[q] \in Pending => issued[q] # Access(minted + 1)
      BY <1>b, <3>1
    <3> QED
      BY <3>3, <3>4, <3>5, <3>6
  <2> QED
    BY <2>1, <2>2 DEF NewInv
<1>7. ASSUME NEW p \in Starters, WriteSession(p) PROVE NewInv'
  <2>1. /\ UNCHANGED <<issued, loaded, retired, accessToken, refreshToken, fresh, pc>>
        /\ disk'["refresh"] = disk["refresh"]
        /\ \A q \in Starters : phase'[q] \in Loaded => phase[q] \in Loaded
        /\ \A q \in Starters : phase'[q] \in Pending => phase[q] \in Pending
    BY <1>a, <1>7 DEF WriteSession, Saved, SaveFailed, Go, TypeOK, File, server, history
  <2> QED
    BY <2>1 DEF NewInv
<1>8. ASSUME NEW p \in Starters, Listen(p) PROVE NewInv'
  <2>1. /\ UNCHANGED <<disk, retired, fresh, pc>> /\ phase[p] = "listen"
        /\ accessToken' = issued[p] /\ refreshToken' = loaded[p]
        /\ \A q \in Starters : phase'[q] \in Loaded => q # p /\ phase[q] \in Loaded /\ loaded'[q] = loaded[q]
        /\ \A q \in Starters : phase'[q] \in Pending => q # p /\ phase[q] \in Pending /\ issued'[q] = issued[q]
    BY <1>a, <1>8 DEF Listen, Exit, Go, TypeOK, history
  <2> QED
    BY <2>1 DEF NewInv
<1>9. CASE Stop
  <2>1. /\ UNCHANGED <<disk, phase, loaded, issued>> /\ accessToken' = NoToken /\ refreshToken' = NoToken
        /\ \A h \in Handlers : pc'[h] = "idle"
        /\ \A t \in retired' : \/ t \in retired \cup {accessToken, refreshToken}
                               \/ \E h \in Handlers : pc[h] \in Rotating /\ t = Access(fresh[h])
    BY <1>9 DEF Stop, starting
  <2> QED
    BY <1>b, <2>1 DEF NewInv, Rotating, PreSwap
<1>10. ASSUME NEW S \in Removals, RemoveFiles(S) PROVE NewInv'
  BY <1>a, <1>10 DEF NewInv, RemoveFiles, NobodyRuns, MemoryInv, starting, server
<1>11. ASSUME NEW k \in Expiring, Tick(k) PROVE NewInv'
  BY <1>1, <1>11 DEF Tick, starting, server, history
<1>12. ASSUME NEW h \in Handlers,
              \/ \E step \in {"awaitLock", "authenticate"} : Receive(h, step)
              \/ Checks(h)
       PROVE  NewInv'
  <2>1. /\ UNCHANGED <<disk, accessToken, refreshToken, retired, fresh>>
        /\ \A g \in Handlers : pc'[g] \in Rotating => pc[g] \in Rotating
    BY <1>a, <1>12 DEF Receive, Checks, Authenticate, Refused, CheckRequest, Rotating, PreSwap, TypeOK, history
  <2> QED
    BY <1>1, <1>12, <2>1, HandlerFrame
<1>13. ASSUME NEW h \in Handlers, LockRefresh(h) PROVE NewInv'
  <2>1. /\ UNCHANGED <<disk, accessToken, refreshToken, retired, phase, loaded, issued>>
        /\ \A g \in Handlers : pc'[g] \in Rotating =>
              \/ pc[g] \in Rotating /\ fresh'[g] = fresh[g]
              \/ fresh'[g] = minted + 1
    BY <1>a, <1>13 DEF LockRefresh, Refused, Rotating, PreSwap, TypeOK, starting, history
  <2>2. \A q \in Starters : phase[q] \in Pending => issued[q] # Access(minted + 1)
    BY <1>a, <1>b, NextIsNew
  <2> QED
    BY <2>1, <2>2 DEF NewInv
<1>14. ASSUME NEW h \in Handlers, Writes(h) PROVE NewInv'
  <2>1. /\ UNCHANGED <<accessToken, refreshToken, retired, fresh>>
        /\ disk'["refresh"] \in {disk["refresh"], Refresh(fresh[h])}
        /\ \A g \in Handlers : pc'[g] \in Rotating => pc[g] \in Rotating
    BY <1>a, <1>14 DEF Writes, SaveAccess, SaveRefresh, SaveSession, Saved, SaveFailed, Rotating,
       PreSwap, TypeOK, File, history
  <2>2. \A q \in Starters : phase[q] \in Pending => issued[q] # Refresh(fresh[h])
    BY <1>b DEF Refresh
  <2> QED
    BY <1>14, <2>1, <2>2, HandlerFrame DEF NewInv
<1>15. ASSUME NEW h \in Handlers, Swap(h) PROVE NewInv'
  <2>1. /\ UNCHANGED <<disk, phase, loaded, issued, fresh>> /\ pc[h] \in PreSwap \cap Rotating
        /\ accessToken' = Access(fresh[h]) /\ refreshToken' = Refresh(fresh[h])
        /\ retired' = retired \cup {accessToken, refreshToken}
        /\ \A g \in Handlers : pc'[g] \in Rotating => pc[g] \in Rotating
    BY <1>a, <1>15 DEF Swap, Rotating, PreSwap, TypeOK, starting
  <2>2. /\ \A q \in Starters : phase[q] \in Pending => issued[q] # Refresh(fresh[h])
        /\ Access(fresh[h]) # Refresh(fresh[h])
    BY <1>b DEF Refresh, Access
  <2>3. Access(fresh[h]) \notin retired \cup {accessToken, refreshToken}
    BY <1>a, <2>1 DEF PairInv
  <2> QED
    BY <2>1, <2>2, <2>3 DEF NewInv
<1>16. ASSUME NEW h \in Handlers, Ends(h) PROVE NewInv'
  <2>1. /\ UNCHANGED <<disk, accessToken, refreshToken, retired>>
        /\ \A g \in Handlers : pc'[g] \in Rotating => pc[g] \in Rotating /\ fresh'[g] = fresh[g]
    BY <1>a, <1>16 DEF Ends, ReplyPair, Refuse, ReplyResult, Finish, Rotating, PreSwap, TypeOK
  <2> QED
    BY <1>16, <2>1, HandlerFrame DEF NewInv
<1> QED
  BY <1>2, <1>3, <1>4, <1>5, <1>6, <1>7, <1>8, <1>9, <1>10, <1>11, <1>12, <1>13, <1>14, <1>15,
     <1>16 DEF StepKinds

\* A clock that moves on revives no token.
LEMMA ExpiredForGood ==
    ASSUME TypeOK, NEW k \in Expiring, Tick(k), NEW t \in Token, IsExpired(t, expired)
    PROVE  IsExpired(t, expired')
<1>1. \A j \in Kind : expired'[j] \in Nat /\ expired[j] \in Nat /\ expired'[j] >= expired[j]
  BY DEF Tick, TypeOK
<1> QED
  BY <1>1 DEF IsExpired, Token

\* A stale request is not let through by the access check.
LEMMA StaleStep == AnyInv /\ NewInv /\ StaleInv /\ [Next]_vars => StaleInv'
<1> SUFFICES ASSUME AnyInv, NewInv, StaleInv, StepKinds PROVE StaleInv'
  BY StepSplit
<1> USE DaemonAssumption, TokenFacts
<1>a. TypeOK /\ MemoryInv
  BY DEF AnyInv
<1>1. ASSUME retired \subseteq retired', UNCHANGED <<stale, bearer, expired>>,
             \A h \in Handlers : pc'[h] \in {"admitted", "run"} => pc[h] \in {"admitted", "run"}
      PROVE  StaleInv'
  BY <1>1 DEF StaleInv, Spent
<1>2. CASE UNCHANGED vars
  BY <1>1, <1>2 DEF vars, server, history
<1>3. ASSUME NEW p \in Starters, Reads(p) PROVE StaleInv'
  BY <1>1, <1>3, ReadsFrame
<1>4. ASSUME NEW p \in Starters,
             SaveMigrated(p) \/ GenerateRefresh(p) \/ IssueAccess(p) \/ WriteSession(p)
      PROVE  StaleInv'
  BY <1>1, <1>4, StarterFrame
<1>5. ASSUME NEW p \in Starters, Listen(p) PROVE StaleInv'
  BY <1>1, <1>5 DEF Listen, history
<1>6. CASE Stop
  BY <1>6 DEF StaleInv, Stop
<1>7. ASSUME NEW S \in Removals, RemoveFiles(S) PROVE StaleInv'
  BY <1>1, <1>7 DEF RemoveFiles, server
<1>8. ASSUME NEW k \in Expiring, Tick(k) PROVE StaleInv'
  <2>1. UNCHANGED <<retired, stale, bearer, pc>>
    BY <1>8 DEF Tick, server, history
  <2>2. \A t : Spent(t) => Spent(t)'
    BY <1>a, <1>8, <2>1, ExpiredForGood DEF Spent
  <2> QED
    BY <2>1, <2>2 DEF StaleInv
<1>9. ASSUME NEW h \in Handlers, NEW step \in {"awaitLock", "authenticate"}, Receive(h, step)
      PROVE  StaleInv'
  <2>1. PICK b \in Bearers :
           /\ bearer' = [bearer EXCEPT ![h] = b]
           /\ stale' = [stale EXCEPT ![h] = Spent(b)]
           /\ pc' = [pc EXCEPT ![h] = IF b = NoToken THEN "refuse" ELSE step]
    BY <1>9 DEF Receive
  <2>2. \A t : Spent(t) => Spent(t)'
    BY <1>9 DEF Receive, history, Spent
  <2>3. ASSUME NEW g \in Handlers, stale'[g]
        PROVE  Spent(bearer'[g]) /\ pc'[g] \notin {"admitted", "run"}
    <3>1. CASE g = h
      BY <1>a, <2>1, <2>3, <3>1 DEF TypeOK
    <3>2. CASE g # h
      BY <1>a, <2>1, <2>3, <3>2 DEF TypeOK, StaleInv
    <3> QED
      BY <3>1, <3>2
  <2> QED
    BY <2>2, <2>3 DEF StaleInv
<1>10. ASSUME NEW h \in Handlers, LockRefresh(h) \/ Writes(h) \/ Swap(h) PROVE StaleInv'
  <2>1. CASE LockRefresh(h)
    <3>1. /\ UNCHANGED <<retired, expired>>
          /\ pc'[h] \notin {"admitted", "run"} /\ (stale'[h] => stale[h] /\ bearer'[h] = bearer[h])
          /\ \A g \in Handlers \ {h} :
                pc'[g] = pc[g] /\ stale'[g] = stale[g] /\ bearer'[g] = bearer[g]
      BY <1>a, <2>1 DEF LockRefresh, Refused, TypeOK, history
    <3> QED
      BY <3>1 DEF StaleInv, Spent
  <2>2. CASE Writes(h) \/ Swap(h)
    BY <1>1, <1>a, <2>2 DEF Writes, SaveAccess, SaveRefresh, SaveSession, Swap, TypeOK, history
  <2> QED
    BY <1>10, <2>1, <2>2
<1>11. ASSUME NEW h \in Handlers, Ends(h) PROVE StaleInv'
  BY <1>a, <1>11 DEF StaleInv, Spent, Ends, ReplyPair, Refuse, ReplyResult, Finish, TypeOK
<1>12. ASSUME NEW h \in Handlers, Checks(h) PROVE StaleInv'
  BY <1>a, <1>12 DEF StaleInv, Spent, NewInv, Checks, Authenticate, Refused, CheckRequest, TypeOK, MemoryInv,
     history
<1> QED
  BY <1>2, <1>3, <1>4, <1>5, <1>6, <1>7, <1>8, <1>9, <1>10, <1>11, <1>12 DEF StepKinds

LEMMA ApartInvariance == Spec => []ApartInv
<1>1. Init => NewInv /\ StaleInv
  BY TokenFacts DEF Init, NewInv, StaleInv, Pending
<1>2. ApartInv /\ [Next]_vars => ApartInv'
  BY AnyStep, NewStep, StaleStep, CrossedStays DEF ApartInv
<1> QED
  BY <1>1, <1>2, AnyInit, PTL DEF Spec, ApartInv

\* Until processes cross, what a serving daemon accepts as its access token was never accepted
\* before and is not its refresh token, whatever the disk and the operator do: a save that
\* fails may revive a refresh token, never an access token.
AccessTokenNew == crossed \/ (serving => accessToken \notin retired \cup {refreshToken})

THEOREM AccessNeverRevived == Spec => []AccessTokenNew
<1>1. ApartInv => AccessTokenNew
  BY DEF ApartInv, AnyInv, NewInv, MemoryInv, AccessTokenNew
<1> QED
  BY <1>1, ApartInvariance, PTL

\* Until processes cross, a request whose token was retired or expired before it arrived runs no op,
\* whatever the disk and the operator do.
StaleNeverRuns == crossed \/ \A h \in Handlers : stale[h] => pc[h] \notin {"admitted", "run"}

THEOREM StaleNeverRun == Spec => []StaleNeverRuns
<1>1. ApartInv => StaleNeverRuns
  BY DEF ApartInv, StaleInv, StaleNeverRuns
<1> QED
  BY <1>1, ApartInvariance, PTL

-----------------------------------------------------------------------------
(* What a revocation as documented adds. *)

\* No step puts an access token where a refresh token belongs.
LEMMA KindStep == Documented /\ AnyInv /\ KindInv /\ [Next]_vars /\ ~crossed' => KindInv'
<1> SUFFICES ASSUME Documented, AnyInv, KindInv, StepKinds, ~crossed' PROVE KindInv'
  BY StepSplit
<1> USE DaemonAssumption, TokenFacts DEF KindInv, Loaded, File
<1>a. TypeOK /\ MemoryInv /\ ReliedInv
  BY DEF AnyInv
<1>1. ASSUME UNCHANGED <<disk, refreshToken, phase, loaded>> PROVE KindInv'
  BY <1>1
<1>2. CASE UNCHANGED vars
  BY <1>1, <1>2 DEF vars, starting, server
<1>3. ASSUME NEW p \in Starters, Reads(p) PROVE KindInv'
  <2>1. \A q \in Starters : phase'[q] \in Loaded =>
           \/ phase[q] \in Loaded /\ loaded'[q] = loaded[q]
           \/ loaded'[q] = disk["refresh"] /\ disk["refresh"] \in Token
    BY <1>a, <1>3 DEF Reads, StartProcess, StatRefresh, LoadLegacy, ReuseRefresh, MissRefresh,
       FailToListen, Die, Exit, Go, TypeOK, Usable
  <2>2. \A q \in Starters : phase'[q] = "saveMigrated" =>
           \/ phase[q] = "saveMigrated" /\ loaded'[q] = loaded[q]
           \/ loaded'[q] = disk["session"]
    BY <1>a, <1>3 DEF Reads, StartProcess, StatRefresh, LoadLegacy, ReuseRefresh, MissRefresh,
       FailToListen, Die, Exit, Go, TypeOK
  <2> QED
    BY <1>3, <2>1, <2>2, ReadsFrame
<1>4. ASSUME NEW p \in Starters, SaveMigrated(p) PROVE KindInv'
  <2>1. /\ UNCHANGED refreshToken /\ phase[p] = "saveMigrated" /\ loaded[p] \in Token
        /\ \A q \in Starters : /\ phase'[q] \in Loaded \cup {"saveMigrated"} => q # p
                               /\ q # p => phase'[q] = phase[q] /\ loaded'[q] = loaded[q]
    BY <1>a, <1>4 DEF SaveMigrated, Go, TypeOK, MemoryInv, server
  <2>2. \/ disk' = disk
        \/ disk["refresh"] = NoToken /\ disk' = [disk EXCEPT !["refresh"] = loaded[p]]
    BY <1>4, MigratesAlone
  <2>3. disk["refresh"] = NoToken => loaded[p].kind = "legacy"
    BY <2>1
  <2>4. CASE disk' = disk
    BY <2>1, <2>4
  <2>5. CASE disk["refresh"] = NoToken /\ disk' = [disk EXCEPT !["refresh"] = loaded[p]]
    <3>1. disk'["refresh"] = loaded[p]
      BY <1>a, <2>5 DEF TypeOK
    <3> QED
      BY <2>1, <2>3, <2>5, <3>1
  <2> QED
    BY <2>2, <2>4, <2>5
<1>5. ASSUME NEW p \in Starters, GenerateRefresh(p) PROVE KindInv'
  <2>1. /\ UNCHANGED refreshToken /\ disk'["session"] = disk["session"]
        /\ disk'["refresh"] \in {disk["refresh"], Refresh(minted + 1)}
        /\ \A q \in Starters : phase'[q] \in Loaded =>
              \/ phase[q] \in Loaded /\ loaded'[q] = loaded[q]
              \/ loaded'[q] = Refresh(minted + 1)
        /\ \A q \in Starters : phase'[q] = "saveMigrated" => phase[q] = "saveMigrated" /\ loaded'[q] = loaded[q]
    BY <1>a, <1>5 DEF GenerateRefresh, Saved, SaveFailed, Exit, Go, TypeOK, server
  <2>2. Refresh(minted + 1).kind = "refresh" /\ Refresh(minted + 1) \in Token
    BY <1>a, NextIsNew DEF Refresh
  <2> QED
    BY <2>1, <2>2
<1>6. ASSUME NEW p \in Starters, IssueAccess(p) \/ WriteSession(p) PROVE KindInv'
  <2>1. /\ UNCHANGED refreshToken /\ disk'["refresh"] = disk["refresh"]
        /\ disk["refresh"] \in Token
        /\ \A q \in Starters : phase'[q] \in Loaded \cup {"saveMigrated"} =>
              (phase[q] \in Loaded <=> phase'[q] \in Loaded) /\ loaded'[q] = loaded[q]
    BY <1>a, <1>6 DEF IssueAccess, WriteSession, Saved, SaveFailed, Exit, Go, TypeOK, server, ReliedInv
  <2> QED
    BY <2>1
<1>7. ASSUME NEW p \in Starters, Listen(p) PROVE KindInv'
  <2>1. /\ UNCHANGED disk /\ refreshToken' = loaded[p] /\ phase[p] \in Loaded
        /\ \A q \in Starters : phase'[q] # "none" => phase'[q] = phase[q] /\ loaded'[q] = loaded[q]
    BY <1>a, <1>7 DEF Listen, Exit, Go, TypeOK
  <2> QED
    BY <2>1
<1>8. CASE Stop
  BY <1>8 DEF Stop, starting
<1>9. ASSUME NEW S \in Removals, RemoveFiles(S) PROVE KindInv'
  BY <1>9 DEF RemoveFiles, NobodyRuns, Documented, starting, server
<1>10. ASSUME NEW k \in Expiring, Tick(k) PROVE KindInv'
  BY <1>1, <1>10 DEF Tick, starting, server
<1>11. ASSUME NEW h \in Handlers,
              \/ \E step \in {"awaitLock", "authenticate"} : Receive(h, step)
              \/ LockRefresh(h) \/ Ends(h) \/ Checks(h)
       PROVE  KindInv'
  BY <1>1, <1>11 DEF Receive, LockRefresh, Refused, Ends, ReplyPair, Refuse, ReplyResult, Finish, Checks,
     Authenticate, CheckRequest, starting
<1>12. ASSUME NEW h \in Handlers, Writes(h) PROVE KindInv'
  <2>1. /\ serving /\ UNCHANGED <<refreshToken, phase, loaded>>
        /\ Refresh(fresh[h]) \in Token /\ Refresh(fresh[h]).kind = "refresh"
    BY <1>a, <1>12 DEF Writes, SaveAccess, SaveRefresh, SaveSession, MemoryInv, TypeOK, starting, Refresh
  <2>2. disk'["refresh"] \in {disk["refresh"], Refresh(fresh[h])}
    BY <1>a, <1>12 DEF Writes, SaveAccess, SaveRefresh, SaveSession, Saved, SaveFailed, TypeOK
  <2>3. disk["refresh"] \in Token
    BY <1>a, <2>1 DEF ReliedInv
  <2> QED
    BY <2>1, <2>2, <2>3
<1>13. ASSUME NEW h \in Handlers, Swap(h) PROVE KindInv'
  BY <1>13 DEF Swap, Refresh, starting
<1> QED
  BY <1>2, <1>3, <1>4, <1>5, <1>6, <1>7, <1>8, <1>9, <1>10, <1>11, <1>12, <1>13 DEF StepKinds

LEMMA KindInit == Init => KindInv
  BY TokenFacts DEF Init, InitialDisk, File, KindInv, Loaded, Legacy

\* Until processes cross no access token ever becomes the current refresh token, whichever
\* saves fail: the operator has to delete session.token together with refresh.token, as the
\* documentation says.
THEOREM KindsApart == Documented => (Spec => []KindsKeptApart)
<1> SUFFICES ASSUME Documented PROVE Spec => []KindsKeptApart
  OBVIOUS
<1>1. AnyInv /\ (crossed \/ KindInv) /\ [Next]_vars => (crossed \/ KindInv)'
  BY KindStep, CrossedStays
<1>2. crossed \/ KindInv => KindsKeptApart
  BY DEF KindInv, KindsKeptApart
<1> QED
  BY <1>1, <1>2, KindInit, AnyInvariance, PTL DEF Spec

-----------------------------------------------------------------------------
(* What saves that succeed add to that. *)

\* Every save of a dependable disk succeeds.
LEMMA NoSaveFails == Dependable => ~SaveFailed
  BY DEF Dependable, SaveFailed

\* A process that runs alone writes its files one after the other, and a rotation does.
LEMMA AloneStep == Dependable /\ AnyInv /\ AloneInv /\ [Next]_vars => AloneInv'
<1> SUFFICES ASSUME Dependable, AnyInv, AloneInv, StepKinds, ~company' PROVE AloneInv'
  BY StepSplit DEF AloneInv
<1> USE DaemonAssumption, TokenFacts, NoSaveFails DEF AloneInv, Loaded, Pending, File
<1>a. TypeOK /\ MemoryInv /\ LockInv /\ ReliedInv
  BY DEF AnyInv
<1>1. CASE UNCHANGED vars
  BY <1>1 DEF vars, starting, server
<1>2. ASSUME NEW p \in Starters, StartProcess(p) PROVE AloneInv'
  <2>1. /\ ~serving' /\ disk' = disk /\ \A h \in Handlers : pc'[h] = "idle"
        /\ \A q \in Starters : IF q = p THEN phase'[q] = "migrate" ELSE phase'[q] = "none"
    BY <1>a, <1>2 DEF StartProcess, NobodyRuns, Go, TypeOK, MemoryInv, server
  <2> QED
    BY <2>1
<1>3. ASSUME NEW p \in Starters, Reads(p), ~StartProcess(p) PROVE AloneInv'
  <2>1. ~company /\ UNCHANGED <<disk, serving, accessToken, refreshToken, pc, fresh>>
    BY <1>3, ReadsFrame
  <2>2. /\ phase[p] # "none"
        /\ \A q \in Starters \ {p} :
              phase'[q] = phase[q] /\ loaded'[q] = loaded[q] /\ issued'[q] = issued[q]
    BY <1>a, <1>3 DEF Reads, StatRefresh, LoadLegacy, ReuseRefresh, MissRefresh, FailToListen,
       Die, Exit, Go, TypeOK
  <2>3. \/ phase'[p] \in Phase \ Loaded
        \/ phase'[p] = "issueAccess" /\ loaded'[p] = disk["refresh"]
    BY <1>a, <1>3 DEF Reads, StatRefresh, LoadLegacy, ReuseRefresh, MissRefresh, FailToListen,
       Die, Exit, Go, TypeOK, Phase
  <2>4. ~serving /\ \A q \in Starters \ {p} : phase[q] = "none"
    BY <2>1, <2>2
  <2>5. \A h \in Handlers : pc[h] = "idle"
    BY <1>a, <2>4 DEF MemoryInv
  <2> QED
    BY <2>1, <2>2, <2>3, <2>4, <2>5
<1>4. ASSUME NEW p \in Starters,
             SaveMigrated(p) \/ GenerateRefresh(p) \/ IssueAccess(p) \/ WriteSession(p)
      PROVE  AloneInv'
  <2>1. ~company /\ UNCHANGED <<serving, accessToken, refreshToken, pc, fresh>>
    BY <1>4 DEF SaveMigrated, GenerateRefresh, IssueAccess, WriteSession, server
  <2>2. /\ phase[p] # "none"
        /\ \A q \in Starters \ {p} :
              phase'[q] = phase[q] /\ loaded'[q] = loaded[q] /\ issued'[q] = issued[q]
    BY <1>a, <1>4 DEF SaveMigrated, GenerateRefresh, IssueAccess, WriteSession, Go, TypeOK
  <2>3. ~serving /\ \A q \in Starters \ {p} : phase[q] = "none"
    BY <2>1, <2>2
  <2>4. \A h \in Handlers : pc[h] = "idle"
    BY <1>a, <2>3 DEF MemoryInv
  <2>5. CASE SaveMigrated(p)
    <3>1. phase'[p] = "loadRefresh"
      BY <1>a, <2>5 DEF SaveMigrated, Go, TypeOK
    <3> QED
      BY <2>1, <2>2, <2>3, <2>4, <3>1
  <2>6. CASE GenerateRefresh(p)
    <3>1. phase'[p] = "issueAccess" /\ disk'["refresh"] = loaded'[p]
      BY <1>a, <2>6 DEF GenerateRefresh, Saved, Go, TypeOK
    <3> QED
      BY <2>1, <2>2, <2>3, <2>4, <3>1
  <2>7. CASE IssueAccess(p)
    <3>1. /\ phase[p] = "issueAccess" /\ phase'[p] = "writeSession" /\ disk'["access"] = issued'[p]
          /\ disk'["refresh"] = disk["refresh"] /\ loaded'[p] = loaded[p]
      BY <1>a, <2>7 DEF IssueAccess, Saved, Go, TypeOK
    <3> QED
      BY <2>1, <2>2, <2>3, <2>4, <3>1
  <2>8. CASE WriteSession(p)
    <3>1. /\ phase[p] = "writeSession" /\ phase'[p] = "listen" /\ disk'["session"] = issued'[p]
          /\ disk'["refresh"] = disk["refresh"] /\ disk'["access"] = disk["access"]
          /\ loaded'[p] = loaded[p] /\ issued'[p] = issued[p]
      BY <1>a, <2>8 DEF WriteSession, Saved, Go, TypeOK
    <3> QED
      BY <2>1, <2>2, <2>3, <2>4, <3>1
  <2> QED
    BY <1>4, <2>5, <2>6, <2>7, <2>8
<1>5. ASSUME NEW p \in Starters, Listen(p) PROVE AloneInv'
  <2>1. /\ ~company /\ UNCHANGED <<disk, pc, fresh>> /\ phase[p] = "listen" /\ phase'[p] = "none"
        /\ accessToken' = issued[p] /\ refreshToken' = loaded[p]
        /\ \A q \in Starters \ {p} : phase'[q] = phase[q]
    BY <1>a, <1>5 DEF Listen, Exit, Go, TypeOK
  <2>2. \A q \in Starters : phase'[q] = "none"
    BY <2>1
  <2>3. \A h \in Handlers : pc[h] = "idle"
    BY <1>a, <1>5 DEF Listen, MemoryInv
  <2> QED
    BY <2>1, <2>2, <2>3
<1>6. CASE Stop
  BY <1>a, <1>6 DEF Stop, starting
<1>7. ASSUME NEW S \in Removals, RemoveFiles(S) PROVE AloneInv'
  <2>1. /\ UNCHANGED <<phase, serving, pc>> /\ ~serving /\ \A p \in Starters : phase[p] = "none"
    BY <1>7 DEF RemoveFiles, NobodyRuns, starting, server
  <2>2. \A h \in Handlers : pc[h] = "idle"
    BY <1>a, <2>1 DEF MemoryInv
  <2> QED
    BY <2>1, <2>2
<1>8. ASSUME NEW k \in Expiring, Tick(k) PROVE AloneInv'
  BY <1>8 DEF Tick, starting, server
<1>9. ASSUME NEW h \in Handlers, NEW step \in {"awaitLock", "authenticate"}, Receive(h, step)
      PROVE  AloneInv'
  <2>1. /\ UNCHANGED <<disk, phase, loaded, issued, company, serving, accessToken, refreshToken, fresh>>
        /\ pc[h] = "idle" /\ pc'[h] \notin Rotating
        /\ \A g \in Handlers \ {h} : pc'[g] = pc[g]
    BY <1>a, <1>9 DEF Receive, starting, TypeOK, Rotating, PreSwap
  <2> QED
    BY <2>1 DEF Rotating, PreSwap
<1>10. ASSUME NEW h \in Handlers, LockRefresh(h) PROVE AloneInv'
  <2>1. /\ UNCHANGED <<disk, phase, loaded, issued, company, serving, accessToken, refreshToken>>
        /\ pc[h] \notin Rotating /\ pc'[h] \in {"saveAccess", "refuse"}
        /\ \A g \in Handlers \ {h} : pc'[g] = pc[g] /\ fresh'[g] = fresh[g]
    BY <1>a, <1>10 DEF LockRefresh, Refused, starting, TypeOK, Rotating, PreSwap
  <2> QED
    BY <2>1 DEF Rotating, PreSwap
<1>11. ASSUME NEW h \in Handlers, Writes(h) \/ Swap(h) PROVE AloneInv'
  <2>1. /\ UNCHANGED <<phase, loaded, issued, company, serving, fresh>> /\ ~company
        /\ pc[h] \in PreSwap /\ \A g \in Handlers \ {h} : pc'[g] = pc[g]
    BY <1>a, <1>11 DEF Writes, SaveAccess, SaveRefresh, SaveSession, Swap, starting, TypeOK, PreSwap
  <2>2. serving /\ \A g \in Handlers \ {h} : pc[g] \notin Rotating
    BY <1>a, <2>1 DEF MemoryInv, LockInv, Rotating, PreSwap
  <2>3. \A p \in Starters : phase[p] = "none"
    BY <2>1, <2>2
  <2>4. CASE SaveAccess(h)
    <3>1. /\ pc[h] = "saveAccess" /\ pc'[h] = "saveRefresh" /\ disk'["access"] = Access(fresh[h])
          /\ disk'["refresh"] = disk["refresh"] /\ disk'["session"] = disk["session"]
          /\ UNCHANGED <<accessToken, refreshToken>>
      BY <1>a, <2>4 DEF SaveAccess, Saved, TypeOK
    <3> QED
      BY <2>1, <2>2, <2>3, <3>1 DEF Rotating, PreSwap
  <2>5. CASE SaveRefresh(h)
    <3>1. /\ pc[h] = "saveRefresh" /\ pc'[h] = "saveSession" /\ disk'["refresh"] = Refresh(fresh[h])
          /\ disk'["access"] = disk["access"] /\ disk'["session"] = disk["session"]
          /\ UNCHANGED <<accessToken, refreshToken>>
      BY <1>a, <2>5 DEF SaveRefresh, Saved, TypeOK
    <3> QED
      BY <2>1, <2>2, <2>3, <3>1 DEF Rotating, PreSwap
  <2>6. CASE SaveSession(h)
    <3>1. /\ pc[h] = "saveSession" /\ pc'[h] = "swap" /\ disk'["session"] = Access(fresh[h])
          /\ disk'["access"] = disk["access"] /\ disk'["refresh"] = disk["refresh"]
          /\ UNCHANGED <<accessToken, refreshToken>>
      BY <1>a, <2>6 DEF SaveSession, Saved, TypeOK
    <3> QED
      BY <2>1, <2>2, <2>3, <3>1 DEF Rotating, PreSwap
  <2>7. CASE Swap(h)
    <3>1. /\ pc[h] = "swap" /\ pc'[h] = "replyPair" /\ disk' = disk
          /\ accessToken' = Access(fresh[h]) /\ refreshToken' = Refresh(fresh[h])
      BY <1>a, <2>7 DEF Swap, TypeOK
    <3> QED
      BY <2>1, <2>2, <2>3, <3>1 DEF Rotating, PreSwap
  <2> QED
    BY <1>11, <2>4, <2>5, <2>6, <2>7 DEF Writes
<1>12. ASSUME NEW h \in Handlers, Ends(h) \/ Checks(h) PROVE AloneInv'
  <2>1. /\ UNCHANGED <<disk, phase, loaded, issued, company, serving, accessToken, refreshToken>>
        /\ pc[h] \notin PreSwap /\ pc'[h] \notin Rotating
        /\ \A g \in Handlers \ {h} : pc'[g] = pc[g] /\ fresh'[g] = fresh[g]
    BY <1>a, <1>12 DEF Ends, ReplyPair, Refuse, ReplyResult, Finish, Checks, Authenticate, Refused,
       CheckRequest, starting, TypeOK, Rotating, PreSwap
  <2> QED
    BY <2>1 DEF Rotating, PreSwap
<1> QED
  BY <1>1, <1>2, <1>3, <1>4, <1>5, <1>6, <1>7, <1>8, <1>9, <1>10, <1>11, <1>12 DEF StepKinds

\* What IInv says until processes cross, apart from AloneInv.
Whole ==
    /\ AnyInv /\ NewInv /\ StaleInv /\ KindInv
    /\ RotationInv /\ RetiredInv /\ PromiseInv

\* A process that generates a refresh token without crossing finds none that can be used, and no
\* rotation on its way.
LEMMA GeneratesInNeed ==
    ASSUME Dependable, AnyInv, NEW p \in Starters, GenerateRefresh(p), ~crossed'
    PROVE  /\ ~Usable(disk["refresh"], expired)
           /\ \A h \in Handlers : pc[h] \notin PreSwap
           /\ disk' = [disk EXCEPT !["refresh"] = Refresh(minted + 1)]
           /\ phase' = [phase EXCEPT ![p] = "issueAccess"]
BY NoSaveFails DEF AnyInv, ReliedInv, GenerateRefresh, Saved, Go, RotationInFlight

\* One that comes to serve without crossing serves with the refresh token on disk.
LEMMA ListensWithFile ==
    ASSUME AnyInv, NEW p \in Starters, Listen(p), ~crossed'
    PROVE  /\ loaded[p] = disk["refresh"] /\ disk["refresh"] \in Token
           /\ \A h \in Handlers : pc[h] = "idle"
BY DEF AnyInv, ReliedInv, MemoryInv, Listen, Loaded

\* A rotation in flight writes its files in order, and nobody else disturbs it.
LEMMA RotationStep == Dependable /\ Whole /\ [Next]_vars /\ ~crossed' => RotationInv'
<1> SUFFICES ASSUME Dependable, Whole, StepKinds, ~crossed' PROVE RotationInv'
  BY StepSplit
<1> USE DaemonAssumption, TokenFacts, NoSaveFails
<1>a. TypeOK /\ MemoryInv /\ LockInv /\ ReliedInv /\ PairInv /\ RotationInv
  BY DEF Whole, AnyInv
<1>1. ASSUME UNCHANGED <<serving, refreshToken, expired, pc, fresh, promised>>,
             disk'["refresh"] = disk["refresh"]
      PROVE  RotationInv'
  BY <1>a, <1>1 DEF RotationInv, Superseded
<1>2. CASE UNCHANGED vars
  BY <1>1, <1>2 DEF vars, server, history
<1>3. ASSUME NEW p \in Starters, Reads(p) PROVE RotationInv'
  BY <1>1, <1>3, ReadsFrame
<1>4. ASSUME NEW p \in Starters, SaveMigrated(p) PROVE RotationInv'
  <2>1. UNCHANGED <<serving, refreshToken, expired, pc, fresh, promised>>
    BY <1>4 DEF SaveMigrated, server, history
  <2>2. disk' = disk \/ ~serving
    BY <1>4, MigratesAlone DEF Whole
  <2>3. ~serving => \A h \in Handlers : pc[h] = "idle"
    BY <1>a DEF MemoryInv
  <2> QED
    BY <1>1, <2>1, <2>2, <2>3 DEF RotationInv
<1>5. ASSUME NEW p \in Starters, GenerateRefresh(p) PROVE RotationInv'
  <2>1. UNCHANGED <<serving, refreshToken, expired, pc, fresh, promised>>
    BY <1>5 DEF GenerateRefresh, server, history
  <2>2. ~Usable(disk["refresh"], expired) /\ \A h \in Handlers : pc[h] \notin PreSwap
    BY <1>5, GeneratesInNeed DEF Whole
  <2>3. serving => IsExpired(refreshToken, expired)
    <3>1. ~Superseded
      BY <2>2 DEF Superseded, PreSwap
    <3> QED
      BY <1>a, <2>2, <3>1 DEF RotationInv, ReliedInv, Usable
  <2> QED
    BY <2>1, <2>2, <2>3 DEF RotationInv, PreSwap
<1>6. ASSUME NEW p \in Starters, IssueAccess(p) \/ WriteSession(p) PROVE RotationInv'
  <2>1. /\ UNCHANGED <<serving, refreshToken, expired, pc, fresh, promised>>
        /\ disk'["refresh"] = disk["refresh"]
    BY <1>a, <1>6 DEF IssueAccess, WriteSession, Saved, server, history, TypeOK, File
  <2> QED
    BY <1>1, <2>1
<1>7. ASSUME NEW p \in Starters, Listen(p) PROVE RotationInv'
  <2>1. loaded[p] = disk["refresh"] /\ \A h \in Handlers : pc[h] = "idle"
    BY <1>7, ListensWithFile DEF Whole
  <2> QED
    BY <1>7, <2>1 DEF Listen, RotationInv
<1>8. CASE Stop
  BY <1>8 DEF Stop, RotationInv
<1>9. ASSUME NEW S \in Removals, RemoveFiles(S) PROVE RotationInv'
  BY <1>a, <1>9 DEF RemoveFiles, NobodyRuns, MemoryInv, RotationInv, server
<1>10. ASSUME NEW k \in Expiring, Tick(k) PROVE RotationInv'
  <2>1. refreshToken \in Token /\ IsExpired(refreshToken, expired) => IsExpired(refreshToken, expired')
    BY <1>a, <1>10, ExpiredForGood
  <2>2. serving => refreshToken \in Token
    BY <1>a DEF MemoryInv
  <2>3. UNCHANGED <<disk, serving, refreshToken, pc, fresh, promised>>
    BY <1>10 DEF Tick, server, history
  <2> QED
    BY <1>a, <2>1, <2>2, <2>3 DEF RotationInv, Superseded
<1>11. ASSUME NEW h \in Handlers,
              \/ \E step \in {"awaitLock", "authenticate"} : Receive(h, step)
              \/ Checks(h)
       PROVE  RotationInv'
  <2>1. /\ UNCHANGED <<disk, serving, refreshToken, expired, fresh, promised>>
        /\ pc'[h] \notin PreSwap /\ pc[h] \notin PreSwap
        /\ \A g \in Handlers \ {h} : pc'[g] = pc[g]
    BY <1>a, <1>11 DEF Receive, Checks, Authenticate, Refused, CheckRequest, PreSwap, TypeOK, history
  <2> QED
    BY <1>a, <2>1 DEF RotationInv, Superseded, PreSwap
<1>12. ASSUME NEW h \in Handlers, LockRefresh(h) PROVE RotationInv'
  <2>1. /\ UNCHANGED <<disk, serving, refreshToken, expired, promised>> /\ serving
        /\ pc[h] \notin Rotating
        /\ \/ pc'[h] = "refuse"
           \/ pc'[h] = "saveAccess" /\ ~IsExpired(refreshToken, expired)
        /\ \A g \in Handlers \ {h} : pc'[g] = pc[g] /\ fresh'[g] = fresh[g]
    BY <1>a, <1>12 DEF LockRefresh, Refused, MemoryInv, Rotating, PreSwap, TypeOK, history
  <2>2. \A g \in Handlers : pc[g] \notin Rotating
    BY <1>a, <1>12 DEF LockRefresh, Refused, LockInv
  <2> QED
    BY <1>a, <2>1, <2>2 DEF RotationInv, Superseded, Rotating, PreSwap
<1>13. ASSUME NEW h \in Handlers, Writes(h) \/ Swap(h) PROVE RotationInv'
  <2>1. /\ UNCHANGED <<serving, expired, fresh>> /\ pc[h] \in PreSwap
        /\ \A g \in Handlers \ {h} : pc'[g] = pc[g]
    BY <1>a, <1>13 DEF Writes, SaveAccess, SaveRefresh, SaveSession, Swap, TypeOK, PreSwap
  <2>2. \A g \in Handlers \ {h} : pc[g] \notin Rotating
    BY <1>a, <2>1 DEF LockInv, Rotating, PreSwap
  <2>3. CASE SaveAccess(h)
    <3>1. /\ pc[h] = "saveAccess" /\ pc'[h] = "saveRefresh" /\ disk'["refresh"] = disk["refresh"]
          /\ UNCHANGED <<refreshToken, promised>>
      BY <1>a, <2>3 DEF SaveAccess, Saved, TypeOK, File, history
    <3> QED
      BY <1>a, <2>1, <2>2, <3>1 DEF RotationInv, Superseded, Rotating, PreSwap
  <2>4. CASE SaveRefresh(h)
    <3>1. /\ pc'[h] = "saveSession" /\ disk'["refresh"] = Refresh(fresh[h]) /\ promised' = NoToken
      BY <1>a, <2>4 DEF SaveRefresh, Saved, TypeOK, File
    <3> QED
      BY <1>a, <2>1, <2>2, <3>1 DEF RotationInv, Superseded, Rotating, PreSwap
  <2>5. CASE SaveSession(h)
    <3>1. /\ pc[h] = "saveSession" /\ pc'[h] = "swap" /\ disk'["refresh"] = disk["refresh"]
          /\ UNCHANGED <<refreshToken, promised>>
      BY <1>a, <2>5 DEF SaveSession, Saved, TypeOK, File, history
    <3> QED
      BY <1>a, <2>1, <2>2, <3>1 DEF RotationInv, Superseded, Rotating, PreSwap
  <2>6. CASE Swap(h)
    <3>1. /\ pc[h] = "swap" /\ pc'[h] = "replyPair" /\ disk' = disk /\ refreshToken' = Refresh(fresh[h])
      BY <1>a, <2>6 DEF Swap, TypeOK
    <3> QED
      BY <1>a, <2>1, <2>2, <3>1 DEF RotationInv, Rotating, PreSwap
  <2> QED
    BY <1>13, <2>3, <2>4, <2>5, <2>6 DEF Writes
<1>14. ASSUME NEW h \in Handlers, Ends(h) PROVE RotationInv'
  <2>1. /\ UNCHANGED <<disk, serving, refreshToken, expired>>
        /\ pc'[h] = "idle" /\ pc[h] \notin PreSwap
        /\ \A g \in Handlers \ {h} : pc'[g] = pc[g] /\ fresh'[g] = fresh[g]
        /\ promised' = promised \/ pc[h] = "replyPair"
    BY <1>a, <1>14 DEF Ends, ReplyPair, Refuse, ReplyResult, Finish, PreSwap, TypeOK
  <2>2. pc[h] = "replyPair" => \A g \in Handlers \ {h} : pc[g] \notin Rotating
    BY <1>a DEF LockInv, Rotating
  <2> QED
    BY <1>a, <2>1, <2>2 DEF RotationInv, Superseded, Rotating, PreSwap
<1> QED
  BY <1>2, <1>3, <1>4, <1>5, <1>6, <1>7, <1>8, <1>9, <1>10, <1>11, <1>12, <1>13, <1>14
     DEF StepKinds

\* No step puts a retired token into memory or where the next startup looks for one.
LEMMA RetiredStep == Dependable /\ Whole /\ [Next]_vars /\ ~crossed' => RetiredInv'
<1> SUFFICES ASSUME Dependable, Whole, StepKinds, ~crossed' PROVE RetiredInv'
  BY StepSplit
<1> USE DaemonAssumption, TokenFacts, NoSaveFails
<1>a. TypeOK /\ MemoryInv /\ ReliedInv /\ PairInv /\ KnownInv /\ RetiredInv
  BY DEF Whole, AnyInv
<1>1. ASSUME UNCHANGED <<refreshToken, retired, pc, stale>>,
             disk'["refresh"] = disk["refresh"],
             disk'["session"] = disk["session"] \/ disk["refresh"] # NoToken
      PROVE  RetiredInv'
  BY <1>a, <1>1 DEF RetiredInv
<1>2. CASE UNCHANGED vars
  BY <1>1, <1>2 DEF vars, server, history
<1>3. ASSUME NEW p \in Starters, Reads(p) PROVE RetiredInv'
  BY <1>1, <1>3, ReadsFrame
<1>4. ASSUME NEW p \in Starters, SaveMigrated(p) PROVE RetiredInv'
  <2>1. UNCHANGED <<refreshToken, retired, pc, stale>>
    BY <1>4 DEF SaveMigrated, server, history
  <2>2. CASE disk' = disk
    BY <1>1, <2>1, <2>2
  <2>3. CASE disk["refresh"] = NoToken /\ disk' = [disk EXCEPT !["refresh"] = loaded[p]]
    <3>1. loaded[p] \in Token /\ loaded[p] = disk["session"]
      BY <1>a, <1>4, <2>3 DEF SaveMigrated, MemoryInv, Whole, KindInv
    <3>2. disk'["refresh"] = loaded[p] /\ loaded[p] \notin retired
      BY <1>a, <2>3, <3>1 DEF RetiredInv, TypeOK, File
    <3> QED
      BY <1>a, <2>1, <3>1, <3>2 DEF RetiredInv
  <2> QED
    BY <1>4, <2>2, <2>3, MigratesAlone DEF Whole
<1>5. ASSUME NEW p \in Starters, GenerateRefresh(p) PROVE RetiredInv'
  <2>1. UNCHANGED <<refreshToken, retired, pc, stale>>
    BY <1>5 DEF GenerateRefresh, server, history
  <2>2. disk' = [disk EXCEPT !["refresh"] = Refresh(minted + 1)]
    BY <1>5, GeneratesInNeed DEF Whole
  <2>3. disk'["refresh"] = Refresh(minted + 1) /\ Refresh(minted + 1) \in Token \ retired
    BY <1>a, <2>2, NextIsNew DEF TypeOK, File, KnownInv
  <2> QED
    BY <1>a, <2>1, <2>3 DEF RetiredInv
<1>6. ASSUME NEW p \in Starters, IssueAccess(p) \/ WriteSession(p) PROVE RetiredInv'
  <2>1. /\ UNCHANGED <<refreshToken, retired, pc, stale>> /\ disk'["refresh"] = disk["refresh"]
        /\ disk["refresh"] # NoToken
    BY <1>a, <1>6 DEF IssueAccess, WriteSession, Saved, server, history, TypeOK, File, ReliedInv, Loaded
  <2> QED
    BY <1>1, <2>1
<1>7. ASSUME NEW p \in Starters, Listen(p) PROVE RetiredInv'
  <2>1. loaded[p] = disk["refresh"]
    BY <1>7, ListensWithFile DEF Whole
  <2> QED
    BY <1>a, <1>7, <2>1 DEF Listen, RetiredInv, history
<1>8. CASE Stop
  <2>1. serving /\ {accessToken, refreshToken, disk["refresh"]} \subseteq Token
    BY <1>a, <1>8 DEF Stop, MemoryInv, ReliedInv
  <2>2. disk["refresh"] \notin retired' /\ disk' = disk /\ refreshToken' = NoToken
        /\ \A h \in Handlers : ~stale'[h]
    BY <1>a, <1>8 DEF RetiredInv, Stop
  <2>3. NoToken \notin retired'
    BY <1>a, <1>8, <2>1 DEF Stop, TypeOK
  <2> QED
    BY <2>1, <2>2, <2>3 DEF RetiredInv
<1>9. ASSUME NEW S \in Removals, RemoveFiles(S) PROVE RetiredInv'
  <2>1. {"refresh", "session"} \subseteq S
    BY DEF Dependable, Documented
  <2>2. disk'["refresh"] = NoToken /\ disk'["session"] = NoToken
    BY <1>9, <2>1 DEF RemoveFiles, File
  <2>3. /\ UNCHANGED <<refreshToken, pc, stale>> /\ refreshToken = NoToken
        /\ \A h \in Handlers : pc[h] = "idle"
    BY <1>a, <1>9 DEF RemoveFiles, NobodyRuns, MemoryInv, server
  <2>4. NoToken \notin retired'
    BY <1>a, <1>9 DEF RemoveFiles, TypeOK
  <2> QED
    BY <2>2, <2>3, <2>4 DEF RetiredInv, Rotating, PreSwap
<1>10. ASSUME NEW k \in Expiring, Tick(k) PROVE RetiredInv'
  BY <1>1, <1>10 DEF Tick, server, history
<1>11. ASSUME NEW h \in Handlers,
              \/ \E step \in {"awaitLock", "authenticate"} : Receive(h, step)
              \/ Ends(h) \/ Checks(h)
       PROVE  RetiredInv'
  <2>1. /\ UNCHANGED <<disk, refreshToken, retired>> /\ pc'[h] \notin Rotating
        /\ \A g \in Handlers \ {h} : pc'[g] = pc[g] /\ stale'[g] = stale[g]
    BY <1>a, <1>11 DEF Receive, Ends, ReplyPair, Refuse, ReplyResult, Finish, Checks, Authenticate, Refused,
       CheckRequest, Rotating, PreSwap, TypeOK, history
  <2> QED
    BY <1>a, <2>1 DEF RetiredInv
<1>12. ASSUME NEW h \in Handlers, LockRefresh(h) PROVE RetiredInv'
  <2>1. /\ UNCHANGED <<disk, refreshToken, retired>> /\ (stale'[h] => stale[h])
        /\ pc'[h] \in Rotating => bearer[h] = refreshToken /\ ~IsExpired(refreshToken, expired)
        /\ \A g \in Handlers \ {h} : pc'[g] = pc[g] /\ stale'[g] = stale[g]
    BY <1>a, <1>12 DEF LockRefresh, Refused, Rotating, PreSwap, TypeOK, history
  <2>2. stale'[h] => pc'[h] \notin Rotating
    BY <1>a, <2>1 DEF Whole, StaleInv, Spent, RetiredInv
  <2> QED
    BY <1>a, <2>1, <2>2 DEF RetiredInv
<1>13. ASSUME NEW h \in Handlers, Writes(h) PROVE RetiredInv'
  <2>1. /\ UNCHANGED <<retired, refreshToken, stale>> /\ pc[h] \in PreSwap /\ serving
        /\ \A g \in Handlers : pc'[g] \in Rotating => pc[g] \in Rotating
    BY <1>a, <1>13 DEF Writes, SaveAccess, SaveRefresh, SaveSession, TypeOK, MemoryInv, Rotating,
       PreSwap, history
  <2>2. disk'["refresh"] \in {disk["refresh"], Refresh(fresh[h])}
    BY <1>a, <1>13 DEF Writes, SaveAccess, SaveRefresh, SaveSession, Saved, TypeOK, File
  <2>3. Refresh(fresh[h]) \in Token \ retired /\ disk["refresh"] \in Token
    BY <1>a, <2>1 DEF PairInv, ReliedInv, TypeOK
  <2> QED
    BY <1>a, <2>1, <2>2, <2>3 DEF RetiredInv
<1>14. ASSUME NEW h \in Handlers, Swap(h) PROVE RetiredInv'
  <2>1. /\ retired' = retired \cup {accessToken, refreshToken} /\ refreshToken' = Refresh(fresh[h])
        /\ disk' = disk /\ stale' = stale /\ pc[h] = "swap"
        /\ \A g \in Handlers : pc'[g] \in Rotating => pc[g] \in Rotating
    BY <1>a, <1>14 DEF Swap, TypeOK, Rotating, PreSwap
  <2>2. /\ disk["refresh"] = Refresh(fresh[h])
        /\ Refresh(fresh[h]) \notin retired \cup {accessToken, refreshToken}
        /\ Refresh(fresh[h]) # NoToken
    BY <1>a, <2>1 DEF Whole, RotationInv, PairInv, PreSwap, TypeOK
  <2> QED
    BY <1>a, <2>1, <2>2 DEF RetiredInv
<1> QED
  BY <1>2, <1>3, <1>4, <1>5, <1>6, <1>7, <1>8, <1>9, <1>10, <1>11, <1>12, <1>13, <1>14
     DEF StepKinds

\* The refresh token handed out last stays on disk until it expires.
LEMMA PromiseStep == Dependable /\ Whole /\ [Next]_vars /\ ~crossed' => PromiseInv'
<1> SUFFICES ASSUME Dependable, Whole, StepKinds, ~crossed' PROVE PromiseInv'
  BY StepSplit
<1> USE DaemonAssumption, TokenFacts, NoSaveFails
<1>a. TypeOK /\ MemoryInv /\ LockInv /\ PairInv /\ RotationInv /\ PromiseInv
  BY DEF Whole, AnyInv
<1>1. ASSUME UNCHANGED <<serving, refreshToken, promised, expired>>, disk'["refresh"] = disk["refresh"]
      PROVE  PromiseInv'
  BY <1>a, <1>1 DEF PromiseInv
<1>2. CASE UNCHANGED vars
  BY <1>1, <1>2 DEF vars, server, history
<1>3. ASSUME NEW p \in Starters, Reads(p) PROVE PromiseInv'
  BY <1>1, <1>3, ReadsFrame
<1>4. ASSUME NEW p \in Starters, SaveMigrated(p) PROVE PromiseInv'
  <2>1. UNCHANGED <<serving, refreshToken, promised, expired>>
    BY <1>4 DEF SaveMigrated, server, history
  <2>2. disk' = disk \/ disk["refresh"] = NoToken
    BY <1>4, MigratesAlone DEF Whole
  <2> QED
    BY <1>a, <1>1, <2>1, <2>2 DEF PromiseInv
<1>5. ASSUME NEW p \in Starters, GenerateRefresh(p) PROVE PromiseInv'
  <2>1. UNCHANGED <<serving, refreshToken, promised, expired>>
    BY <1>5 DEF GenerateRefresh, server, history
  <2>2. ~Usable(disk["refresh"], expired)
    BY <1>5, GeneratesInNeed DEF Whole
  <2> QED
    BY <1>a, <2>1, <2>2 DEF PromiseInv, Usable
<1>6. ASSUME NEW p \in Starters, IssueAccess(p) \/ WriteSession(p) PROVE PromiseInv'
  <2>1. UNCHANGED <<serving, refreshToken, promised, expired>> /\ disk'["refresh"] = disk["refresh"]
    BY <1>a, <1>6 DEF IssueAccess, WriteSession, Saved, server, history, TypeOK, File
  <2> QED
    BY <1>1, <2>1
<1>7. ASSUME NEW p \in Starters, Listen(p) PROVE PromiseInv'
  <2>1. loaded[p] = disk["refresh"]
    BY <1>7, ListensWithFile DEF Whole
  <2> QED
    BY <1>a, <1>7, <2>1 DEF Listen, PromiseInv, history
<1>8. CASE Stop
  BY <1>a, <1>8 DEF PromiseInv, Stop
<1>9. ASSUME NEW S \in Removals, RemoveFiles(S) PROVE PromiseInv'
  BY <1>9 DEF PromiseInv, RemoveFiles, Dependable, Documented
<1>10. ASSUME NEW k \in Expiring, Tick(k) PROVE PromiseInv'
  BY <1>a, <1>10, ExpiredForGood DEF PromiseInv, Tick, server, history
<1>11. ASSUME NEW h \in Handlers,
              \/ \E step \in {"awaitLock", "authenticate"} : Receive(h, step)
              \/ LockRefresh(h) \/ SaveAccess(h) \/ SaveSession(h) \/ Refuse(h) \/ ReplyResult(h)
              \/ Checks(h)
       PROVE  PromiseInv'
  <2>1. UNCHANGED <<serving, refreshToken, promised, expired>> /\ disk'["refresh"] = disk["refresh"]
    BY <1>a, <1>11 DEF Receive, LockRefresh, Refused, SaveAccess, SaveSession, Saved, Refuse, ReplyResult,
       Finish, Checks, Authenticate, CheckRequest, TypeOK, File, history
  <2> QED
    BY <1>1, <2>1
<1>12. ASSUME NEW h \in Handlers, SaveRefresh(h) PROVE PromiseInv'
  BY <1>12 DEF SaveRefresh, PromiseInv
<1>13. ASSUME NEW h \in Handlers, Swap(h) PROVE PromiseInv'
  BY <1>a, <1>13 DEF Swap, RotationInv, PromiseInv
<1>14. ASSUME NEW h \in Handlers, ReplyPair(h) PROVE PromiseInv'
  <2>1. /\ pc[h] = "replyPair" /\ promised' = Refresh(fresh[h])
        /\ UNCHANGED <<disk, serving, refreshToken, expired>>
    BY <1>14 DEF ReplyPair, Finish
  <2>2. serving /\ refreshToken = Refresh(fresh[h])
    BY <1>a, <2>1 DEF MemoryInv, PairInv
  <2>3. ~Superseded
    BY <1>a, <2>1 DEF LockInv, Superseded, Rotating, PreSwap
  <2> QED
    BY <1>a, <2>1, <2>2, <2>3 DEF RotationInv, PromiseInv
<1> QED
  BY <1>2, <1>3, <1>4, <1>5, <1>6, <1>7, <1>8, <1>9, <1>10, <1>11, <1>12, <1>13, <1>14
     DEF StepKinds, Writes, Ends

\* The invariant holds of the hosts the daemon is first started on.
LEMMA InvInit == Init => IInv
<1> SUFFICES ASSUME Init PROVE IInv
  OBVIOUS
<1>1. NewInv /\ StaleInv /\ AloneInv /\ RotationInv
  BY TokenFacts DEF Init, NewInv, StaleInv, AloneInv, RotationInv, Pending, Loaded
<1>2. RetiredInv /\ PromiseInv
  BY TokenFacts DEF Init, RetiredInv, PromiseInv
<1> QED
  BY <1>1, <1>2, AnyInit, KindInit DEF IInv, ApartInv

LEMMA InvStep == Dependable /\ IInv /\ [Next]_vars => IInv'
<1> SUFFICES ASSUME Dependable, IInv, [Next]_vars PROVE IInv'
  OBVIOUS
<1>1. AnyInv' /\ AloneInv'
  BY AnyStep, AloneStep DEF IInv, ApartInv
<1>2. ~crossed' => Whole /\ NewInv' /\ StaleInv' /\ KindInv' /\ RotationInv' /\ RetiredInv' /\ PromiseInv'
  <2> SUFFICES ASSUME ~crossed'
               PROVE  Whole /\ NewInv' /\ StaleInv' /\ KindInv' /\ RotationInv' /\ RetiredInv' /\ PromiseInv'
    OBVIOUS
  <2>1. Whole
    BY CrossedStays DEF IInv, ApartInv, Whole
  <2>2. NewInv' /\ StaleInv' /\ KindInv'
    BY <2>1, NewStep, StaleStep, KindStep DEF Whole, Dependable
  <2> QED
    BY <2>1, <2>2, RotationStep, RetiredStep, PromiseStep
<1> QED
  BY <1>1, <1>2 DEF IInv, ApartInv

\* With saves that succeed and the documented revocation the invariant always holds, whatever
\* other processes do.
THEOREM Invariance == Dependable => (Spec => []IInv)
<1> SUFFICES ASSUME Dependable PROVE Spec => []IInv
  OBVIOUS
<1> QED
  BY InvStep, InvInit, PTL DEF Spec

LEMMA WholeUntilCrossed == IInv => crossed \/ Whole
  BY DEF IInv, ApartInv, Whole

-----------------------------------------------------------------------------
(* What it implies. *)

\* Until processes cross, a token that stopped being accepted is never accepted again: not
\* after a rotation, a crash between any two writes, a restart or a revocation, and not by
\* another start.
THEOREM RetiredForGood == Dependable => (Spec => []NoRetiredTokenCurrent)
<1>1. IInv => NoRetiredTokenCurrent
  BY WholeUntilCrossed DEF Whole, AnyInv, MemoryInv, NewInv, RetiredInv, NoRetiredTokenCurrent
<1> QED
  BY <1>1, Invariance, PTL

\* Until processes cross, the refresh token of the last reply survives every crash and restart.
THEOREM PromiseKept == Dependable => (Spec => []PromisedRefreshHonoured)
<1>1. IInv => PromisedRefreshHonoured
  BY WholeUntilCrossed DEF Whole, PromiseInv, PromisedRefreshHonoured
<1> QED
  BY <1>1, Invariance, PTL

\* Whenever no rotation is in flight refresh.token holds the token in memory or, once that has
\* expired, perhaps another, until processes cross; and all three files hold the pair in memory
\* until a second process is started.
THEOREM DiskAgrees == Dependable => (Spec => []DiskMatchesMemory)
<1>1. IInv => DiskMatchesMemory
  <2> SUFFICES ASSUME IInv, serving, mu = NoHandler
               PROVE  /\ crossed \/ disk["refresh"] = refreshToken \/ IsExpired(refreshToken, expired)
                      /\ company \/ disk = [access |-> accessToken, refresh |-> refreshToken,
                                            session |-> accessToken]
    BY DEF DiskMatchesMemory
  <2>1. \A h \in Handlers : pc[h] \notin Rotating
    BY DaemonAssumption DEF IInv, ApartInv, AnyInv, LockInv
  <2>2. ~Superseded
    BY <2>1 DEF Superseded, Rotating, PreSwap
  <2>3. crossed \/ disk["refresh"] = refreshToken \/ IsExpired(refreshToken, expired)
    BY <2>2, WholeUntilCrossed DEF Whole, RotationInv
  <2>4. company \/ disk = [access |-> accessToken, refresh |-> refreshToken, session |-> accessToken]
    BY <2>1 DEF IInv, ApartInv, AnyInv, AloneInv, TypeOK, File, Rotating, PreSwap
  <2> QED
    BY <2>3, <2>4
<1> QED
  BY <1>1, Invariance, PTL

\* Until processes cross, a request whose token was retired before it arrived neither runs op
\* nor rotates.
THEOREM StaleRefused == Dependable => (Spec => []StaleNeverServed)
<1>1. IInv => StaleNeverServed
  BY WholeUntilCrossed DEF Whole, StaleInv, RetiredInv, StaleNeverServed
<1> QED
  BY <1>1, Invariance, PTL

\* Of all the requests that present one refresh token, one rotates.
THEOREM SpentOnce == Dependable => (Spec => EachRefreshSpentOnce)
<1>1. IInv => [\A h \in Handlers :
                  (pc[h] = "swap" /\ pc'[h] = "replyPair") =>
                      bearer[h] = refreshToken /\ (crossed \/ bearer[h] \notin retired)]_vars
  BY WholeUntilCrossed DEF Whole, RetiredInv, IInv, ApartInv, AnyInv, PairInv, PreSwap
<1> QED
  BY <1>1, Invariance, PTL DEF EachRefreshSpentOnce

-----------------------------------------------------------------------------
\* The authority speaks of the same tokens.
LEMMA SameTokens ==
    /\ Authority!Token = Token
    /\ Authority!NoToken = NoToken
    /\ \A t, e : Authority!Usable(t, e) <=> Usable(t, e)
BY DEF Token, Kind, NoToken, Usable, IsExpired, Authority!Token, Authority!Kind,
   Authority!NoToken, Authority!Usable, Authority!IsExpired

\* A token on disk, which is what the next process would load, or none.
OnDisk == IF disk["refresh"] \in Token THEN disk["refresh"] ELSE NoToken

\* The refresh token the authority accepts is the one on disk throughout; the access token is
\* the one in memory, except while a rotation that has written the other has not swapped it yet.
View ==
    /\ AcceptedRefresh = OnDisk
    /\ ~serving => AcceptedAccess = NoToken /\ RetiredSoFar = retired /\ ~Superseded
    /\ (serving /\ ~Superseded) => AcceptedAccess = accessToken /\ RetiredSoFar = retired
    /\ \A h \in Handlers : pc[h] \in {"saveSession", "swap"} =>
          /\ serving /\ Superseded
          /\ AcceptedAccess = Access(fresh[h])
          /\ disk["refresh"] = Refresh(fresh[h])
          /\ RetiredSoFar = retired \cup {accessToken, refreshToken}

LEMMA ViewHolds == Whole => View
<1> SUFFICES ASSUME Whole PROVE View
  OBVIOUS
<1> USE TokenFacts
<1>a. TypeOK /\ MemoryInv /\ LockInv /\ ReliedInv /\ RotationInv
  BY DEF Whole, AnyInv
<1>1. AcceptedRefresh = OnDisk
  BY <1>a DEF AcceptedRefresh, OnDisk, RotationInv, ReliedInv
<1>2. ~serving => AcceptedAccess = NoToken /\ RetiredSoFar = retired /\ ~Superseded
  BY <1>a DEF AcceptedAccess, RetiredSoFar, Superseded, MemoryInv
<1>3. (serving /\ ~Superseded) => AcceptedAccess = accessToken /\ RetiredSoFar = retired
  BY DEF AcceptedAccess, RetiredSoFar
<1>4. ASSUME NEW h \in Handlers, pc[h] \in {"saveSession", "swap"}
      PROVE  /\ serving /\ Superseded
             /\ AcceptedAccess = Access(fresh[h])
             /\ disk["refresh"] = Refresh(fresh[h])
             /\ RetiredSoFar = retired \cup {accessToken, refreshToken}
  <2>1. serving /\ Superseded /\ mu = h
    BY <1>a, <1>4 DEF Superseded, MemoryInv, LockInv, Rotating, PreSwap
  <2> QED
    BY <1>a, <1>4, <2>1 DEF AcceptedAccess, RetiredSoFar, RotationInv
<1> QED
  BY <1>1, <1>2, <1>3, <1>4 DEF View

\* While the daemon serves the pair it accepts is one, and new.
AcceptedPairNew ==
    serving =>
        /\ {AcceptedAccess, AcceptedRefresh} \subseteq Token \ RetiredSoFar
        /\ AcceptedAccess # AcceptedRefresh

LEMMA PairIsCurrent == Whole => AcceptedPairNew
<1> SUFFICES ASSUME Whole, serving PROVE AcceptedPairNew
  BY DEF AcceptedPairNew
<1> USE TokenFacts
<1>a. TypeOK /\ MemoryInv /\ ReliedInv /\ PairInv /\ KnownInv /\ NewInv /\ KindInv /\ RetiredInv /\ View
  BY ViewHolds DEF Whole, AnyInv
<1>b. AcceptedRefresh = disk["refresh"] /\ disk["refresh"] \in Token
  BY <1>a DEF View, OnDisk, ReliedInv
<1>1. CASE ~Superseded
  <2>1. AcceptedAccess = accessToken /\ RetiredSoFar = retired
    BY <1>a, <1>1 DEF View
  <2>2. accessToken \in Token /\ accessToken.kind = "access" /\ accessToken \notin retired
    BY <1>a DEF MemoryInv, KnownInv, NewInv
  <2> QED
    BY <1>a, <1>b, <2>1, <2>2 DEF AcceptedPairNew, KindInv, RetiredInv
<1>2. CASE Superseded
  <2>1. PICK h \in Handlers : pc[h] \in {"saveSession", "swap"}
    BY <1>2 DEF Superseded
  <2>2. fresh[h] \in Nat
    BY <1>a DEF TypeOK
  <2>3. {Access(fresh[h]), Refresh(fresh[h])} \cap (retired \cup {accessToken, refreshToken}) = {}
    BY <1>a, <2>1 DEF PairInv, PreSwap
  <2>4. /\ AcceptedAccess = Access(fresh[h]) /\ disk["refresh"] = Refresh(fresh[h])
        /\ RetiredSoFar = retired \cup {accessToken, refreshToken}
    BY <1>a, <2>1 DEF View
  <2> QED
    BY <1>b, <2>2, <2>3, <2>4 DEF AcceptedPairNew
<1> QED
  BY <1>1, <1>2

\* A step that neither starts nor ends serving and leaves the accepted pair, the retired
\* tokens and the clock alone is a stutter of the authority.
LEMMA Stutters ==
    ASSUME View, View', UNCHANGED <<serving, AcceptedAccess, RetiredSoFar, expired>>,
           disk'["refresh"] = disk["refresh"]
    PROVE  [Authority!Next]_(Authority!vars)
<1>1. AcceptedRefresh' = AcceptedRefresh
  BY DEF View, OnDisk
<1> QED
  BY <1>1 DEF Authority!vars

\* So is one that moves no handler into or out of the window of a rotation and leaves
\* refresh.token and the tokens in memory alone.
LEMMA OutsideStutters ==
    ASSUME View, View', UNCHANGED <<serving, accessToken, refreshToken, retired, expired>>,
           disk'["refresh"] = disk["refresh"],
           \A h \in Handlers : /\ pc'[h] \in {"saveSession", "swap"} <=> pc[h] \in {"saveSession", "swap"}
                               /\ pc[h] \in {"saveSession", "swap"} => fresh'[h] = fresh[h]
    PROVE  [Authority!Next]_(Authority!vars)
<1>1. UNCHANGED <<AcceptedAccess, RetiredSoFar>>
  <2>1. CASE Superseded
    <3>1. PICK h \in Handlers : pc[h] \in {"saveSession", "swap"}
      BY <2>1 DEF Superseded
    <3> QED
      BY <3>1 DEF View
  <2>2. CASE ~Superseded
    <3>1. ~Superseded'
      BY <2>2 DEF Superseded
    <3> QED
      BY <2>2, <3>1 DEF View
  <2> QED
    BY <2>1, <2>2
<1> QED
  BY <1>1, Stutters

\* A token that replaces a refresh.token that cannot be used prepares for the next process.
LEMMA Prepares ==
    ASSUME View, View', NEW t \in Token \ retired, ~Usable(disk["refresh"], expired),
           \A h \in Handlers : pc[h] \notin {"saveSession", "swap"},
           UNCHANGED <<serving, accessToken, retired, expired, pc>>, disk'["refresh"] = t
    PROVE  [Authority!Next]_(Authority!vars)
<1>1. ~Superseded /\ ~Superseded'
  BY DEF Superseded
<1>2. AcceptedRefresh' = t /\ UNCHANGED <<AcceptedAccess, RetiredSoFar>> /\ RetiredSoFar = retired
  BY <1>1 DEF View, OnDisk
<1>3. ~Usable(AcceptedRefresh, expired)
  BY TokenFacts DEF View, OnDisk, Usable
<1>4. Authority!Prepare
  BY <1>2, <1>3, SameTokens DEF Authority!Prepare, Authority!Renewed
<1> QED
  BY <1>4 DEF Authority!Next

\* Every step of the daemon that crosses no processes is one of the authority, or a stutter:
\* GenerateRefresh and the migration prepare, Listen goes live, SaveRefresh rotates and Stop
\* shuts down.
LEMMA AuthorityStep ==
    Dependable /\ Whole /\ [Next]_vars /\ Whole' /\ ~crossed' => [Authority!Next]_(Authority!vars)
<1> SUFFICES ASSUME Dependable, Whole, StepKinds, Whole', ~crossed'
             PROVE  [Authority!Next]_(Authority!vars)
  BY StepSplit
<1> USE DaemonAssumption, TokenFacts, NoSaveFails
<1>a. TypeOK /\ MemoryInv /\ LockInv /\ ReliedInv /\ PairInv /\ KnownInv
  BY DEF Whole, AnyInv
<1>b. View /\ View'
  BY ViewHolds, PTL
<1>c. serving' => Authority!Current'
  <2>1. AcceptedPairNew'
    BY PairIsCurrent, PTL
  <2> QED
    BY <2>1, SameTokens DEF AcceptedPairNew, Authority!Current
<1>d. ~serving => \A h \in Handlers : pc[h] = "idle"
  BY <1>a DEF MemoryInv
<1>1. CASE UNCHANGED vars
  BY <1>1, <1>b, OutsideStutters DEF vars, server, history
<1>2. ASSUME NEW p \in Starters, Reads(p) PROVE [Authority!Next]_(Authority!vars)
  BY <1>2, <1>b, ReadsFrame, OutsideStutters
<1>3. ASSUME NEW p \in Starters, IssueAccess(p) \/ WriteSession(p)
      PROVE  [Authority!Next]_(Authority!vars)
  <2>1. disk'["refresh"] = disk["refresh"]
    BY <1>a, <1>3 DEF IssueAccess, WriteSession, Saved, TypeOK, File
  <2> QED
    BY <1>3, <1>b, <2>1, OutsideStutters DEF IssueAccess, WriteSession, server, history
<1>4. ASSUME NEW p \in Starters, SaveMigrated(p) PROVE [Authority!Next]_(Authority!vars)
  <2>1. UNCHANGED <<serving, accessToken, refreshToken, retired, expired, pc, fresh>>
    BY <1>4 DEF SaveMigrated, server, history
  <2>2. CASE disk' = disk
    BY <1>b, <2>1, <2>2, OutsideStutters
  <2>3. CASE /\ disk["refresh"] = NoToken /\ disk' = [disk EXCEPT !["refresh"] = loaded[p]]
             /\ ~serving
    <3>1. loaded[p] \in Token /\ loaded[p] = disk["session"]
      BY <1>a, <1>4, <2>3 DEF SaveMigrated, MemoryInv, Whole, KindInv
    <3>2. disk'["refresh"] = loaded[p] /\ loaded[p] \notin retired
      BY <1>a, <2>3, <3>1 DEF Whole, RetiredInv, TypeOK, File
    <3>3. ~Usable(disk["refresh"], expired)
      BY <2>3 DEF Usable
    <3> QED
      BY <1>b, <1>d, <2>1, <2>3, <3>1, <3>2, <3>3, Prepares
  <2> QED
    BY <1>4, <2>2, <2>3, MigratesAlone DEF Whole
<1>5. ASSUME NEW p \in Starters, GenerateRefresh(p) PROVE [Authority!Next]_(Authority!vars)
  <2>1. UNCHANGED <<serving, accessToken, retired, expired, pc>>
    BY <1>5 DEF GenerateRefresh, server, history
  <2>2. /\ ~Usable(disk["refresh"], expired)
        /\ \A h \in Handlers : pc[h] \notin {"saveSession", "swap"}
        /\ disk' = [disk EXCEPT !["refresh"] = Refresh(minted + 1)]
    BY <1>5, GeneratesInNeed DEF Whole, PreSwap
  <2>3. disk'["refresh"] = Refresh(minted + 1) /\ Refresh(minted + 1) \in Token \ retired
    BY <1>a, <2>2, NextIsNew DEF TypeOK, File, KnownInv
  <2> QED
    BY <1>b, <2>1, <2>2, <2>3, Prepares
<1>6. ASSUME NEW p \in Starters, Listen(p) PROVE [Authority!Next]_(Authority!vars)
  <2>1. ~serving /\ serving' /\ UNCHANGED <<disk, retired, expired, pc>>
    BY <1>6 DEF Listen, history
  <2>2. ~Superseded'
    BY <1>d, <2>1 DEF Superseded
  <2>3. AcceptedRefresh' = AcceptedRefresh /\ RetiredSoFar' = RetiredSoFar
    BY <1>b, <2>1, <2>2 DEF View, OnDisk
  <2>4. Authority!GoLive
    BY <1>c, <2>1, <2>3 DEF Authority!GoLive
  <2> QED
    BY <2>4 DEF Authority!Next
<1>7. CASE Stop
  <2>1. /\ serving /\ serving' = FALSE /\ UNCHANGED <<disk, expired>>
        /\ retired' = retired \cup
              (({accessToken, refreshToken} \cup
                  {Access(fresh[h]) : h \in {g \in Handlers : pc[g] \in Rotating}})
                 \ {disk["refresh"]})
    BY <1>7 DEF Stop
  <2>2. AcceptedAccess' = NoToken /\ AcceptedRefresh' = AcceptedRefresh /\ RetiredSoFar' = retired'
    BY <1>b, <2>1 DEF View, OnDisk
  <2>3. disk["refresh"] \in Token \ retired /\ disk["refresh"].kind # "access"
    BY <1>a, <2>1 DEF ReliedInv, Whole, RetiredInv, KindInv
  <2>4. AcceptedRefresh = disk["refresh"]
    BY <1>b, <2>3 DEF View, OnDisk
  <2>5. RetiredSoFar \cup {AcceptedAccess} \subseteq retired'
    <3>1. CASE ~Superseded
      <4>1. accessToken # disk["refresh"]
        BY <1>a, <2>1, <2>3 DEF MemoryInv, KnownInv
      <4> QED
        BY <1>b, <2>1, <3>1, <4>1 DEF View
    <3>2. CASE Superseded
      <4>1. PICK h \in Handlers : pc[h] \in {"saveSession", "swap"}
        BY <3>2 DEF Superseded
      <4>2. /\ AcceptedAccess = Access(fresh[h]) /\ disk["refresh"] = Refresh(fresh[h])
            /\ RetiredSoFar = retired \cup {accessToken, refreshToken}
        BY <1>b, <4>1 DEF View
      <4>3. disk["refresh"] \notin {accessToken, refreshToken, Access(fresh[h])}
        BY <1>a, <4>1, <4>2 DEF PairInv, PreSwap, TypeOK
      <4> QED
        BY <2>1, <4>1, <4>2, <4>3 DEF Rotating, PreSwap
    <3> QED
      BY <3>1, <3>2
  <2>6. AcceptedRefresh \notin retired'
    BY <2>1, <2>3, <2>4
  <2>7. Authority!Shutdown
    BY <2>1, <2>2, <2>5, <2>6, SameTokens DEF Authority!Shutdown
  <2> QED
    BY <2>7 DEF Authority!Next
<1>8. ASSUME NEW S \in Removals, RemoveFiles(S) PROVE [Authority!Next]_(Authority!vars)
  <2>1. "refresh" \in S
    BY DEF Dependable, Documented
  <2>2. /\ ~serving /\ UNCHANGED <<serving, expired>>
        /\ retired' = retired \cup ({disk[f] : f \in S} \cap Token)
        /\ disk'["refresh"] = NoToken
    BY <1>8, <2>1 DEF RemoveFiles, NobodyRuns, server, File
  <2>3. /\ UNCHANGED AcceptedAccess /\ AcceptedRefresh' = NoToken
        /\ RetiredSoFar = retired /\ RetiredSoFar' = retired'
        /\ AcceptedRefresh \in {disk["refresh"], NoToken}
    BY <1>b, <2>2 DEF View, OnDisk
  <2>4. AcceptedRefresh \in Token => AcceptedRefresh \in retired'
    BY <2>1, <2>2, <2>3
  <2>5. AcceptedRefresh \in Token \cup {NoToken}
    BY <1>b DEF View, OnDisk
  <2>6. Authority!Revoke
    BY <2>2, <2>3, <2>4, <2>5, SameTokens DEF Authority!Revoke
  <2> QED
    BY <2>6 DEF Authority!Next
<1>9. ASSUME NEW k \in Expiring, Tick(k) PROVE [Authority!Next]_(Authority!vars)
  <2>1. UNCHANGED <<disk, serving, accessToken, refreshToken, retired, pc, fresh, mu>>
    BY <1>9 DEF Tick, server, history
  <2>2. UNCHANGED <<AcceptedAccess, RetiredSoFar>>
    BY <2>1 DEF AcceptedAccess, RetiredSoFar, Superseded
  <2>3. AcceptedRefresh' = AcceptedRefresh
    BY <1>b, <2>1 DEF View, OnDisk
  <2>4. \A j \in Kind : expired'[j] >= expired[j]
    BY <1>a, <1>9 DEF Tick, TypeOK
  <2>5. Authority!Tick
    BY <2>1, <2>2, <2>3, <2>4 DEF Authority!Tick, Authority!Kind, Kind
  <2> QED
    BY <2>5 DEF Authority!Next
<1>10. ASSUME NEW h \in Handlers,
              \/ \E step \in {"awaitLock", "authenticate"} : Receive(h, step)
              \/ LockRefresh(h) \/ SaveAccess(h) \/ Ends(h) \/ Checks(h)
       PROVE  [Authority!Next]_(Authority!vars)
  <2>1. UNCHANGED <<serving, accessToken, refreshToken, retired, expired>>
    BY <1>10 DEF Receive, LockRefresh, Refused, SaveAccess, Ends, ReplyPair, Refuse, ReplyResult, Finish,
       Checks, Authenticate, CheckRequest, history
  <2>2. disk'["refresh"] = disk["refresh"]
    BY <1>a, <1>10 DEF Receive, LockRefresh, Refused, SaveAccess, Saved, Ends, ReplyPair, Refuse, ReplyResult,
       Finish, Checks, Authenticate, CheckRequest, TypeOK, File
  <2>3. /\ pc[h] \notin {"saveSession", "swap"} /\ pc'[h] \notin {"saveSession", "swap"}
        /\ \A g \in Handlers \ {h} : pc'[g] = pc[g] /\ fresh'[g] = fresh[g]
    BY <1>a, <1>10 DEF Receive, LockRefresh, Refused, SaveAccess, Ends, ReplyPair, Refuse, ReplyResult, Finish,
       Checks, Authenticate, CheckRequest, TypeOK
  <2> QED
    BY <1>b, <2>1, <2>2, <2>3, OutsideStutters
<1>11. ASSUME NEW h \in Handlers, SaveRefresh(h) PROVE [Authority!Next]_(Authority!vars)
  <2>1. /\ pc[h] = "saveRefresh" /\ pc'[h] = "saveSession"
        /\ UNCHANGED <<serving, accessToken, refreshToken, retired, expired>>
    BY <1>a, <1>11 DEF SaveRefresh, TypeOK
  <2>2. ~Superseded /\ serving
    BY <1>a, <2>1 DEF LockInv, MemoryInv, Superseded, Rotating, PreSwap
  <2>3. AcceptedRefresh = refreshToken /\ AcceptedAccess = accessToken /\ RetiredSoFar = retired
    BY <1>a, <1>b, <2>1, <2>2 DEF View, OnDisk, Whole, RotationInv, ReliedInv
  <2>4. RetiredSoFar' = RetiredSoFar \cup {AcceptedAccess, AcceptedRefresh}
    BY <1>b, <2>1, <2>3 DEF View
  <2>5. Authority!Rotate
    BY <1>c, <2>1, <2>2, <2>4 DEF Authority!Rotate
  <2> QED
    BY <2>5 DEF Authority!Next
<1>12. ASSUME NEW h \in Handlers, SaveSession(h) PROVE [Authority!Next]_(Authority!vars)
  <2>1. /\ disk'["refresh"] = disk["refresh"]
        /\ UNCHANGED <<serving, accessToken, refreshToken, retired, expired, fresh>>
        /\ pc[h] = "saveSession" /\ pc'[h] = "swap" /\ \A g \in Handlers \ {h} : pc'[g] = pc[g]
    BY <1>a, <1>12 DEF SaveSession, Saved, TypeOK, File, history
  <2> QED
    BY <1>b, <2>1, OutsideStutters
<1>13. ASSUME NEW h \in Handlers, Swap(h) PROVE [Authority!Next]_(Authority!vars)
  <2>1. /\ pc[h] = "swap" /\ pc'[h] = "replyPair" /\ UNCHANGED <<serving, expired, disk>>
        /\ accessToken' = Access(fresh[h]) /\ retired' = retired \cup {accessToken, refreshToken}
        /\ \A g \in Handlers \ {h} : pc'[g] = pc[g]
    BY <1>a, <1>13 DEF Swap, TypeOK
  <2>2. serving /\ ~Superseded'
    BY <1>a, <2>1 DEF MemoryInv, LockInv, Superseded, Rotating, PreSwap
  <2> QED
    BY <1>b, <2>1, <2>2, Stutters DEF View
<1> QED
  BY <1>1, <1>2, <1>3, <1>4, <1>5, <1>6, <1>7, <1>8, <1>9, <1>10, <1>11, <1>12, <1>13
     DEF StepKinds, Writes

\* Before the first start the authority is down.
LEMMA AuthorityInit == Init => Authority!Init
BY TokenFacts, SameTokens
   DEF Init, Authority!Init, AcceptedAccess, AcceptedRefresh, RetiredSoFar, Superseded

\* Until processes cross the daemon implements the token authority: through its file writes,
\* crashes and restarts, and the starts of other processes, a client only ever sees a pair go
\* live, be replaced whole, or be retired, and the refresh token is another one only after it
\* expired, was rotated or was revoked.
THEOREM Refinement == Dependable => (Spec => ImplementsAuthority)
<1> SUFFICES ASSUME Dependable PROVE Spec => ImplementsAuthority
  OBVIOUS
<1>1. IInv /\ [Next]_vars /\ IInv' => [Authority!Next \/ crossed']_(Authority!vars)
  <2>1. crossed' \/ (IInv /\ [Next]_vars => Whole)
    BY CrossedStays, WholeUntilCrossed
  <2>2. IInv' => crossed' \/ Whole'
    BY WholeUntilCrossed, PTL
  <2> QED
    BY <2>1, <2>2, AuthorityStep
<1>2. Spec => []IInv
  BY Invariance
<1> QED
  BY <1>1, <1>2, AuthorityInit, PTL DEF Spec, ImplementsAuthority
=============================================================================
