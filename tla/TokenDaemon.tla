----------------------------- MODULE TokenDaemon -----------------------------
(***************************************************************************)
(* The token lifecycle of the daemon: op-forward serve (cmd/serve.go) up   *)
(* to its listener, and the handlers of /token/refresh and /op/execute     *)
(* (internal/daemon/server.go) over the token files of internal/auth.      *)
(*                                                                         *)
(* Each file access of a start, each write of a rotation, the swap and the *)
(* reply is an action of its own, so requests interleave with each other   *)
(* and with the clock, and a process may end between any two of them.      *)
(* One process serves, but op-forward serve reads and writes the files     *)
(* before it listens, so any number of others may be on their way to find  *)
(* the address taken, or to take over from a process that has ended.       *)
(***************************************************************************)
EXTENDS Tokens

CONSTANTS
    Handlers,       \* the goroutines net/http may run at once
    NoHandler,      \* "nobody holds mu"
    Starters,       \* the op-forward serve processes that may start at once
    MaxMinted,      \* bound: no rotation, crash or second start from here on, no failed write beyond
    SaveMayFail,    \* TRUE: SaveToPath may fail and leave the file as it was
    Removals,       \* the sets of files an operator may delete while it is down
    Expiring        \* bound: the kinds of token whose expiry may pass

File == {"access", "refresh", "session"}

ASSUME DaemonAssumption ==
    /\ NoHandler \notin Handlers
    /\ MaxMinted \in Nat
    /\ SaveMayFail \in BOOLEAN
    /\ Removals \subseteq SUBSET File
    /\ Expiring \subseteq Kind

VARIABLES
    disk,           \* the host's access.token, refresh.token, session.token
    phase,          \* where runServe of each starting process is, "none" when there is none
    loaded,         \* the token it has read from a file, or its refreshToken
    issued,         \* its accessToken
    serving,        \* a process has the listener; the next five are its own
    accessToken,    \* Server.accessToken
    refreshToken,   \* Server.refreshToken
    mu,             \* the handler that holds Server.mu
    pc,             \* what each handler does next
    fresh,          \* the number of the pair each handler generated
    bearer,         \* the Authorization value of each handler's request
    minted,         \* how many times a token or a pair was generated
    expired,        \* per kind, the last number whose expiry has passed
    retired,        \* history: tokens that stopped being accepted for good
    promised,       \* history: the refresh token the last reply handed out
    stale,          \* history: the bearer was spent when the request arrived
    company,        \* history: a start found another process, since one found none
    outdated,       \* history: starting processes whose refresh.token was replaced
    crossed         \* history: such a process wrote it or came to serve nevertheless

starting == <<phase, loaded, issued, company, outdated, crossed>>
server == <<serving, accessToken, refreshToken, mu, pc, fresh, bearer, stale>>
history == <<retired, promised>>
vars == <<disk, starting, server, minted, expired, history>>

Phase == {"none", "migrate", "loadLegacy", "saveMigrated", "loadRefresh", "generate",
          "issueAccess", "writeSession", "listen"}

\* Where a starting process goes by what it has read of refresh.token.
Relying == Phase \ {"none", "migrate", "loadRefresh"}

\* The steps of handleTokenRefresh that run after its token check passed.
PreSwap  == {"saveAccess", "saveRefresh", "saveSession", "swap"}
Rotating == PreSwap \cup {"replyPair"}

PC == {"idle", "awaitLock", "refuse", "authenticate", "admitted", "run"} \cup Rotating

TypeOK ==
    /\ disk \in [File -> FileContent]
    /\ phase \in [Starters -> Phase]
    /\ loaded \in [Starters -> Token \cup {NoToken}]
    /\ issued \in [Starters -> Token \cup {NoToken}]
    /\ serving \in BOOLEAN
    /\ accessToken \in Token \cup {NoToken}
    /\ refreshToken \in Token \cup {NoToken}
    /\ mu \in Handlers \cup {NoHandler}
    /\ pc \in [Handlers -> PC]
    /\ fresh \in [Handlers -> Nat]
    /\ bearer \in [Handlers -> Token \cup {NoToken}]
    /\ minted \in Nat
    /\ expired \in [Kind -> Nat]
    /\ retired \subseteq Token
    /\ promised \in Token \cup {NoToken}
    /\ stale \in [Handlers -> BOOLEAN]
    /\ company \in BOOLEAN
    /\ outdated \subseteq Starters
    /\ crossed \in BOOLEAN

-----------------------------------------------------------------------------
\* A host where op-forward was never started, one upgraded from the single-token
\* releases, and one whose refresh.token does not parse.
InitialDisk ==
    {[f \in File |-> NoToken],
     [f \in File |-> IF f = "session" THEN Legacy ELSE NoToken],
     [f \in File |-> IF f = "refresh" THEN Unreadable ELSE NoToken]}

Init ==
    /\ disk \in InitialDisk
    /\ phase = [p \in Starters |-> "none"]
    /\ loaded = [p \in Starters |-> NoToken]
    /\ issued = [p \in Starters |-> NoToken]
    /\ serving = FALSE
    /\ accessToken = NoToken
    /\ refreshToken = NoToken
    /\ mu = NoHandler
    /\ pc = [h \in Handlers |-> "idle"]
    /\ fresh = [h \in Handlers |-> 0]
    /\ bearer = [h \in Handlers |-> NoToken]
    /\ minted = 0
    /\ expired = [k \in Kind |-> 0]
    /\ retired = {}
    /\ promised = NoToken
    /\ stale = [h \in Handlers |-> FALSE]
    /\ company = FALSE
    /\ outdated = {}
    /\ crossed = FALSE

-----------------------------------------------------------------------------
(* The clock and the token files. *)

\* Some kind of token reaches its next expiry.  An access token lives for an hour and a
\* refresh token for 30 days, so the access token of the same number has expired before.
Tick(k) ==
    /\ expired[k] < IF k = "legacy" THEN 1 ELSE minted
    /\ expired' = [j \in Kind |-> IF j = k \/ (k = "refresh" /\ j = "access" /\ expired[j] = expired[k])
                                 THEN expired[j] + 1 ELSE expired[j]]
    /\ UNCHANGED <<disk, starting, server, minted, history>>

\* SaveToPath stages the content beside the file and renames it into place: it
\* either puts the token there and returns nil, or fails and changes nothing.
Saved(f, t)   == disk' = [disk EXCEPT ![f] = t]
SaveFailed    == SaveMayFail /\ minted <= MaxMinted /\ UNCHANGED disk

\* What the processes P have read of refresh.token, they have read too early.
Outdate(P) == outdated' = outdated \cup {p \in P : phase[p] \in Relying}

RotationInFlight == \E h \in Handlers : pc[h] \in PreSwap

-----------------------------------------------------------------------------
(* op-forward serve, one action per file access of runServe. *)

NobodyRuns == ~serving /\ \A p \in Starters : phase[p] = "none"

Go(p, to) == phase' = [phase EXCEPT ![p] = to]

\* The process is gone, and what it had in memory.
Exit(p) ==
    /\ Go(p, "none")
    /\ loaded' = [loaded EXCEPT ![p] = NoToken]
    /\ issued' = [issued EXCEPT ![p] = NoToken]
    /\ outdated' = outdated \ {p}

\* launchd, or somebody at a terminal, starts op-forward serve, beside whatever runs.
StartProcess(p) ==
    /\ phase[p] = "none"
    /\ minted < MaxMinted \/ NobodyRuns
    /\ Go(p, "migrate")
    /\ company' = ~NobodyRuns
    /\ UNCHANGED <<disk, loaded, issued, outdated, crossed, server, minted, expired,
                   history>>

\* Mutant: the os.Stat of refresh.token is dropped.
MigrateAlways(p) ==
    /\ phase[p] = "migrate"
    /\ Go(p, "loadLegacy")
    /\ UNCHANGED <<disk, loaded, issued, company, outdated, crossed, server, minted,
                   expired, history>>

\* MigrateLegacyToken: nothing is migrated when refresh.token exists ...
StatRefresh(p) ==
    /\ phase[p] = "migrate"
    /\ Go(p, IF Exists(disk["refresh"]) THEN "loadRefresh" ELSE "loadLegacy")
    /\ UNCHANGED <<disk, loaded, issued, company, outdated, crossed, server, minted,
                   expired, history>>

\* ... or session.token has no usable token ...
LoadLegacy(p) ==
    /\ phase[p] = "loadLegacy"
    /\ IF Usable(disk["session"], expired)
       THEN Go(p, "saveMigrated") /\ loaded' = [loaded EXCEPT ![p] = disk["session"]]
       ELSE Go(p, "loadRefresh") /\ UNCHANGED loaded
    /\ UNCHANGED <<disk, issued, company, outdated, crossed, server, minted,
                   expired, history>>

\* ... and otherwise that token becomes refresh.token.  A failure is only a warning.
SaveMigrated(p) ==
    /\ phase[p] = "saveMigrated"
    /\ \/ /\ Saved("refresh", loaded[p])
          /\ Outdate(Starters \ {p})
          /\ crossed' = (crossed \/ p \in outdated \/ RotationInFlight)
       \/ SaveFailed /\ UNCHANGED <<outdated, crossed>>
    /\ Go(p, "loadRefresh")
    /\ loaded' = [loaded EXCEPT ![p] = NoToken]
    /\ UNCHANGED <<issued, company, server, minted, expired, history>>

\* Mutant: the error of LoadFromPath is not looked at.
ReuseUnparsed(p) ==
    /\ phase[p] = "loadRefresh"
    /\ Exists(disk["refresh"])
    /\ Go(p, "issueAccess")
    /\ loaded' = [loaded EXCEPT ![p] = disk["refresh"]]
    /\ outdated' = outdated \ {p}
    /\ UNCHANGED <<disk, issued, company, crossed, server, minted, expired, history>>

\* Mutant: a refresh token is generated on every start, like the access token.
GenerateAlways(p) ==
    /\ phase[p] = "loadRefresh"
    /\ Go(p, "generate")
    /\ outdated' = outdated \ {p}
    /\ UNCHANGED <<disk, loaded, issued, company, crossed, server, minted, expired,
                   history>>

\* LoadOrGenerateRefresh reuses a usable refresh.token ...
ReuseRefresh(p) ==
    /\ phase[p] = "loadRefresh"
    /\ Usable(disk["refresh"], expired)
    /\ Go(p, "issueAccess")
    /\ loaded' = [loaded EXCEPT ![p] = disk["refresh"]]
    /\ outdated' = outdated \ {p}
    /\ UNCHANGED <<disk, issued, company, crossed, server, minted, expired, history>>

\* Mutant: only a missing file is replaced, a file that does not parse is not.
MissRefreshOnly(p) ==
    /\ phase[p] = "loadRefresh"
    /\ ~Exists(disk["refresh"])
    /\ Go(p, "generate")
    /\ outdated' = outdated \ {p}
    /\ UNCHANGED <<disk, loaded, issued, company, crossed, server, minted, expired,
                   history>>

\* ... and otherwise generates one ...
MissRefresh(p) ==
    /\ phase[p] = "loadRefresh"
    /\ ~Usable(disk["refresh"], expired)
    /\ Go(p, "generate")
    /\ outdated' = outdated \ {p}
    /\ UNCHANGED <<disk, loaded, issued, company, crossed, server, minted, expired,
                   history>>

\* ... which it must be able to save.
GenerateRefresh(p) ==
    /\ phase[p] = "generate"
    /\ minted' = minted + 1
    /\ \/ /\ Saved("refresh", Refresh(minted + 1))
          /\ Outdate(Starters \ {p})
          /\ crossed' = (crossed \/ p \in outdated \/ RotationInFlight)
          /\ loaded' = [loaded EXCEPT ![p] = Refresh(minted + 1)]
          /\ Go(p, "issueAccess")
          /\ UNCHANGED issued
       \/ SaveFailed /\ Exit(p) /\ UNCHANGED crossed
    /\ UNCHANGED <<company, server, expired, history>>

\* A fresh access token on every startup; serve gives up when it cannot save it.
IssueAccess(p) ==
    /\ phase[p] = "issueAccess"
    /\ minted' = minted + 1
    /\ \/ /\ Saved("access", Access(minted + 1))
          /\ issued' = [issued EXCEPT ![p] = Access(minted + 1)]
          /\ Go(p, "writeSession")
          /\ UNCHANGED <<loaded, outdated>>
       \/ SaveFailed /\ Exit(p)
    /\ UNCHANGED <<company, crossed, server, expired, history>>

\* The copy for old clients; a failed write does not stop the daemon.
WriteSession(p) ==
    /\ phase[p] = "writeSession"
    /\ Saved("session", issued[p]) \/ SaveFailed
    /\ Go(p, "listen")
    /\ UNCHANGED <<loaded, issued, company, outdated, crossed, server, minted,
                   expired, history>>

\* endpoint.Listen succeeds and Serve accepts connections, with the tokens in memory.
Listen(p) ==
    /\ phase[p] = "listen"
    /\ ~serving
    /\ serving' = TRUE
    /\ accessToken' = issued[p]
    /\ refreshToken' = loaded[p]
    /\ crossed' = (crossed \/ p \in outdated)
    /\ Exit(p)
    /\ UNCHANGED <<disk, company, mu, pc, fresh, bearer, stale, minted, expired,
                   history>>

\* Another process has the address: serve gives up, and leaves the files as it wrote them.
FailToListen(p) ==
    /\ phase[p] = "listen"
    /\ serving
    /\ Exit(p)
    /\ UNCHANGED <<disk, company, crossed, server, minted, expired, history>>

\* A process that has not got its listener yet ends, for any reason and at any point.
Die(p) ==
    /\ phase[p] # "none"
    /\ minted < MaxMinted
    /\ Exit(p)
    /\ UNCHANGED <<disk, company, crossed, server, minted, expired, history>>

\* The serving process ends, at any point: killed, crashed or replaced by an update.  Its
\* memory and its handlers are gone.  What it accepted, or was about to, is retired, except
\* the refresh token it left on disk for the next process.
Stop ==
    /\ serving
    /\ minted < MaxMinted
    /\ serving' = FALSE
    /\ accessToken' = NoToken
    /\ refreshToken' = NoToken
    /\ mu' = NoHandler
    /\ pc' = [h \in Handlers |-> "idle"]
    /\ fresh' = [h \in Handlers |-> 0]
    /\ bearer' = [h \in Handlers |-> NoToken]
    /\ stale' = [h \in Handlers |-> FALSE]
    /\ retired' = retired \cup (({accessToken, refreshToken} \cup
                      {Access(fresh[h]) : h \in {g \in Handlers : pc[g] \in Rotating}})
                     \ {disk["refresh"]})
    /\ UNCHANGED <<disk, starting, minted, expired, promised>>

\* "Revoking access": the operator deletes token files while no daemon runs.
RemoveFiles(S) ==
    /\ NobodyRuns
    /\ \E f \in S : Exists(disk[f])
    /\ disk' = [f \in File |-> IF f \in S THEN NoToken ELSE disk[f]]
    /\ retired' = retired \cup ({disk[f] : f \in S} \cap Token)
    /\ promised' = IF "refresh" \in S THEN NoToken ELSE promised
    /\ UNCHANGED <<starting, server, minted, expired>>

-----------------------------------------------------------------------------
(* Requests.  A client holds a token it was given once, read from a file it *)
(* shares with the daemon, or was deployed a copy of, or it holds none.     *)

Bearers ==
    retired \cup {accessToken, refreshToken, NoToken}
            \cup ({disk[f] : f \in File} \cap Token)

\* A token that is not accepted any more: replaced or removed, or expired.
Spent(t) == t \in retired \/ (t \in Token /\ IsExpired(t, expired))

Receive(h, step) ==
    /\ serving
    /\ pc[h] = "idle"
    /\ \E b \in Bearers :
          /\ bearer' = [bearer EXCEPT ![h] = b]
          /\ stale' = [stale EXCEPT ![h] = Spent(b)]
          /\ pc' = [pc EXCEPT ![h] = IF b = NoToken THEN "refuse" ELSE step]
    /\ UNCHANGED <<disk, starting, serving, accessToken, refreshToken, mu, fresh,
                   minted, expired, history>>

\* handleTokenRefresh up to mu.Lock; without a bearer value it is a 401 at once.
ReceiveRefresh(h) == minted < MaxMinted /\ Receive(h, "awaitLock")

\* Mutant: mu is not taken, only noted.
LockRefreshUnlocked(h) ==
    /\ pc[h] = "awaitLock"
    /\ mu' = h
    /\ bearer[h] = refreshToken /\ ~IsExpired(refreshToken, expired)
    /\ pc' = [pc EXCEPT ![h] = "saveAccess"]
    /\ fresh' = [fresh EXCEPT ![h] = minted + 1]
    /\ minted' = minted + 1
    /\ UNCHANGED <<disk, starting, serving, accessToken, refreshToken, bearer,
                   stale, expired, history>>

\* What a refused request has presented is not looked at again.
Refused(h) ==
    /\ pc' = [pc EXCEPT ![h] = "refuse"]
    /\ bearer' = [bearer EXCEPT ![h] = NoToken]
    /\ stale' = [stale EXCEPT ![h] = FALSE]

\* The lock is held from here to the reply.  The pair is generated under it.
LockRefresh(h) ==
    /\ pc[h] = "awaitLock"
    /\ mu = NoHandler
    /\ mu' = h
    /\ IF bearer[h] = refreshToken /\ ~IsExpired(refreshToken, expired)
       THEN /\ pc' = [pc EXCEPT ![h] = "saveAccess"]
            /\ fresh' = [fresh EXCEPT ![h] = minted + 1]
            /\ minted' = minted + 1
            /\ UNCHANGED <<bearer, stale>>
       ELSE Refused(h) /\ UNCHANGED <<fresh, minted>>
    /\ UNCHANGED <<disk, starting, serving, accessToken, refreshToken, expired, history>>

\* Each save failure is logged and the rotation goes on.
SaveAccess(h) ==
    /\ pc[h] = "saveAccess"
    /\ Saved("access", Access(fresh[h])) \/ SaveFailed
    /\ pc' = [pc EXCEPT ![h] = "saveRefresh"]
    /\ UNCHANGED <<starting, serving, accessToken, refreshToken, mu, fresh, bearer,
                   stale, minted, expired, history>>

\* Mutant: the rotated refresh token is kept in memory only.
SaveRefreshSkipped(h) ==
    /\ pc[h] = "saveRefresh"
    /\ pc' = [pc EXCEPT ![h] = "saveSession"]
    /\ promised' = NoToken
    /\ UNCHANGED <<disk, starting, serving, accessToken, refreshToken, mu, fresh,
                   bearer, stale, minted, expired, retired>>

\* Mutant: a write that fails sends the rotation back to its first one.
SaveRefreshRetried(h) ==
    /\ pc[h] = "saveRefresh"
    /\ \/ /\ Saved("refresh", Refresh(fresh[h])) /\ Outdate(Starters)
          /\ pc' = [pc EXCEPT ![h] = "saveSession"]
       \/ /\ SaveFailed /\ UNCHANGED outdated
          /\ pc' = [pc EXCEPT ![h] = "saveAccess"]
    /\ promised' = NoToken
    /\ UNCHANGED <<phase, loaded, issued, company, crossed, serving, accessToken,
                   refreshToken, mu, fresh, bearer, stale, minted, expired, retired>>

\* The pair handed out before is superseded once its successor is on disk, and a process
\* that is starting has read the old one.
SaveRefresh(h) ==
    /\ pc[h] = "saveRefresh"
    /\ \/ Saved("refresh", Refresh(fresh[h])) /\ Outdate(Starters)
       \/ SaveFailed /\ UNCHANGED outdated
    /\ pc' = [pc EXCEPT ![h] = "saveSession"]
    /\ promised' = NoToken
    /\ UNCHANGED <<phase, loaded, issued, company, crossed, serving, accessToken,
                   refreshToken, mu, fresh, bearer, stale, minted, expired, retired>>

\* Mutant: session.token is written at startup only.
SaveSessionSkipped(h) ==
    /\ pc[h] = "saveSession"
    /\ pc' = [pc EXCEPT ![h] = "swap"]
    /\ UNCHANGED <<disk, starting, serving, accessToken, refreshToken, mu, fresh,
                   bearer, stale, minted, expired, history>>

SaveSession(h) ==
    /\ pc[h] = "saveSession"
    /\ Saved("session", Access(fresh[h])) \/ SaveFailed
    /\ pc' = [pc EXCEPT ![h] = "swap"]
    /\ UNCHANGED <<starting, serving, accessToken, refreshToken, mu, fresh, bearer,
                   stale, minted, expired, history>>

\* Mutants: only one of the two tokens in memory is replaced.
SwapRefreshOnly(h) ==
    /\ pc[h] = "swap"
    /\ retired' = retired \cup {accessToken, refreshToken}
    /\ refreshToken' = Refresh(fresh[h])
    /\ pc' = [pc EXCEPT ![h] = "replyPair"]
    /\ UNCHANGED <<disk, starting, serving, accessToken, mu, fresh, bearer, stale,
                   minted, expired, promised>>

SwapAccessOnly(h) ==
    /\ pc[h] = "swap"
    /\ retired' = retired \cup {accessToken, refreshToken}
    /\ accessToken' = Access(fresh[h])
    /\ pc' = [pc EXCEPT ![h] = "replyPair"]
    /\ UNCHANGED <<disk, starting, serving, refreshToken, mu, fresh, bearer, stale,
                   minted, expired, promised>>

\* Both fields change under mu, which every reader of either takes.
Swap(h) ==
    /\ pc[h] = "swap"
    /\ retired' = retired \cup {accessToken, refreshToken}
    /\ accessToken' = Access(fresh[h])
    /\ refreshToken' = Refresh(fresh[h])
    /\ pc' = [pc EXCEPT ![h] = "replyPair"]
    /\ UNCHANGED <<disk, starting, serving, mu, fresh, bearer, stale, minted,
                   expired, promised>>

\* The response is written and the deferred Unlock runs.
Finish(h) ==
    /\ pc' = [pc EXCEPT ![h] = "idle"]
    /\ bearer' = [bearer EXCEPT ![h] = NoToken]
    /\ fresh' = [fresh EXCEPT ![h] = 0]
    /\ stale' = [stale EXCEPT ![h] = FALSE]
    /\ mu' = IF mu = h THEN NoHandler ELSE mu
    /\ UNCHANGED <<disk, starting, serving, accessToken, refreshToken, minted,
                   expired, retired>>

ReplyPair(h) ==
    /\ pc[h] = "replyPair"
    /\ promised' = Refresh(fresh[h])
    /\ Finish(h)

Refuse(h) ==
    /\ pc[h] = "refuse"
    /\ UNCHANGED promised
    /\ Finish(h)

ReceiveExecute(h) == Receive(h, "authenticate")

\* authenticateAccess: value and validity are read in one critical section.
Authenticate(h) ==
    /\ pc[h] = "authenticate"
    /\ mu = NoHandler
    /\ IF bearer[h] = accessToken /\ ~IsExpired(accessToken, expired)
       THEN pc' = [pc EXCEPT ![h] = "admitted"] /\ UNCHANGED <<bearer, stale>>
       ELSE Refused(h)
    /\ UNCHANGED <<disk, starting, serving, accessToken, refreshToken, mu, fresh, minted,
                   expired, history>>

\* The version check and the body decoding, both after authentication.
CheckRequest(h) ==
    /\ pc[h] = "admitted"
    /\ \E next \in {"run", "refuse"} : pc' = [pc EXCEPT ![h] = next]
    /\ UNCHANGED <<disk, starting, serving, accessToken, refreshToken, mu, fresh,
                   bearer, stale, minted, expired, history>>

\* executor.Execute returns and its result or its error is written.
ReplyResult(h) ==
    /\ pc[h] = "run"
    /\ UNCHANGED promised
    /\ Finish(h)

-----------------------------------------------------------------------------
\* The steps runServe takes by itself up to its listener.
StartupStep(p) ==
    \/ StatRefresh(p) \/ LoadLegacy(p) \/ SaveMigrated(p)
    \/ ReuseRefresh(p) \/ MissRefresh(p) \/ GenerateRefresh(p)
    \/ IssueAccess(p) \/ WriteSession(p) \/ Listen(p) \/ FailToListen(p)

\* The steps a handler takes by itself.
HandlerStep(h) ==
    LockRefresh(h) \/ SaveAccess(h) \/ SaveRefresh(h) \/ SaveSession(h) \/ Swap(h)
    \/ ReplyPair(h) \/ Refuse(h) \/ Authenticate(h) \/ CheckRequest(h)

Environment ==
    \/ Stop
    \/ \E p \in Starters : StartProcess(p) \/ Die(p)
    \/ \E S \in Removals : RemoveFiles(S)
    \/ \E k \in Expiring : Tick(k)
    \/ \E h \in Handlers : ReceiveRefresh(h) \/ ReceiveExecute(h) \/ ReplyResult(h)

Next ==
    \/ \E p \in Starters : StartupStep(p)
    \/ \E h \in Handlers : HandlerStep(h)
    \/ Environment

Spec == Init /\ [][Next]_vars

\* runServe and the handlers run on, and sync.Mutex hands the lock to a waiter it has
\* kept for a millisecond, so taking the lock is strongly fair.  Nothing is assumed of
\* the environment: no process is started, no request arrives, no op ends.
Fairness ==
    /\ \A p \in Starters : WF_vars(StartupStep(p))
    /\ \A h \in Handlers : /\ WF_vars(HandlerStep(h))
                           /\ SF_vars(LockRefresh(h))
                           /\ SF_vars(Authenticate(h))

FairSpec == Spec /\ Fairness

-----------------------------------------------------------------------------
(* Properties.  Several processes over one refresh.token can bring a spent token back:   *)
(* one that has read it early and comes late, while another rotates and ends.  `crossed' *)
(* says that this has happened; everything below that mentions it holds until then.      *)

\* A token that stopped being accepted is not accepted again, whatever happened
\* in between: rotations, crashes between any two writes, restarts, revocation, other
\* processes that find the address taken (docs/protocol.md "invalid as soon as the
\* response is produced"; docs/tokens.md "A previously issued access token never
\* survives a restart").
NoRetiredTokenCurrent ==
    crossed \/ (serving => {accessToken, refreshToken} \cap retired = {})

\* "An access token is not accepted by /token/refresh": no path through the files,
\* legacy migration included, makes an access token the current refresh token.
KindsKeptApart ==
    crossed \/ (refreshToken \in Token => refreshToken.kind # "access")

\* The refresh token the last reply handed out stays the one the daemon accepts
\* over any number of crashes and restarts, until it expires, the operator
\* deletes it or the next rotation reaches the disk ("persists across restarts").
PromisedRefreshHonoured ==
    crossed \/ (/\ serving
                /\ promised \in Token
                /\ ~IsExpired(promised, expired)
                => refreshToken = promised)

\* Between rotations refresh.token holds what is in memory, or, when that has expired, what
\* a process that has started since put there; and while no other process has run since the
\* serving one was started, all three files do ("Persist both tokens to disk before updating
\* in-memory state").  So a client on the same directory, or one deployed a copy, holds what
\* the daemon accepts, until a second start replaces access.token and session.token.
DiskMatchesMemory ==
    (serving /\ mu = NoHandler) =>
        /\ crossed \/ disk["refresh"] = refreshToken \/ IsExpired(refreshToken, expired)
        /\ company \/ disk = [access |-> accessToken, refresh |-> refreshToken,
                              session |-> accessToken]

\* A request that presents a token retired or expired before it arrived never runs op and
\* never rotates the pair, however it interleaves with rotations in flight and the clock.
StaleNeverServed ==
    crossed \/ \A h \in Handlers : stale[h] => pc[h] \notin Rotating \cup {"admitted", "run"}

\* Of two requests that present the same refresh token only the first rotates: a
\* swap always spends the token that is current, never one already spent.
EachRefreshSpentOnce ==
    [][\A h \in Handlers :
          (pc[h] = "swap" /\ pc'[h] = "replyPair") =>
              bearer[h] = refreshToken /\ (crossed \/ bearer[h] \notin retired)]_vars

\* Whatever the saves do, every request is answered, or its op is running: mu is always
\* released.
RequestAnswered == \A h \in Handlers : pc[h] # "idle" ~> pc[h] \in {"idle", "run"}

\* A process that was started serves or is gone again, whatever the others do to its files.
StartupEnds == \A p \in Starters : phase[p] = "migrate" ~> phase[p] = "none"

\* A rotation takes effect when its refresh token is on disk: a process that ends from
\* there on leaves the new one to the next, and until the swap the handler that rotates
\* holds mu, so nobody is let in with the pair in memory.
Superseded == \E h \in Handlers : pc[h] \in {"saveSession", "swap"}

\* What the authority calls the accepted pair: the refresh token is the one in memory while
\* that can be used, and the one on disk is accepted next.
AcceptedAccess ==
    IF ~serving THEN NoToken
    ELSE IF Superseded THEN Access(fresh[mu]) ELSE accessToken

AcceptedRefresh ==
    IF serving /\ ~Superseded /\ ~IsExpired(refreshToken, expired) THEN refreshToken
    ELSE IF disk["refresh"] \in Token THEN disk["refresh"] ELSE NoToken

RetiredSoFar == IF Superseded THEN retired \cup {accessToken, refreshToken} ELSE retired

\* The daemon as an implementation of the token authority, until processes cross.
Authority == INSTANCE TokenAuthority WITH
    live    <- serving,
    access  <- AcceptedAccess,
    refresh <- AcceptedRefresh,
    retired <- RetiredSoFar

ImplementsAuthority ==
    Authority!Init /\ [][Authority!Next \/ crossed']_(Authority!vars)

-----------------------------------------------------------------------------
(* The inductive invariants behind these properties: what holds whatever the  *)
(* disk, the operator and other processes do, then what holds until processes  *)
(* cross, with what a revocation as documented adds to it, and what saves that *)
(* succeed add to both.                                                        *)

\* From the first of these phases on a starting process has its refresh token, and from the
\* second on its access token.
Loaded == {"issueAccess", "writeSession", "listen"}
Pending == {"writeSession", "listen"}

\* A token in use was generated already, so the next number is new.
Known(t, m) == t.kind # "legacy" => t.n <= m

\* The tokens are in memory from their startup step on; handlers run only while serving.
MemoryInv ==
    /\ IF serving THEN {accessToken, refreshToken} \subseteq Token
                  ELSE {accessToken, refreshToken} = {NoToken}
    /\ \A p \in Starters :
          /\ IF phase[p] \in Loaded \cup {"saveMigrated"} THEN loaded[p] \in Token
                                                          ELSE loaded[p] = NoToken
          /\ IF phase[p] \in Pending THEN issued[p] \in Token ELSE issued[p] = NoToken
    /\ \A h \in Handlers : pc[h] # "idle" => serving

\* Only the holder of mu rotates.
LockInv ==
    /\ ~serving => mu = NoHandler
    /\ \A h \in Handlers : pc[h] \in Rotating => mu = h

\* Every token was generated before.
KnownInv ==
    /\ \A t \in retired : Known(t, minted)
    /\ \A f \in File : disk[f] \in Token => Known(disk[f], minted)
    /\ accessToken \in Token => accessToken.kind = "access" /\ Known(accessToken, minted)
    /\ refreshToken \in Token => Known(refreshToken, minted)
    /\ \A p \in Starters :
          /\ loaded[p] \in Token => Known(loaded[p], minted)
          /\ issued[p] \in Token => issued[p].kind = "access" /\ Known(issued[p], minted)

\* The pair of a rotation is newer than all it replaces.
PairInv ==
    \A h \in Handlers :
        /\ pc[h] \in PreSwap =>
              /\ bearer[h] = refreshToken
              /\ fresh[h] <= minted
              /\ {Access(fresh[h]), Refresh(fresh[h])}
                    \cap (retired \cup {accessToken, refreshToken}) = {}
        /\ pc[h] = "replyPair" =>
              accessToken = Access(fresh[h]) /\ refreshToken = Refresh(fresh[h])

\* No token generated from now on has expired already.
ExpiryInv == expired["refresh"] <= minted /\ expired["access"] <= minted

\* What a starting process has read of refresh.token still holds unless it is outdated, and
\* the file is there from then on.
ReliedInv ==
    /\ \A p \in Starters \ outdated :
          /\ phase[p] \in {"loadLegacy", "saveMigrated"} => disk["refresh"] = NoToken
          /\ phase[p] = "generate" => ~Usable(disk["refresh"], expired)
          /\ phase[p] \in Loaded => disk["refresh"] = loaded[p]
    /\ (serving \/ \E p \in Starters : phase[p] \in Loaded) => disk["refresh"] \in Token

AnyInv ==
    /\ TypeOK
    /\ MemoryInv
    /\ LockInv
    /\ KnownInv
    /\ PairInv
    /\ ExpiryInv
    /\ ReliedInv

\* An access token is new in the process that serves with it, and no other one has it.
NewInv ==
    /\ accessToken \in Token => accessToken \notin retired \cup {refreshToken}
    /\ \A p \in Starters : phase[p] \in Pending =>
          /\ issued[p] \notin retired \cup {accessToken, refreshToken, disk["refresh"]}
          /\ \A h \in Handlers : pc[h] \in Rotating => issued[p] # Access(fresh[h])
          /\ \A q \in Starters :
                /\ phase[q] \in Loaded => loaded[q] # issued[p]
                /\ phase[q] \in Pending /\ q # p => issued[q] # issued[p]

\* A request that was stale on arrival stays stale and does not get to op.
StaleInv ==
    \A h \in Handlers : stale[h] => Spent(bearer[h]) /\ pc[h] \notin {"admitted", "run"}

ApartInv == AnyInv /\ (crossed \/ (NewInv /\ StaleInv))

\* The operator deletes refresh.token and session.token, perhaps more ("Revoking access").
Documented == \A S \in Removals : {"refresh", "session"} \subseteq S

\* A file has the kind its name says, and no access token is left where the migration of a
\* missing refresh.token would find it.
KindInv ==
    /\ disk["refresh"] \in Token => disk["refresh"].kind # "access"
    /\ refreshToken \in Token => refreshToken.kind # "access"
    /\ \A p \in Starters : phase[p] \in Loaded => loaded[p].kind # "access"
    /\ disk["refresh"] = NoToken =>
          /\ disk["session"] \in Token => disk["session"].kind = "legacy"
          /\ \A p \in Starters : phase[p] = "saveMigrated" => loaded[p] = disk["session"]

\* A disk on which every save succeeds, and the documented revocation.
Dependable == SaveMayFail = FALSE /\ Documented

\* Without company the files hold what the one process has in memory, as far as its startup or
\* its rotation has come.
AloneInv ==
    ~company =>
        /\ \A p \in Starters : phase[p] # "none" =>
              ~serving /\ \A q \in Starters \ {p} : phase[q] = "none"
        /\ \A p \in Starters :
              /\ phase[p] \in Loaded => disk["refresh"] = loaded[p]
              /\ phase[p] \in Pending => disk["access"] = issued[p]
              /\ phase[p] = "listen" => disk["session"] = issued[p]
        /\ serving =>
              /\ (\A h \in Handlers : pc[h] \notin {"saveRefresh", "saveSession", "swap"}) =>
                    disk["access"] = accessToken
              /\ (\A h \in Handlers : pc[h] \notin {"saveSession", "swap"}) =>
                    disk["refresh"] = refreshToken
              /\ (\A h \in Handlers : pc[h] # "swap") => disk["session"] = accessToken
        /\ \A h \in Handlers :
              /\ pc[h] \in {"saveRefresh", "saveSession", "swap"} => disk["access"] = Access(fresh[h])
              /\ pc[h] \in {"saveSession", "swap"} => disk["refresh"] = Refresh(fresh[h])
              /\ pc[h] = "swap" => disk["session"] = Access(fresh[h])

\* The refresh token on disk is that of the rotation in flight, or the one in memory unless
\* that has expired.
RotationInv ==
    /\ (serving /\ ~Superseded) => disk["refresh"] = refreshToken \/ IsExpired(refreshToken, expired)
    /\ \A h \in Handlers :
          /\ pc[h] \in {"saveAccess", "saveRefresh"} => disk["refresh"] = refreshToken
          /\ pc[h] \in {"saveSession", "swap"} =>
                disk["refresh"] = Refresh(fresh[h]) /\ promised = NoToken

\* Neither memory nor what the next startup may load has been retired, so no stale request
\* rotates.
RetiredInv ==
    /\ {refreshToken, disk["refresh"]} \cap retired = {}
    /\ (disk["refresh"] = NoToken /\ disk["session"] \in Token) => disk["session"] \notin retired
    /\ \A h \in Handlers : stale[h] => pc[h] \notin Rotating

\* The promise lives on disk, and in the memory of the process that serves, until it expires.
PromiseInv ==
    promised \in Token =>
        /\ disk["refresh"] = promised \/ IsExpired(promised, expired)
        /\ serving => refreshToken = promised \/ IsExpired(promised, expired)

IInv ==
    /\ ApartInv
    /\ AloneInv
    /\ crossed \/ (KindInv /\ RotationInv /\ RetiredInv /\ PromiseInv)
=============================================================================
