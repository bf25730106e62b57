----------------------------- MODULE Forwarding -----------------------------
(***************************************************************************)
(* One op command from the shim on a client machine to the daemon on the   *)
(* host and back: the shim (cmd/install.go), the proxy (cmd/proxy.go), the *)
(* network between them, and the daemon's two token handlers.              *)
(*                                                                         *)
(* A proxy is a process of its own, so several run at once over the token  *)
(* files of their machine; every file access and every message of a proxy  *)
(* is an action.  The daemon's steps are those TokenAuthority allows: it   *)
(* starts, stops, and answers each request at one instant.                 *)
(*                                                                         *)
(* An invocation may be a run of op-forward doctor instead, a client that  *)
(* reads and renews the same files: its steps, and the next-state relation *)
(* of the whole, are in module Doctor.  The op a shim runs on its own      *)
(* machine is the one OpLookup finds.                                      *)
(***************************************************************************)
EXTENDS Tokens, OpLookup

CONSTANTS
    Invocations,    \* the client processes: op commands, each with its proxy, and doctors
    Machine,        \* the directories of token files
    Host,           \* the daemon's own machine
    Where,          \* the machine each invocation runs on
    Results,        \* what an authenticated request may end as
    MayLose,        \* TRUE: connections break and replies get lost
    Unwritable,     \* the token files a client may fail to write
    MaxMinted,      \* bound: nothing but a rotation and a start of the daemon goes beyond
    Expiring        \* bound: the kinds of token whose expiry may pass

\* What becomes of an authenticated request.  op is run and its result has an exit
\* code other than 127 (124 after a timeout), or that one; or op is not run, and the
\* reply is a result with exit code 1 because Validate refused the arguments, or it
\* is not a 200 at all (426, 400, 500).
Run    == {"ok", "exit127"}
NotRun == {"invalid", "rejected"}
Result == Run \cup NotRun

ASSUME ForwardingAssumption ==
    /\ Host \in Machine
    /\ Where \in [Invocations -> Machine]
    /\ Results \subseteq Result
    /\ MayLose \in BOOLEAN
    /\ Unwritable \subseteq {"access", "refresh"}
    /\ MaxMinted \in Nat
    /\ Expiring \subseteq {"access", "refresh"}

VARIABLES
    up,             \* the daemon serves
    accessToken,    \* the access token the daemon accepts
    refreshToken,   \* the refresh token it accepts, or will reload
    minted,         \* the number of the newest pair
    expired,        \* per kind, the last number whose expiry has passed
    dir,            \* the token files of each machine
    pc,             \* where each shim and its proxy are
    held,           \* the token the proxy uses next
    wire,           \* the message on the connection of each proxy
    cargo,          \* the bearer of a request, the refresh token of a "pair"
    hostRuns,       \* history: how often the host ran op for the invocation
    disturbed       \* history: something went wrong while the invocation ran

daemon == <<up, accessToken, refreshToken, minted>>
vars == <<up, accessToken, refreshToken, minted, expired, dir, pc, held, wire, cargo,
          hostRuns, disturbed>>

File == {"access", "refresh", "session"}

\* A request awaits its reply in one of these.
ProxyAwaiting  == {"awaitFirst", "awaitPair", "awaitRetry"}
DoctorAwaiting == {"awaitOp", "awaitRenewal", "awaitOpAgain"}
Awaiting       == ProxyAwaiting \cup DoctorAwaiting

Ended == {"relayed", "fallback", "reported"}

\* A rotation's reply is on its way to the invocation, or into its files.
AwaitingPair == {"awaitPair", "awaitRenewal"}
SavingPair   == {"saveAccess", "saveRefresh", "saveRenewedAccess", "saveRenewedRefresh"}

\* It authenticates with the access token it has just been issued.
UsingPair == {"sendRetry", "awaitRetry", "askOpAgain", "awaitOpAgain"}

PC == {"idle", "readAccess", "readLegacy", "probe", "probeStale", "sendFirst",
       "readRefresh", "sendRefresh", "exitOther", "exit127",
       "checkEndpoint", "checkHealth", "readAccessToken", "readLegacyToken",
       "readRefreshToken", "rereadRefreshToken", "sendRenewal", "askOp", "checkTokens"}
      \cup Awaiting \cup Ended \cup SavingPair \cup UsingPair

Request == {"execute", "refresh", "health"}

\* The last line is /health/op and its replies: a 200 with the report, and a 409.
Message == {"none", "execute", "refresh", "running", "unauthorized", "pair"} \cup Result
           \cup {"health", "probing", "report", "busy"}

TypeOK ==
    /\ up \in BOOLEAN
    /\ accessToken \in Token
    /\ refreshToken \in Token
    /\ minted \in Nat
    /\ expired \in [Kind -> Nat]
    /\ dir \in [Machine -> [File -> Token \cup {NoToken}]]
    /\ pc \in [Invocations -> PC]
    /\ held \in [Invocations -> Token \cup {NoToken}]
    /\ wire \in [Invocations -> Message]
    /\ cargo \in [Invocations -> Token \cup {NoToken}]
    /\ hostRuns \in [Invocations -> Nat]
    /\ disturbed \in [Invocations -> BOOLEAN]
    /\ \A i \in Invocations :   \* no request goes out without a bearer value
          pc[i] \in {"sendFirst", "sendRefresh", "sendRenewal", "askOp"} \cup SavingPair
                     \cup UsingPair => held[i] \in Token

-----------------------------------------------------------------------------
Active(i) == pc[i] \notin {"idle"} \cup Ended

Disturb(S) == disturbed' = [i \in Invocations |-> disturbed[i] \/ i \in S]

\* What a proxy on this machine would present to /token/refresh.
Credential(m) ==
    IF dir[m]["refresh"] # NoToken THEN dir[m]["refresh"] ELSE dir[m]["session"]

Files(a, r, s) == [access |-> a, refresh |-> r, session |-> s]

\* The refresh token of the daemon, and the files of a client machine.  It was deployed
\* a copy of the refresh token, or holds the single token of an old release which the
\* daemon has promoted, or has an access token alone, or nothing was deployed to it.
Deployments == {[token |-> Refresh(1), files |-> Files(NoToken, Refresh(1), NoToken)],
                [token |-> Legacy,     files |-> Files(NoToken, NoToken, Legacy)],
                [token |-> Refresh(1), files |-> Files(Access(1), NoToken, NoToken)],
                [token |-> Refresh(1), files |-> Files(NoToken, NoToken, NoToken)]}

\* The daemon is serving.
Init ==
    /\ up = TRUE
    /\ minted = 1
    /\ accessToken = Access(1)
    /\ \E d \in Deployments :
          /\ refreshToken = d.token
          /\ dir = [m \in Machine |->
                       IF m = Host THEN Files(Access(1), d.token, Access(1)) ELSE d.files]
    /\ expired = [k \in Kind |-> 0]
    /\ pc = [i \in Invocations |-> "idle"]
    /\ held = [i \in Invocations |-> NoToken]
    /\ wire = [i \in Invocations |-> "none"]
    /\ cargo = [i \in Invocations |-> NoToken]
    /\ hostRuns = [i \in Invocations |-> 0]
    /\ disturbed = [i \in Invocations |-> FALSE]

-----------------------------------------------------------------------------
(* The proxy: runProxy, one action per file access and per message. *)

Goto(i, next) == pc' = [pc EXCEPT ![i] = next]

\* The files an invocation finds must let it authenticate, or it is disturbed.
Invoke(i) ==
    /\ pc[i] = "idle"
    /\ Goto(i, "readAccess")
    /\ disturbed' = [disturbed EXCEPT ![i] =
                        ~up \/ Credential(Where[i]) # refreshToken
                            \/ IsExpired(refreshToken, expired)]
    /\ UNCHANGED <<daemon, expired, dir, held, wire, cargo, hostRuns>>

\* readToken: the value is used whatever its expiry; an expired one is not sent.
ReadAccess(i) ==
    /\ pc[i] = "readAccess"
    /\ LET t == dir[Where[i]]["access"]
       IN  IF t = NoToken
           THEN Goto(i, "readLegacy") /\ UNCHANGED held
           ELSE /\ held' = [held EXCEPT ![i] = t]
                /\ Goto(i, IF IsExpired(t, expired) THEN "probeStale" ELSE "probe")
    /\ UNCHANGED <<daemon, expired, dir, wire, cargo, hostRuns, disturbed>>

\* Without access.token: session.token, and failing that a refresh.token at all.
ReadLegacy(i) ==
    /\ pc[i] = "readLegacy"
    /\ LET t == dir[Where[i]]["session"]
       IN  IF t # NoToken
           THEN /\ held' = [held EXCEPT ![i] = t]
                /\ Goto(i, IF IsExpired(t, expired) THEN "probeStale" ELSE "probe")
           ELSE /\ Goto(i, IF dir[Where[i]]["refresh"] = NoToken
                           THEN "exit127" ELSE "probeStale")
                /\ UNCHANGED held
    /\ UNCHANGED <<daemon, expired, dir, wire, cargo, hostRuns, disturbed>>

\* The endpoint must answer before anything is sent; only then is a token that
\* is missing or known to be expired taken straight to the refresh.
Probe(i) ==
    /\ pc[i] \in {"probe", "probeStale"}
    /\ Goto(i, IF ~up THEN "exit127"
               ELSE IF pc[i] = "probe" THEN "sendFirst" ELSE "readRefresh")
    /\ UNCHANGED <<daemon, expired, dir, held, wire, cargo, hostRuns, disturbed>>

Send(i, msg, next) ==
    /\ wire' = [wire EXCEPT ![i] = IF up THEN msg ELSE "none"]
    /\ cargo' = [cargo EXCEPT ![i] = held[i]]
    /\ Goto(i, next)
    /\ UNCHANGED <<daemon, expired, dir, held, hostRuns, disturbed>>

SendFirst(i) == pc[i] = "sendFirst" /\ Send(i, "execute", "awaitFirst")

\* Mutant: no check that a refresh token was found.
ReadRefreshUnchecked(i) ==
    /\ pc[i] = "readRefresh"
    /\ held' = [held EXCEPT ![i] = Credential(Where[i])]
    /\ Goto(i, "sendRefresh")
    /\ UNCHANGED <<daemon, expired, dir, wire, cargo, hostRuns, disturbed>>

\* The refresh token is read again only now, session.token standing in for it.
ReadRefresh(i) ==
    /\ pc[i] = "readRefresh"
    /\ held' = [held EXCEPT ![i] = Credential(Where[i])]
    /\ Goto(i, IF Credential(Where[i]) = NoToken THEN "exit127" ELSE "sendRefresh")
    /\ UNCHANGED <<daemon, expired, dir, wire, cargo, hostRuns, disturbed>>

SendRefresh(i) == pc[i] = "sendRefresh" /\ Send(i, "refresh", "awaitPair")

\* Mutant: a reply that is neither a success nor a 401 is tried again.
ReceiveRetrying(i) ==
    /\ pc[i] \in {"awaitFirst", "awaitRetry"}
    /\ wire[i] \in Result \cup {"unauthorized"}
    /\ Goto(i, IF wire[i] \in {"ok", "invalid"} THEN "exitOther"
               ELSE IF pc[i] = "awaitFirst" THEN "readRefresh" ELSE "exit127")
    /\ UNCHANGED <<daemon, expired, dir, held, wire, cargo, hostRuns, disturbed>>

\* Mutant: a 401 ends the command instead of leading to the refresh.
ReceiveNoRefresh(i) ==
    /\ pc[i] \in {"awaitFirst", "awaitRetry"}
    /\ wire[i] \in Result \cup {"unauthorized"}
    /\ Goto(i, IF wire[i] \in {"ok", "invalid"} THEN "exitOther" ELSE "exit127")
    /\ UNCHANGED <<daemon, expired, dir, held, wire, cargo, hostRuns, disturbed>>

\* The reply to /op/execute.  A first 401 leads to the refresh; op's own result is
\* relayed with its exit code, everything else exits 127.
ReceiveResult(i) ==
    /\ pc[i] \in {"awaitFirst", "awaitRetry"}
    /\ wire[i] \in Result \cup {"unauthorized"}
    /\ Goto(i, IF wire[i] \in {"ok", "invalid"} THEN "exitOther"
               ELSE IF pc[i] = "awaitFirst" /\ wire[i] = "unauthorized"
               THEN "readRefresh" ELSE "exit127")
    /\ UNCHANGED <<daemon, expired, dir, held, wire, cargo, hostRuns, disturbed>>

\* The reply to /token/refresh; cargo is the rotated refresh token.
ReceivePair(i) ==
    /\ pc[i] = "awaitPair"
    /\ wire[i] \in {"pair", "unauthorized"}
    /\ Goto(i, IF wire[i] = "pair" THEN "saveAccess" ELSE "exit127")
    /\ held' = [held EXCEPT ![i] = IF wire[i] = "pair" THEN Access(cargo[i].n) ELSE @]
    /\ UNCHANGED <<daemon, expired, dir, wire, cargo, hostRuns, disturbed>>

\* writeTokenFile: the file is replaced, or it is unchanged and the save has failed.
Write(i, file, token) == dir' = [dir EXCEPT ![Where[i]][file] = token]
WriteFails(file)      == file \in Unwritable /\ UNCHANGED dir

\* saveTokenFile warns of a save that failed, and the proxy goes on.
SaveAccess(i) ==
    /\ pc[i] = "saveAccess"
    /\ Write(i, "access", held[i]) \/ WriteFails("access")
    /\ Goto(i, "saveRefresh")
    /\ UNCHANGED <<daemon, expired, held, wire, cargo, hostRuns, disturbed>>

\* Mutant: only the access token is cached.
SaveRefreshSkipped(i) ==
    /\ pc[i] = "saveRefresh"
    /\ Goto(i, "sendRetry")
    /\ UNCHANGED <<daemon, expired, dir, held, wire, cargo, hostRuns, disturbed>>

SaveRefresh(i) ==
    /\ pc[i] = "saveRefresh"
    /\ Write(i, "refresh", cargo[i]) \/ WriteFails("refresh")
    /\ Goto(i, "sendRetry")
    /\ UNCHANGED <<daemon, expired, held, wire, cargo, hostRuns, disturbed>>

SendRetry(i) == pc[i] = "sendRetry" /\ Send(i, "execute", "awaitRetry")

\* Mutant: the refresh request is sent by a client without a timeout.
ConnectionFailsOnExecute(i) ==
    /\ pc[i] \in {"awaitFirst", "awaitRetry"}
    /\ wire[i] = "none"
    /\ Goto(i, "exit127")
    /\ UNCHANGED <<daemon, expired, dir, held, wire, cargo, hostRuns, disturbed>>

\* The request or its reply is gone: client.Do returns an error.
ConnectionFails(i) ==
    /\ pc[i] \in ProxyAwaiting
    /\ wire[i] = "none"
    /\ Goto(i, "exit127")
    /\ UNCHANGED <<daemon, expired, dir, held, wire, cargo, hostRuns, disturbed>>

\* What the process held in memory is gone; a request it has sent may still arrive.
ProcessEnds(i) ==
    /\ held' = [held EXCEPT ![i] = NoToken]
    /\ cargo' = [cargo EXCEPT ![i] = IF wire[i] \in Request THEN @ ELSE NoToken]

\* The shim: 127 runs the real op on this machine, any other status is relayed.
Shim(i) ==
    /\ pc[i] \in {"exitOther", "exit127"}
    /\ Goto(i, IF pc[i] = "exit127" THEN "fallback" ELSE "relayed")
    /\ ProcessEnds(i)
    /\ UNCHANGED <<daemon, expired, dir, wire, hostRuns, disturbed>>

-----------------------------------------------------------------------------
(* The daemon. *)

Reply(i, msg, token) ==
    /\ wire' = [wire EXCEPT ![i] = msg]
    /\ cargo' = [cargo EXCEPT ![i] = token]

\* handleExecute up to the start of op; the version check, the decoding of the body
\* and Validate follow authentication, in this order.
HandleExecute(i) ==
    /\ up
    /\ wire[i] = "execute"
    /\ IF cargo[i] = accessToken /\ ~IsExpired(accessToken, expired)
       THEN \/ /\ Results \cap Run # {}
               /\ Reply(i, "running", NoToken)
               /\ hostRuns' = [hostRuns EXCEPT ![i] = @ + 1]
            \/ /\ \E r \in Results \cap NotRun : Reply(i, r, NoToken)
               /\ UNCHANGED hostRuns
       ELSE Reply(i, "unauthorized", NoToken) /\ UNCHANGED hostRuns
    /\ UNCHANGED <<daemon, expired, dir, pc, held, disturbed>>

\* op ends on the host, at the latest when the executor's timeout stops it; it
\* runs on whether or not the client still waits.
OpEnds(i) ==
    /\ up
    /\ wire[i] = "running"
    /\ \E r \in Results \cap Run : Reply(i, r, NoToken)
    /\ UNCHANGED <<daemon, expired, dir, pc, held, hostRuns, disturbed>>

\* Mutant: refresh tokens are checked for their expiry only, not against the current one.
HandleRefreshReusable(i) ==
    /\ up
    /\ wire[i] = "refresh"
    /\ ~IsExpired(cargo[i], expired)
    /\ minted' = minted + 1
    /\ accessToken' = Access(minted + 1)
    /\ refreshToken' = Refresh(minted + 1)
    /\ dir' = [dir EXCEPT ![Host] =
                  Files(Access(minted + 1), Refresh(minted + 1), Access(minted + 1))]
    /\ Reply(i, "pair", Refresh(minted + 1))
    /\ Disturb({j \in Invocations : Active(j)} \ {i})
    /\ UNCHANGED <<up, expired, pc, held, hostRuns>>

\* handleTokenRefresh: a valid refresh token is spent for a new pair, which the
\* daemon saves to its own files.  Every other running invocation holds tokens
\* that are worth nothing now.
HandleRefresh(i) ==
    /\ up
    /\ wire[i] = "refresh"
    /\ IF cargo[i] = refreshToken /\ ~IsExpired(refreshToken, expired)
       THEN LET n == minted + 1
            IN  /\ minted' = n
                /\ accessToken' = Access(n)
                /\ refreshToken' = Refresh(n)
                /\ dir' = [dir EXCEPT ![Host] = Files(Access(n), Refresh(n), Access(n))]
                /\ Reply(i, "pair", Refresh(n))
                /\ Disturb({j \in Invocations : Active(j)} \ {i})
       ELSE /\ Reply(i, "unauthorized", NoToken)
            /\ UNCHANGED <<accessToken, refreshToken, minted, dir, disturbed>>
    /\ UNCHANGED <<up, expired, pc, held, hostRuns>>

\* Mutant: a starting daemon does not look for the refresh token it saved.
StartAfresh ==
    /\ ~up
    /\ up' = TRUE
    /\ minted' = minted + 1
    /\ accessToken' = Access(minted + 1)
    /\ refreshToken' = Refresh(minted + 1)
    /\ dir' = [dir EXCEPT ![Host] =
                  Files(Access(minted + 1), Refresh(minted + 1), Access(minted + 1))]
    /\ UNCHANGED <<expired, pc, held, wire, cargo, hostRuns, disturbed>>

\* Mutant: a starting daemon loads its access token again, too.
StartKeepsAccess ==
    /\ ~up
    /\ up' = TRUE
    /\ minted' = minted + 1
    /\ UNCHANGED accessToken
    /\ refreshToken' = IF Usable(dir[Host]["refresh"], expired)
                       THEN dir[Host]["refresh"] ELSE Refresh(minted + 1)
    /\ dir' = [dir EXCEPT ![Host] = Files(accessToken', refreshToken', accessToken')]
    /\ UNCHANGED <<expired, pc, held, wire, cargo, hostRuns, disturbed>>

\* op-forward serve: the refresh token is reloaded unless it has expired.
StartDaemon ==
    /\ ~up
    /\ up' = TRUE
    /\ minted' = minted + 1
    /\ accessToken' = Access(minted + 1)
    /\ refreshToken' = IF Usable(dir[Host]["refresh"], expired)
                       THEN dir[Host]["refresh"] ELSE Refresh(minted + 1)
    /\ dir' = [dir EXCEPT ![Host] = Files(accessToken', refreshToken', accessToken')]
    /\ UNCHANGED <<expired, pc, held, wire, cargo, hostRuns, disturbed>>

\* op-forward serve while the daemon serves: it writes its tokens to the files as above
\* before its Listen fails and it exits.  The daemon goes on with those it has in memory.
ServeBeside ==
    /\ up
    /\ minted < MaxMinted
    /\ minted' = minted + 1
    /\ dir' = [dir EXCEPT ![Host] =
                  Files(Access(minted + 1),
                        IF Usable(@["refresh"], expired) THEN @["refresh"] ELSE Refresh(minted + 1),
                        Access(minted + 1))]
    /\ UNCHANGED <<up, accessToken, refreshToken, expired, pc, held, wire, cargo, hostRuns,
                   disturbed>>

\* A rotation's reply that has not reached the client's files yet.
PairUnsaved(i) ==
    pc[i] \in AwaitingPair \cup SavingPair /\ wire[i] = "pair"

\* The daemon ends; every connection to it breaks, and what it was doing for a client
\* that left ends with it.  Without losses that does not happen between a rotation and
\* the arrival of its reply.
StopDaemon ==
    /\ up
    /\ minted < MaxMinted
    /\ MayLose \/ ~\E i \in Invocations : pc[i] \in AwaitingPair /\ wire[i] = "pair"
    /\ up' = FALSE
    /\ wire' = [i \in Invocations |->
                   IF pc[i] \in Awaiting \/ wire[i] \in {"running", "probing"}
                   THEN "none" ELSE wire[i]]
    /\ Disturb({i \in Invocations : Active(i)})
    /\ UNCHANGED <<accessToken, refreshToken, minted, expired, dir, pc, held, cargo, hostRuns>>

-----------------------------------------------------------------------------
(* The network, the clock and the operator. *)

\* The tunnel drops: a request that was not read yet, or the reply, is lost.  A
\* request the daemon has read is carried out all the same.
Lose(i) ==
    /\ MayLose
    /\ pc[i] \in Awaiting
    /\ wire[i] \notin {"none", "running", "probing"}
    /\ wire' = [wire EXCEPT ![i] = "none"]
    /\ Disturb({i})
    /\ UNCHANGED <<daemon, expired, dir, pc, held, cargo, hostRuns>>

\* The client's own timeout, or the loss of the connection while op runs.
GiveUp(i) ==
    /\ MayLose
    /\ pc[i] \in ProxyAwaiting
    /\ Goto(i, "exit127")
    /\ Disturb({i})
    /\ UNCHANGED <<daemon, expired, dir, held, wire, cargo, hostRuns>>

\* Expiry disturbs an invocation only when it takes the token it has just been
\* issued, or the refresh token itself.
Tick(k) ==
    /\ minted < MaxMinted
    /\ expired[k] < (IF k = "access" THEN minted ELSE expired["access"])
    /\ expired' = [expired EXCEPT ![k] = @ + 1]
    /\ Disturb({i \in Invocations : Active(i) /\
                   ( k = "refresh" \/ wire[i] = "pair"
                     \/ pc[i] \in SavingPair \cup UsingPair)})
    /\ UNCHANGED <<daemon, dir, pc, held, wire, cargo, hostRuns>>

\* The remedy of docs/tokens.md: copy the host's refresh.token to the machine, unless a
\* rotated pair is on its way into the files there.
Deploy(m) ==
    /\ m # Host
    /\ dir[m]["refresh"] # dir[Host]["refresh"]
    /\ \A i \in Invocations : Where[i] = m => ~PairUnsaved(i)
    /\ dir' = [dir EXCEPT ![m]["refresh"] = dir[Host]["refresh"]]
    /\ UNCHANGED <<daemon, expired, pc, held, wire, cargo, hostRuns, disturbed>>

-----------------------------------------------------------------------------
ProxyStep(i) ==
    ReadAccess(i) \/ ReadLegacy(i) \/ Probe(i) \/ SendFirst(i) \/ ReceiveResult(i)
    \/ ReadRefresh(i) \/ SendRefresh(i) \/ ReceivePair(i) \/ SaveAccess(i)
    \/ SaveRefresh(i) \/ SendRetry(i) \/ ConnectionFails(i) \/ Shim(i)

-----------------------------------------------------------------------------
(* Properties. *)

\* The host runs op at most once for one command, although the proxy sends the
\* request again after a 401, and a result is relayed only if op did run, or its
\* arguments were refused.
RunOnce ==
    \A i \in Invocations :
        /\ hostRuns[i] <= 1
        /\ pc[i] = "relayed" => hostRuns[i] = 1 \/ wire[i] = "invalid"

\* A shim that is about to run op on its own machine does not run a shim, which would call
\* itself without end, whatever PATH and its directories were when it was installed.
ShimRunsNoShim == \A i \in Invocations : pc[i] = "exit127" => FallbackIsNoShim

\* A command that meets no outage, no rotation by somebody else and no expiry of
\* what it was just issued is served by the host, whatever was in its files: an
\* access token of an earlier daemon, an expired one, none, or the legacy token
\* ("This enables the proxy to self-heal after a daemon restart without manual
\* redeployment").
UndisturbedServed ==
    \A i \in Invocations :
        (pc[i] = "fallback" /\ ~disturbed[i]) => wire[i] \in {"exit127", "rejected"}

\* What the machine would present, if anything, is what the daemon accepts or, once that
\* has expired, will load when it is started again; or it is about to be replaced by that, or
\* has expired.
Holds(m) ==
    \/ Credential(m) \in {NoToken, refreshToken, dir[Host]["refresh"]}
    \/ IsExpired(Credential(m), expired)
    \/ \E i \in Invocations : Where[i] = m /\ PairUnsaved(i)

\* A machine that has its own copy of the credential keeps it through rotations
\* and restarts: what it would present is what the daemon accepts, unless it has
\* expired or a reply is still on its way into the files.
CredentialHeld == \A m \in Machine \ {Host} : Holds(m)

\* No write puts an older refresh token over a newer one: the proxies of one
\* directory "see each other's refreshed files".
NoStaleOverwrite ==
    [][\A m \in Machine :
          LET old == dir[m]["refresh"]
              new == dir'[m]["refresh"]
          IN  (old \in Token /\ old.kind = "refresh") => new.kind = "refresh" /\ new.n >= old.n]_vars

\* The tokens the daemon does not accept any more, and never will: those of every number up
\* to that of its latest access token, but for the one it accepts and the refresh token.
Retired ==
    ({Access(n) : n \in 1..accessToken.n} \cup {Refresh(n) : n \in 1..accessToken.n} \cup {Legacy})
       \ ({refreshToken} \cup (IF up THEN {accessToken} ELSE {}))

Authority == INSTANCE TokenAuthority WITH
    live    <- up,
    access  <- IF up THEN accessToken ELSE NoToken,
    refresh <- refreshToken,
    retired <- Retired

\* To its clients the daemon is the token authority that TokenDaemon implements: whatever
\* they send, lose and save, and however often it is started, it keeps its refresh token
\* until it expires, and never accepts a token of an earlier pair again.
DaemonImplementsAuthority == Authority!Spec

\* Every command ends, relayed or run locally, whatever is lost or restarted.
InvocationEnds == \A i \in Invocations : Active(i) ~> pc[i] \in Ended
=============================================================================
