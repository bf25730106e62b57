------------------------------- MODULE Doctor -------------------------------
(***************************************************************************)
(* op-forward doctor on a client machine (cmd/doctor.go), together with    *)
(* the commands of Forwarding over the same token files and daemon, and    *)
(* the daemon's /health/op with the lock that admits one authenticated     *)
(* probe at a time (handleHealthOp).                                       *)
(*                                                                         *)
(* A doctor is an invocation like a command: every request and every token *)
(* file it reads before it reports on them is an action.                   *)
(***************************************************************************)
EXTENDS Forwarding

CONSTANTS
    Modes,      \* the sets of flags a doctor may be started with
    NoOne       \* the holder of probeMu when it is free

\* --no-refresh and --interactive; the latter asks the daemon for a probe.
Flag == {"no-refresh", "interactive"}

ASSUME DoctorAssumption ==
    /\ Modes \subseteq SUBSET Flag
    /\ NoOne \notin Invocations

VARIABLES
    doctor,     \* the doctor struct and the checks of each run
    probeMu,    \* the request whose handler holds the lock
    renewals    \* history: how many pairs the daemon rotated for each invocation

systemVars == <<vars, doctor, probeMu, renewals>>

Renewal == {"idle", "done", "failed", "declined"}

\* What the daemon_op check finds: the daemon's own report, or why there is none.
OpFinding == {"none", "unreachable", "noCredential", "declined", "renewalFailed",
              "rejected", "rejectedFresh", "error", "report", "busy"}

TokensFinding == {"none", "renewed", "declined", "renewalFailed", "valid", "renewable",
                  "notRenewable", "unusable"}

Report == [flags : SUBSET Flag, renewal : Renewal, endpoint : {"none", "ok", "fail"},
           health : {"none", "ok", "fail", "skip"}, op : OpFinding, tokens : TokensFinding]

NoReport == [flags |-> {}, renewal |-> "idle", endpoint |-> "none", health |-> "none",
             op |-> "none", tokens |-> "none"]

SystemTypeOK ==
    /\ TypeOK
    /\ doctor \in [Invocations -> Report]
    /\ probeMu \in Invocations \cup {NoOne}
    /\ renewals \in [Invocations -> Nat]

SystemInit ==
    /\ Init
    /\ doctor = [i \in Invocations |-> NoReport]
    /\ probeMu = NoOne
    /\ renewals = [i \in Invocations |-> 0]

-----------------------------------------------------------------------------
(* The doctor.  Every action is a step of doctor.run. *)

ReadOnly(i) == "no-refresh" \in doctor[i].flags

Stored(i, file) == dir[Where[i]][file]

\* readValidTokenValue.
Valid(i, file) == Usable(Stored(i, file), expired)

Note(i, field, value) == doctor' = [doctor EXCEPT ![i][field] = value]

\* The daemon_op check is settled; the tokens are checked next.
Settle(i, finding) == Note(i, "op", finding) /\ Goto(i, "checkTokens")

\* Most steps of a doctor leave all of this alone.
Elsewhere == <<daemon, expired, dir, hostRuns, probeMu, renewals>>

\* A doctor that is not --no-refresh needs a current refresh.token: unlike a proxy
\* it does not fall back on session.token.
Diagnose(i) ==
    /\ pc[i] = "idle"
    /\ Where[i] # Host
    /\ \E flags \in Modes : doctor' = [doctor EXCEPT ![i] = [NoReport EXCEPT !.flags = flags]]
    /\ Goto(i, "checkEndpoint")
    /\ disturbed' = [disturbed EXCEPT ![i] =
                        ~up \/ Stored(i, "refresh") # refreshToken
                            \/ IsExpired(refreshToken, expired)]
    /\ UNCHANGED <<Elsewhere, held, wire, cargo>>

\* checkEndpoint: without a listener the daemon is not asked anything.
CheckEndpoint(i) ==
    /\ pc[i] = "checkEndpoint"
    /\ IF up
       THEN Note(i, "endpoint", "ok") /\ Goto(i, "checkHealth")
       ELSE /\ doctor' = [doctor EXCEPT ![i] =
                  [@ EXCEPT !.endpoint = "fail", !.health = "skip", !.op = "unreachable"]]
            /\ Goto(i, "checkTokens")
    /\ UNCHANGED <<Elsewhere, held, wire, cargo, disturbed>>

\* checkDaemonHealth: its outcome does not keep daemon_op from being checked.
CheckDaemonHealth(i) ==
    /\ pc[i] = "checkHealth"
    /\ \/ up /\ Note(i, "health", "ok") /\ UNCHANGED disturbed
       \/ ~up /\ Note(i, "health", "fail") /\ UNCHANGED disturbed
       \/ MayLose /\ Note(i, "health", "fail") /\ Disturb({i})
    /\ Goto(i, "readAccessToken")
    /\ UNCHANGED <<Elsewhere, held, wire, cargo>>

\* readAccessTokenValue: an expired token counts as none, unlike in the proxy.
ReadAccessToken(i) ==
    /\ \/ pc[i] = "readAccessToken" /\ Valid(i, "access")
          /\ held' = [held EXCEPT ![i] = Stored(i, "access")] /\ Goto(i, "askOp")
       \/ pc[i] = "readAccessToken" /\ ~Valid(i, "access")
          /\ Goto(i, "readLegacyToken") /\ UNCHANGED held
       \/ pc[i] = "readLegacyToken" /\ Valid(i, "session")
          /\ held' = [held EXCEPT ![i] = Stored(i, "session")] /\ Goto(i, "askOp")
       \/ pc[i] = "readLegacyToken" /\ ~Valid(i, "session")
          /\ Goto(i, "readRefreshToken") /\ UNCHANGED held
    /\ UNCHANGED <<Elsewhere, doctor, wire, cargo, disturbed>>

Renew(i) ==
    /\ held' = [held EXCEPT ![i] = Stored(i, "refresh")]
    /\ Goto(i, "sendRenewal")
    /\ UNCHANGED doctor

\* No access token to ask with: renew it, unless that is impossible or forbidden.
ReadRefreshToken(i) ==
    /\ pc[i] = "readRefreshToken"
    /\ \/ ~Valid(i, "refresh") /\ Settle(i, "noCredential") /\ UNCHANGED held
       \/ /\ Valid(i, "refresh") /\ ReadOnly(i)
          /\ doctor' = [doctor EXCEPT ![i] = [@ EXCEPT !.renewal = "declined", !.op = "declined"]]
          /\ Goto(i, "checkTokens") /\ UNCHANGED held
       \/ Valid(i, "refresh") /\ ~ReadOnly(i) /\ Renew(i)
    /\ UNCHANGED <<Elsewhere, wire, cargo, disturbed>>

SendRenewal(i) ==
    /\ pc[i] = "sendRenewal"
    /\ Send(i, "refresh", "awaitRenewal")
    /\ UNCHANGED <<doctor, probeMu, renewals>>

RenewalFails(i) ==
    /\ doctor' = [doctor EXCEPT ![i] = [@ EXCEPT !.renewal = "failed", !.op = "renewalFailed"]]
    /\ Goto(i, "checkTokens")

ReceiveRenewal(i) ==
    /\ pc[i] = "awaitRenewal"
    /\ \/ /\ wire[i] = "pair"
          /\ held' = [held EXCEPT ![i] = Access(cargo[i].n)]
          /\ Goto(i, "saveRenewedAccess")
          /\ UNCHANGED doctor
       \/ wire[i] = "unauthorized" /\ RenewalFails(i) /\ UNCHANGED held
    /\ UNCHANGED <<Elsewhere, wire, cargo, disturbed>>

\* A failed save ends the renewal at once: the second file is not attempted.
SaveRenewedAccess(i) ==
    /\ pc[i] = "saveRenewedAccess"
    /\ \/ Write(i, "access", held[i]) /\ Goto(i, "saveRenewedRefresh") /\ UNCHANGED <<doctor, disturbed>>
       \/ WriteFails("access") /\ RenewalFails(i) /\ Disturb({i})
    /\ UNCHANGED <<daemon, expired, hostRuns, probeMu, renewals, held, wire, cargo>>

SaveRenewedRefresh(i) ==
    /\ pc[i] = "saveRenewedRefresh"
    /\ \/ Write(i, "refresh", cargo[i]) /\ Note(i, "renewal", "done")
          /\ Goto(i, "askOpAgain") /\ UNCHANGED disturbed
       \/ WriteFails("refresh") /\ RenewalFails(i) /\ Disturb({i})
    /\ UNCHANGED <<daemon, expired, hostRuns, probeMu, renewals, held, wire, cargo>>

AskOp(i) ==
    /\ \/ pc[i] = "askOp" /\ Send(i, "health", "awaitOp")
       \/ pc[i] = "askOpAgain" /\ Send(i, "health", "awaitOpAgain")
    /\ UNCHANGED <<doctor, probeMu, renewals>>

\* Mutant: a token that looks valid is not renewed when the daemon refuses it.
ReceiveOpNoRenewal(i) ==
    /\ pc[i] \in {"awaitOp", "awaitOpAgain"}
    /\ \/ wire[i] \in {"report", "busy"} /\ Settle(i, wire[i])
       \/ wire[i] = "unauthorized" /\ Settle(i, "rejected")
    /\ UNCHANGED <<Elsewhere, held, wire, cargo, disturbed>>

\* Mutant: every 401 is renewed, also the one of a token that was just issued.
ReceiveOpRenewsAgain(i) ==
    /\ pc[i] \in {"awaitOp", "awaitOpAgain"}
    /\ \/ wire[i] \in {"report", "busy"} /\ Settle(i, wire[i])
       \/ wire[i] = "unauthorized" /\ ReadOnly(i) /\ Settle(i, "rejected")
       \/ /\ wire[i] = "unauthorized" /\ ~ReadOnly(i)
          /\ Goto(i, "rereadRefreshToken") /\ UNCHANGED doctor
    /\ UNCHANGED <<Elsewhere, held, wire, cargo, disturbed>>

\* A 401 leads to one renewal, if there was none before and it is allowed.
ReceiveOp(i) ==
    /\ pc[i] \in {"awaitOp", "awaitOpAgain"}
    /\ \/ wire[i] \in {"report", "busy"} /\ Settle(i, wire[i])
       \/ /\ wire[i] = "unauthorized"
          /\ \/ pc[i] = "awaitOpAgain" /\ Settle(i, "rejectedFresh")
             \/ pc[i] = "awaitOp" /\ ReadOnly(i) /\ Settle(i, "rejected")
             \/ pc[i] = "awaitOp" /\ ~ReadOnly(i) /\ Goto(i, "rereadRefreshToken")
                /\ UNCHANGED doctor
    /\ UNCHANGED <<Elsewhere, held, wire, cargo, disturbed>>

RereadRefreshToken(i) ==
    /\ pc[i] = "rereadRefreshToken"
    /\ \/ Valid(i, "refresh") /\ Renew(i)
       \/ ~Valid(i, "refresh") /\ Settle(i, "rejected") /\ UNCHANGED held
    /\ UNCHANGED <<Elsewhere, wire, cargo, disturbed>>

\* A request of the doctor that got no reply.
RequestFails(i) ==
    /\ \/ pc[i] = "awaitRenewal" /\ RenewalFails(i)
       \/ pc[i] \in {"awaitOp", "awaitOpAgain"} /\ Settle(i, "error")
    /\ UNCHANGED <<Elsewhere, held, wire, cargo>>

DoctorConnectionFails(i) == wire[i] = "none" /\ RequestFails(i) /\ UNCHANGED disturbed

\* doctorGet's timeout, or the loss of the connection while the daemon works.
DoctorGivesUp(i) == MayLose /\ RequestFails(i) /\ Disturb({i})

\* checkTokens: what was done about the tokens comes before what the files hold now.
CheckTokens(i) ==
    /\ pc[i] = "checkTokens"
    /\ Note(i, "tokens",
          CASE doctor[i].renewal = "failed"   -> "renewalFailed"
            [] doctor[i].renewal = "done"     -> "renewed"
            [] doctor[i].renewal = "declined" -> "declined"
            [] doctor[i].renewal = "idle"     ->
                 IF Valid(i, "refresh")
                 THEN IF Valid(i, "access") THEN "valid" ELSE "renewable"
                 ELSE IF Valid(i, "access") \/ Valid(i, "session") THEN "notRenewable"
                 ELSE "unusable")
    /\ Goto(i, "reported")
    /\ ProcessEnds(i)
    /\ wire' = [wire EXCEPT ![i] = IF @ \in Request \cup {"probing"} THEN @ ELSE "none"]
    /\ UNCHANGED <<Elsewhere, disturbed>>

-----------------------------------------------------------------------------
(* The daemon: handleHealthOp. *)

\* Mutant: the probe is not guarded by the lock.
HandleHealthOpUnguarded(i) ==
    /\ up
    /\ wire[i] = "health"
    /\ LET accepted == cargo[i] = accessToken /\ ~IsExpired(accessToken, expired)
           probe    == "interactive" \in doctor[i].flags
       IN  \/ ~accepted /\ Reply(i, "unauthorized", NoToken) /\ UNCHANGED probeMu
           \/ accepted /\ ~probe /\ Reply(i, "report", NoToken) /\ UNCHANGED probeMu
           \/ accepted /\ probe /\ Reply(i, "probing", NoToken) /\ probeMu' = i
    /\ UNCHANGED <<daemon, expired, dir, pc, held, hostRuns, disturbed, doctor, renewals>>

\* TryLock: a second authenticated probe is refused, not queued.  Metadata needs no lock.
HandleHealthOp(i) ==
    /\ up
    /\ wire[i] = "health"
    /\ LET accepted == cargo[i] = accessToken /\ ~IsExpired(accessToken, expired)
           probe    == "interactive" \in doctor[i].flags
       IN  \/ ~accepted /\ Reply(i, "unauthorized", NoToken) /\ UNCHANGED probeMu
           \/ accepted /\ ~probe /\ Reply(i, "report", NoToken) /\ UNCHANGED probeMu
           \/ accepted /\ probe /\ probeMu # NoOne
              /\ Reply(i, "busy", NoToken) /\ UNCHANGED probeMu
           \/ accepted /\ probe /\ probeMu = NoOne
              /\ Reply(i, "probing", NoToken) /\ probeMu' = i
    /\ UNCHANGED <<daemon, expired, dir, pc, held, hostRuns, disturbed, doctor, renewals>>

\* Mutant: the lock is not released when the client of the probe has gone.
ProbeEndsForReader(i) ==
    /\ up
    /\ wire[i] = "probing"
    /\ Reply(i, "report", NoToken)
    /\ probeMu' = IF pc[i] \in Awaiting THEN NoOne ELSE probeMu
    /\ UNCHANGED <<daemon, expired, dir, pc, held, hostRuns, disturbed, doctor, renewals>>

\* opcheck.Check returns, at the latest on its timeout or when the client has gone;
\* the lock is released whether or not anybody reads the report.
ProbeEnds(i) ==
    /\ up
    /\ wire[i] = "probing"
    /\ Reply(i, "report", NoToken)
    /\ probeMu' = NoOne
    /\ UNCHANGED <<daemon, expired, dir, pc, held, hostRuns, disturbed, doctor, renewals>>

-----------------------------------------------------------------------------
DoctorStep(i) ==
    CheckEndpoint(i) \/ CheckDaemonHealth(i) \/ ReadAccessToken(i) \/ ReadRefreshToken(i)
    \/ SendRenewal(i) \/ ReceiveRenewal(i) \/ SaveRenewedAccess(i) \/ SaveRenewedRefresh(i)
    \/ AskOp(i) \/ ReceiveOp(i) \/ RereadRefreshToken(i) \/ DoctorConnectionFails(i)
    \/ CheckTokens(i)

\* A pair was rotated for this invocation if its reply says so.
Rotation(i) ==
    /\ HandleRefresh(i)
    /\ renewals' = [renewals EXCEPT ![i] = @ + (IF wire'[i] = "pair" THEN 1 ELSE 0)]
    /\ UNCHANGED <<doctor, probeMu>>

\* What the handlers of the daemon do for one invocation.
Serve(i) ==
    \/ (HandleExecute(i) \/ OpEnds(i)) /\ UNCHANGED <<doctor, probeMu, renewals>>
    \/ Rotation(i)
    \/ HandleHealthOp(i)
    \/ ProbeEnds(i)

ClientStep(i) ==
    \/ ProxyStep(i) /\ UNCHANGED <<doctor, probeMu, renewals>>
    \/ DoctorStep(i)

\* probeMu is in the memory of the daemon and ends with it.
Surroundings ==
    \/ StopDaemon /\ probeMu' = NoOne /\ UNCHANGED <<doctor, renewals>>
    \/ /\ \/ StartDaemon \/ ServeBeside
          \/ \E k \in Expiring : Tick(k)
          \/ \E m \in Machine : Deploy(m)
          \/ \E i \in Invocations : Invoke(i) \/ Lose(i) \/ GiveUp(i)
       /\ UNCHANGED <<doctor, probeMu, renewals>>
    \/ \E i \in Invocations : Diagnose(i) \/ DoctorGivesUp(i)

SystemNext == Surroundings \/ \E i \in Invocations : ClientStep(i) \/ Serve(i)

SystemSpec == SystemInit /\ [][SystemNext]_systemVars

\* A client and a serving daemon keep going, and op is bounded by the executor's timeout
\* or the probe's.  Nothing is assumed of the network, the clock or the operator.
FairSystemSpec ==
    SystemSpec /\ \A i \in Invocations : WF_systemVars(ClientStep(i)) /\ WF_systemVars(Serve(i))

-----------------------------------------------------------------------------
(* Properties. *)

\* The credential was rotated for this doctor, which then could not save a file.  It
\* does not attempt the second file when the first fails, unlike a proxy.
Dropped(i) == renewals[i] > 0 /\ doctor[i].renewal = "failed"

\* CredentialHeld, with doctors, and with an access.token that cannot be written: a
\* proxy keeps the rotated refresh token all the same, only a doctor drops it.
CredentialKept ==
    \A m \in Machine \ {Host} :
        Holds(m) \/ \E i \in Invocations : Where[i] = m /\ Dropped(i)

\* A doctor that meets no outage, no rotation by somebody else and no expiry of what it
\* was just issued, on a machine whose refresh.token is current, blames neither the
\* tokens nor the daemon, whatever access token it found: it gets the daemon's report, or
\* is told that another probe runs ("the same /token/refresh exchange the proxy makes").
\* Only with --no-refresh may it end without having asked.
DoctorServed ==
    \A i \in Invocations :
        (pc[i] = "reported" /\ ~disturbed[i]) =>
            /\ doctor[i].op \in {"report", "busy"}
                   \cup (IF ReadOnly(i) THEN {"declined", "rejected"} ELSE {})
            /\ doctor[i].tokens \in {"renewed", "declined", "valid", "renewable"}

\* No invocation makes the daemon rotate more than once, not even when the tokens it was
\* issued are refused too, and a doctor with --no-refresh never does ("strictly
\* read-only", "Renew once and retry").
RotatesAtMostOnce ==
    \A i \in Invocations : renewals[i] <= IF ReadOnly(i) THEN 0 ELSE 1

\* "At most one such probe runs at a time", also when its client has gone.
OneProbe == \A i, j \in Invocations : wire[i] = "probing" /\ wire[j] = "probing" => i = j

\* A probe is refused only while another client's probe runs: the lock outlives no probe,
\* whether its client waited for it, gave up, or the daemon was restarted.
RefusalMeansProbe ==
    [][\A i \in Invocations :
          wire[i] = "health" /\ wire'[i] = "busy" =>
              \E j \in Invocations \ {i} : wire[j] = "probing"]_systemVars
=============================================================================
