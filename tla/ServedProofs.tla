---------------------------- MODULE ServedProofs ----------------------------
(***************************************************************************)
(* A client that nothing disturbs is served, for any number of commands    *)
(* and doctors on any number of client machines.                           *)
(***************************************************************************)
EXTENDS CredentialProofs

\* Where a proxy, and where a doctor, may still need the credential of its machine.
Proxying  == {"readAccess", "readLegacy", "probe", "probeStale", "sendFirst", "awaitFirst",
              "readRefresh"}
Examining == {"checkEndpoint", "checkHealth", "readAccessToken", "readLegacyToken",
              "readRefreshToken", "askOp", "awaitOp", "rereadRefreshToken"}

\* The daemon would accept this refresh token, or this access token.
Renews(t) == t = refreshToken /\ ~IsExpired(refreshToken, expired)
Admits(t) == t = accessToken /\ ~IsExpired(accessToken, expired)

\* What DoctorServed promises to an undisturbed doctor.
ServedDoctor(i) ==
    /\ doctor[i].op \in {"report", "busy"}
           \cup (IF ReadOnly(i) THEN {"declined", "rejected"} ELSE {})
    /\ doctor[i].tokens \in {"renewed", "declined", "valid", "renewable"}

\* What an undisturbed client can rely on before it renews its tokens,
BeforeRenewal(i) ==
    /\ pc[i] \in Proxying => Renews(Credential(Where[i]))
    /\ pc[i] \in Examining => Renews(Stored(i, "refresh")) /\ doctor[i].renewal = "idle"
    /\ pc[i] \in {"sendRefresh", "sendRenewal"} => Renews(held[i])
    /\ pc[i] \in AwaitingPair => wire[i] \in {"refresh", "pair"}
    /\ wire[i] = "refresh" => pc[i] \in AwaitingPair /\ Renews(cargo[i])

\* after that,
AfterRenewal(i) ==
    /\ PairUnsaved(i) => Admits(Access(cargo[i].n))
    /\ pc[i] \in SavingPair \cup UsingPair => Admits(held[i])
    /\ pc[i] \in {"awaitRetry", "awaitOpAgain"} =>
          wire[i] # "unauthorized" /\ (wire[i] \in Request => Admits(cargo[i]))
    /\ pc[i] \in {"askOpAgain", "awaitOpAgain"} => doctor[i].renewal = "done"

\* and at its end.
AtEnd(i) ==
    /\ pc[i] \in {"exit127", "fallback"} => wire[i] \in {"exit127", "rejected"}
    /\ pc[i] = "checkTokens" =>
          /\ doctor[i].op \in {"report", "busy"}
                 \cup (IF ReadOnly(i) THEN {"declined", "rejected"} ELSE {})
          /\ \/ doctor[i].renewal \in {"done", "declined"}
             \/ doctor[i].renewal = "idle" /\ Renews(Stored(i, "refresh"))
    /\ pc[i] = "reported" => ServedDoctor(i)

\* The daemon is up, and a request is not lost.
Connected(i) ==
    /\ Active(i) => up
    /\ pc[i] \in Awaiting => wire[i] # "none"

ServedControl(i) == Connected(i) /\ BeforeRenewal(i) /\ AfterRenewal(i) /\ AtEnd(i)

\* A pair that has not been generated has not expired.
ServedInv ==
    /\ expired["access"] <= minted
    /\ \A i \in Invocations : ~disturbed[i] => ServedControl(i)

ServedTyped ==
    /\ TokenTyped
    /\ up \in BOOLEAN /\ accessToken \in Token
    /\ disturbed \in [Invocations -> BOOLEAN]

LEMMA ServedTypes == TypeInv => ServedTyped
  BY TokensTyped DEF TypeInv, SystemTypeOK, TypeOK, ServedTyped

-----------------------------------------------------------------------------
\* What a client relies on is its own place, its connection, its credential and the daemon.
LEMMA Frame ==
    ASSUME NEW i \in Invocations, ServedControl(i),
           UNCHANGED <<pc[i], wire[i], held[i], cargo[i], doctor[i]>>,
           UNCHANGED <<up, accessToken, refreshToken, expired>>,
           Renews(Credential(Where[i])) => Credential(Where[i])' = Credential(Where[i]),
           Renews(Stored(i, "refresh")) => Stored(i, "refresh")' = Stored(i, "refresh")
    PROVE  ServedControl(i)'
  BY DEF ServedControl, Connected, BeforeRenewal, AfterRenewal, AtEnd, ServedDoctor, ReadOnly,
         Active, Renews, Admits, PairUnsaved

\* A client that has not begun or has ended relies on no token.
LEMMA Inactive ==
    ASSUME NEW i \in Invocations, ServedControl(i), ~Active(i),
           UNCHANGED <<pc[i], doctor[i]>>,
           \/ wire'[i] = wire[i]
           \/ wire[i] \in {"running", "probing"} /\ wire'[i] = "none"
    PROVE  ServedControl(i)'
  BY DEF ServedControl, Connected, BeforeRenewal, AfterRenewal, AtEnd, ServedDoctor, ReadOnly,
         Active, Ended, Proxying, Examining, AwaitingPair, SavingPair, UsingPair, PairUnsaved,
         Awaiting, ProxyAwaiting, DoctorAwaiting

\* The step of one client is nothing to another: it may not replace the credential the other
\* relies on, as it has no newer one.
LEMMA OtherClient ==
    ASSUME ClientsApart, ServedTyped, CredentialInv,
           NEW i \in Invocations, ServedControl(i),
           NEW j \in Invocations \ {i}, ClientEffect(j),
           UNCHANGED <<up, accessToken, doctor[i]>>
    PROVE  ServedControl(i)'
<1>1. /\ UNCHANGED <<pc[i], wire[i], held[i], cargo[i], doctor[i]>>
      /\ UNCHANGED <<up, accessToken, refreshToken, expired>>
  BY DEF ClientEffect
<1>2. Where[i] \in Machine /\ Where[j] \in Machine
  BY ClientsMachine
<1>3. CASE \/ dir' = dir
           \/ dir' = [dir EXCEPT ![Where[j]]["access"] = held[j]]
           \/ Where[j] # Where[i]
  <2>1. \A f \in {"refresh", "session"} : dir'[Where[i]][f] = dir[Where[i]][f]
    BY <1>2, <1>3 DEF ClientEffect, ServedTyped, TokenTyped, File
  <2> QED
    BY <1>1, <2>1, Frame DEF Credential, Stored
<1>4. CASE PairUnsaved(j) /\ Where[j] = Where[i]
  <2>1. CASE IsExpired(refreshToken, expired)
    BY <1>1, <2>1, Frame DEF Renews
  <2> SUFFICES ASSUME ~IsExpired(refreshToken, expired)
               PROVE  ServedControl(i)'
    BY <2>1
  <2>3. \A f \in File : dir[Where[i]][f] # refreshToken
    <3>1. cargo[j].kind = "refresh" /\ \A f \in File : Older(dir[Where[i]][f], cargo[j])
      BY <1>4 DEF CredentialInv, Sole
    <3>2. refreshToken.kind = "refresh" /\ cargo[j].n <= refreshToken.n
      BY <3>1 DEF CredentialInv, NewestInv, Newest
    <3>3. cargo[j].n \in Nat /\ refreshToken.n \in Nat
      BY Numbers DEF ServedTyped, TokenTyped, Token
    <3> QED
      BY <3>1, <3>2, <3>3 DEF Older
  <2>2. ~Renews(Credential(Where[i])) /\ ~Renews(Stored(i, "refresh"))
    BY <2>3 DEF Renews, Credential, Stored, File
  <2> QED
    BY <1>1, <2>2, Frame
<1> QED
  BY <1>3, <1>4 DEF ClientEffect

-----------------------------------------------------------------------------
\* The steps of an undisturbed command lead to the host's answer.
LEMMA OwnProxyStep ==
    ASSUME ServedTyped, SavingInv, NEW i \in Invocations, ServedControl(i), RenewControl(i),
           ProxyStep(i), UNCHANGED doctor
    PROVE  ServedControl(i)'
<1> USE DEF ServedTyped, TokenTyped, ServedControl, Connected, BeforeRenewal, AfterRenewal, AtEnd,
            ServedDoctor, ReadOnly, Active, Ended, Awaiting, ProxyAwaiting, DoctorAwaiting,
            Proxying, Examining, AwaitingPair, SavingPair, UsingPair, PairUnsaved, Goto, daemon
<1>0. refreshToken # NoToken
  BY TokenTypes
<1>2. CASE ReadAccess(i)
  BY <1>2 DEF ReadAccess, Renews, Credential
<1>3. CASE ReadLegacy(i)
  BY <1>0, <1>3 DEF ReadLegacy, Renews, Credential
<1>4. CASE Probe(i)
  BY <1>4 DEF Probe, Renews, Credential
<1>5. CASE SendFirst(i)
  BY <1>5 DEF SendFirst, Send, Renews, Credential
<1>6. CASE ReceiveResult(i)
  BY <1>6 DEF ReceiveResult, Result, Run, NotRun, Renews, Credential
<1>7. CASE ReadRefresh(i)
  BY <1>0, <1>7 DEF ReadRefresh, Renews, Credential
<1>8. CASE SendRefresh(i)
  BY <1>8 DEF SendRefresh, Send, Renews
<1>9. CASE ReceivePair(i)
  BY <1>9 DEF ReceivePair, Admits
<1>10. CASE SaveAccess(i)
  BY <1>10 DEF SaveAccess, Admits
<1>11. CASE SaveRefresh(i)
  BY <1>11 DEF SaveRefresh, Admits
<1>12. CASE SendRetry(i)
  BY <1>12 DEF SendRetry, Send, Admits, Request
<1>13. CASE ConnectionFails(i)
  BY <1>13 DEF ConnectionFails
<1>14. CASE Shim(i)
  BY <1>14 DEF Shim
<1> QED
  BY <1>2, <1>3, <1>4, <1>5, <1>6, <1>7, <1>8, <1>9, <1>10, <1>11, <1>12, <1>13, <1>14
     DEF ProxyStep

\* What a step of a doctor does to its report.
LEMMA Reports ==
    ASSUME ServedTyped, NEW i \in Invocations
    PROVE  /\ \A value : Note(i, "op", value) =>
                 doctor'[i].op = value /\ doctor'[i].renewal = doctor[i].renewal
                 /\ doctor'[i].flags = doctor[i].flags
           /\ \A field \in {"endpoint", "health"} : \A value : Note(i, field, value) =>
                 doctor'[i].renewal = doctor[i].renewal
           /\ \A value : Note(i, "renewal", value) => doctor'[i].renewal = value
           /\ \A value : Note(i, "tokens", value) =>
                 doctor'[i].tokens = value /\ doctor'[i].op = doctor[i].op
                 /\ doctor'[i].flags = doctor[i].flags
  BY DEF Note, ServedTyped, TokenTyped, Report

\* The steps of an undisturbed doctor lead to the daemon's report, or it says why it did
\* not ask.
LEMMA OwnDoctorStep ==
    ASSUME ServedTyped, SavingInv, NEW i \in Invocations, ServedControl(i), RenewControl(i),
           DoctorStep(i), ~disturbed'[i]
    PROVE  ServedControl(i)'
<1> USE DEF ServedTyped, TokenTyped, ServedControl, Connected, BeforeRenewal, AfterRenewal, AtEnd,
            Active, Ended, Awaiting, ProxyAwaiting, DoctorAwaiting, Proxying, Examining,
            AwaitingPair, SavingPair, UsingPair, PairUnsaved, Goto, daemon, Elsewhere
<1>2. CASE CheckEndpoint(i)
  BY <1>2, Reports DEF CheckEndpoint, Renews, Stored
<1>3. CASE CheckDaemonHealth(i)
  BY <1>3, Reports DEF CheckDaemonHealth, Renews, Stored
<1>4. CASE ReadAccessToken(i)
  BY <1>4 DEF ReadAccessToken, Renews, Stored
<1>5. CASE ReadRefreshToken(i)
  <2>1. Valid(i, "refresh")
    BY <1>5 DEF ReadRefreshToken, Valid, Usable, Renews, Stored
  <2>2. CASE ReadOnly(i)
    <3>1. /\ doctor' = [doctor EXCEPT ![i] = [@ EXCEPT !.renewal = "declined", !.op = "declined"]]
          /\ pc' = [pc EXCEPT ![i] = "checkTokens"] /\ UNCHANGED <<held, wire, cargo>>
      BY <1>5, <2>1, <2>2 DEF ReadRefreshToken
    <3>2. doctor'[i].op = "declined" /\ doctor'[i].renewal = "declined" /\ ReadOnly(i)'
      BY <2>2, <3>1 DEF ReadOnly, Report
    <3> QED
      BY <1>5, <3>1, <3>2 DEF ReadRefreshToken
  <2>3. CASE ~ReadOnly(i)
    BY <1>5, <2>1, <2>3 DEF ReadRefreshToken, Renew, Renews, Stored
  <2> QED
    BY <2>2, <2>3
<1>6. CASE SendRenewal(i)
  BY <1>6 DEF SendRenewal, Send, Renews
<1>7. CASE ReceiveRenewal(i)
  BY <1>7 DEF ReceiveRenewal, Admits
<1>8. CASE SaveRenewedAccess(i)
  BY <1>8 DEF SaveRenewedAccess, Disturb, Admits
<1>9. CASE SaveRenewedRefresh(i)
  BY <1>9, Reports DEF SaveRenewedRefresh, Disturb, Admits
<1>10. CASE AskOp(i)
  BY <1>10 DEF AskOp, Send, Admits, Request, Renews, Stored
<1>11. CASE ReceiveOp(i)
  BY <1>11, Reports DEF ReceiveOp, Settle, ReadOnly, Renews, Stored
<1>12. CASE RereadRefreshToken(i)
  <2>1. Valid(i, "refresh")
    BY <1>12 DEF RereadRefreshToken, Valid, Usable, Renews, Stored
  <2> QED
    BY <1>12, <2>1 DEF RereadRefreshToken, Renew, Renews, Stored
<1>13. CASE DoctorConnectionFails(i)
  BY <1>13 DEF DoctorConnectionFails, RequestFails
<1>14. CASE CheckTokens(i)
  <2>1. doctor[i].renewal = "idle" => Valid(i, "refresh")
    BY <1>14 DEF CheckTokens, Valid, Usable, Renews, Stored
  <2>2. \E finding \in {"renewed", "declined", "valid", "renewable"} : Note(i, "tokens", finding)
    BY <1>14, <2>1 DEF CheckTokens
  <2> QED
    BY <1>14, <2>2, Reports DEF CheckTokens, ServedDoctor, ReadOnly
<1> QED
  BY <1>2, <1>3, <1>4, <1>5, <1>6, <1>7, <1>8, <1>9, <1>10, <1>11, <1>12, <1>13, <1>14
     DEF DoctorStep

\* The daemon gives an undisturbed client a pair for its credential, and accepts the access
\* token of that pair.
LEMMA OwnServe ==
    ASSUME ServedTyped, SavingInv, expired["access"] <= minted,
           NEW i \in Invocations, ServedControl(i), Serve(i)
    PROVE  ServedControl(i)'
<1> USE DEF ServedTyped, TokenTyped, ServedControl, Connected, BeforeRenewal, AfterRenewal, AtEnd,
            ServedDoctor, ReadOnly, Active, Ended, Awaiting, ProxyAwaiting, DoctorAwaiting,
            Proxying, Examining, AwaitingPair, SavingPair, UsingPair, PairUnsaved, daemon, Reply
<1>1. CASE HandleExecute(i) /\ UNCHANGED doctor
  BY <1>1, ForwardingAssumption
     DEF HandleExecute, Admits, Renews, Credential, Stored, Request, NotRun
<1>2. CASE OpEnds(i) /\ UNCHANGED doctor
  BY <1>2 DEF OpEnds, Admits, Renews, Credential, Stored, Request, Run
<1>3. CASE Rotation(i)
  <2>1. wire[i] = "refresh" /\ pc[i] \in AwaitingPair /\ Renews(cargo[i])
    BY <1>3 DEF Rotation, HandleRefresh
  <2>2. /\ pc' = pc /\ wire' = [wire EXCEPT ![i] = "pair"] /\ expired' = expired /\ up' = up
        /\ cargo' = [cargo EXCEPT ![i] = Refresh(minted + 1)]
        /\ accessToken' = Access(minted + 1)
    BY <1>3, <2>1 DEF Rotation, HandleRefresh, Renews
  <2>3. Admits(Access(cargo[i].n))'
    BY <2>2 DEF Admits, IsExpired, Access, Refresh, Kind
  <2> QED
    BY <2>1, <2>2, <2>3
<1>4. CASE HandleHealthOp(i)
  BY <1>4 DEF HandleHealthOp, Admits, Renews, Credential, Stored, Request
<1>5. CASE ProbeEnds(i)
  BY <1>5 DEF ProbeEnds, Admits, Renews, Credential, Stored, Request
<1> QED
  BY <1>1, <1>2, <1>3, <1>4, <1>5 DEF Serve

\* What the daemon does for one client disturbs every other that runs, or is nothing to it.
LEMMA OtherServe ==
    ASSUME ClientsApart, ServedTyped, CredentialInv,
           NEW i \in Invocations, ServedControl(i),
           NEW j \in Invocations \ {i}, Serve(j), ~disturbed'[i]
    PROVE  ServedControl(i)'
<1>1. UNCHANGED <<pc, doctor, wire[i]>>
  BY ForwardingAssumption
     DEF Serve, HandleExecute, OpEnds, Rotation, HandleRefresh, HandleHealthOp, ProbeEnds, Reply,
         ServedTyped, TokenTyped
<1>2. CASE ~Active(i)
  BY <1>1, <1>2, Inactive
<1>3. CASE UNCHANGED <<up, accessToken>> /\ ClientEffect(j)
  BY <1>1, <1>3, OtherClient
<1>4. CASE Active(i)
  <2>1. UNCHANGED <<up, accessToken, refreshToken>>
    BY <1>4 DEF Serve, HandleExecute, OpEnds, Rotation, HandleRefresh, HandleHealthOp, ProbeEnds,
                daemon, Disturb, ServedTyped
  <2>2. ~Rotated(j)
    <3>1. HostRefresh # Refresh(minted + 1)
      BY NextIsNew, HostTyped DEF CredentialInv, ServedTyped
    <3> QED
      BY <2>1, <3>1 DEF Rotated, CredentialInv, NewestInv
  <2> QED
    BY <1>3, <2>1, <2>2, ServeEffect DEF CredentialInv, ServedTyped
<1> QED
  BY <1>2, <1>4

-----------------------------------------------------------------------------
\* Neither a client nor the daemon makes undisturbed what was disturbed.
LEMMA StaysDisturbed ==
    ASSUME ServedTyped, NEW i \in Invocations, disturbed[i],
           \E j \in Invocations : ClientStep(j) \/ Serve(j)
    PROVE  disturbed'[i]
<1> USE DEF ServedTyped, Disturb, daemon, Elsewhere
<1>2. ASSUME NEW j \in Invocations, Serve(j)
      PROVE  disturbed'[i]
  BY <1>2 DEF Serve, HandleExecute, OpEnds, Rotation, HandleRefresh, HandleHealthOp, ProbeEnds
<1>3. ASSUME NEW j \in Invocations, ClientStep(j)
      PROVE  disturbed'[i]
  BY <1>3 DEF ClientStep, ProxyStep, ReadAccess, ReadLegacy, Probe, SendFirst, Send,
              ReceiveResult, ReadRefresh, SendRefresh, ReceivePair, SaveAccess,
              SaveRefresh, SendRetry, ConnectionFails, Shim, DoctorStep, CheckEndpoint,
              CheckDaemonHealth, ReadAccessToken, ReadRefreshToken, SendRenewal,
              ReceiveRenewal, SaveRenewedAccess, SaveRenewedRefresh, AskOp, ReceiveOp,
              RereadRefreshToken, DoctorConnectionFails, RequestFails, CheckTokens
<1> QED
  BY <1>2, <1>3

\* A client step leaves the daemon and the other clients alone.
LEMMA Beside ==
    ASSUME ServedTyped, NEW j \in Invocations, NEW i \in Invocations \ {j},
           \/ ClientStep(j)
           \/ (Invoke(j) \/ Lose(j) \/ GiveUp(j)) /\ UNCHANGED doctor
           \/ Diagnose(j)
           \/ DoctorGivesUp(j)
    PROVE  UNCHANGED <<up, accessToken, doctor[i]>>
<1> USE DEF ServedTyped, TokenTyped, daemon, Elsewhere
<1>1. CASE ProxyStep(j) /\ UNCHANGED doctor
  BY <1>1 DEF ProxyStep, ReadAccess, ReadLegacy, Probe, SendFirst, Send, ReceiveResult,
              ReadRefresh, SendRefresh, ReceivePair, SaveAccess, SaveRefresh, SendRetry,
              ConnectionFails, Shim
<1>2. CASE DoctorStep(j)
  BY <1>2 DEF DoctorStep, CheckEndpoint, CheckDaemonHealth, ReadAccessToken, ReadRefreshToken,
              SendRenewal, ReceiveRenewal, SaveRenewedAccess, SaveRenewedRefresh, AskOp, Send,
              ReceiveOp, RereadRefreshToken, DoctorConnectionFails, RequestFails, CheckTokens,
              Note, Settle, Renew, RenewalFails
<1>3. CASE (Invoke(j) \/ Lose(j) \/ GiveUp(j)) /\ UNCHANGED doctor
  BY <1>3 DEF Invoke, Lose, GiveUp
<1>4. CASE Diagnose(j) \/ DoctorGivesUp(j)
  BY <1>4 DEF Diagnose, DoctorGivesUp, RequestFails, RenewalFails, Settle, Note
<1> QED
  BY <1>1, <1>2, <1>3, <1>4 DEF ClientStep

\* A client starts undisturbed only where it would be served.
LEMMA Starts ==
    ASSUME ServedTyped, NEW i \in Invocations, RenewControl(i), ~disturbed'[i],
           (Invoke(i) /\ UNCHANGED doctor) \/ Diagnose(i)
    PROVE  ServedControl(i)'
<1> USE DEF ServedTyped, TokenTyped, ServedControl, Connected, BeforeRenewal, AfterRenewal, AtEnd,
            Active, Ended, Awaiting, ProxyAwaiting, DoctorAwaiting, Proxying, Examining,
            AwaitingPair, SavingPair, UsingPair, PairUnsaved, Goto, daemon, Elsewhere
<1>1. pc[i] = "idle" /\ wire[i] # "refresh" /\ wire' = wire
  BY DEF Invoke, Diagnose, RenewControl, Early
<1>2. CASE Invoke(i)
  BY <1>1, <1>2 DEF Invoke, Renews, Credential
<1>3. CASE Diagnose(i)
  <2>1. doctor'[i].renewal = "idle"
    BY <1>3 DEF Diagnose, NoReport
  <2> QED
    BY <1>1, <1>3, <2>1 DEF Diagnose, Renews, Stored
<1> QED
  BY <1>2, <1>3

\* Around the clients: what makes a token worthless disturbs whoever relies on it.
LEMMA SurroundingsServed ==
    ASSUME ClientsApart, ServedTyped, CredentialInv, Surroundings,
           NEW i \in Invocations, ~disturbed'[i], ~disturbed[i] => ServedControl(i),
           RenewControl(i)
    PROVE  ServedControl(i)'
<1>1. CASE StopDaemon /\ UNCHANGED doctor
  <2>1. ~Active(i) /\ ~disturbed[i]
    BY <1>1 DEF StopDaemon, Disturb
  <2> QED
    BY <1>1, <2>1, Inactive
       DEF StopDaemon, Active, Ended, Awaiting, ProxyAwaiting, DoctorAwaiting, ServedTyped,
           TokenTyped
<1>6. CASE ServeBeside /\ UNCHANGED doctor
  <2>1. dir'[Where[i]] = dir[Where[i]] /\ ServedControl(i)
    BY <1>6, ClientsMachine DEF ServeBeside, ServedTyped, TokenTyped
  <2> QED
    BY <1>6, <2>1, Frame DEF ServeBeside, Credential, Stored
<1>2. CASE StartDaemon /\ UNCHANGED doctor
  <2>1. ServedControl(i) /\ ~Active(i)
    BY <1>2 DEF StartDaemon, ServedControl, Connected
  <2> QED
    BY <1>2, <2>1, Inactive DEF StartDaemon
<1>3. ASSUME NEW k \in Expiring, Tick(k), UNCHANGED doctor
      PROVE  ServedControl(i)'
  <2>1. ServedControl(i) /\ UNCHANGED <<up, accessToken, refreshToken, dir, pc, held, wire, cargo>>
    BY <1>3 DEF Tick, Disturb, daemon
  <2>2. CASE ~Active(i)
    BY <1>3, <2>1, <2>2, Inactive
  <2>3. CASE Active(i)
    <3>1. /\ k = "access" /\ wire[i] # "pair" /\ pc[i] \notin SavingPair \cup UsingPair
      BY <1>3, <2>3, ForwardingAssumption DEF Tick, Disturb, ServedTyped
    <3>2. \A t : Renews(t) => Renews(t)'
      BY <1>3, <2>1, <3>1
         DEF Tick, Renews, IsExpired, CredentialInv, NewestInv, ServedTyped, TokenTyped, Kind
    <3> QED
      BY <1>3, <2>1, <3>1, <3>2
         DEF ServedControl, Connected, BeforeRenewal, AfterRenewal, AtEnd, ServedDoctor, ReadOnly,
             Active, PairUnsaved, Credential, Stored, UsingPair
  <2> QED
    BY <2>2, <2>3
<1>4. ASSUME NEW m \in Machine, Deploy(m), UNCHANGED doctor
      PROVE  ServedControl(i)'
  <2>1. CASE Where[i] = m
    <3>1. dir'[m] = [dir[m] EXCEPT !["refresh"] = HostRefresh] /\ HostRefresh # NoToken
      BY <1>4, HostTyped, TokenTypes DEF Deploy, ServedTyped, TokenTyped, CredentialInv, HostRefresh
    <3>2. dir'[m]["refresh"] = HostRefresh
      BY <1>4, <3>1 DEF ServedTyped, TokenTyped, File
    <3>3. \A t : Renews(t) => t = HostRefresh
      BY DEF Renews, CredentialInv, NewestInv
    <3> QED
      BY <1>4, <2>1, <3>1, <3>2, <3>3, Frame DEF Deploy, daemon, Credential, Stored
  <2>2. CASE Where[i] # m
    <3>1. dir'[Where[i]] = dir[Where[i]]
      BY <1>4, <2>2, ClientsMachine DEF Deploy, ServedTyped, TokenTyped
    <3> QED
      BY <1>4, <3>1, Frame DEF Deploy, daemon, Credential, Stored
  <2> QED
    BY <2>1, <2>2
<1>5. ASSUME NEW j \in Invocations,
             \/ (Invoke(j) \/ Lose(j) \/ GiveUp(j)) /\ UNCHANGED doctor
             \/ Diagnose(j)
             \/ DoctorGivesUp(j)
      PROVE  ServedControl(i)'
  <2>1. CASE j = i
    <3>1. (Invoke(i) /\ UNCHANGED doctor) \/ Diagnose(i)
      BY <1>5, <2>1 DEF Lose, GiveUp, DoctorGivesUp, Disturb, ServedTyped
    <3> QED
      BY <3>1, Starts
  <2>2. CASE j # i
    <3>1. ~disturbed[i]
      BY <1>5, <2>2 DEF Invoke, Lose, GiveUp, Diagnose, DoctorGivesUp, Disturb, ServedTyped
    <3>2. ClientEffect(j) /\ UNCHANGED <<up, accessToken, doctor[i]>>
      BY <1>5, <2>2, MishapEffect, Beside DEF CredentialInv, ServedTyped
    <3> QED
      BY <2>2, <3>1, <3>2, OtherClient
  <2> QED
    BY <2>1, <2>2
<1> QED
  BY <1>1, <1>2, <1>3, <1>4, <1>5, <1>6 DEF Surroundings

\* The watermark of access tokens stays below the newest of them.
LEMMA ClockBehind ==
    ASSUME ServedTyped, expired["access"] <= minted, [SystemNext]_systemVars
    PROVE  expired'["access"] <= minted'
<1>0. expired["access"] \in Nat /\ minted \in Nat
  BY DEF ServedTyped, TokenTyped, Kind
<1>1. CASE UNCHANGED <<expired, minted>>
  BY <1>0, <1>1
<1>2. ASSUME NEW k \in Expiring, Tick(k)
      PROVE  expired'["access"] <= minted'
  BY <1>0, <1>2, ForwardingAssumption DEF Tick, daemon, ServedTyped, TokenTyped, Kind
<1>3. CASE UNCHANGED expired /\ minted' = minted + 1
  BY <1>0, <1>3
<1>4. CASE Surroundings
  BY <1>1, <1>2, <1>3, <1>4
     DEF Surroundings, StopDaemon, StartDaemon, ServeBeside, Deploy, Invoke, Lose, GiveUp, Diagnose,
         DoctorGivesUp, RequestFails, Elsewhere, daemon
<1>5. ASSUME NEW j \in Invocations, ClientStep(j) \/ Serve(j)
      PROVE  expired'["access"] <= minted'
  <2>1. TokenTyped
    BY DEF ServedTyped
  <2>2. CASE Serve(j)
    BY <1>1, <1>3, <2>2
       DEF Serve, HandleExecute, OpEnds, Rotation, HandleRefresh, HandleHealthOp, ProbeEnds, daemon
  <2>3. CASE ClientStep(j)
    BY <1>1, <2>3
       DEF ClientStep, ProxyStep, ReadAccess, ReadLegacy, Probe, SendFirst, Send,
           ReceiveResult, ReadRefresh, SendRefresh, ReceivePair, SaveAccess,
           SaveRefresh, SendRetry, ConnectionFails, Shim, DoctorStep, CheckEndpoint,
           CheckDaemonHealth, ReadAccessToken, ReadRefreshToken, SendRenewal,
           ReceiveRenewal, SaveRenewedAccess, SaveRenewedRefresh, AskOp, ReceiveOp,
           RereadRefreshToken, DoctorConnectionFails, RequestFails, CheckTokens,
           Elsewhere, daemon
  <2> QED
    BY <1>5, <2>2, <2>3
<1> QED
  BY <1>1, <1>4, <1>5 DEF SystemNext, systemVars, vars

LEMMA NextServed ==
    ASSUME ClientsApart, SystemInv, CredentialInv, ServedInv, [SystemNext]_systemVars
    PROVE  ServedInv'
<1>0. ServedTyped /\ \A i \in Invocations : RenewControl(i)
  BY ServedTypes DEF SystemInv, Control
<1> SUFFICES ASSUME NEW i \in Invocations, ~disturbed'[i] PROVE ServedControl(i)'
  BY <1>0, ClockBehind DEF ServedInv
<1>1. ~disturbed[i] => ServedControl(i)
  BY DEF ServedInv
<1>2. CASE UNCHANGED systemVars
  BY <1>1, <1>2, Frame DEF systemVars, vars, Credential, Stored
<1>3. CASE Surroundings
  BY <1>0, <1>1, <1>3, SurroundingsServed
<1>4. ASSUME NEW j \in Invocations, ClientStep(j) \/ Serve(j)
      PROVE  ServedControl(i)'
  <2>1. ServedControl(i)
    BY <1>0, <1>1, <1>4, StaysDisturbed
  <2>2. CASE j = i
    BY <1>0, <1>4, <2>1, <2>2, OwnProxyStep, OwnDoctorStep, OwnServe
       DEF ClientStep, ServedInv, CredentialInv
  <2>3. CASE j # i /\ Serve(j)
    BY <1>0, <2>1, <2>3, OtherServe
  <2>4. CASE j # i /\ ClientStep(j)
    <3>1. ClientEffect(j)
      BY <1>0, <2>4, ProxyEffect, DoctorEffect DEF ClientStep, ServedTyped, CredentialInv
    <3> QED
      BY <1>0, <2>1, <2>4, <3>1, Beside, OtherClient
  <2> QED
    BY <1>4, <2>2, <2>3, <2>4
<1> QED
  BY <1>2, <1>3, <1>4 DEF SystemNext

LEMMA InitServed == SystemInit => ServedInv
  BY DEF SystemInit, Init, ServedInv, ServedControl, Connected, BeforeRenewal, AfterRenewal, AtEnd,
         Active, Awaiting, ProxyAwaiting, DoctorAwaiting, Proxying, Examining,
         AwaitingPair, SavingPair, UsingPair, PairUnsaved, Kind

LEMMA ServedInvariance == ClientsApart => (SystemSpec => []ServedInv)
<1> SUFFICES ASSUME ClientsApart PROVE SystemSpec => []ServedInv
  OBVIOUS
<1>1. SystemInit => CredentialInv /\ ServedInv
  BY InitCredential, InitServed
<1>2. SystemInv /\ CredentialInv /\ ServedInv /\ [SystemNext]_systemVars
      => CredentialInv' /\ ServedInv'
  BY NextCredential, NextServed DEF SystemInv
<1> QED
  BY <1>1, <1>2, SystemInvariant, PTL DEF SystemSpec

\* UndisturbedServed holds for any number of commands and doctors on any number of
\* client machines, whatever happens to those that are disturbed.
THEOREM UndisturbedAlwaysServed == ClientsApart => (SystemSpec => []UndisturbedServed)
<1>1. ServedInv => UndisturbedServed
  BY DEF ServedInv, ServedControl, AtEnd, UndisturbedServed
<1> QED
  BY <1>1, ServedInvariance, PTL

\* DoctorServed holds for any number of commands and doctors on any number of
\* client machines, whatever happens to those that are disturbed.
THEOREM DoctorAlwaysServed == ClientsApart => (SystemSpec => []DoctorServed)
<1>1. ServedInv => DoctorServed
  BY DEF ServedInv, ServedControl, AtEnd, ServedDoctor, DoctorServed
<1> QED
  BY <1>1, ServedInvariance, PTL
=============================================================================
