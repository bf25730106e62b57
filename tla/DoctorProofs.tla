---------------------------- MODULE DoctorProofs ----------------------------
(***************************************************************************)
(* Safety properties of the commands and the doctors of module Doctor, for *)
(* any number of invocations and machines.                                 *)
(***************************************************************************)
EXTENDS Doctor, OpLookupProofs

LEMMA TokenTypes ==
    /\ \A n \in Nat : Access(n) \in Token /\ Refresh(n) \in Token
    /\ Legacy \in Token
    /\ NoToken \notin Token
    /\ \A t \in Token : t.n \in Nat
    /\ \A t, e : Usable(t, e) => t \in Token
  BY DEF Token, Kind, Access, Refresh, Legacy, NoToken, Usable

-----------------------------------------------------------------------------
\* The type invariant, with what it rests on: a token that will be sent is there.
TypeInv ==
    /\ SystemTypeOK
    /\ \A i \in Invocations :
          /\ pc[i] = "probe" => held[i] \in Token
          /\ pc[i] \in AwaitingPair /\ wire[i] = "pair" => cargo[i] \in Token

\* The part that the steps of one client may change.
ClientType ==
    /\ dir \in [Machine -> [File -> Token \cup {NoToken}]]
    /\ pc \in [Invocations -> PC]
    /\ held \in [Invocations -> Token \cup {NoToken}]
    /\ wire \in [Invocations -> Message]
    /\ cargo \in [Invocations -> Token \cup {NoToken}]
    /\ disturbed \in [Invocations -> BOOLEAN]
    /\ doctor \in [Invocations -> Report]
    /\ \A i \in Invocations :
          /\ pc[i] \in {"probe", "sendFirst", "sendRefresh", "sendRenewal", "askOp"}
                       \cup SavingPair \cup UsingPair => held[i] \in Token
          /\ pc[i] \in AwaitingPair /\ wire[i] = "pair" => cargo[i] \in Token

\* The rest, which they leave alone.
DaemonType ==
    /\ up \in BOOLEAN
    /\ accessToken \in Token
    /\ refreshToken \in Token
    /\ minted \in Nat
    /\ expired \in [Kind -> Nat]
    /\ hostRuns \in [Invocations -> Nat]
    /\ probeMu \in Invocations \cup {NoOne}
    /\ renewals \in [Invocations -> Nat]

LEMMA TypeParts ==
    /\ TypeInv <=> ClientType /\ DaemonType
    /\ TypeInv' <=> ClientType' /\ DaemonType'
  BY DEF TypeInv, SystemTypeOK, TypeOK, ClientType, DaemonType

LEMMA InitType == SystemInit => TypeInv
<1> SUFFICES ASSUME SystemInit PROVE ClientType /\ DaemonType
  BY TypeParts
<1>1. dir \in [Machine -> [File -> Token \cup {NoToken}]] /\ refreshToken \in Token
  BY TokenTypes DEF SystemInit, Init, Deployments, Files, File
<1>2. DaemonType
  BY <1>1, TokenTypes DEF DaemonType, SystemInit, Init
<1>3. NoReport \in Report
  BY DEF NoReport, Report, Renewal, OpFinding, TokensFinding
<1>4. ClientType
  BY <1>1, <1>3 DEF ClientType, SystemInit, Init, PC, Message, AwaitingPair, SavingPair,
                    UsingPair
<1> QED
  BY <1>2, <1>4

LEMMA ProxyStepType ==
    ASSUME TypeInv, NEW i \in Invocations, ProxyStep(i), UNCHANGED <<doctor, probeMu, renewals>>
    PROVE  TypeInv'
<1>0. ClientType /\ DaemonType /\ Where[i] \in Machine
  BY TypeParts, ForwardingAssumption
<1>1. UNCHANGED <<up, accessToken, refreshToken, minted, expired, hostRuns>> => DaemonType'
  BY <1>0 DEF DaemonType
<1> USE <1>0, <1>1, TypeParts, TokenTypes
    DEF ClientType, Goto, PC, Message, Awaiting, ProxyAwaiting, DoctorAwaiting, Ended,
        AwaitingPair, SavingPair, UsingPair, File, Request, daemon
<1>2. CASE ReadAccess(i)
  <2>1. CASE dir[Where[i]]["access"] = NoToken
    BY <1>2, <2>1 DEF ReadAccess
  <2>2. CASE dir[Where[i]]["access"] # NoToken
    <3>1. dir[Where[i]]["access"] \in Token
      BY <2>2
    <3> QED
      BY <1>2, <2>2, <3>1 DEF ReadAccess
  <2> QED
    BY <2>1, <2>2
<1>3. CASE ReadLegacy(i)
  BY <1>3 DEF ReadLegacy
<1>4. CASE Probe(i)
  BY <1>4 DEF Probe
<1>5. CASE SendFirst(i)
  BY <1>5 DEF SendFirst, Send
<1>6. CASE ReceiveResult(i)
  BY <1>6 DEF ReceiveResult
<1>7. CASE ReadRefresh(i)
  BY <1>7 DEF ReadRefresh, Credential
<1>8. CASE SendRefresh(i)
  BY <1>8 DEF SendRefresh, Send
<1>9. CASE ReceivePair(i)
  BY <1>9 DEF ReceivePair
<1>10. CASE SaveAccess(i)
  BY <1>10 DEF SaveAccess, Write, WriteFails
<1>11. CASE SaveRefresh(i)
  BY <1>11 DEF SaveRefresh, Write, WriteFails
<1>12. CASE SendRetry(i)
  BY <1>12 DEF SendRetry, Send
<1>13. CASE ConnectionFails(i)
  BY <1>13 DEF ConnectionFails
<1>14. CASE Shim(i)
  BY <1>14 DEF Shim, ProcessEnds
<1> QED
  BY <1>2, <1>3, <1>4, <1>5, <1>6, <1>7, <1>8, <1>9, <1>10, <1>11, <1>12, <1>13, <1>14
     DEF ProxyStep

\* The value of a field of a doctor's report that a step may set.
FieldValue(field, value) ==
    \/ field = "renewal" /\ value \in Renewal
    \/ field = "endpoint" /\ value \in {"none", "ok", "fail"}
    \/ field = "health" /\ value \in {"none", "ok", "fail", "skip"}
    \/ field = "op" /\ value \in OpFinding
    \/ field = "tokens" /\ value \in TokensFinding

LEMMA NoteType ==
    ASSUME doctor \in [Invocations -> Report], NEW i \in Invocations, NEW field, NEW value,
           FieldValue(field, value), Note(i, field, value)
    PROVE  doctor' \in [Invocations -> Report]
  BY DEF FieldValue, Note, Report

LEMMA RenewalFailsType ==
    ASSUME doctor \in [Invocations -> Report], NEW i \in Invocations, RenewalFails(i)
    PROVE  doctor' \in [Invocations -> Report] /\ pc' = [pc EXCEPT ![i] = "checkTokens"]
  BY DEF RenewalFails, Report, Renewal, OpFinding, Goto

LEMMA SettleType ==
    ASSUME doctor \in [Invocations -> Report], NEW i \in Invocations,
           NEW finding \in OpFinding, Settle(i, finding)
    PROVE  doctor' \in [Invocations -> Report] /\ pc' = [pc EXCEPT ![i] = "checkTokens"]
<1>1. Note(i, "op", finding) /\ FieldValue("op", finding)
  BY DEF Settle, FieldValue
<1> QED
  BY <1>1, NoteType DEF Settle, Goto

LEMMA DoctorStepType ==
    ASSUME TypeInv, NEW i \in Invocations, DoctorStep(i)
    PROVE  TypeInv'
<1>0. ClientType /\ DaemonType /\ Where[i] \in Machine
  BY TypeParts, ForwardingAssumption
<1>1. UNCHANGED <<up, accessToken, refreshToken, minted, expired, hostRuns, probeMu, renewals>>
      => DaemonType'
  BY <1>0 DEF DaemonType
<1> USE <1>0, <1>1, TypeParts, TokenTypes
    DEF ClientType, Goto, PC, Message, Awaiting, ProxyAwaiting, DoctorAwaiting, Ended,
        AwaitingPair, SavingPair, UsingPair, File, Request, daemon, Elsewhere, Stored, Valid
<1>2. CASE CheckEndpoint(i)
  <2>1. doctor' \in [Invocations -> Report]
    <3>1. CASE up
      BY <1>2, <3>1, NoteType DEF CheckEndpoint, FieldValue
    <3>2. CASE ~up
      <4>1. PICK r \in Report : doctor' = [doctor EXCEPT ![i] = r]
        <5>1. doctor[i] \in Report
          OBVIOUS
        <5>2. [doctor[i] EXCEPT !.endpoint = "fail", !.health = "skip", !.op = "unreachable"]
              \in Report
          BY <5>1 DEF Report, OpFinding
        <5> QED
          BY <1>2, <3>2, <5>2 DEF CheckEndpoint
      <4> QED
        BY <4>1
    <3> QED
      BY <3>1, <3>2
  <2> QED
    BY <1>2, <2>1 DEF CheckEndpoint
<1>3. CASE CheckDaemonHealth(i)
  <2>1. doctor' \in [Invocations -> Report]
    BY <1>3, NoteType DEF CheckDaemonHealth, FieldValue
  <2> QED
    BY <1>3, <2>1 DEF CheckDaemonHealth, Disturb
<1>4. CASE ReadAccessToken(i)
  BY <1>4 DEF ReadAccessToken
<1>5. CASE ReadRefreshToken(i)
  <2>1. CASE ~Valid(i, "refresh")
    BY <1>5, <2>1, SettleType DEF ReadRefreshToken, OpFinding
  <2>2. CASE Valid(i, "refresh") /\ ReadOnly(i)
    <3>1. doctor' \in [Invocations -> Report]
      <4>1. doctor[i] \in Report
        OBVIOUS
      <4>2. [doctor[i] EXCEPT !.renewal = "declined", !.op = "declined"] \in Report
        BY <4>1 DEF Report, Renewal, OpFinding
      <4> QED
        BY <1>5, <2>2, <4>2 DEF ReadRefreshToken
    <3> QED
      BY <1>5, <2>2, <3>1 DEF ReadRefreshToken
  <2>3. CASE Valid(i, "refresh") /\ ~ReadOnly(i)
    BY <1>5, <2>3 DEF ReadRefreshToken, Renew
  <2> QED
    BY <2>1, <2>2, <2>3
<1>6. CASE SendRenewal(i)
  BY <1>6 DEF SendRenewal, Send
<1>7. CASE ReceiveRenewal(i)
  <2>1. CASE wire[i] = "pair"
    BY <1>7, <2>1 DEF ReceiveRenewal
  <2>2. CASE wire[i] # "pair"
    BY <1>7, <2>2, RenewalFailsType DEF ReceiveRenewal
  <2> QED
    BY <2>1, <2>2
<1>8. CASE SaveRenewedAccess(i)
  <2>1. CASE Write(i, "access", held[i]) /\ Goto(i, "saveRenewedRefresh")
             /\ UNCHANGED <<doctor, disturbed>>
    BY <1>8, <2>1 DEF SaveRenewedAccess, Write
  <2>2. CASE WriteFails("access") /\ RenewalFails(i) /\ Disturb({i})
    BY <1>8, <2>2, RenewalFailsType DEF SaveRenewedAccess, WriteFails, Disturb
  <2> QED
    BY <1>8, <2>1, <2>2 DEF SaveRenewedAccess
<1>9. CASE SaveRenewedRefresh(i)
  <2>1. CASE /\ Write(i, "refresh", cargo[i]) /\ Note(i, "renewal", "done")
             /\ Goto(i, "askOpAgain") /\ UNCHANGED disturbed
    <3>1. doctor' \in [Invocations -> Report]
      BY <2>1, NoteType DEF FieldValue, Renewal
    <3> QED
      BY <1>9, <2>1, <3>1 DEF SaveRenewedRefresh, Write
  <2>2. CASE WriteFails("refresh") /\ RenewalFails(i) /\ Disturb({i})
    BY <1>9, <2>2, RenewalFailsType DEF SaveRenewedRefresh, WriteFails, Disturb
  <2> QED
    BY <1>9, <2>1, <2>2 DEF SaveRenewedRefresh
<1>10. CASE AskOp(i)
  BY <1>10 DEF AskOp, Send
<1>11. CASE ReceiveOp(i)
  <2>1. CASE \E finding \in OpFinding : Settle(i, finding)
    BY <1>11, <2>1, SettleType DEF ReceiveOp
  <2>2. CASE Goto(i, "rereadRefreshToken") /\ UNCHANGED doctor
    BY <1>11, <2>2 DEF ReceiveOp
  <2> QED
    BY <1>11, <2>1, <2>2 DEF ReceiveOp, OpFinding
<1>12. CASE RereadRefreshToken(i)
  <2>1. CASE Valid(i, "refresh") /\ Renew(i)
    BY <1>12, <2>1 DEF RereadRefreshToken, Renew
  <2>2. CASE Settle(i, "rejected") /\ UNCHANGED held
    BY <1>12, <2>2, SettleType DEF RereadRefreshToken, OpFinding
  <2> QED
    BY <1>12, <2>1, <2>2 DEF RereadRefreshToken
<1>13. CASE DoctorConnectionFails(i)
  BY <1>13, RenewalFailsType, SettleType DEF DoctorConnectionFails, RequestFails, OpFinding
<1>14. CASE CheckTokens(i)
  <2>1. PICK finding \in TokensFinding : Note(i, "tokens", finding)
    BY <1>14 DEF CheckTokens, Report, Renewal, TokensFinding
  <2>2. doctor' \in [Invocations -> Report]
    BY <2>1, NoteType DEF FieldValue
  <2> QED
    BY <1>14, <2>2 DEF CheckTokens, ProcessEnds
<1> QED
  BY <1>2, <1>3, <1>4, <1>5, <1>6, <1>7, <1>8, <1>9, <1>10, <1>11, <1>12, <1>13, <1>14
     DEF DoctorStep

LEMMA FilesType ==
    ASSUME NEW a \in Token, NEW r \in Token
    PROVE  Files(a, r, a) \in [File -> Token \cup {NoToken}]
  BY DEF Files, File

\* What the handlers of the daemon leave alone.
LEMMA ReplyType ==
    ASSUME ClientType, NEW i \in Invocations, NEW msg \in Message,
           NEW t \in Token \cup {NoToken}, Reply(i, msg, t), msg = "pair" => t \in Token,
           dir' \in [Machine -> [File -> Token \cup {NoToken}]],
           disturbed' \in [Invocations -> BOOLEAN],
           UNCHANGED <<pc, held, doctor>>
    PROVE  ClientType'
  BY DEF ClientType, Reply

LEMMA ServeType ==
    ASSUME TypeInv, NEW i \in Invocations, Serve(i)
    PROVE  TypeInv'
<1>0. ClientType /\ DaemonType
  BY TypeParts
<1>a. Results \subseteq Message
  BY ForwardingAssumption DEF Message
<1> USE <1>0, TypeParts, TokenTypes, ReplyType DEF daemon
<1>1. CASE HandleExecute(i) /\ UNCHANGED <<doctor, probeMu, renewals>>
  <2>1. DaemonType'
    BY <1>1 DEF HandleExecute, DaemonType
  <2>2. PICK msg \in Message : Reply(i, msg, NoToken) /\ msg # "pair"
    BY <1>1, <1>a, ForwardingAssumption DEF HandleExecute, Message, NotRun, Run, Result
  <2> QED
    BY <1>1, <2>1, <2>2 DEF HandleExecute, ClientType
<1>2. CASE OpEnds(i) /\ UNCHANGED <<doctor, probeMu, renewals>>
  <2>1. DaemonType'
    BY <1>2 DEF OpEnds, DaemonType
  <2>2. PICK msg \in Message : Reply(i, msg, NoToken) /\ msg # "pair"
    BY <1>2, <1>a, ForwardingAssumption DEF OpEnds, Message, Run
  <2> QED
    BY <1>2, <2>1, <2>2 DEF OpEnds, ClientType
<1>3. CASE Rotation(i)
  <2>1. disturbed' \in [Invocations -> BOOLEAN]
    BY <1>3 DEF Rotation, HandleRefresh, Disturb, ClientType
  <2>2. dir' \in [Machine -> [File -> Token \cup {NoToken}]]
    <3>1. minted + 1 \in Nat
      BY DEF DaemonType
    <3> DEFINE a == Access(minted + 1)
               r == Refresh(minted + 1)
    <3>2. dir' = dir \/ dir' = [dir EXCEPT ![Host] = Files(a, r, a)]
      BY <1>3 DEF Rotation, HandleRefresh
    <3>3. a \in Token /\ r \in Token
      BY <3>1
    <3> HIDE DEF a, r
    <3>4. Files(a, r, a) \in [File -> Token \cup {NoToken}]
      BY <3>3, FilesType
    <3>5. dir \in [Machine -> [File -> Token \cup {NoToken}]]
      BY DEF ClientType
    <3> QED
      BY ONLY <3>2, <3>4, <3>5
  <2>3. PICK msg \in Message, t \in Token \cup {NoToken} :
            Reply(i, msg, t) /\ (msg = "pair" => t \in Token)
    <3>1. minted + 1 \in Nat
      BY DEF DaemonType
    <3>2. Reply(i, "pair", Refresh(minted + 1)) \/ Reply(i, "unauthorized", NoToken)
      BY <1>3 DEF Rotation, HandleRefresh
    <3> QED
      BY <3>1, <3>2 DEF Message
  <2>4. ClientType'
    BY <1>3, <2>1, <2>2, <2>3 DEF Rotation, HandleRefresh
  <2>5. DaemonType'
    <3>1. accessToken' \in Token /\ refreshToken' \in Token /\ minted' \in Nat
      BY <1>3 DEF Rotation, HandleRefresh, DaemonType
    <3> QED
      BY <1>3, <3>1 DEF Rotation, HandleRefresh, DaemonType
  <2> QED
    BY <2>4, <2>5
<1>4. CASE HandleHealthOp(i)
  <2>1. DaemonType'
    BY <1>4 DEF HandleHealthOp, DaemonType
  <2>2. PICK msg \in Message : Reply(i, msg, NoToken) /\ msg # "pair"
    BY <1>4 DEF HandleHealthOp, Message
  <2> QED
    BY <1>4, <2>1, <2>2 DEF HandleHealthOp, ClientType
<1>5. CASE ProbeEnds(i)
  <2>1. DaemonType'
    BY <1>5 DEF ProbeEnds, DaemonType
  <2>2. "report" \in Message /\ Reply(i, "report", NoToken)
    BY <1>5 DEF ProbeEnds, Message
  <2> QED
    BY <1>5, <2>1, <2>2 DEF ProbeEnds, ClientType
<1> QED
  BY <1>1, <1>2, <1>3, <1>4, <1>5 DEF Serve

LEMMA SurroundingsType ==
    ASSUME TypeInv, Surroundings
    PROVE  TypeInv'
<1>0. ClientType /\ DaemonType
  BY TypeParts
<1> USE <1>0, TypeParts, TokenTypes DEF daemon
<1>1. CASE StopDaemon /\ probeMu' = NoOne /\ UNCHANGED <<doctor, renewals>>
  BY <1>1 DEF StopDaemon, ClientType, DaemonType, Disturb, Message
<1>2. CASE StartDaemon /\ UNCHANGED <<doctor, probeMu, renewals>>
  <2>1. accessToken' \in Token /\ refreshToken' \in Token /\ minted' \in Nat
    BY <1>2 DEF StartDaemon, DaemonType
  <2>2. dir' \in [Machine -> [File -> Token \cup {NoToken}]]
    BY <1>2, <2>1, FilesType DEF StartDaemon, ClientType
  <2> QED
    BY <1>2, <2>1, <2>2 DEF StartDaemon, ClientType, DaemonType
<1>7. CASE ServeBeside /\ UNCHANGED <<doctor, probeMu, renewals>>
  <2> DEFINE kept == dir[Host]["refresh"]
             t == IF Usable(kept, expired) THEN kept ELSE Refresh(minted + 1)
  <2>1. minted' \in Nat /\ Access(minted + 1) \in Token /\ Refresh(minted + 1) \in Token
    BY <1>7 DEF ServeBeside, DaemonType
  <2>2. t \in Token
    BY <2>1 DEF Usable
  <2>3. dir' = [dir EXCEPT ![Host] = Files(Access(minted + 1), t, Access(minted + 1))]
    BY <1>7 DEF ServeBeside
  <2> HIDE DEF t
  <2>4. dir' \in [Machine -> [File -> Token \cup {NoToken}]]
    BY <2>1, <2>2, <2>3, FilesType DEF ClientType
  <2> QED
    BY <1>7, <2>1, <2>4 DEF ServeBeside, ClientType, DaemonType
<1>3. ASSUME NEW k \in Expiring, Tick(k), UNCHANGED <<doctor, probeMu, renewals>>
      PROVE  TypeInv'
  <2>1. expired' \in [Kind -> Nat]
    BY <1>3, ForwardingAssumption DEF Tick, DaemonType, Kind
  <2> QED
    BY <1>3, <2>1 DEF Tick, ClientType, DaemonType, Disturb
<1>4. ASSUME NEW m \in Machine, Deploy(m), UNCHANGED <<doctor, probeMu, renewals>>
      PROVE  TypeInv'
  <2>1. dir' \in [Machine -> [File -> Token \cup {NoToken}]]
    BY <1>4, ForwardingAssumption DEF Deploy, ClientType, File
  <2> QED
    BY <1>4, <2>1 DEF Deploy, ClientType, DaemonType
<1>5. ASSUME NEW i \in Invocations, Invoke(i) \/ Lose(i) \/ GiveUp(i),
             UNCHANGED <<doctor, probeMu, renewals>>
      PROVE  TypeInv'
  <2>1. DaemonType'
    BY <1>5 DEF Invoke, Lose, GiveUp, DaemonType
  <2>2. CASE Invoke(i)
    BY <1>5, <2>1, <2>2 DEF Invoke, ClientType, Goto, PC, SavingPair, UsingPair, AwaitingPair
  <2>3. CASE Lose(i)
    BY <1>5, <2>1, <2>3 DEF Lose, ClientType, Disturb, Message
  <2>4. CASE GiveUp(i)
    BY <1>5, <2>1, <2>4
       DEF GiveUp, ClientType, Disturb, Goto, PC, SavingPair, UsingPair, AwaitingPair
  <2> QED
    BY <1>5, <2>2, <2>3, <2>4
<1>6. ASSUME NEW i \in Invocations, Diagnose(i) \/ DoctorGivesUp(i)
      PROVE  TypeInv'
  <2>1. DaemonType'
    BY <1>6 DEF Diagnose, DoctorGivesUp, RequestFails, Elsewhere, DaemonType
  <2>2. CASE Diagnose(i)
    <3>1. PICK flags \in Modes :
              doctor' = [doctor EXCEPT ![i] = [NoReport EXCEPT !.flags = flags]]
      BY <2>2 DEF Diagnose
    <3>2. flags \in SUBSET Flag
      BY DoctorAssumption
    <3>3. [NoReport EXCEPT !.flags = flags] \in Report
      BY <3>2 DEF NoReport, Report, Renewal, OpFinding, TokensFinding
    <3>4. doctor' \in [Invocations -> Report]
      BY <3>1, <3>3 DEF ClientType
    <3> QED
      BY <2>1, <2>2, <3>4
         DEF Diagnose, Elsewhere, ClientType, Goto, PC, SavingPair, UsingPair, AwaitingPair
  <2>3. CASE DoctorGivesUp(i)
    <3>1. doctor' \in [Invocations -> Report] /\ pc' = [pc EXCEPT ![i] = "checkTokens"]
      BY <2>3, RenewalFailsType, SettleType DEF DoctorGivesUp, RequestFails, ClientType, OpFinding
    <3> QED
      BY <2>1, <2>3, <3>1
         DEF DoctorGivesUp, RequestFails, Elsewhere, Disturb, ClientType, PC, SavingPair,
             UsingPair, AwaitingPair
  <2> QED
    BY <1>6, <2>2, <2>3
<1> QED
  BY <1>1, <1>2, <1>3, <1>4, <1>5, <1>6, <1>7 DEF Surroundings

LEMMA NextType ==
    ASSUME TypeInv, [SystemNext]_systemVars
    PROVE  TypeInv'
<1>1. CASE UNCHANGED systemVars
  BY <1>1, TypeParts DEF systemVars, vars, ClientType, DaemonType
<1>2. CASE SystemNext
  BY <1>2, SurroundingsType, ProxyStepType, DoctorStepType, ServeType
     DEF SystemNext, ClientStep
<1> QED
  BY <1>1, <1>2

\* SystemTypeOK holds in every behaviour, for any number of invocations and machines.
THEOREM TypeCorrect == SystemSpec => []SystemTypeOK
<1>1. TypeInv /\ [SystemNext]_systemVars => TypeInv'
  BY NextType
<1>2. TypeInv => SystemTypeOK
  BY DEF TypeInv
<1> QED
  BY <1>1, <1>2, InitType, PTL DEF SystemSpec

-----------------------------------------------------------------------------
\* Where a command or a doctor has not been let through to op.
Before == PC \ {"awaitFirst", "awaitRetry", "exitOther", "exit127", "relayed", "fallback"}

\* Where no refresh has been asked for; and where one may still be.
Early == {"idle", "readAccess", "readLegacy", "probe", "probeStale", "sendFirst",
          "awaitFirst", "readRefresh", "sendRefresh", "checkEndpoint", "checkHealth",
          "readAccessToken", "readLegacyToken", "readRefreshToken", "askOp", "awaitOp",
          "rereadRefreshToken", "sendRenewal"}
MayRenew == {"idle", "readAccess", "readLegacy", "probe", "probeStale", "sendFirst",
             "awaitFirst", "readRefresh", "sendRefresh", "sendRenewal", "rereadRefreshToken"}

\* Where a probe may be asked for or run.
Probed == {"awaitOp", "awaitOpAgain", "checkTokens", "reported"}

\* op has not run for a client whose request is on its way or was refused.
RunControl(j) ==
    /\ hostRuns[j] <= 1
    /\ wire[j] \in Request \cup {"unauthorized"} => hostRuns[j] = 0
    /\ wire[j] \in {"running"} \cup Run => hostRuns[j] = 1
    /\ pc[j] \in Before => hostRuns[j] = 0 /\ wire[j] # "execute"
    /\ pc[j] \in {"exitOther", "relayed"} => wire[j] \in {"ok", "invalid"}

\* A refresh is asked for once, and never by a doctor that must not.
RenewControl(j) ==
    /\ renewals[j] <= IF ReadOnly(j) THEN 0 ELSE 1
    /\ pc[j] \in Early => renewals[j] = 0 /\ wire[j] # "refresh"
    /\ wire[j] = "refresh" => renewals[j] = 0 /\ ~ReadOnly(j)
    /\ pc[j] \in MayRenew => ~ReadOnly(j)

ProbeControl(j) == wire[j] \in {"health", "probing"} => pc[j] \in Probed

Control(j) == RunControl(j) /\ RenewControl(j) /\ ProbeControl(j)

\* What the proofs of the steps need to know of the variables' types.
ControlType ==
    /\ pc \in [Invocations -> PC]
    /\ wire \in [Invocations -> Message]
    /\ hostRuns \in [Invocations -> Nat]
    /\ renewals \in [Invocations -> Nat]
    /\ doctor \in [Invocations -> Report]

LEMMA ControlTyped == TypeInv => ControlType
  BY DEF TypeInv, SystemTypeOK, TypeOK, ControlType

\* A step of one client leaves what the others have sent and done alone.
LEMMA ProxyStepControl ==
    ASSUME ControlType, NEW j \in Invocations, Control(j),
           NEW i \in Invocations, ProxyStep(i), UNCHANGED <<doctor, probeMu, renewals>>
    PROVE  Control(j)'
<1> USE DEF ControlType, Control, RunControl, RenewControl, ProbeControl, Before, Early,
            MayRenew, Probed, PC, Request, Run, Goto, ReadOnly, Awaiting, ProxyAwaiting,
            DoctorAwaiting, Ended, SavingPair, UsingPair
<1>2. CASE ReadAccess(i)
  BY <1>2 DEF ReadAccess
<1>3. CASE ReadLegacy(i)
  BY <1>3 DEF ReadLegacy
<1>4. CASE Probe(i)
  BY <1>4 DEF Probe
<1>5. CASE SendFirst(i)
  BY <1>5 DEF SendFirst, Send
<1>6. CASE ReceiveResult(i)
  BY <1>6 DEF ReceiveResult, Result, NotRun
<1>7. CASE ReadRefresh(i)
  BY <1>7 DEF ReadRefresh
<1>8. CASE SendRefresh(i)
  BY <1>8 DEF SendRefresh, Send
<1>9. CASE ReceivePair(i)
  BY <1>9 DEF ReceivePair
<1>10. CASE SaveAccess(i)
  BY <1>10 DEF SaveAccess
<1>11. CASE SaveRefresh(i)
  BY <1>11 DEF SaveRefresh
<1>12. CASE SendRetry(i)
  BY <1>12 DEF SendRetry, Send
<1>13. CASE ConnectionFails(i)
  BY <1>13 DEF ConnectionFails, ProxyAwaiting
<1>14. CASE Shim(i)
  BY <1>14 DEF Shim
<1> QED
  BY <1>2, <1>3, <1>4, <1>5, <1>6, <1>7, <1>8, <1>9, <1>10, <1>11, <1>12, <1>13, <1>14 DEF ProxyStep

\* A renewal that fails leaves the flags of every doctor as they are.
LEMMA RenewalFailsFlags ==
    ASSUME ControlType, NEW i \in Invocations, RenewalFails(i), NEW j \in Invocations
    PROVE  pc' = [pc EXCEPT ![i] = "checkTokens"] /\ doctor'[j].flags = doctor[j].flags
<1>1. doctor[i] \in Report /\ doctor[j] \in Report
  BY DEF ControlType
<1>2. [doctor[i] EXCEPT !.renewal = "failed", !.op = "renewalFailed"].flags = doctor[i].flags
  BY <1>1 DEF Report
<1> QED
  BY <1>1, <1>2 DEF RenewalFails, Goto, ControlType

LEMMA DoctorStepControl ==
    ASSUME ControlType, NEW j \in Invocations, Control(j),
           NEW i \in Invocations, DoctorStep(i)
    PROVE  Control(j)'
<1> USE DEF ControlType, Control, RunControl, RenewControl, ProbeControl, Before, Early,
            MayRenew, Probed, PC, Request, Run, Goto, ReadOnly, Awaiting, ProxyAwaiting,
            DoctorAwaiting, Ended, SavingPair, UsingPair, Elsewhere, Report
<1>2. CASE CheckEndpoint(i)
  BY <1>2 DEF CheckEndpoint, Note
<1>3. CASE CheckDaemonHealth(i)
  BY <1>3 DEF CheckDaemonHealth, Note
<1>4. CASE ReadAccessToken(i)
  BY <1>4 DEF ReadAccessToken
<1>5. CASE ReadRefreshToken(i)
  BY <1>5 DEF ReadRefreshToken, Settle, Note, Renew
<1>6. CASE SendRenewal(i)
  BY <1>6 DEF SendRenewal, Send
<1>7. CASE ReceiveRenewal(i)
  BY <1>7, RenewalFailsFlags DEF ReceiveRenewal
<1>8. CASE SaveRenewedAccess(i)
  BY <1>8, RenewalFailsFlags DEF SaveRenewedAccess
<1>9. CASE SaveRenewedRefresh(i)
  BY <1>9, RenewalFailsFlags DEF SaveRenewedRefresh, Note
<1>10. CASE AskOp(i)
  BY <1>10 DEF AskOp, Send
<1>11. CASE ReceiveOp(i)
  BY <1>11 DEF ReceiveOp, Settle, Note
<1>12. CASE RereadRefreshToken(i)
  BY <1>12 DEF RereadRefreshToken, Settle, Note, Renew
<1>13. CASE DoctorConnectionFails(i)
  BY <1>13, RenewalFailsFlags DEF DoctorConnectionFails, RequestFails, Settle, Note
<1>14. CASE CheckTokens(i)
  BY <1>14 DEF CheckTokens, Note
<1> QED
  BY <1>2, <1>3, <1>4, <1>5, <1>6, <1>7, <1>8, <1>9, <1>10, <1>11, <1>12, <1>13, <1>14 DEF DoctorStep

LEMMA ServeControl ==
    ASSUME ControlType, NEW j \in Invocations, Control(j),
           NEW i \in Invocations, Serve(i)
    PROVE  Control(j)'
<1> USE DEF ControlType, Control, RunControl, RenewControl, ProbeControl, Before, Early,
            MayRenew, Probed, PC, Request, Run, ReadOnly, Awaiting, ProxyAwaiting,
            DoctorAwaiting, Ended, SavingPair, UsingPair
<1>2. CASE HandleExecute(i) /\ UNCHANGED <<doctor, probeMu, renewals>>
  BY <1>2 DEF HandleExecute, Reply, NotRun
<1>3. CASE OpEnds(i) /\ UNCHANGED <<doctor, probeMu, renewals>>
  BY <1>3 DEF OpEnds, Reply
<1>4. CASE Rotation(i)
  BY <1>4 DEF Rotation, HandleRefresh, Reply
<1>5. CASE HandleHealthOp(i)
  BY <1>5 DEF HandleHealthOp, Reply
<1>6. CASE ProbeEnds(i)
  BY <1>6 DEF ProbeEnds, Reply
<1> QED
  BY <1>2, <1>3, <1>4, <1>5, <1>6 DEF Serve

LEMMA SurroundingsControl ==
    ASSUME ControlType, NEW j \in Invocations, Control(j), Surroundings
    PROVE  Control(j)'
<1> USE DEF ControlType, Control, RunControl, RenewControl, ProbeControl, Before, Early,
            MayRenew, Probed, PC, Request, Run, Goto, ReadOnly, Awaiting, ProxyAwaiting,
            DoctorAwaiting, Ended, SavingPair, UsingPair
<1>1. CASE StopDaemon /\ probeMu' = NoOne /\ UNCHANGED <<doctor, renewals>>
  BY <1>1 DEF StopDaemon
<1>2. CASE (StartDaemon \/ ServeBeside) /\ UNCHANGED <<doctor, probeMu, renewals>>
  BY <1>2 DEF StartDaemon, ServeBeside
<1>3. ASSUME NEW k \in Expiring, Tick(k), UNCHANGED <<doctor, probeMu, renewals>>
      PROVE  Control(j)'
  BY <1>3 DEF Tick
<1>4. ASSUME NEW m \in Machine, Deploy(m), UNCHANGED <<doctor, probeMu, renewals>>
      PROVE  Control(j)'
  BY <1>4 DEF Deploy
<1>5. ASSUME NEW i \in Invocations, Invoke(i), UNCHANGED <<doctor, probeMu, renewals>>
      PROVE  Control(j)'
  BY <1>5 DEF Invoke
<1>6. ASSUME NEW i \in Invocations, Lose(i), UNCHANGED <<doctor, probeMu, renewals>>
      PROVE  Control(j)'
  BY <1>6 DEF Lose
<1>7. ASSUME NEW i \in Invocations, GiveUp(i), UNCHANGED <<doctor, probeMu, renewals>>
      PROVE  Control(j)'
  BY <1>7 DEF GiveUp
<1>8. ASSUME NEW i \in Invocations, Diagnose(i)
      PROVE  Control(j)'
  <2>1. UNCHANGED <<wire, hostRuns, renewals>> /\ pc' = [pc EXCEPT ![i] = "checkEndpoint"]
    BY <1>8 DEF Diagnose, Elsewhere
  <2>2. i # j => doctor'[j] = doctor[j]
    BY <1>8 DEF Diagnose
  <2>3. pc[i] = "idle"
    BY <1>8 DEF Diagnose
  <2> QED
    BY <2>1, <2>2, <2>3
<1>9. ASSUME NEW i \in Invocations, DoctorGivesUp(i)
      PROVE  Control(j)'
  BY <1>9, RenewalFailsFlags DEF DoctorGivesUp, RequestFails, Settle, Note, Elsewhere, Report
<1> QED
  BY <1>1, <1>2, <1>3, <1>4, <1>5, <1>6, <1>7, <1>8, <1>9 DEF Surroundings

LEMMA InitControl == SystemInit => \A j \in Invocations : Control(j)
  BY DEF SystemInit, Init, NoReport, Control, RunControl, RenewControl, ProbeControl,
         ReadOnly, Request, Run

LEMMA NextControl ==
    ASSUME TypeInv, \A j \in Invocations : Control(j), [SystemNext]_systemVars
    PROVE  \A j \in Invocations : Control(j)'
<1> SUFFICES ASSUME NEW j \in Invocations PROVE Control(j)'
  OBVIOUS
<1>1. ControlType /\ Control(j)
  BY ControlTyped
<1>2. CASE UNCHANGED systemVars
  BY <1>1, <1>2 DEF systemVars, vars, Control, RunControl, RenewControl, ProbeControl, ReadOnly
<1>3. CASE SystemNext
  BY <1>1, <1>3, SurroundingsControl, ProxyStepControl, DoctorStepControl, ServeControl
     DEF SystemNext, ClientStep
<1> QED
  BY <1>2, <1>3

-----------------------------------------------------------------------------
\* The lock is held for the one probe that runs.
LockInv == \A i \in Invocations : wire[i] = "probing" <=> probeMu = i

SystemInv ==
    /\ TypeInv
    /\ \A j \in Invocations : Control(j)
    /\ LockInv

\* Clients send nothing while their probe runs, so they do not touch the lock.
LEMMA ClientLock ==
    ASSUME TypeInv, LockInv, NEW i \in Invocations, Control(i), ClientStep(i)
    PROVE  LockInv'
<1>0. ControlType
  BY ControlTyped
<1>1. probeMu' = probeMu
  BY DEF ClientStep, DoctorStep, CheckEndpoint, CheckDaemonHealth, ReadAccessToken,
         ReadRefreshToken, SendRenewal, ReceiveRenewal, SaveRenewedAccess,
         SaveRenewedRefresh, AskOp, ReceiveOp, RereadRefreshToken, DoctorConnectionFails,
         RequestFails, CheckTokens, Elsewhere
<1>2. \/ wire' = wire
      \/ \E msg \in Message \ {"probing"} :
             wire' = [wire EXCEPT ![i] = msg] /\ wire[i] # "probing"
  <2> USE <1>0 DEF ControlType, Control, ProbeControl, Probed, Message, Send
  <2>1. CASE ProxyStep(i)
    BY <2>1 DEF ProxyStep, ReadAccess, ReadLegacy, Probe, SendFirst, ReceiveResult,
                ReadRefresh, SendRefresh, ReceivePair, SaveAccess, SaveRefresh, SendRetry,
                ConnectionFails, Shim
  <2>2. CASE CheckTokens(i)
    BY <2>2 DEF CheckTokens, Request
  <2>3. CASE SendRenewal(i) \/ AskOp(i)
    BY <2>3 DEF SendRenewal, AskOp
  <2>4. CASE DoctorStep(i) /\ ~CheckTokens(i) /\ ~SendRenewal(i) /\ ~AskOp(i)
    BY <2>4 DEF DoctorStep, CheckEndpoint, CheckDaemonHealth, ReadAccessToken,
                ReadRefreshToken, ReceiveRenewal, SaveRenewedAccess, SaveRenewedRefresh,
                ReceiveOp, RereadRefreshToken, DoctorConnectionFails, RequestFails, Elsewhere
  <2> QED
    BY <2>1, <2>2, <2>3, <2>4 DEF ClientStep
<1> QED
  BY <1>0, <1>1, <1>2 DEF LockInv, ControlType

LEMMA ServeLock ==
    ASSUME TypeInv, LockInv, NEW i \in Invocations, Serve(i)
    PROVE  LockInv'
<1>0. ControlType
  BY ControlTyped
<1> USE <1>0 DEF ControlType, LockInv, Reply
<1>1. CASE HandleExecute(i) /\ UNCHANGED <<doctor, probeMu, renewals>>
  BY <1>1, ForwardingAssumption DEF HandleExecute, NotRun
<1>2. CASE OpEnds(i) /\ UNCHANGED <<doctor, probeMu, renewals>>
  BY <1>2 DEF OpEnds, Run
<1>3. CASE Rotation(i)
  BY <1>3 DEF Rotation, HandleRefresh
<1>4. CASE HandleHealthOp(i)
  BY <1>4, DoctorAssumption DEF HandleHealthOp
<1>5. CASE ProbeEnds(i)
  BY <1>5, DoctorAssumption DEF ProbeEnds
<1> QED
  BY <1>1, <1>2, <1>3, <1>4, <1>5 DEF Serve

\* The lock is free when the daemon stops; nothing else around the clients touches it.
LEMMA SurroundingsLock ==
    ASSUME TypeInv, LockInv, Surroundings
    PROVE  LockInv'
<1>0. ControlType
  BY ControlTyped
<1> USE <1>0 DEF ControlType, LockInv
<1>1. CASE StopDaemon /\ probeMu' = NoOne /\ UNCHANGED <<doctor, renewals>>
  BY <1>1, DoctorAssumption DEF StopDaemon
<1>2. ASSUME NEW i \in Invocations, Lose(i), UNCHANGED <<doctor, probeMu, renewals>>
      PROVE  LockInv'
  BY <1>2 DEF Lose
<1>3. CASE UNCHANGED <<wire, probeMu>>
  BY <1>3
<1> QED
  BY <1>1, <1>2, <1>3 DEF Surroundings, StartDaemon, ServeBeside, Tick, Deploy, Invoke, GiveUp,
     Diagnose, DoctorGivesUp, RequestFails, Elsewhere

LEMMA SystemInvariant == SystemSpec => []SystemInv
<1>1. SystemInit => SystemInv
  <2>1. SystemInit => LockInv
    BY DoctorAssumption DEF SystemInit, Init, LockInv
  <2> QED
    BY <2>1, InitType, InitControl DEF SystemInv
<1>2. SystemInv /\ [SystemNext]_systemVars => SystemInv'
  <2> SUFFICES ASSUME SystemInv, [SystemNext]_systemVars PROVE SystemInv'
    OBVIOUS
  <2>0. TypeInv /\ LockInv /\ \A j \in Invocations : Control(j)
    BY DEF SystemInv
  <2>1. TypeInv'
    BY <2>0, NextType
  <2>2. \A j \in Invocations : Control(j)'
    BY <2>0, NextControl
  <2>3. LockInv'
    <3>1. CASE UNCHANGED systemVars
      BY <2>0, <3>1 DEF systemVars, vars, LockInv
    <3>2. CASE SystemNext
      BY <2>0, <3>2, ClientLock, ServeLock, SurroundingsLock DEF SystemNext
    <3> QED
      BY <3>1, <3>2
  <2> QED
    BY <2>1, <2>2, <2>3 DEF SystemInv
<1> QED
  BY <1>1, <1>2, PTL DEF SystemSpec

\* RunOnce holds in every behaviour, for any number of invocations.
THEOREM RunsOnce == SystemSpec => []RunOnce
<1>1. SystemInv => RunOnce
  BY DEF SystemInv, Control, RunControl, RunOnce, Run
<1> QED
  BY <1>1, SystemInvariant, PTL

\* RotatesAtMostOnce holds in every behaviour, for any number of invocations.
THEOREM RotatesOnce == SystemSpec => []RotatesAtMostOnce
<1>1. SystemInv => RotatesAtMostOnce
  BY DEF SystemInv, Control, RenewControl, RotatesAtMostOnce
<1> QED
  BY <1>1, SystemInvariant, PTL

\* OneProbe holds in every behaviour, for any number of invocations.
THEOREM ProbesAreAlone == SystemSpec => []OneProbe
<1>1. SystemInv => OneProbe
  BY DEF SystemInv, LockInv, OneProbe
<1> QED
  BY <1>1, SystemInvariant, PTL

\* RefusalMeansProbe holds in every behaviour, for any number of invocations.
THEOREM RefusedForProbe == SystemSpec => RefusalMeansProbe
<1> DEFINE Justified ==
             \A i \in Invocations :
                 wire[i] = "health" /\ wire'[i] = "busy" =>
                     \E j \in Invocations \ {i} : wire[j] = "probing"
<1>1. SystemInv /\ [SystemNext]_systemVars => Justified
  <2> SUFFICES ASSUME SystemInv, [SystemNext]_systemVars,
                      NEW i \in Invocations, wire[i] = "health", wire'[i] = "busy"
               PROVE  \E j \in Invocations \ {i} : wire[j] = "probing"
    OBVIOUS
  <2>0. ControlType /\ LockInv /\ probeMu \in Invocations \cup {NoOne} /\ pc[i] \in Probed
    BY ControlTyped DEF SystemInv, TypeInv, SystemTypeOK, Control, ProbeControl
  <2>1. HandleHealthOp(i)
    <3> USE <2>0 DEF ControlType
    <3>1. CASE UNCHANGED systemVars
      BY <3>1 DEF systemVars, vars
    <3>2. CASE Surroundings
      BY <3>2 DEF Surroundings, StopDaemon, StartDaemon, ServeBeside, Tick, Deploy, Invoke, Lose,
                  GiveUp, Diagnose, DoctorGivesUp, RequestFails, Elsewhere
    <3>3. ASSUME NEW k \in Invocations, ClientStep(k) PROVE FALSE
      BY <3>3 DEF ClientStep, ProxyStep, ReadAccess, ReadLegacy, Probe, SendFirst, Send,
                  ReceiveResult, ReadRefresh, SendRefresh, ReceivePair, SaveAccess,
                  SaveRefresh, SendRetry, ConnectionFails, Shim, DoctorStep, CheckEndpoint,
                  CheckDaemonHealth, ReadAccessToken, ReadRefreshToken, SendRenewal,
                  ReceiveRenewal, SaveRenewedAccess, SaveRenewedRefresh, AskOp, ReceiveOp,
                  RereadRefreshToken, DoctorConnectionFails, RequestFails, CheckTokens,
                  Elsewhere
    <3>4. ASSUME NEW k \in Invocations, Serve(k) PROVE HandleHealthOp(i)
      BY <3>4, ForwardingAssumption
         DEF Serve, HandleExecute, OpEnds, Rotation, HandleRefresh, HandleHealthOp,
             ProbeEnds, Reply, NotRun, Run
    <3> QED
      BY <3>1, <3>2, <3>3, <3>4 DEF SystemNext
  <2>2. probeMu # NoOne
    BY <2>0, <2>1 DEF HandleHealthOp, Reply, ControlType
  <2> QED
    BY <2>0, <2>2 DEF LockInv
<1>2. SystemInv /\ [SystemNext]_systemVars => [Justified]_systemVars
  BY <1>1
<1>3. SystemSpec => [][Justified]_systemVars
  BY <1>2, SystemInvariant, PTL DEF SystemSpec
<1> QED
  BY <1>3 DEF RefusalMeansProbe

\* No shim falls back on a shim, for a PATH of any length over any directories.
THEOREM ShimNeverRunsShim == SystemSpec => []ShimRunsNoShim
<1>1. ShimRunsNoShim
  BY FallbackNeverShim DEF ShimRunsNoShim
<1> QED
  BY <1>1, PTL
=============================================================================
