-------------------------- MODULE CredentialProofs --------------------------
(***************************************************************************)
(* What becomes of the credential of a client machine: on any number of    *)
(* machines nothing older replaces it, and a machine that is alone with it *)
(* keeps it.                                                               *)
(***************************************************************************)
EXTENDS DoctorProofs

\* Clients run anywhere but in the daemon's own directory of token files.
ClientsApart == \A i \in Invocations : Where[i] # Host

LEMMA ClientsMachine ==
    ASSUME ClientsApart, NEW i \in Invocations
    PROVE  Where[i] \in Machine /\ Where[i] # Host
  BY ForwardingAssumption DEF ClientsApart

-----------------------------------------------------------------------------
\* What the host's refresh.token holds, which a starting daemon loads and Deploy copies.
HostRefresh == dir[Host]["refresh"]

\* No refresh token is newer.
Newest(t) == t.kind = "refresh" => HostRefresh.kind = "refresh" /\ t.n <= HostRefresh.n

\* It is the one the daemon accepts, unless that has expired: a second serve may have
\* replaced it then.
NewestInv ==
    /\ HostRefresh.kind \in {"refresh", "legacy"} /\ HostRefresh.n <= minted
    /\ HostRefresh = refreshToken \/ IsExpired(refreshToken, expired)
    /\ \A m \in Machine, f \in File : Newest(dir[m][f])
    /\ \A j \in Invocations : Newest(held[j]) /\ Newest(cargo[j])

\* A pair that is being saved came in the reply to a refresh.
SavingInv == \A j \in Invocations : pc[j] \in SavingPair => wire[j] = "pair"

\* An older refresh token, or no refresh token.
Older(t, credential) == t.kind = "refresh" => t.n < credential.n

\* While an invocation has a rotated pair to save, its machine knows only older refresh
\* tokens, in its files and in its processes: nobody else there has a pair to save, or can
\* rotate for one.
Sole(i) ==
    /\ cargo[i].kind = "refresh"
    /\ \A f \in File : Older(dir[Where[i]][f], cargo[i])
    /\ \A j \in Invocations : Where[j] = Where[i] => Older(held[j], cargo[i])
    /\ \A j \in Invocations \ {i} :
          Where[j] = Where[i] => Older(cargo[j], cargo[i]) /\ ~PairUnsaved(j)

CredentialInv ==
    /\ NewestInv
    /\ SavingInv
    /\ \A i \in Invocations : PairUnsaved(i) => Sole(i)

\* What a step of a client does to tokens.
ClientEffect(i) ==
    /\ UNCHANGED <<refreshToken, minted, expired>>
    /\ \A j \in Invocations \ {i} :
          held'[j] = held[j] /\ cargo'[j] = cargo[j] /\ wire'[j] = wire[j] /\ pc'[j] = pc[j]
    /\ \/ held'[i] \in {held[i], NoToken, Access(cargo[i].n)}
       \/ \E f \in File : held'[i] = dir[Where[i]][f]
    /\ cargo'[i] \in {cargo[i], held[i], NoToken}
    /\ PairUnsaved(i)' => PairUnsaved(i) /\ cargo'[i] = cargo[i]
    /\ pc'[i] \in SavingPair => wire'[i] = "pair"
    /\ \/ dir' = dir
       \/ dir' = [dir EXCEPT ![Where[i]]["access"] = held[i]]
       \/ /\ PairUnsaved(i) /\ ~PairUnsaved(i)'
          /\ dir' = [dir EXCEPT ![Where[i]]["refresh"] = cargo[i]]

\* The types of what these proofs are about.
TokenTyped ==
    /\ refreshToken \in Token /\ minted \in Nat /\ expired \in [Kind -> Nat]
    /\ dir \in [Machine -> [File -> Token \cup {NoToken}]]
    /\ pc \in [Invocations -> PC] /\ wire \in [Invocations -> Message]
    /\ held \in [Invocations -> Token \cup {NoToken}]
    /\ cargo \in [Invocations -> Token \cup {NoToken}]
    /\ doctor \in [Invocations -> Report] /\ renewals \in [Invocations -> Nat]

\* The host's own refresh.token is there.
LEMMA HostTyped ==
    ASSUME TokenTyped, NewestInv
    PROVE  HostRefresh \in Token /\ HostRefresh.n \in Nat /\ Newest(HostRefresh)
<1>1. HostRefresh \in Token \cup {NoToken} /\ HostRefresh # NoToken
  BY ForwardingAssumption DEF TokenTyped, HostRefresh, NewestInv, NoToken, File
<1> QED
  BY <1>1 DEF Token, HostRefresh, Newest

LEMMA TokensTyped == TypeInv => TokenTyped
  BY DEF TypeInv, SystemTypeOK, TypeOK, TokenTyped

LEMMA ProxyEffect ==
    ASSUME TokenTyped, SavingInv, NEW i \in Invocations, ProxyStep(i)
    PROVE  ClientEffect(i)
<1> USE DEF TokenTyped, SavingInv, ClientEffect, PairUnsaved, AwaitingPair, SavingPair, Goto,
            daemon, File, Request, Awaiting, ProxyAwaiting, DoctorAwaiting
<1>2. CASE ReadAccess(i)
  BY <1>2 DEF ReadAccess
<1>3. CASE ReadLegacy(i)
  BY <1>3 DEF ReadLegacy
<1>4. CASE Probe(i)
  BY <1>4 DEF Probe
<1>5. CASE SendFirst(i) \/ SendRefresh(i) \/ SendRetry(i)
  BY <1>5 DEF SendFirst, SendRefresh, SendRetry, Send
<1>6. CASE ReceiveResult(i)
  BY <1>6 DEF ReceiveResult
<1>7. CASE ReadRefresh(i)
  BY <1>7 DEF ReadRefresh, Credential
<1>9. CASE ReceivePair(i)
  BY <1>9 DEF ReceivePair
<1>10. CASE SaveAccess(i)
  BY <1>10 DEF SaveAccess, Write, WriteFails
<1>11. CASE SaveRefresh(i)
  BY <1>11 DEF SaveRefresh, Write, WriteFails
<1>13. CASE ConnectionFails(i)
  BY <1>13 DEF ConnectionFails
<1>14. CASE Shim(i)
  BY <1>14 DEF Shim, ProcessEnds
<1> QED
  BY <1>2, <1>3, <1>4, <1>5, <1>6, <1>7, <1>9, <1>10, <1>11, <1>13, <1>14 DEF ProxyStep

LEMMA DoctorEffect ==
    ASSUME TokenTyped, SavingInv, NEW i \in Invocations, DoctorStep(i)
    PROVE  ClientEffect(i)
<1> USE DEF TokenTyped, SavingInv, ClientEffect, PairUnsaved, AwaitingPair, SavingPair, Goto,
            daemon, File, Request, Elsewhere, Stored
<1>2. CASE CheckEndpoint(i)
  BY <1>2 DEF CheckEndpoint
<1>3. CASE CheckDaemonHealth(i)
  BY <1>3 DEF CheckDaemonHealth
<1>4. CASE ReadAccessToken(i)
  BY <1>4 DEF ReadAccessToken
<1>5. CASE ReadRefreshToken(i)
  BY <1>5 DEF ReadRefreshToken, Settle, Renew
<1>6. CASE SendRenewal(i) \/ AskOp(i)
  BY <1>6 DEF SendRenewal, AskOp, Send
<1>7. CASE ReceiveRenewal(i)
  BY <1>7 DEF ReceiveRenewal, RenewalFails
<1>8. CASE SaveRenewedAccess(i)
  BY <1>8 DEF SaveRenewedAccess, Write, WriteFails, RenewalFails
<1>9. CASE SaveRenewedRefresh(i)
  BY <1>9 DEF SaveRenewedRefresh, Write, WriteFails, RenewalFails
<1>11. CASE ReceiveOp(i)
  BY <1>11 DEF ReceiveOp, Settle
<1>12. CASE RereadRefreshToken(i)
  BY <1>12 DEF RereadRefreshToken, Settle, Renew
<1>13. CASE DoctorConnectionFails(i)
  BY <1>13 DEF DoctorConnectionFails, RequestFails, RenewalFails, Settle
<1>14. CASE CheckTokens(i)
  BY <1>14 DEF CheckTokens, ProcessEnds
<1> QED
  BY <1>2, <1>3, <1>4, <1>5, <1>6, <1>7, <1>8, <1>9, <1>11, <1>12, <1>13, <1>14 DEF DoctorStep

\* A client spreads no credential but the one it saves, and none to another machine.
LEMMA ClientCredential ==
    ASSUME ClientsApart, TokenTyped, CredentialInv, NEW i \in Invocations, ClientEffect(i)
    PROVE  CredentialInv'
<1>0. Where[i] \in Machine /\ Where[i] # Host
  BY ClientsMachine
<1>1. /\ \A j \in Invocations \ {i} : held'[j] = held[j] /\ cargo'[j] = cargo[j]
      /\ \A j \in Invocations \ {i} : PairUnsaved(j)' <=> PairUnsaved(j)
      /\ \A m \in Machine \ {Where[i]} : dir'[m] = dir[m]
      /\ UNCHANGED <<refreshToken, minted, expired, HostRefresh>>
  <2>1. \A m \in Machine \ {Where[i]} : dir'[m] = dir[m]
    BY <1>0 DEF ClientEffect, TokenTyped
  <2>2. \A j \in Invocations \ {i} : PairUnsaved(j)' <=> PairUnsaved(j)
    BY DEF ClientEffect, PairUnsaved
  <2>3. dir'[Host] = dir[Host]
    BY <1>0, <2>1, ForwardingAssumption
  <2> QED
    BY <2>1, <2>2, <2>3 DEF ClientEffect, HostRefresh
<1>2. NewestInv'
  <2>1. \A m \in Machine, f \in File : Newest(dir[m][f])'
    BY <1>0, <1>1 DEF ClientEffect, TokenTyped, CredentialInv, NewestInv, Newest, File
  <2>2. Newest(held[i])'
    BY <1>0, <1>1 DEF ClientEffect, TokenTyped, CredentialInv, NewestInv, Newest, Access, NoToken
  <2>3. Newest(cargo[i])'
    BY <1>1 DEF ClientEffect, TokenTyped, CredentialInv, NewestInv, Newest, NoToken
  <2>4. \A j \in Invocations \ {i} : Newest(held[j])' /\ Newest(cargo[j])'
    BY <1>1 DEF CredentialInv, NewestInv, Newest
  <2>5. IsExpired(refreshToken, expired)' <=> IsExpired(refreshToken, expired)
    BY <1>1
  <2> QED
    BY <1>1, <2>1, <2>2, <2>3, <2>4, <2>5 DEF CredentialInv, NewestInv
<1>3. SavingInv'
  BY DEF CredentialInv, SavingInv, ClientEffect
<1>4. ASSUME NEW k \in Invocations, PairUnsaved(k)'
      PROVE  Sole(k)'
  <2>1. PairUnsaved(k) /\ Sole(k) /\ cargo'[k] = cargo[k] /\ Where[k] \in Machine
    BY <1>1, <1>4, ClientsMachine DEF ClientEffect, CredentialInv
  <2>2. CASE Where[k] # Where[i]
    <3>1. dir'[Where[k]] = dir[Where[k]]
      BY <1>1, <2>1, <2>2
    <3>2. \A j \in Invocations : Where[j] = Where[k] => j # i
      BY <2>2
    <3> QED
      BY <1>1, <2>1, <3>1, <3>2 DEF Sole, Older
  <2>3. CASE Where[k] = Where[i]
    <3>1. /\ \A f \in File : Older(dir[Where[i]][f], cargo[k])
          /\ Older(held[i], cargo[k])
          /\ i # k => Older(cargo[i], cargo[k]) /\ ~PairUnsaved(i)
      BY <2>1, <2>3 DEF Sole
    <3>2. \/ dir' = dir
          \/ dir' = [dir EXCEPT ![Where[i]]["access"] = held[i]]
      BY <1>4, <3>1 DEF ClientEffect
    <3>3. \A f \in File : Older(dir'[Where[i]][f], cargo[k])
      BY <1>0, <3>1, <3>2 DEF TokenTyped, File
    <3>4. Older(held'[i], cargo[k])
      BY <3>1 DEF ClientEffect, Older, Access, NoToken
    <3>5. i # k => Older(cargo'[i], cargo[k]) /\ ~PairUnsaved(i)'
      BY <3>1 DEF ClientEffect, Older, NoToken
    <3> QED
      BY <1>1, <2>1, <2>3, <3>3, <3>4, <3>5 DEF Sole
  <2> QED
    BY <2>2, <2>3
<1> QED
  BY <1>2, <1>3, <1>4 DEF CredentialInv

\* A rotation that succeeds, and what it does to the tokens.
Rotated(i) ==
    /\ wire[i] = "refresh" /\ cargo[i] = refreshToken /\ ~IsExpired(refreshToken, expired)
    /\ minted' = minted + 1
    /\ refreshToken' = Refresh(minted + 1)
    /\ dir' = [dir EXCEPT ![Host] =
                  Files(Access(minted + 1), Refresh(minted + 1), Access(minted + 1))]
    /\ wire' = [wire EXCEPT ![i] = "pair"]
    /\ cargo' = [cargo EXCEPT ![i] = Refresh(minted + 1)]
    /\ UNCHANGED <<pc, held, expired>>

\* Every other answer of the daemon does no more than a step of a client may.
LEMMA ServeEffect ==
    ASSUME TokenTyped, SavingInv, NEW i \in Invocations, Serve(i)
    PROVE  ClientEffect(i) \/ Rotated(i)
<1> DEFINE answers(msg) ==
             /\ wire' = [wire EXCEPT ![i] = msg] /\ msg # "pair"
             /\ cargo' = [cargo EXCEPT ![i] = NoToken]
<1>1. ASSUME wire[i] # "pair", NEW msg, answers(msg),
             UNCHANGED <<refreshToken, minted, expired, dir, pc, held>>
      PROVE  ClientEffect(i)
  BY <1>1 DEF ClientEffect, TokenTyped, SavingInv, PairUnsaved
<1>2. CASE HandleExecute(i)
  <2>1. \E msg : answers(msg)
    BY <1>2, ForwardingAssumption DEF HandleExecute, Reply, NotRun
  <2> QED
    BY <1>1, <1>2, <2>1 DEF HandleExecute, daemon
<1>3. CASE OpEnds(i)
  <2>1. \E msg : answers(msg)
    BY <1>3 DEF OpEnds, Reply, Run
  <2> QED
    BY <1>1, <1>3, <2>1 DEF OpEnds, daemon
<1>4. CASE Rotation(i)
  <2>1. CASE cargo[i] = refreshToken /\ ~IsExpired(refreshToken, expired)
    BY <1>4, <2>1 DEF Rotation, HandleRefresh, Reply, Rotated
  <2>2. CASE ~(cargo[i] = refreshToken /\ ~IsExpired(refreshToken, expired))
    <3>1. answers("unauthorized")
      BY <1>4, <2>2 DEF Rotation, HandleRefresh, Reply
    <3> QED
      BY <1>1, <1>4, <2>2, <3>1 DEF Rotation, HandleRefresh
  <2> QED
    BY <2>1, <2>2
<1>5. CASE HandleHealthOp(i)
  <2>1. \E msg : answers(msg)
    BY <1>5 DEF HandleHealthOp, Reply
  <2> QED
    BY <1>1, <1>5, <2>1 DEF HandleHealthOp, daemon
<1>6. CASE ProbeEnds(i)
  <2>1. answers("report")
    BY <1>6 DEF ProbeEnds, Reply
  <2> QED
    BY <1>1, <1>6, <2>1 DEF ProbeEnds, daemon
<1> QED
  BY <1>2, <1>3, <1>4, <1>5, <1>6 DEF Serve

\* No token anywhere is a refresh token that is generated only now.
LEMMA NextIsNew ==
    ASSUME TokenTyped, NewestInv
    PROVE  /\ \A t : Newest(t) /\ t.n \in Nat => t # Refresh(minted + 1)
           /\ \A t : Newest(t) /\ t.n \in Nat /\ t.kind = "refresh" => t.n < minted + 1
  BY HostTyped DEF TokenTyped, NewestInv, Newest, Refresh

\* The numbers of the tokens in the state.
LEMMA Numbers ==
    ASSUME TokenTyped
    PROVE  /\ \A m \in Machine, f \in File : dir[m][f].n \in Nat
           /\ \A j \in Invocations : held[j].n \in Nat /\ cargo[j].n \in Nat
<1>1. \A t \in Token \cup {NoToken} : t.n \in Nat
  BY DEF Token, NoToken
<1> QED
  BY <1>1 DEF TokenTyped

\* What the daemon accepts for a rotation is not older than a pair that is being saved, so
\* nobody on that machine presents it.
LEMMA SoleRotates ==
    ASSUME TokenTyped, CredentialInv, NEW i \in Invocations, Rotated(i)
    PROVE  \A j \in Invocations \ {i} : Where[j] = Where[i] => ~PairUnsaved(j)
<1> SUFFICES ASSUME NEW j \in Invocations \ {i}, Where[j] = Where[i], PairUnsaved(j)
             PROVE  FALSE
  OBVIOUS
<1>1. cargo[j].kind = "refresh" /\ Older(refreshToken, cargo[j])
  BY DEF CredentialInv, Sole, Rotated
<1>2. refreshToken.kind = "refresh" /\ cargo[j].n <= refreshToken.n
  BY <1>1 DEF CredentialInv, NewestInv, Newest, Rotated
<1>3. cargo[j].n \in Nat /\ refreshToken.n \in Nat
  BY Numbers DEF TokenTyped, Token
<1> QED
  BY <1>1, <1>2, <1>3 DEF Older

\* A rotation makes a credential that only its own client is told of.
LEMMA RotationCredential ==
    ASSUME ClientsApart, TokenTyped, CredentialInv, NEW i \in Invocations, Rotated(i)
    PROVE  CredentialInv'
<1> DEFINE new == Refresh(minted + 1)
<1>0. /\ new \in Token /\ new.kind = "refresh" /\ new.n = minted + 1 /\ minted \in Nat
      /\ Access(minted + 1).kind = "access"
  <2>1. minted \in Nat /\ minted + 1 \in Nat
    BY DEF TokenTyped
  <2> QED
    BY <2>1, TokenTypes DEF Refresh, Access
<1>1. /\ \A m \in Machine \ {Host} : dir'[m] = dir[m]
      /\ dir'[Host] = Files(Access(minted + 1), new, Access(minted + 1))
      /\ \A j \in Invocations \ {i} : cargo'[j] = cargo[j] /\ wire'[j] = wire[j]
      /\ cargo'[i] = new /\ refreshToken' = new /\ held' = held /\ pc' = pc /\ expired' = expired
  <2>1. /\ \A m \in Machine \ {Host} : dir'[m] = dir[m]
        /\ dir'[Host] = Files(Access(minted + 1), new, Access(minted + 1))
    BY ForwardingAssumption DEF Rotated, TokenTyped
  <2> QED
    BY <2>1 DEF Rotated, TokenTyped
<1>3. NewestInv'
  <2>2. HostRefresh' = refreshToken'
    BY <1>1 DEF Files, HostRefresh
  <2>1. HostRefresh'.kind = "refresh" /\ HostRefresh'.n = minted' /\ minted' \in Nat
    BY <1>0, <1>1, <2>2 DEF Rotated
  <2>3. ASSUME NEW m \in Machine, NEW f \in File
        PROVE  Newest(dir[m][f])'
    <3>1. CASE m = Host
      BY <1>0, <1>1, <2>1, <2>2, <3>1 DEF Files, File, Newest
    <3>2. CASE m # Host
      <4>1. dir'[m][f] = dir[m][f]
        BY <1>1, <3>2
      <4>2. Newest(dir[m][f]) /\ dir[m][f].n \in Nat
        BY Numbers DEF CredentialInv, NewestInv
      <4> QED
        BY <1>0, <1>1, <2>1, <2>2, <4>1, <4>2, NextIsNew DEF CredentialInv, Newest
    <3> QED
      BY <3>1, <3>2
  <2>4. ASSUME NEW j \in Invocations
        PROVE  Newest(held[j])' /\ Newest(cargo[j])'
    <3>1. Newest(held[j]) /\ held[j].n \in Nat /\ Newest(cargo[j]) /\ cargo[j].n \in Nat
      BY Numbers DEF CredentialInv, NewestInv
    <3> QED
      BY <1>0, <1>1, <2>1, <2>2, <3>1, NextIsNew DEF CredentialInv, Newest
  <2> QED
    BY <2>1, <2>2, <2>3, <2>4 DEF NewestInv
<1>4. SavingInv'
  BY <1>1 DEF CredentialInv, SavingInv, Rotated, TokenTyped
<1>5. ASSUME NEW k \in Invocations, PairUnsaved(k)'
      PROVE  Sole(k)'
  <2>0. Where[k] \in Machine \ {Host}
    BY ClientsMachine
  <2>1. \A j \in Invocations \ {i} : PairUnsaved(j)' <=> PairUnsaved(j)
    BY <1>1 DEF PairUnsaved
  <2>2. \A j \in Invocations \ {i} : Where[j] = Where[i] => ~PairUnsaved(j)
    BY SoleRotates
  <2>3. CASE k = i
    <3>1. \A f \in File : Older(dir'[Where[k]][f], new)
      BY <1>0, <1>1, <2>0, Numbers, NextIsNew DEF CredentialInv, NewestInv, Older
    <3>2. \A j \in Invocations : Older(held'[j], new)
      BY <1>0, <1>1, Numbers, NextIsNew DEF CredentialInv, NewestInv, Older
    <3>3. \A j \in Invocations \ {i} : Older(cargo'[j], new)
      BY <1>0, <1>1, Numbers, NextIsNew DEF CredentialInv, NewestInv, Older
    <3> QED
      BY <1>0, <1>1, <2>1, <2>2, <2>3, <3>1, <3>2, <3>3 DEF Sole
  <2>4. CASE k # i
    <3>1. PairUnsaved(k) /\ Sole(k)
      BY <1>5, <2>1, <2>4 DEF CredentialInv
    <3>2. Where[k] # Where[i] /\ dir'[Where[k]] = dir[Where[k]] /\ cargo'[k] = cargo[k]
      BY <1>1, <2>0, <2>2, <2>4, <3>1
    <3>3. \A j \in Invocations : Where[j] = Where[k] => j # i
      BY <3>2
    <3> QED
      BY <1>1, <2>1, <3>1, <3>2, <3>3 DEF Sole, Older
  <2> QED
    BY <2>3, <2>4
<1> QED
  BY <1>3, <1>4, <1>5 DEF CredentialInv

\* What is lost or given up spreads no credential either.
LEMMA MishapEffect ==
    ASSUME TokenTyped, SavingInv, NEW i \in Invocations,
           Invoke(i) \/ Lose(i) \/ GiveUp(i) \/ Diagnose(i) \/ DoctorGivesUp(i)
    PROVE  ClientEffect(i)
<1> USE DEF TokenTyped, SavingInv, ClientEffect, PairUnsaved, AwaitingPair, SavingPair, Goto,
            daemon, Awaiting, ProxyAwaiting, DoctorAwaiting, Elsewhere
<1>1. CASE Invoke(i)
  BY <1>1 DEF Invoke
<1>2. CASE Lose(i)
  BY <1>2 DEF Lose
<1>3. CASE GiveUp(i)
  BY <1>3 DEF GiveUp
<1>4. CASE Diagnose(i)
  BY <1>4 DEF Diagnose
<1>5. CASE DoctorGivesUp(i)
  BY <1>5 DEF DoctorGivesUp, RequestFails, RenewalFails, Settle
<1> QED
  BY <1>1, <1>2, <1>3, <1>4, <1>5

\* The clock does not go back.
LEMMA ExpiryGrows ==
    ASSUME TokenTyped, NEW k \in Expiring, Tick(k),
           NEW t \in Token \cup {NoToken}, IsExpired(t, expired)
    PROVE  IsExpired(t, expired')
<1>1. expired' \in [Kind -> Nat] /\ \A kind \in Kind : expired'[kind] >= expired[kind]
  BY ForwardingAssumption DEF Tick, TokenTyped, Kind
<1>2. CASE t \in Token
  <2>1. t.n \in Nat /\ t.kind \in Kind /\ t.n <= expired[t.kind]
    BY <1>2 DEF Token, IsExpired
  <2>2. expired[t.kind] \in Nat /\ expired'[t.kind] \in Nat
    BY <1>1, <2>1 DEF TokenTyped
  <2> QED
    BY <1>1, <2>1, <2>2 DEF IsExpired
<1>3. CASE t = NoToken
  BY <1>3 DEF Tick, IsExpired, NoToken, TokenTyped, Kind
<1> QED
  BY <1>2, <1>3

\* A daemon that stops loses replies; one that starts, also in vain, replaces the credential
\* only when it has expired; a deployment waits until no rotated pair is on its way to the machine.
LEMMA SurroundingsCredential ==
    ASSUME ClientsApart, TokenTyped, CredentialInv, Surroundings
    PROVE  CredentialInv'
<1>1. CASE StopDaemon
  <2>1. /\ UNCHANGED <<refreshToken, minted, expired, dir, pc, held, cargo>>
        /\ \A j \in Invocations : wire'[j] = "pair" => wire[j] = "pair"
        /\ \A j \in Invocations : pc[j] \in SavingPair /\ wire[j] = "pair" => wire'[j] = "pair"
    BY <1>1 DEF StopDaemon, Awaiting, ProxyAwaiting, DoctorAwaiting, SavingPair
  <2>2. NewestInv' /\ SavingInv'
    BY <2>1 DEF CredentialInv, NewestInv, Newest, HostRefresh, SavingInv
  <2>3. \A j \in Invocations : PairUnsaved(j)' => PairUnsaved(j)
    BY <2>1 DEF PairUnsaved
  <2> QED
    BY <2>1, <2>2, <2>3 DEF CredentialInv, Sole, Older
<1>2. CASE StartDaemon \/ ServeBeside
  <2>0. \A j \in Invocations : PairUnsaved(j)' <=> PairUnsaved(j)
    BY <1>2 DEF StartDaemon, ServeBeside, PairUnsaved
  <2>1. /\ \A m \in Machine \ {Host} : dir'[m] = dir[m]
        /\ dir'[Host] = Files(Access(minted + 1), HostRefresh', Access(minted + 1))
        /\ UNCHANGED <<expired, pc, held, wire, cargo>> /\ minted' = minted + 1
    BY <1>2, ForwardingAssumption DEF StartDaemon, ServeBeside, TokenTyped, HostRefresh, Files
  <2>2. /\ \/ HostRefresh' = HostRefresh
           \/ IsExpired(HostRefresh, expired) /\ HostRefresh' = Refresh(minted + 1)
        /\ refreshToken' \in {refreshToken, HostRefresh'}
    BY <1>2, ForwardingAssumption, HostTyped
       DEF StartDaemon, ServeBeside, Usable, CredentialInv, TokenTyped, HostRefresh, Files
  <2>3. /\ minted \in Nat /\ HostRefresh.n \in Nat
        /\ Refresh(minted + 1).kind = "refresh" /\ Refresh(minted + 1).n = minted + 1
        /\ Access(minted + 1).kind = "access"
    BY HostTyped DEF TokenTyped, Refresh, Access, CredentialInv
  <2>4. /\ HostRefresh'.kind \in {"refresh", "legacy"} /\ HostRefresh'.n <= minted'
        /\ HostRefresh'.n \in Nat
    BY <2>1, <2>2, <2>3 DEF CredentialInv, NewestInv
  <2>5. ASSUME NEW t, t.n \in Nat, Newest(t)
        PROVE  t.kind = "refresh" => HostRefresh'.kind = "refresh" /\ t.n <= HostRefresh'.n
    BY <2>2, <2>3, <2>5, NextIsNew DEF CredentialInv, Newest
  <2>6. ASSUME NEW m \in Machine, NEW f \in File
        PROVE  Newest(dir[m][f])'
    <3>1. CASE m = Host
      BY <2>1, <2>3, <2>4, <3>1 DEF Files, File, Newest
    <3>2. CASE m # Host
      <4>1. dir'[m][f] = dir[m][f]
        BY <2>1, <3>2
      <4>2. Newest(dir[m][f]) /\ dir[m][f].n \in Nat
        BY Numbers DEF CredentialInv, NewestInv
      <4> QED
        BY <2>5, <4>1, <4>2 DEF Newest
    <3> QED
      BY <3>1, <3>2
  <2>7. \A j \in Invocations : Newest(held[j])' /\ Newest(cargo[j])'
    BY <2>1, <2>5, Numbers DEF CredentialInv, NewestInv, Newest
  <2>8. HostRefresh' = refreshToken' \/ IsExpired(refreshToken, expired)'
    <3>1. CASE StartDaemon
      BY <3>1, ForwardingAssumption DEF StartDaemon, TokenTyped, HostRefresh, Files
    <3>2. CASE ServeBeside
      <4>1. refreshToken' = refreshToken /\ expired' = expired
        BY <3>2 DEF ServeBeside
      <4> QED
        BY <2>2, <4>1 DEF CredentialInv, NewestInv
    <3> QED
      BY <1>2, <3>1, <3>2
  <2>9. NewestInv'
    BY <2>1, <2>4, <2>6, <2>7, <2>8 DEF NewestInv
  <2>10. ASSUME NEW k \in Invocations, PairUnsaved(k)'
        PROVE  Sole(k)'
    BY <2>0, <2>1, <2>10, ClientsMachine DEF CredentialInv, Sole, Older
  <2> QED
    BY <2>1, <2>9, <2>10 DEF CredentialInv, SavingInv
<1>3. ASSUME NEW k \in Expiring, Tick(k)
      PROVE  CredentialInv'
  <2>1. UNCHANGED <<refreshToken, minted, dir, pc, held, wire, cargo>>
    BY <1>3 DEF Tick, daemon
  <2>2. \A j \in Invocations : PairUnsaved(j)' <=> PairUnsaved(j)
    BY <2>1 DEF PairUnsaved
  <2>3. IsExpired(refreshToken, expired) => IsExpired(refreshToken, expired')
    BY <1>3, ExpiryGrows DEF TokenTyped
  <2> QED
    BY <2>1, <2>2, <2>3
       DEF CredentialInv, NewestInv, Newest, HostRefresh, SavingInv, Sole, Older
<1>4. ASSUME NEW m \in Machine, Deploy(m)
      PROVE  CredentialInv'
  <2>1. /\ UNCHANGED <<refreshToken, minted, expired, pc, held, wire, cargo>>
        /\ m # Host /\ dir' = [dir EXCEPT ![m]["refresh"] = HostRefresh]
    BY <1>4 DEF Deploy, daemon, HostRefresh
  <2>2. NewestInv'
    <3>1. HostRefresh' = HostRefresh
      BY <2>1 DEF TokenTyped, HostRefresh
    <3>2. \A n \in Machine, f \in File : dir'[n][f] = dir[n][f] \/ dir'[n][f] = HostRefresh
      BY <2>1 DEF TokenTyped, File
    <3>3. Newest(HostRefresh)
      BY HostTyped DEF CredentialInv
    <3>4. IsExpired(refreshToken, expired)' <=> IsExpired(refreshToken, expired)
      BY <2>1
    <3> QED
      BY <2>1, <3>1, <3>2, <3>3, <3>4 DEF CredentialInv, NewestInv, Newest
  <2>3. ASSUME NEW k \in Invocations, PairUnsaved(k)'
        PROVE  Sole(k)'
    <3>1. PairUnsaved(k) /\ Sole(k) /\ Where[k] # m
      BY <1>4, <2>1, <2>3 DEF Deploy, PairUnsaved, CredentialInv
    <3>2. dir'[Where[k]] = dir[Where[k]]
      BY <2>1, <3>1, ClientsMachine DEF TokenTyped
    <3>3. \A j \in Invocations : PairUnsaved(j)' <=> PairUnsaved(j)
      BY <2>1 DEF PairUnsaved
    <3> QED
      BY <2>1, <3>1, <3>2, <3>3 DEF Sole, Older
  <2> QED
    BY <2>1, <2>2, <2>3 DEF CredentialInv, SavingInv
<1>5. ASSUME NEW i \in Invocations,
             Invoke(i) \/ Lose(i) \/ GiveUp(i) \/ Diagnose(i) \/ DoctorGivesUp(i)
      PROVE  CredentialInv'
  BY <1>5, MishapEffect, ClientCredential DEF CredentialInv
<1> QED
  BY <1>1, <1>2, <1>3, <1>4, <1>5 DEF Surroundings

LEMMA InitCredential == ClientsApart /\ SystemInit => CredentialInv
<1> SUFFICES ASSUME ClientsApart, SystemInit PROVE CredentialInv
  OBVIOUS
<1>1. \A j \in Invocations : ~PairUnsaved(j) /\ pc[j] \notin SavingPair
  BY DEF SystemInit, Init, PairUnsaved, AwaitingPair, SavingPair
<1>2. PICK d \in Deployments :
          /\ refreshToken = d.token
          /\ dir = [m \in Machine |->
                       IF m = Host THEN Files(Access(1), d.token, Access(1)) ELSE d.files]
  BY DEF SystemInit, Init
<1>3. NewestInv
  BY <1>2, ForwardingAssumption
     DEF SystemInit, Init, NewestInv, Newest, HostRefresh, Deployments, Files, File, Access, Refresh, Legacy,
         NoToken
<1> QED
  BY <1>1, <1>3 DEF CredentialInv, SavingInv

LEMMA NextCredential ==
    ASSUME ClientsApart, TypeInv, CredentialInv, [SystemNext]_systemVars
    PROVE  CredentialInv'
<1>0. TokenTyped /\ SavingInv
  BY TokensTyped DEF CredentialInv
<1>1. CASE UNCHANGED systemVars
  <2>1. \A j \in Invocations : PairUnsaved(j)' <=> PairUnsaved(j)
    BY <1>1 DEF systemVars, vars, PairUnsaved
  <2> QED
    BY <1>1, <2>1
       DEF systemVars, vars, CredentialInv, NewestInv, Newest, HostRefresh, SavingInv, Sole, Older
<1>2. CASE Surroundings
  BY <1>0, <1>2, SurroundingsCredential
<1>3. ASSUME NEW i \in Invocations, ClientStep(i)
      PROVE  CredentialInv'
  BY <1>0, <1>3, ProxyEffect, DoctorEffect, ClientCredential DEF ClientStep
<1>4. ASSUME NEW i \in Invocations, Serve(i)
      PROVE  CredentialInv'
  BY <1>0, <1>4, ServeEffect, ClientCredential, RotationCredential
<1> QED
  BY <1>1, <1>2, <1>3, <1>4 DEF SystemNext

\* NoStaleOverwrite holds for any number of commands and doctors on any number of client
\* machines, whatever is lost and whichever saves fail.
THEOREM NeverOverwrittenByOlder == ClientsApart => (SystemSpec => NoStaleOverwrite)
<1> SUFFICES ASSUME ClientsApart PROVE SystemSpec => NoStaleOverwrite
  OBVIOUS
<1> DEFINE Newer ==
             \A m \in Machine :
                 LET old == dir[m]["refresh"]
                     new == dir'[m]["refresh"]
                 IN  (old \in Token /\ old.kind = "refresh") =>
                         new.kind = "refresh" /\ new.n >= old.n
<1>1. TypeInv /\ CredentialInv /\ [SystemNext]_systemVars => Newer
  <2> SUFFICES ASSUME TypeInv, CredentialInv, [SystemNext]_systemVars,
                      NEW m \in Machine, dir[m]["refresh"] \in Token,
                      dir[m]["refresh"].kind = "refresh"
               PROVE  /\ dir'[m]["refresh"].kind = "refresh"
                      /\ dir'[m]["refresh"].n >= dir[m]["refresh"].n
    OBVIOUS
  <2>0. /\ TokenTyped /\ SavingInv
        /\ dir[m]["refresh"].n \in Nat /\ minted \in Nat /\ HostRefresh.n \in Nat
        /\ HostRefresh.kind = "refresh" /\ dir[m]["refresh"].n <= HostRefresh.n
        /\ HostRefresh.n <= minted
    <3>1. TokenTyped
      BY TokensTyped
    <3> QED
      BY <3>1, HostTyped DEF CredentialInv, NewestInv, Newest, TokenTyped, Token, File
  <2>1. CASE dir' = dir
    BY <2>0, <2>1
  <2>2. ASSUME NEW i \in Invocations, ClientEffect(i)
        PROVE  /\ dir'[m]["refresh"].kind = "refresh"
               /\ dir'[m]["refresh"].n >= dir[m]["refresh"].n
    <3>0. Where[i] \in Machine
      BY ClientsMachine
    <3>1. CASE dir' = [dir EXCEPT ![Where[i]]["access"] = held[i]]
      BY <2>0, <3>0, <3>1 DEF TokenTyped, File
    <3>2. CASE PairUnsaved(i) /\ dir' = [dir EXCEPT ![Where[i]]["refresh"] = cargo[i]]
      <4>1. Sole(i)
        BY <3>2 DEF CredentialInv
      <4>2. CASE m # Where[i]
        BY <2>0, <3>0, <3>2, <4>2 DEF TokenTyped
      <4>3. CASE m = Where[i]
        <5>1. dir'[m]["refresh"] = cargo[i]
          BY <2>0, <3>0, <3>2, <4>3 DEF TokenTyped, File
        <5>2. cargo[i].kind = "refresh" /\ dir[m]["refresh"].n < cargo[i].n
          BY <2>0, <4>1, <4>3 DEF Sole, Older, File
        <5> QED
          BY <2>0, <5>1, <5>2, Numbers
      <4> QED
        BY <4>2, <4>3
    <3> QED
      BY <2>1, <2>2, <3>1, <3>2 DEF ClientEffect
  <2>3. ASSUME NEW i \in Invocations, Rotated(i)
        PROVE  /\ dir'[m]["refresh"].kind = "refresh"
               /\ dir'[m]["refresh"].n >= dir[m]["refresh"].n
    BY <2>0, <2>3 DEF Rotated, TokenTyped, Files, Refresh
  <2>4. CASE StartDaemon \/ ServeBeside
    <3>1. /\ m # Host => dir'[m] = dir[m]
          /\ m = Host => dir'[m]["refresh"] \in {HostRefresh, Refresh(minted + 1)}
      BY <2>0, <2>4 DEF StartDaemon, ServeBeside, TokenTyped, Files, HostRefresh
    <3> QED
      BY <2>0, <3>1 DEF Refresh, HostRefresh
  <2>5. ASSUME NEW n \in Machine, Deploy(n)
        PROVE  /\ dir'[m]["refresh"].kind = "refresh"
               /\ dir'[m]["refresh"].n >= dir[m]["refresh"].n
    <3>1. dir'[m]["refresh"] = dir[m]["refresh"] \/ dir'[m]["refresh"] = HostRefresh
      BY <2>0, <2>5 DEF Deploy, TokenTyped, HostRefresh, File
    <3> QED
      BY <2>0, <3>1
  <2>6. CASE Surroundings
    BY <2>0, <2>1, <2>2, <2>4, <2>5, <2>6, MishapEffect
       DEF Surroundings, StopDaemon, Tick
  <2>7. ASSUME NEW i \in Invocations, ClientStep(i) \/ Serve(i)
        PROVE  /\ dir'[m]["refresh"].kind = "refresh"
               /\ dir'[m]["refresh"].n >= dir[m]["refresh"].n
    BY <2>0, <2>2, <2>3, <2>7, ProxyEffect, DoctorEffect, ServeEffect DEF ClientStep
  <2> QED
    BY <2>1, <2>6, <2>7 DEF SystemNext, systemVars, vars
<1>2. SystemInit => CredentialInv
  BY InitCredential
<1>3. TypeInv /\ CredentialInv /\ [SystemNext]_systemVars => CredentialInv'
  BY NextCredential
<1>4. TypeInv /\ CredentialInv /\ [SystemNext]_systemVars => [Newer]_vars
  BY <1>1
<1>5. SystemInv => TypeInv
  BY DEF SystemInv
<1>6. SystemSpec => [][Newer]_vars
  BY <1>2, <1>3, <1>4, <1>5, SystemInvariant, PTL DEF SystemSpec
<1> QED
  BY <1>6 DEF NoStaleOverwrite

-----------------------------------------------------------------------------
\* Replies arrive, and the client's refresh.token can be written.
Reliable == ~MayLose /\ "refresh" \notin Unwritable

\* Nobody gives up on a rotation, every pair to be saved was rotated for its client, and
\* a renewal that has failed is the end of it.
KeptControl(j) ==
    /\ wire[j] = "refresh" => pc[j] \in AwaitingPair
    /\ PairUnsaved(j) => renewals[j] > 0
    /\ doctor[j].renewal = "failed" => pc[j] \in {"checkTokens", "reported"}

KeptInv == \A j \in Invocations : KeptControl(j)

\* A step of a client, or of the daemon for it, that keeps the credential.
KeptEffect(i) ==
    /\ \A j \in Invocations : Dropped(j) => Dropped(j)'
    /\ PairUnsaved(i) /\ ~PairUnsaved(i)' =>
          Dropped(i)' \/ dir' = [dir EXCEPT ![Where[i]]["refresh"] = cargo[i]]
    /\ KeptInv'

\* The steps that do not touch a report or a count keep what was dropped.
LEMMA PlainKept ==
    ASSUME TokenTyped, KeptInv, NEW i \in Invocations, UNCHANGED <<doctor, renewals>>,
           \A j \in Invocations \ {i} : wire'[j] = wire[j] /\ pc'[j] = pc[j],
           wire'[i] = "refresh" => pc'[i] \in AwaitingPair,
           PairUnsaved(i)' => PairUnsaved(i),
           doctor[i].renewal = "failed" => pc'[i] \in {"checkTokens", "reported"},
           PairUnsaved(i) /\ ~PairUnsaved(i)' =>
               dir' = [dir EXCEPT ![Where[i]]["refresh"] = cargo[i]]
    PROVE  KeptEffect(i)
<1>1. KeptInv'
  BY DEF KeptInv, KeptControl, PairUnsaved
<1> QED
  BY <1>1 DEF KeptEffect, Dropped

LEMMA ProxyKept ==
    ASSUME Reliable, TokenTyped, SavingInv, KeptInv, NEW i \in Invocations, ProxyStep(i),
           UNCHANGED <<doctor, probeMu, renewals>>
    PROVE  KeptEffect(i)
<1>0. pc[i] \notin {"checkTokens", "reported"} /\ doctor[i].renewal # "failed"
  BY DEF KeptInv, KeptControl, ProxyStep, ReadAccess, ReadLegacy, Probe, SendFirst, ReceiveResult,
         ReadRefresh, SendRefresh, ReceivePair, SaveAccess, SaveRefresh, SendRetry, ConnectionFails,
         Shim, ProxyAwaiting
<1> USE <1>0, PlainKept
    DEF TokenTyped, SavingInv, PairUnsaved, AwaitingPair, SavingPair, Goto, KeptInv, KeptControl,
        daemon, File, ProxyAwaiting
<1>2. CASE ReadAccess(i)
  BY <1>2 DEF ReadAccess
<1>3. CASE ReadLegacy(i)
  BY <1>3 DEF ReadLegacy
<1>4. CASE Probe(i)
  BY <1>4 DEF Probe
<1>5. CASE SendFirst(i) \/ SendRefresh(i) \/ SendRetry(i)
  BY <1>5 DEF SendFirst, SendRefresh, SendRetry, Send
<1>6. CASE ReceiveResult(i)
  BY <1>6 DEF ReceiveResult
<1>7. CASE ReadRefresh(i)
  BY <1>7 DEF ReadRefresh
<1>9. CASE ReceivePair(i)
  BY <1>9 DEF ReceivePair
<1>10. CASE SaveAccess(i)
  BY <1>10 DEF SaveAccess
<1>11. CASE SaveRefresh(i)
  BY <1>11 DEF SaveRefresh, Write, WriteFails, Reliable
<1>13. CASE ConnectionFails(i)
  BY <1>13 DEF ConnectionFails
<1>14. CASE Shim(i)
  BY <1>14 DEF Shim
<1> QED
  BY <1>2, <1>3, <1>4, <1>5, <1>6, <1>7, <1>9, <1>10, <1>11, <1>13, <1>14 DEF ProxyStep

\* A step of a doctor that changes its own report only, and has not failed before.
LEMMA ReportKept ==
    ASSUME TokenTyped, KeptInv, NEW i \in Invocations, UNCHANGED renewals,
           \A j \in Invocations \ {i} :
               wire'[j] = wire[j] /\ pc'[j] = pc[j] /\ doctor'[j] = doctor[j],
           wire'[i] = "refresh" => pc'[i] \in AwaitingPair,
           PairUnsaved(i)' => PairUnsaved(i),
           doctor[i].renewal = "failed" => doctor'[i].renewal = "failed",
           doctor'[i].renewal = "failed" => pc'[i] \in {"checkTokens", "reported"},
           PairUnsaved(i) /\ ~PairUnsaved(i)' =>
               \/ doctor'[i].renewal = "failed"
               \/ dir' = [dir EXCEPT ![Where[i]]["refresh"] = cargo[i]]
    PROVE  KeptEffect(i)
<1>1. KeptInv'
  BY DEF KeptInv, KeptControl, PairUnsaved
<1>2. PairUnsaved(i) => renewals[i] > 0
  BY DEF KeptInv, KeptControl
<1> QED
  BY <1>1, <1>2 DEF KeptEffect, Dropped

LEMMA DoctorKept ==
    ASSUME Reliable, TokenTyped, SavingInv, KeptInv, NEW i \in Invocations, DoctorStep(i)
    PROVE  KeptEffect(i)
<1>0. doctor[i].renewal = "failed" => pc[i] = "checkTokens"
  <2>1. pc[i] # "reported"
    BY DEF DoctorStep, CheckEndpoint, CheckDaemonHealth, ReadAccessToken, ReadRefreshToken,
           SendRenewal, ReceiveRenewal, SaveRenewedAccess, SaveRenewedRefresh, AskOp, ReceiveOp,
           RereadRefreshToken, DoctorConnectionFails, RequestFails, CheckTokens
  <2> QED
    BY <2>1 DEF KeptInv, KeptControl
<1> USE <1>0, ReportKept
    DEF TokenTyped, SavingInv, PairUnsaved, AwaitingPair, SavingPair, Goto, KeptInv, KeptControl,
        daemon, File, Elsewhere, Note, Settle, Report
<1>2. CASE CheckEndpoint(i)
  <2>1. doctor'[i].renewal = doctor[i].renewal
    <3>1. doctor[i] \in Report
      BY DEF TokenTyped
    <3>2. [doctor[i] EXCEPT !.endpoint = "fail", !.health = "skip", !.op = "unreachable"].renewal
          = doctor[i].renewal
      BY <3>1
    <3>3. CASE up
      BY <1>2, <3>1, <3>3 DEF CheckEndpoint
    <3>4. CASE ~up
      BY <1>2, <3>1, <3>2, <3>4 DEF CheckEndpoint
    <3> QED
      BY <3>3, <3>4
  <2>2. \A j \in Invocations \ {i} : doctor'[j] = doctor[j]
    BY <1>2 DEF CheckEndpoint
  <2> QED
    BY <1>2, <2>1, <2>2 DEF CheckEndpoint
<1>3. CASE CheckDaemonHealth(i)
  <2>1. doctor'[i].renewal = doctor[i].renewal
    BY <1>3 DEF CheckDaemonHealth
  <2>2. \A j \in Invocations \ {i} : doctor'[j] = doctor[j]
    BY <1>3 DEF CheckDaemonHealth
  <2> QED
    BY <1>3, <2>1, <2>2 DEF CheckDaemonHealth
<1>4. CASE ReadAccessToken(i)
  BY <1>4 DEF ReadAccessToken
<1>5. CASE ReadRefreshToken(i)
  BY <1>5 DEF ReadRefreshToken, Renew
<1>6. CASE SendRenewal(i) \/ AskOp(i)
  BY <1>6 DEF SendRenewal, AskOp, Send
<1>7. CASE ReceiveRenewal(i)
  BY <1>7 DEF ReceiveRenewal, RenewalFails
<1>8. CASE SaveRenewedAccess(i)
  <2>1. CASE RenewalFails(i)
    <3>1. doctor'[i].renewal = "failed" /\ \A j \in Invocations \ {i} : doctor'[j] = doctor[j]
      BY <2>1 DEF RenewalFails
    <3> QED
      BY <1>8, <2>1, <3>1 DEF SaveRenewedAccess, RenewalFails
  <2>2. CASE ~RenewalFails(i)
    BY <1>8, <2>2 DEF SaveRenewedAccess
  <2> QED
    BY <2>1, <2>2
<1>9. CASE SaveRenewedRefresh(i)
  BY <1>9 DEF SaveRenewedRefresh, Write, WriteFails, RenewalFails, Reliable
<1>11. CASE ReceiveOp(i)
  BY <1>11 DEF ReceiveOp
<1>12. CASE RereadRefreshToken(i)
  BY <1>12 DEF RereadRefreshToken, Renew
<1>13. CASE DoctorConnectionFails(i)
  BY <1>13 DEF DoctorConnectionFails, RequestFails, RenewalFails
<1>14. CASE CheckTokens(i)
  BY <1>14 DEF CheckTokens
<1> QED
  BY <1>2, <1>3, <1>4, <1>5, <1>6, <1>7, <1>8, <1>9, <1>11, <1>12, <1>13, <1>14 DEF DoctorStep

LEMMA ServeKept ==
    ASSUME TokenTyped, KeptInv, NEW i \in Invocations, Serve(i)
    PROVE  KeptEffect(i)
<1>1. /\ ~PairUnsaved(i)
      /\ UNCHANGED <<pc, doctor>>
      /\ \A j \in Invocations \ {i} : wire'[j] = wire[j]
      /\ wire'[i] = "refresh" => wire[i] = "refresh"
  BY ForwardingAssumption
     DEF Serve, HandleExecute, OpEnds, Rotation, HandleRefresh, HandleHealthOp, ProbeEnds, Reply,
         PairUnsaved, TokenTyped, NotRun, Run
<1>2. /\ \A j \in Invocations : renewals'[j] >= renewals[j] /\ renewals'[j] \in Nat
      /\ wire'[i] = "pair" => renewals'[i] > 0
  <2>1. CASE Rotation(i)
    BY <2>1 DEF Rotation, TokenTyped
  <2>2. CASE ~Rotation(i)
    BY <2>2, ForwardingAssumption
       DEF Serve, HandleExecute, OpEnds, HandleHealthOp, ProbeEnds, Reply, TokenTyped, NotRun, Run
  <2> QED
    BY <2>1, <2>2
<1>3. KeptInv'
  BY <1>1, <1>2 DEF KeptInv, KeptControl, PairUnsaved, TokenTyped
<1>4. \A j \in Invocations : Dropped(j) => Dropped(j)'
  BY <1>1, <1>2 DEF Dropped, TokenTyped
<1> QED
  BY <1>1, <1>3, <1>4 DEF KeptEffect

LEMMA StartKept ==
    ASSUME TokenTyped, KeptInv, NEW i \in Invocations,
           \/ Invoke(i) /\ UNCHANGED <<doctor, probeMu, renewals>>
           \/ Diagnose(i)
    PROVE  KeptEffect(i)
<1>0. doctor[i].renewal # "failed"
  BY DEF KeptInv, KeptControl, Invoke, Diagnose
<1> USE <1>0, ReportKept
    DEF TokenTyped, PairUnsaved, AwaitingPair, SavingPair, Goto, KeptInv, KeptControl, Elsewhere
<1>1. CASE Invoke(i) /\ UNCHANGED <<doctor, probeMu, renewals>>
  BY <1>1 DEF Invoke
<1>2. CASE Diagnose(i)
  <2>1. doctor'[i].renewal = "idle" /\ \A j \in Invocations \ {i} : doctor'[j] = doctor[j]
    BY <1>2 DEF Diagnose, NoReport
  <2> QED
    BY <1>2, <2>1 DEF Diagnose
<1> QED
  BY <1>1, <1>2

\* The credential as CredentialKept has it, for one machine.
Kept(m) == Holds(m) \/ \E i \in Invocations : Where[i] = m /\ Dropped(i)

\* The daemon accepts this refresh token, or will load it, or it has expired, or there is
\* none.
Current(t) == t \in {NoToken, refreshToken, HostRefresh} \/ IsExpired(t, expired)

\* How a machine comes to hold it: the pair that is to be saved there is current, and without
\* one the credential in the files is.
Keeping(m) ==
    \/ \E i \in Invocations : Where[i] = m /\ Dropped(i)
    \/ /\ \A i \in Invocations : Where[i] = m /\ PairUnsaved(i) => Current(cargo[i])
       /\ Current(Credential(m)) \/ \E i \in Invocations : Where[i] = m /\ PairUnsaved(i)

LEMMA KeepingKept == ASSUME NEW m \in Machine \ {Host}, Keeping(m) PROVE Kept(m)
  BY DEF Keeping, Kept, Holds, Current, HostRefresh

\* A machine loses the credential only when a client of another machine rotates it.
RotatedElsewhere(m) == \E i \in Invocations : Where[i] # m /\ Rotated(i)

\* A step of a client keeps the credential: it does not touch it, or saves what it was told.
LEMMA ClientKept ==
    ASSUME ClientsApart, TokenTyped, CredentialInv, NEW i \in Invocations, ClientEffect(i),
           KeptEffect(i), NEW m \in Machine \ {Host}, Keeping(m)
    PROVE  Keeping(m)'
<1>0. /\ Where[i] \in Machine
      /\ UNCHANGED <<refreshToken, expired, HostRefresh>>
      /\ \A j \in Invocations \ {i} : (PairUnsaved(j)' <=> PairUnsaved(j)) /\ cargo'[j] = cargo[j]
      /\ PairUnsaved(i)' => PairUnsaved(i) /\ cargo'[i] = cargo[i]
  BY ClientsMachine, ForwardingAssumption DEF ClientEffect, PairUnsaved, TokenTyped, HostRefresh
<1>1. CASE \E j \in Invocations : Where[j] = m /\ Dropped(j)
  BY <1>1 DEF KeptEffect, Keeping
<1> SUFFICES ASSUME ~\E j \in Invocations : Where[j] = m /\ Dropped(j)
             PROVE  Keeping(m)'
  BY <1>1
<1>2. /\ \A j \in Invocations : Where[j] = m /\ PairUnsaved(j) => Current(cargo[j])
      /\ Current(Credential(m)) \/ \E j \in Invocations : Where[j] = m /\ PairUnsaved(j)
  BY DEF Keeping
<1>3. \A j \in Invocations : Where[j] = m /\ PairUnsaved(j)' => Current(cargo[j])'
  BY <1>0, <1>2 DEF Current
<1>4. CASE Where[i] = m /\ PairUnsaved(i) /\ ~PairUnsaved(i)'
  <2>1. CASE Dropped(i)'
    BY <1>4, <2>1 DEF Keeping
  <2>2. CASE dir' = [dir EXCEPT ![Where[i]]["refresh"] = cargo[i]]
    <3>1. cargo[i].kind = "refresh" /\ Current(cargo[i])
      BY <1>2, <1>4 DEF CredentialInv, Sole
    <3>2. dir'[m]["refresh"] = cargo[i] /\ cargo[i] # NoToken
      BY <1>0, <1>4, <2>2, <3>1 DEF NoToken, TokenTyped, File
    <3> QED
      BY <1>0, <1>3, <3>1, <3>2 DEF Keeping, Current, Credential
  <2> QED
    BY <1>4, <2>1, <2>2 DEF KeptEffect
<1>5. CASE ~(Where[i] = m /\ PairUnsaved(i) /\ ~PairUnsaved(i)')
  <2>1. dir'[m]["refresh"] = dir[m]["refresh"] /\ dir'[m]["session"] = dir[m]["session"]
    BY <1>0, <1>5 DEF ClientEffect, TokenTyped, File
  <2>2. \A j \in Invocations : Where[j] = m /\ PairUnsaved(j) => PairUnsaved(j)'
    BY <1>0, <1>5
  <2> QED
    BY <1>0, <1>2, <1>3, <2>1, <2>2 DEF Keeping, Current, Credential
<1> QED
  BY <1>4, <1>5

\* A rotation for a client of the machine: the new pair is on its way there.
LEMMA RotationKept ==
    ASSUME TokenTyped, CredentialInv, KeptInv, NEW i \in Invocations, Rotated(i)
    PROVE  Keeping(Where[i])'
<1>1. PairUnsaved(i)' /\ cargo'[i] = refreshToken'
  BY DEF Rotated, KeptInv, KeptControl, PairUnsaved, TokenTyped
<1>2. \A j \in Invocations \ {i} : Where[j] = Where[i] => ~PairUnsaved(j)'
  BY SoleRotates DEF Rotated, PairUnsaved, TokenTyped
<1> QED
  BY <1>1, <1>2 DEF Keeping, Current

\* Around the clients: nothing stops the daemon between a rotation and its reply.
LEMMA SurroundingsKept ==
    ASSUME ClientsApart, Reliable, TokenTyped, CredentialInv, KeptInv, Surroundings
    PROVE  KeptInv' /\ \A m \in Machine \ {Host} : Keeping(m) => Keeping(m)'
<1>1. CASE StopDaemon /\ probeMu' = NoOne /\ UNCHANGED <<doctor, renewals>>
  <2>1. UNCHANGED <<refreshToken, expired, dir, pc, cargo>>
    BY <1>1 DEF StopDaemon
  <2>2. \A j \in Invocations : PairUnsaved(j) <=> PairUnsaved(j)'
    BY <1>1 DEF StopDaemon, Reliable, PairUnsaved, AwaitingPair, SavingPair, Awaiting,
                ProxyAwaiting, DoctorAwaiting
  <2>3. \A j \in Invocations : wire'[j] = "refresh" => wire[j] = "refresh"
    BY <1>1 DEF StopDaemon
  <2>4. KeptInv'
    BY <1>1, <2>1, <2>2, <2>3 DEF KeptInv, KeptControl
  <2>5. ASSUME NEW m \in Machine \ {Host}, Keeping(m) PROVE Keeping(m)'
    BY <1>1, <2>1, <2>2, <2>5 DEF Keeping, Current, HostRefresh, Credential, Dropped
  <2> QED
    BY <2>4, <2>5
<1>2. ASSUME UNCHANGED <<pc, wire, doctor, renewals>>
      PROVE  /\ KeptInv'
             /\ \A j \in Invocations : PairUnsaved(j) <=> PairUnsaved(j)'
             /\ \A j \in Invocations : Dropped(j) => Dropped(j)'
  BY <1>2 DEF KeptInv, KeptControl, PairUnsaved, Dropped
<1>3. CASE (StartDaemon \/ ServeBeside) /\ UNCHANGED <<doctor, probeMu, renewals>>
  <2>1. UNCHANGED <<pc, wire, expired, cargo>> /\ \A m \in Machine \ {Host} : dir'[m] = dir[m]
    BY <1>3 DEF StartDaemon, ServeBeside, TokenTyped
  <2>2. /\ HostRefresh' = HostRefresh \/ IsExpired(HostRefresh, expired)
        /\ refreshToken' = refreshToken \/ refreshToken' = HostRefresh'
    BY <1>3, HostTyped, ForwardingAssumption
       DEF StartDaemon, ServeBeside, Usable, CredentialInv, TokenTyped, HostRefresh, Files
  <2>3. \A t : Current(t) => (t \in {NoToken, refreshToken', HostRefresh'} \/ IsExpired(t, expired))
    BY <2>2 DEF Current, CredentialInv, NewestInv
  <2>4. ASSUME NEW m \in Machine \ {Host}, Keeping(m) PROVE Keeping(m)'
    BY <1>2, <1>3, <2>1, <2>3, <2>4 DEF Keeping, Current, Credential
  <2> QED
    BY <1>2, <1>3, <2>1, <2>4
<1>4. ASSUME NEW k \in Expiring, Tick(k), UNCHANGED <<doctor, probeMu, renewals>>
      PROVE  KeptInv' /\ \A m \in Machine \ {Host} : Keeping(m) => Keeping(m)'
  <2>1. UNCHANGED <<pc, wire, refreshToken, dir, cargo>>
    BY <1>4 DEF Tick, daemon
  <2>2. ASSUME NEW m \in Machine \ {Host}, Keeping(m) PROVE Keeping(m)'
    <3>1. Credential(m)' = Credential(m) /\ Credential(m) \in Token \cup {NoToken}
      BY <2>1 DEF Credential, TokenTyped, File
    <3>2. \A t \in Token \cup {NoToken} :
             Current(t) => (t \in {NoToken, refreshToken, HostRefresh} \/ IsExpired(t, expired'))
      BY <1>4, ExpiryGrows DEF Current
    <3> QED
      BY <1>2, <1>4, <2>1, <2>2, <3>1, <3>2 DEF Keeping, Current, TokenTyped, HostRefresh
  <2> QED
    BY <1>2, <1>4, <2>1, <2>2
<1>5. ASSUME NEW n \in Machine, Deploy(n), UNCHANGED <<doctor, probeMu, renewals>>
      PROVE  KeptInv' /\ \A m \in Machine \ {Host} : Keeping(m) => Keeping(m)'
  <2>1. UNCHANGED <<pc, wire, refreshToken, expired, cargo, HostRefresh>>
    BY <1>5, ForwardingAssumption DEF Deploy, daemon, TokenTyped, HostRefresh
  <2>2. ASSUME NEW m \in Machine \ {Host}, Keeping(m) PROVE Keeping(m)'
    <3>1. CASE m = n
      <4>1. dir'[m]["refresh"] = HostRefresh /\ HostRefresh # NoToken
        BY <1>5, <3>1, TokenTypes, HostTyped DEF Deploy, TokenTyped, CredentialInv, HostRefresh, File
      <4>2. \A j \in Invocations : Where[j] = m => ~PairUnsaved(j)'
        BY <1>2, <1>5, <2>1, <3>1 DEF Deploy
      <4> QED
        BY <2>1, <4>1, <4>2 DEF Keeping, Current, Credential
    <3>2. CASE m # n
      <4>1. dir'[m] = dir[m]
        BY <1>5, <3>2 DEF Deploy, TokenTyped
      <4> QED
        BY <1>2, <1>5, <2>1, <2>2, <4>1 DEF Keeping, Current, Credential
    <3> QED
      BY <3>1, <3>2
  <2> QED
    BY <1>2, <1>5, <2>1, <2>2
<1>6. ASSUME NEW i \in Invocations,
             \/ Invoke(i) /\ UNCHANGED <<doctor, probeMu, renewals>>
             \/ Diagnose(i)
      PROVE  KeptInv' /\ \A m \in Machine \ {Host} : Keeping(m) => Keeping(m)'
  <2>1. ClientEffect(i) /\ KeptEffect(i)
    BY <1>6, MishapEffect, StartKept DEF CredentialInv
  <2> QED
    BY <2>1, ClientKept DEF KeptEffect
<1>7. \A i \in Invocations : ~Lose(i) /\ ~GiveUp(i) /\ ~DoctorGivesUp(i)
  BY DEF Reliable, Lose, GiveUp, DoctorGivesUp
<1> QED
  BY <1>1, <1>3, <1>4, <1>5, <1>6, <1>7 DEF Surroundings

LEMMA NextKept ==
    ASSUME ClientsApart, Reliable, TypeInv, CredentialInv, KeptInv, [SystemNext]_systemVars
    PROVE  /\ KeptInv'
           /\ \A m \in Machine \ {Host} : Keeping(m) => Keeping(m)' \/ RotatedElsewhere(m)
<1>0. TokenTyped /\ SavingInv
  BY TokensTyped DEF CredentialInv
<1>1. CASE UNCHANGED systemVars
  BY <1>0, <1>1
     DEF systemVars, vars, KeptInv, KeptControl, PairUnsaved, Keeping, Current, HostRefresh, Credential,
         Dropped
<1>2. CASE Surroundings
  BY <1>0, <1>2, SurroundingsKept
<1>3. ASSUME NEW i \in Invocations, ClientStep(i) \/ Serve(i)
      PROVE  /\ KeptInv'
             /\ \A m \in Machine \ {Host} : Keeping(m) => Keeping(m)' \/ RotatedElsewhere(m)
  <2>1. KeptEffect(i)
    BY <1>0, <1>3, ProxyKept, DoctorKept, ServeKept DEF ClientStep
  <2>2. CASE ClientEffect(i)
    BY <1>0, <2>1, <2>2, ClientKept DEF KeptEffect
  <2>3. CASE Rotated(i)
    BY <1>0, <2>1, <2>3, RotationKept DEF KeptEffect, RotatedElsewhere
  <2> QED
    BY <1>0, <1>3, <2>2, <2>3, ProxyEffect, DoctorEffect, ServeEffect DEF ClientStep
<1> QED
  BY <1>1, <1>2, <1>3 DEF SystemNext

LEMMA InitKept == SystemInit => KeptInv /\ \A m \in Machine \ {Host} : Keeping(m)
<1> SUFFICES ASSUME SystemInit PROVE KeptInv /\ \A m \in Machine \ {Host} : Keeping(m)
  OBVIOUS
<1>1. KeptInv /\ \A j \in Invocations : ~PairUnsaved(j)
  BY DEF SystemInit, Init, NoReport, KeptInv, KeptControl, PairUnsaved, AwaitingPair, SavingPair
<1>2. PICK d \in Deployments :
          /\ refreshToken = d.token
          /\ dir = [m \in Machine |->
                       IF m = Host THEN Files(Access(1), d.token, Access(1)) ELSE d.files]
  BY DEF SystemInit, Init
<1>3. \A m \in Machine \ {Host} : Credential(m) \in {NoToken, refreshToken}
  BY <1>2 DEF Credential, Deployments, Files
<1> QED
  BY <1>1, <1>3 DEF Keeping, Current

\* Of several machines with a copy of the credential, each keeps it until a client of another
\* one rotates it: no step of its own clients, no restart, no expiry and no deployment takes it
\* away, as long as replies arrive and refresh.token can be written.
THEOREM KeptUntilRotatedElsewhere ==
    ClientsApart /\ Reliable =>
        (SystemSpec =>
            [][\A m \in Machine \ {Host} :
                  Keeping(m) => Keeping(m)' \/ RotatedElsewhere(m)]_systemVars)
<1> SUFFICES ASSUME ClientsApart, Reliable
             PROVE  SystemSpec =>
                        [][\A m \in Machine \ {Host} :
                              Keeping(m) => Keeping(m)' \/ RotatedElsewhere(m)]_systemVars
  OBVIOUS
<1>1. SystemInit => CredentialInv /\ KeptInv
  BY InitCredential, InitKept
<1>2. TypeInv /\ CredentialInv /\ KeptInv /\ [SystemNext]_systemVars => CredentialInv' /\ KeptInv'
  BY NextCredential, NextKept
<1>3. TypeInv /\ CredentialInv /\ KeptInv /\ [SystemNext]_systemVars
      => [\A m \in Machine \ {Host} :
             Keeping(m) => Keeping(m)' \/ RotatedElsewhere(m)]_systemVars
  BY NextKept
<1>4. SystemInv => TypeInv
  BY DEF SystemInv
<1> QED
  BY <1>1, <1>2, <1>3, <1>4, SystemInvariant, PTL DEF SystemSpec

-----------------------------------------------------------------------------
\* All clients run on one machine, other than the daemon's own: no other has the credential.
OneClient == \A i \in Invocations : Machine \ {Host} = {Where[i]}

KeepingInv == \A m \in Machine \ {Host} : Keeping(m)

LEMMA KeepingInvariance == OneClient /\ Reliable => (SystemSpec => []KeepingInv)
<1> SUFFICES ASSUME OneClient, Reliable PROVE SystemSpec => []KeepingInv
  OBVIOUS
<1>0. ClientsApart /\ \A m \in Machine \ {Host} : ~RotatedElsewhere(m)
  BY DEF OneClient, ClientsApart, RotatedElsewhere
<1>1. SystemInit => CredentialInv /\ KeptInv /\ KeepingInv
  BY <1>0, InitCredential, InitKept DEF KeepingInv
<1>2. TypeInv /\ CredentialInv /\ KeptInv /\ KeepingInv /\ [SystemNext]_systemVars
      => CredentialInv' /\ KeptInv' /\ KeepingInv'
  BY <1>0, NextCredential, NextKept DEF KeepingInv
<1>3. SystemInv => TypeInv
  BY DEF SystemInv
<1> QED
  BY <1>1, <1>2, <1>3, SystemInvariant, PTL DEF SystemSpec

\* CredentialKept holds for any number of commands and doctors on the one client machine,
\* as long as replies arrive and its refresh.token can be written.
THEOREM CredentialIsKept == OneClient /\ Reliable => (SystemSpec => []CredentialKept)
<1>1. KeepingInv => CredentialKept
  BY KeepingKept DEF KeepingInv, CredentialKept, Kept
<1> QED
  BY <1>1, KeepingInvariance, PTL

-----------------------------------------------------------------------------
\* Nothing is lost and every save succeeds.
Lossless == ~MayLose /\ Unwritable = {}

\* A renewal that was answered with a pair succeeds, so no doctor drops one.
UndroppedInv ==
    \A j \in Invocations :
        /\ ~Dropped(j)
        /\ pc[j] \in AwaitingPair /\ wire[j] # "pair" => renewals[j] = 0

\* The steps that change one client only, and fail no renewal that was answered.
LEMMA PlainUndropped ==
    ASSUME UndroppedInv, NEW i \in Invocations, UNCHANGED renewals,
           \A j \in Invocations \ {i} : UNCHANGED <<wire[j], pc[j], doctor[j]>>,
           doctor'[i].renewal = "failed" => doctor[i].renewal = "failed" \/ renewals[i] = 0,
           pc'[i] \in AwaitingPair /\ wire'[i] # "pair" => renewals[i] = 0
    PROVE  UndroppedInv'
  BY DEF UndroppedInv, Dropped

LEMMA ClientUndropped ==
    ASSUME Lossless, TokenTyped, UndroppedInv, NEW i \in Invocations, RenewControl(i),
           ClientStep(i)
    PROVE  UndroppedInv'
<1> USE PlainUndropped
    DEF TokenTyped, UndroppedInv, RenewControl, Early, AwaitingPair, Goto, daemon, Elsewhere
<1>1. CASE ProxyStep(i) /\ UNCHANGED <<doctor, probeMu, renewals>>
  <2> USE DEF ProxyAwaiting
  <2>2. CASE ReadAccess(i)
    BY <1>1, <2>2 DEF ReadAccess
  <2>3. CASE ReadLegacy(i)
    BY <1>1, <2>3 DEF ReadLegacy
  <2>4. CASE Probe(i)
    BY <1>1, <2>4 DEF Probe
  <2>5. CASE SendFirst(i) \/ SendRefresh(i) \/ SendRetry(i)
    BY <1>1, <2>5 DEF SendFirst, SendRefresh, SendRetry, Send
  <2>6. CASE ReceiveResult(i) \/ ReceivePair(i)
    BY <1>1, <2>6 DEF ReceiveResult, ReceivePair
  <2>7. CASE ReadRefresh(i)
    BY <1>1, <2>7 DEF ReadRefresh
  <2>8. CASE SaveAccess(i) \/ SaveRefresh(i)
    BY <1>1, <2>8 DEF SaveAccess, SaveRefresh
  <2>9. CASE ConnectionFails(i) \/ Shim(i)
    BY <1>1, <2>9 DEF ConnectionFails, Shim
  <2> QED
    BY <1>1, <2>2, <2>3, <2>4, <2>5, <2>6, <2>7, <2>8, <2>9 DEF ProxyStep
<1>2. CASE DoctorStep(i)
  <2> USE DEF Note, Settle, Report
  <2>2. CASE CheckEndpoint(i)
    BY <1>2, <2>2 DEF CheckEndpoint
  <2>3. CASE CheckDaemonHealth(i)
    BY <1>2, <2>3 DEF CheckDaemonHealth
  <2>4. CASE ReadAccessToken(i)
    BY <1>2, <2>4 DEF ReadAccessToken
  <2>5. CASE ReadRefreshToken(i)
    BY <1>2, <2>5 DEF ReadRefreshToken, Renew
  <2>6. CASE SendRenewal(i) \/ AskOp(i)
    BY <1>2, <2>6 DEF SendRenewal, AskOp, Send
  <2>7. CASE ReceiveRenewal(i)
    BY <1>2, <2>7 DEF ReceiveRenewal, RenewalFails
  <2>8. CASE SaveRenewedAccess(i) \/ SaveRenewedRefresh(i)
    BY <1>2, <2>8 DEF SaveRenewedAccess, SaveRenewedRefresh, WriteFails, Lossless
  <2>9. CASE ReceiveOp(i)
    BY <1>2, <2>9 DEF ReceiveOp
  <2>10. CASE RereadRefreshToken(i)
    BY <1>2, <2>10 DEF RereadRefreshToken, Renew
  <2>11. CASE DoctorConnectionFails(i)
    BY <1>2, <2>11 DEF DoctorConnectionFails, RequestFails, RenewalFails
  <2>12. CASE CheckTokens(i)
    BY <1>2, <2>12 DEF CheckTokens
  <2> QED
    BY <1>2, <2>2, <2>3, <2>4, <2>5, <2>6, <2>7, <2>8, <2>9, <2>10, <2>11, <2>12 DEF DoctorStep
<1> QED
  BY <1>1, <1>2 DEF ClientStep

LEMMA ServeUndropped ==
    ASSUME TokenTyped, KeptInv, UndroppedInv, NEW i \in Invocations, Serve(i)
    PROVE  UndroppedInv'
<1> USE DEF TokenTyped, Reply, UndroppedInv
<1>1. CASE Rotation(i)
  <2>1. doctor[i].renewal # "failed" /\ UNCHANGED <<doctor, pc>>
    BY <1>1 DEF Rotation, HandleRefresh, KeptInv, KeptControl, AwaitingPair
  <2>2. /\ \A j \in Invocations \ {i} : UNCHANGED <<wire[j], renewals[j]>>
        /\ wire'[i] # "pair" => renewals'[i] = renewals[i]
    BY <1>1 DEF Rotation, HandleRefresh
  <2>3. pc[i] \in AwaitingPair /\ wire[i] = "refresh"
    BY <1>1 DEF Rotation, HandleRefresh, KeptInv, KeptControl
  <2> QED
    BY <2>1, <2>2, <2>3 DEF Dropped
<1>2. CASE ~Rotation(i)
  <2>1. UNCHANGED <<doctor, pc, renewals>> /\ \A j \in Invocations \ {i} : wire'[j] = wire[j]
    BY <1>2 DEF Serve, HandleExecute, OpEnds, HandleHealthOp, ProbeEnds
  <2>2. wire[i] # "pair"
    BY <1>2 DEF Serve, HandleExecute, OpEnds, HandleHealthOp, ProbeEnds
  <2> QED
    BY <2>1, <2>2, PlainUndropped DEF Dropped
<1> QED
  BY <1>1, <1>2

LEMMA SurroundingsUndropped ==
    ASSUME Lossless, TokenTyped, UndroppedInv, Surroundings
    PROVE  UndroppedInv'
<1>1. CASE StopDaemon /\ UNCHANGED <<doctor, renewals>>
  <2>1. \A j \in Invocations : pc[j] \in AwaitingPair => wire[j] # "pair"
    BY <1>1 DEF StopDaemon, Lossless
  <2> QED
    BY <1>1, <2>1 DEF StopDaemon, UndroppedInv, Dropped
<1>2. CASE UNCHANGED <<doctor, renewals, pc, wire>>
  BY <1>2 DEF UndroppedInv, Dropped
<1>3. ASSUME NEW i \in Invocations,
             (Invoke(i) /\ UNCHANGED <<doctor, renewals>>) \/ Diagnose(i)
      PROVE  UndroppedInv'
  <2>1. CASE Invoke(i) /\ UNCHANGED <<doctor, renewals>>
    BY <2>1, PlainUndropped DEF Invoke, Goto, AwaitingPair, TokenTyped
  <2>2. CASE Diagnose(i)
    <3>1. doctor'[i].renewal = "idle"
      BY <2>2 DEF Diagnose, NoReport, TokenTyped
    <3> QED
      BY <2>2, <3>1, PlainUndropped DEF Diagnose, Goto, AwaitingPair, TokenTyped, Elsewhere
  <2> QED
    BY <1>3, <2>1, <2>2
<1>4. \A i \in Invocations : ~Lose(i) /\ ~GiveUp(i) /\ ~DoctorGivesUp(i)
  BY DEF Lossless, Lose, GiveUp, DoctorGivesUp
<1> QED
  BY <1>1, <1>2, <1>3, <1>4 DEF Surroundings, StartDaemon, ServeBeside, Tick, Deploy

\* CredentialHeld holds for any number of commands and doctors on the one client machine when
\* nothing is lost and every save succeeds: what breaks it is a lost reply or a failed save.
THEOREM CredentialIsHeld == OneClient /\ Lossless => (SystemSpec => []CredentialHeld)
<1> SUFFICES ASSUME OneClient, Lossless PROVE SystemSpec => []CredentialHeld
  OBVIOUS
<1>0. Reliable /\ ClientsApart
  BY DEF Lossless, Reliable, OneClient, ClientsApart
<1>1. SystemInit => CredentialInv /\ KeptInv /\ UndroppedInv
  <2>1. SystemInit => UndroppedInv
    BY DEF SystemInit, Init, UndroppedInv, Dropped, AwaitingPair
  <2> QED
    BY <1>0, <2>1, InitCredential, InitKept
<1>2. SystemInv /\ CredentialInv /\ KeptInv /\ UndroppedInv /\ [SystemNext]_systemVars
      => CredentialInv' /\ KeptInv' /\ UndroppedInv'
  <2> SUFFICES ASSUME SystemInv, CredentialInv, KeptInv, UndroppedInv, [SystemNext]_systemVars
               PROVE  CredentialInv' /\ KeptInv' /\ UndroppedInv'
    OBVIOUS
  <2>0. TypeInv /\ TokenTyped /\ \A i \in Invocations : RenewControl(i)
    BY TokensTyped DEF SystemInv, Control
  <2>1. UNCHANGED systemVars => UndroppedInv'
    BY DEF systemVars, vars, UndroppedInv, Dropped
  <2>2. SystemNext => UndroppedInv'
    BY <2>0, ClientUndropped, ServeUndropped, SurroundingsUndropped DEF SystemNext
  <2> QED
    BY <1>0, <2>0, <2>1, <2>2, NextCredential, NextKept
<1>3. KeepingInv /\ UndroppedInv => CredentialHeld
  BY DEF KeepingInv, UndroppedInv, Keeping, Current, HostRefresh, CredentialHeld, Holds
<1> QED
  BY <1>0, <1>1, <1>2, <1>3, KeepingInvariance, SystemInvariant, PTL DEF SystemSpec

-----------------------------------------------------------------------------
\* No number of the pair, or of what replaces an expired refresh token beside a serving
\* daemon, is still to come; the latter is newer than the pair; and no number to come has
\* expired.
PairInv ==
    /\ minted \in Nat \ {0}
    /\ \E n \in 1..minted : accessToken = Access(n)
    /\ refreshToken = Legacy \/ \E n \in 1..minted : refreshToken = Refresh(n)
    /\ \/ HostRefresh = refreshToken
       \/ \E n \in 1..minted : HostRefresh = Refresh(n) /\ accessToken.n < n
    /\ expired["refresh"] <= expired["access"] /\ expired["access"] <= minted

\* A rotation as the authority's clients see it.
Replaced ==
    /\ up /\ up'
    /\ minted' = minted + 1
    /\ accessToken' = Access(minted + 1) /\ refreshToken' = Refresh(minted + 1)
    /\ HostRefresh' = refreshToken'
    /\ UNCHANGED expired

\* Nobody but the daemon changes its pair and what the host's refresh.token holds, and only
\* in these ways; time passes apart from that.
LEMMA PairMoves ==
    ASSUME ClientsApart, TokenTyped, SavingInv, [SystemNext]_systemVars
    PROVE  \/ UNCHANGED <<daemon, expired, HostRefresh>>
           \/ Replaced \/ StartDaemon \/ ServeBeside \/ StopDaemon
           \/ \E k \in Expiring : Tick(k)
<1>0. ASSUME NEW i \in Invocations, ClientEffect(i) PROVE UNCHANGED HostRefresh
  BY <1>0, ClientsMachine, ForwardingAssumption DEF ClientEffect, TokenTyped, HostRefresh
<1>1. CASE UNCHANGED systemVars
  BY <1>1 DEF systemVars, vars, daemon, HostRefresh
<1>2. CASE Surroundings
  <2>1. ASSUME NEW i \in Invocations,
               Invoke(i) \/ Lose(i) \/ GiveUp(i) \/ Diagnose(i) \/ DoctorGivesUp(i)
        PROVE  UNCHANGED <<daemon, expired, HostRefresh>>
    BY <1>0, <2>1, MishapEffect
       DEF Invoke, Lose, GiveUp, Diagnose, DoctorGivesUp, RequestFails, Elsewhere
  <2>2. ASSUME NEW m \in Machine, Deploy(m)
        PROVE  UNCHANGED <<daemon, expired, HostRefresh>>
    BY <2>2 DEF Deploy, TokenTyped, HostRefresh
  <2> QED
    BY <1>2, <2>1, <2>2 DEF Surroundings
<1>3. ASSUME NEW i \in Invocations, ProxyStep(i)
      PROVE  UNCHANGED <<daemon, expired, HostRefresh>>
  <2>1. UNCHANGED <<daemon, expired>>
    BY <1>3 DEF ProxyStep, ReadAccess, ReadLegacy, Probe, SendFirst, ReceiveResult, ReadRefresh,
       SendRefresh, ReceivePair, SaveAccess, SaveRefresh, SendRetry, Send, ConnectionFails, Shim
  <2> QED
    BY <1>0, <1>3, <2>1, ProxyEffect
<1>4. ASSUME NEW i \in Invocations, DoctorStep(i)
      PROVE  UNCHANGED <<daemon, expired, HostRefresh>>
  <2>1. UNCHANGED <<daemon, expired>>
    BY <1>4 DEF DoctorStep, CheckEndpoint, CheckDaemonHealth, ReadAccessToken, ReadRefreshToken,
       SendRenewal, ReceiveRenewal, SaveRenewedAccess, SaveRenewedRefresh, AskOp, ReceiveOp,
       RereadRefreshToken, DoctorConnectionFails, RequestFails, CheckTokens, Send, Elsewhere
  <2> QED
    BY <1>0, <1>4, <2>1, DoctorEffect
<1>5. ASSUME NEW i \in Invocations, Serve(i)
      PROVE  UNCHANGED <<daemon, expired, HostRefresh>> \/ Replaced
  <2>1. CASE Rotation(i)
    BY <2>1, ForwardingAssumption
       DEF Rotation, HandleRefresh, Replaced, daemon, TokenTyped, HostRefresh, Files
  <2> QED
    BY <1>5, <2>1 DEF Serve, HandleExecute, OpEnds, HandleHealthOp, ProbeEnds, HostRefresh
<1> QED
  BY <1>1, <1>2, <1>3, <1>4, <1>5 DEF SystemNext, ClientStep

\* A start, also beside a serving daemon, as it changes the host's refresh.token.
LEMMA StartMoves ==
    ASSUME TokenTyped, NewestInv, StartDaemon \/ ServeBeside
    PROVE  /\ minted' = minted + 1 /\ UNCHANGED expired
           /\ HostRefresh' = IF Usable(HostRefresh, expired) THEN HostRefresh ELSE Refresh(minted + 1)
           /\ HostRefresh' # HostRefresh => IsExpired(refreshToken, expired)
  BY HostTyped, ForwardingAssumption
     DEF StartDaemon, ServeBeside, TokenTyped, Usable, NewestInv, HostRefresh, Files

\* A tick passes one more number of a kind, of refresh tokens no more than of access tokens.
LEMMA TickMoves ==
    ASSUME TokenTyped, PairInv, NEW k \in Expiring, Tick(k)
    PROVE  /\ \A j \in Kind : expired'[j] >= expired[j]
           /\ expired'["refresh"] <= expired'["access"] /\ expired'["access"] <= minted
           /\ UNCHANGED daemon
<1>1. k \in Kind /\ expired \in [Kind -> Nat]
  BY ForwardingAssumption DEF TokenTyped, Kind
<1> QED
  BY <1>1 DEF Tick, Kind, PairInv

LEMMA PairStep ==
    ASSUME ClientsApart, TokenTyped, CredentialInv, PairInv, [SystemNext]_systemVars
    PROVE  PairInv'
<1>1. CASE UNCHANGED <<daemon, expired, HostRefresh>> \/ StopDaemon
  BY <1>1 DEF PairInv, daemon, StopDaemon, HostRefresh
<1>2. expired["refresh"] \in Nat /\ expired["access"] \in Nat
  BY DEF TokenTyped, Kind
<1>3. CASE Replaced
  BY <1>2, <1>3 DEF PairInv, Replaced
<1>4. CASE StartDaemon
  <2>1. /\ refreshToken' \in {HostRefresh, Refresh(minted + 1)}
        /\ HostRefresh' = refreshToken' /\ minted' = minted + 1
    BY <1>4, StartMoves DEF StartDaemon, CredentialInv, HostRefresh
  <2>2. HostRefresh = Legacy \/ \E n \in 1..minted : HostRefresh = Refresh(n)
    BY DEF PairInv
  <2>3. refreshToken' = Legacy \/ \E n \in 1..minted' : refreshToken' = Refresh(n)
    BY <2>1, <2>2 DEF PairInv
  <2> QED
    BY <1>2, <1>4, <2>1, <2>3 DEF StartDaemon, PairInv
<1>6. CASE ServeBeside
  <2>1. /\ HostRefresh' \in {HostRefresh, Refresh(minted + 1)} /\ minted' = minted + 1
        /\ UNCHANGED <<accessToken, refreshToken, expired>>
    BY <1>6, StartMoves DEF ServeBeside, CredentialInv
  <2>2. PICK n \in 1..minted : accessToken = Access(n)
    BY DEF PairInv
  <2>3. \/ HostRefresh' = refreshToken'
        \/ \E k \in 1..minted' : HostRefresh' = Refresh(k) /\ accessToken'.n < k
    BY <2>1, <2>2 DEF PairInv, Access
  <2> QED
    BY <1>2, <2>1, <2>3 DEF PairInv
<1>5. ASSUME NEW k \in Expiring, Tick(k) PROVE PairInv'
  <2>1. UNCHANGED <<daemon, HostRefresh>>
    BY <1>5, TickMoves DEF Tick, HostRefresh
  <2> QED
    BY <1>5, <2>1, TickMoves DEF PairInv, daemon
<1> QED
  BY <1>1, <1>3, <1>4, <1>5, <1>6, PairMoves DEF CredentialInv

LEMMA PairInit == SystemInit => PairInv
  BY ForwardingAssumption DEF SystemInit, Init, Deployments, PairInv, HostRefresh, Files, Kind

\* Tokens of different numbers or kinds differ.
LEMMA Distinct ==
    /\ \A n, k \in Nat : Access(n) # Refresh(k) /\ Access(n) # Legacy /\ Refresh(n) # Legacy
    /\ \A n, k \in Nat : n # k => Access(n) # Access(k) /\ Refresh(n) # Refresh(k)
    /\ \A n \in Nat : Access(n) \in Token /\ Refresh(n) \in Token
    /\ Legacy \in Token
  BY DEF Access, Refresh, Legacy, Token, Kind

LEMMA SameTokens ==
    /\ Authority!Token = Token
    /\ Authority!NoToken = NoToken
    /\ Authority!Kind = Kind
    /\ \A t, e : Authority!Usable(t, e) <=> Usable(t, e)
  BY DEF Token, Kind, NoToken, Usable, IsExpired, Authority!Token, Authority!Kind,
     Authority!NoToken, Authority!Usable, Authority!IsExpired

\* The tokens of the numbers up to k.
Numbered(k) == {Access(n) : n \in 1..k} \cup {Refresh(n) : n \in 1..k} \cup {Legacy}

LEMMA NumberedFacts ==
    /\ \A j, k \in Nat : j <= k => Numbered(j) \subseteq Numbered(k)
    /\ \A k \in Nat, n \in Nat \ {0} : Access(n) \in Numbered(k) <=> n <= k
    /\ \A k \in Nat, n \in Nat \ {0} : Refresh(n) \in Numbered(k) <=> n <= k
    /\ \A k \in Nat : Legacy \in Numbered(k)
    /\ \A n \in Nat : Access(n).n = n
<1>1. \A j, k \in Nat : j <= k => 1..j \subseteq 1..k
  OBVIOUS
<1>2. \A j, k \in Nat : j <= k => Numbered(j) \subseteq Numbered(k)
  BY <1>1 DEF Numbered
<1>3. \A k \in Nat, n \in Nat \ {0} : Access(n) \in Numbered(k) <=> n <= k
  <2>1. \A k \in Nat, n \in Nat \ {0} : Access(n) \in Numbered(k) <=> n \in 1..k
    BY Distinct DEF Numbered
  <2> QED
    BY <2>1
<1>4. \A k \in Nat, n \in Nat \ {0} : Refresh(n) \in Numbered(k) <=> n <= k
  <2>1. \A k \in Nat, n \in Nat \ {0} : Refresh(n) \in Numbered(k) <=> n \in 1..k
    BY Distinct DEF Numbered
  <2> QED
    BY <2>1
<1>5. \A k \in Nat : Legacy \in Numbered(k)
  BY DEF Numbered
<1>6. \A n \in Nat : Access(n).n = n
  BY DEF Access
<1> QED
  BY <1>2, <1>3, <1>4, <1>5, <1>6

LEMMA RetiredNumbered ==
    Retired = Numbered(accessToken.n)
                 \ ({refreshToken} \cup (IF up THEN {accessToken} ELSE {}))
  BY DEF Retired, Numbered

LEMMA RetiredNumberedNext ==
    Retired' = Numbered(accessToken'.n)
                  \ ({refreshToken'} \cup (IF up' THEN {accessToken'} ELSE {}))
  BY DEF Retired, Numbered

LEMMA NumbersUsed ==
    ASSUME PairInv
    PROVE  /\ accessToken.n \in Nat \ {0} /\ accessToken = Access(accessToken.n)
           /\ accessToken.n < minted + 1 /\ minted + 1 \in Nat \ {0} /\ accessToken.n + 1 <= minted + 1
  BY NumberedFacts DEF PairInv

\* The pair of a serving daemon was retired by nobody, and its refresh token is one at all
\* times.
PairNew ==
    /\ refreshToken \in Token \ Retired
    /\ up => accessToken \in Token \ Retired /\ accessToken # refreshToken

LEMMA PairIsNew == PairInv => PairNew
  BY Distinct DEF PairInv, PairNew, Retired

\* Each of these is a step of the authority, and so is a tick.
LEMMA AuthorityStep ==
    ASSUME ClientsApart, TokenTyped, CredentialInv, PairInv, [SystemNext]_systemVars
    PROVE  [Authority!Next]_(Authority!vars)
<1>0. PairNew /\ PairNew'
  BY PairIsNew, PairStep, PTL
<1>1. up' => Authority!Current'
  BY <1>0, SameTokens DEF PairNew, Authority!Current
<1>2. CASE UNCHANGED <<daemon, expired, HostRefresh>> \/ ServeBeside
  BY <1>2 DEF daemon, ServeBeside, Authority!vars, Retired
<1>3. CASE Replaced
  <2>1. Retired \cup {accessToken, refreshToken} \subseteq Retired'
    <3>1. accessToken'.n = minted + 1
      BY <1>3, NumbersUsed, NumberedFacts DEF Replaced
    <3>2. Numbered(accessToken.n) \subseteq Numbered(minted + 1)
      BY NumbersUsed, NumberedFacts
    <3>3. {accessToken, refreshToken} \subseteq Numbered(minted + 1)
      BY NumbersUsed, NumberedFacts DEF PairInv
    <3>4. {accessToken, refreshToken, Legacy} \cap {accessToken', refreshToken'} = {}
      BY <1>3, NumbersUsed, Distinct DEF Replaced, PairInv
    <3>5. Numbered(accessToken.n) \cap {accessToken', refreshToken'} = {}
      BY <1>3, NumbersUsed, NumberedFacts DEF Replaced
    <3> QED
      BY <1>3, <3>1, <3>2, <3>3, <3>4, <3>5, RetiredNumbered, RetiredNumberedNext DEF Replaced
  <2> QED
    BY <1>1, <1>3, <2>1 DEF Replaced, Authority!Next, Authority!Rotate
<1>4. CASE StartDaemon
  <2>1. /\ ~up /\ up' /\ minted' = minted + 1 /\ accessToken' = Access(minted + 1)
        /\ refreshToken' = IF Usable(HostRefresh, expired) THEN HostRefresh
                           ELSE Refresh(minted + 1)
        /\ UNCHANGED expired
    BY <1>4 DEF StartDaemon, HostRefresh
  <2>2. Retired \subseteq Retired'
    <3>1. HostRefresh \notin Retired
      <4>1. CASE HostRefresh = refreshToken
        BY <1>0, <4>1 DEF PairNew
      <4>2. CASE \E n \in 1..minted : HostRefresh = Refresh(n) /\ accessToken.n < n
        BY <4>2, NumbersUsed, NumberedFacts, RetiredNumbered DEF PairInv
      <4> QED
        BY <4>1, <4>2 DEF PairInv
    <3>2. refreshToken' \notin Retired
      BY <2>1, <3>1, NumbersUsed, NumberedFacts, RetiredNumbered
    <3>3. accessToken' \notin Retired /\ accessToken'.n = minted + 1
      BY <2>1, NumbersUsed, NumberedFacts, RetiredNumbered
    <3>4. Numbered(accessToken.n) \subseteq Numbered(minted + 1)
      BY NumbersUsed, NumberedFacts
    <3> QED
      BY <2>1, <3>2, <3>3, <3>4, RetiredNumbered, RetiredNumberedNext
  <2>3. refreshToken' = refreshToken \/ ~Usable(refreshToken, expired)
    BY <2>1 DEF CredentialInv, NewestInv, Usable
  <2>4. refreshToken' = refreshToken \/ Authority!Renewed
    BY <1>0, <2>1, <2>3, SameTokens DEF PairNew, Authority!Renewed
  <2> QED
    BY <1>1, <2>1, <2>2, <2>4 DEF Authority!Next, Authority!GoLive
<1>5. CASE StopDaemon
  <2>1. up /\ ~up' /\ UNCHANGED <<accessToken, refreshToken, minted, expired>>
    BY <1>5 DEF StopDaemon
  <2>2. Retired \cup {accessToken} \subseteq Retired'
    <3>1. accessToken \in Numbered(accessToken.n) /\ accessToken # refreshToken
      BY <1>0, <2>1, NumbersUsed, NumberedFacts DEF PairNew
    <3> QED
      BY <2>1, <3>1, RetiredNumbered, RetiredNumberedNext
  <2>3. refreshToken \notin Retired'
    BY <1>0, <2>1 DEF PairNew
  <2> QED
    BY <2>1, <2>2, <2>3, SameTokens DEF Authority!Next, Authority!Shutdown
<1>6. ASSUME NEW k \in Expiring, Tick(k) PROVE Authority!Tick
  BY <1>6, TickMoves, SameTokens DEF daemon, Authority!Tick, Retired
<1> QED
  BY <1>2, <1>3, <1>4, <1>5, <1>6, PairMoves DEF CredentialInv, Authority!Next

\* For any number of commands and doctors on any number of client machines, whatever is lost
\* and whichever saves fail, the daemon is the token authority to them: it keeps its refresh
\* token over every restart until the token has expired or is rotated.
THEOREM DaemonIsAuthority == ClientsApart => (SystemSpec => DaemonImplementsAuthority)
<1> SUFFICES ASSUME ClientsApart PROVE SystemSpec => DaemonImplementsAuthority
  OBVIOUS
<1>1. SystemInit => CredentialInv /\ PairInv /\ Authority!Init
  <2>1. SystemInit => PairInv /\ up = TRUE
    BY PairInit DEF SystemInit, Init
  <2> QED
    BY <2>1, InitCredential, PairIsNew, SameTokens DEF PairNew, Authority!Init, Authority!Current
<1>2. TypeInv /\ CredentialInv /\ PairInv /\ [SystemNext]_systemVars
      => CredentialInv' /\ PairInv' /\ [Authority!Next]_(Authority!vars)
  BY TokensTyped, NextCredential, PairStep, AuthorityStep
<1>3. SystemInv => TypeInv
  BY DEF SystemInv
<1> QED
  BY <1>1, <1>2, <1>3, SystemInvariant, PTL
     DEF SystemSpec, DaemonImplementsAuthority, Authority!Spec
=============================================================================
