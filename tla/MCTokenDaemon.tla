---------------------------- MODULE MCTokenDaemon ----------------------------
(***************************************************************************)
(* Instances of TokenDaemon for TLC.                                       *)
(***************************************************************************)
EXTENDS TokenDaemon, TLC

Symmetry == Permutations(Handlers) \cup Permutations(Starters)

\* docs/tokens.md "Revoking access": delete refresh.token and session.token.
FullRevocation == {{"refresh", "session"}}
=============================================================================
