------------------------------- MODULE Tokens -------------------------------
(***************************************************************************)
(* The bearer tokens of internal/auth and the files that hold them.        *)
(*                                                                         *)
(* A token's 32 random bytes matter only through equality, so a token is   *)
(* its kind and a number that grows with every generation.  The wall clock *)
(* matters only through which tokens have passed their expiry: tokens of   *)
(* one kind have one lifetime and expire in the order they were generated, *)
(* so time is one watermark per kind, and a token has expired when its     *)
(* number has been overtaken.                                              *)
(***************************************************************************)
EXTENDS Naturals

\* What a token was generated as.  "legacy" is the single token of the releases
\* that had no refresh token; it is found in session.token after an upgrade.
Kind == {"access", "refresh", "legacy"}

Token == [kind : Kind, n : Nat]

\* GenerateAccess (1 hour) and GenerateRefresh (30 days).
Access(n)  == [kind |-> "access", n |-> n]
Refresh(n) == [kind |-> "refresh", n |-> n]

\* The one token an old release left behind.
Legacy == [kind |-> "legacy", n |-> 1]

\* What a file that holds no token reads as: the file is missing, or it exists
\* and does not parse (LoadFromPath fails, os.Stat succeeds).
NoToken    == [kind |-> "none", n |-> 0]
Unreadable == [kind |-> "unreadable", n |-> 0]

FileContent == Token \cup {NoToken, Unreadable}

\* os.Stat succeeds on the file.
Exists(content) == content # NoToken

\* Token.IsValid is false: the clock has passed the token's expiry.
IsExpired(t, expired) == t.n <= expired[t.kind]

\* LoadFromPath succeeds and the token it returns is valid.
Usable(content, expired) == content \in Token /\ ~IsExpired(content, expired)
=============================================================================
