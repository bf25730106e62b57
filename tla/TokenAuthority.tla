--------------------------- MODULE TokenAuthority ---------------------------
(***************************************************************************)
(* What the daemon promises about its token pair, without handlers, locks, *)
(* files or startup steps: while it is live exactly one access token and   *)
(* one refresh token are accepted; the refresh token outlives the process  *)
(* until it has expired, is rotated or is revoked; and a token that        *)
(* stopped being accepted is never accepted again, across rotations,       *)
(* crashes, restarts and revocations (docs/tokens.md, docs/protocol.md     *)
(* "Refresh response").                                                    *)
(***************************************************************************)
EXTENDS Tokens

VARIABLES
    live,       \* the daemon is serving
    access,     \* the access token it accepts, NoToken when it is not live
    refresh,    \* the refresh token it accepts, or will, or NoToken
    retired,    \* tokens that stopped being accepted for good
    expired     \* per kind, the last number whose expiry has passed

vars == <<live, access, refresh, retired, expired>>

\* The pair: two different tokens that nobody has retired.
Current ==
    /\ {access, refresh} \subseteq Token
    /\ access # refresh
    /\ {access, refresh} \cap retired = {}

\* The daemon is down, or is found serving; tokens may have been retired before.
Init ==
    \/ live = FALSE /\ access = NoToken /\ refresh \in (Token \ retired) \cup {NoToken}
    \/ live = TRUE /\ Current

\* A refresh token that is missing or has expired, and only such a one, is replaced.
Renewed == ~Usable(refresh, expired) /\ refresh' \in Token \ retired'

\* That may happen at any time ...
Prepare ==
    /\ Renewed
    /\ retired \subseteq retired'
    /\ UNCHANGED <<live, access, expired>>

\* ... or as it begins to, with an access token that was never accepted before.
GoLive ==
    /\ ~live
    /\ live' = TRUE
    /\ refresh' = refresh \/ Renewed
    /\ retired \subseteq retired'
    /\ Current'
    /\ UNCHANGED expired

\* A refresh replaces both tokens, and retires both.
Rotate ==
    /\ live
    /\ live' = TRUE
    /\ retired \cup {access, refresh} \subseteq retired'
    /\ Current'
    /\ UNCHANGED expired

\* The process ends: its access token is gone for good, the refresh token is not.
Shutdown ==
    /\ live
    /\ live' = FALSE
    /\ access' = NoToken
    /\ retired \cup {access} \subseteq retired'
    /\ refresh \notin retired'
    /\ UNCHANGED <<refresh, expired>>

\* While it is down the refresh token, and more, may be revoked by deleting its files.
Revoke ==
    /\ ~live
    /\ refresh' = NoToken
    /\ retired \cup ({refresh} \ {NoToken}) \subseteq retired'
    /\ UNCHANGED <<live, access, expired>>

\* Time passes.
Tick ==
    /\ \A k \in Kind : expired'[k] >= expired[k]
    /\ UNCHANGED <<live, access, refresh, retired>>

Next == Tick \/ Prepare \/ GoLive \/ Rotate \/ Shutdown \/ Revoke

Spec == Init /\ [][Next]_vars
=============================================================================
