------------------------------ MODULE OpLookup ------------------------------
(***************************************************************************)
(* Which file named op is meant: the one that op-forward install records   *)
(* as the shim's fallback (findRealOp, cmd/install.go), the one that the   *)
(* integration check looks at (Locate, internal/opcheck/opcheck.go), and   *)
(* the one that the daemon runs (exec.LookPath, internal/executor/op.go).  *)
(*                                                                         *)
(* A directory stands for the file named op in it.  On Windows Locate tries*)
(* several names in each directory; one stands for them here.              *)
(***************************************************************************)
EXTENDS Naturals, Sequences

CONSTANTS
    Entries,    \* directories, as PATH may spell them
    Relative,   \* those spelled relative to the working directory
    ShimDir,    \* $HOME/.local/bin, spelled as install spells it
    UsrBin,     \* /usr/bin
    NoOp,       \* no file is found
    MaxPath     \* bound: the length of PATH

ASSUME LookupAssumption ==
    /\ Relative \subseteq Entries
    /\ {ShimDir, UsrBin} \subseteq Entries \ Relative
    /\ ShimDir # UsrBin
    /\ NoOp \notin Entries
    /\ MaxPath \in Nat

\* What is found under the name op: nothing, a directory, a file that cannot be
\* executed, the shim, or the real op.
Content == {"none", "directory", "file", "shim", "op"}

Places == [Entries -> Content]
Paths  == UNION {[1..n -> Entries] : n \in 0..MaxPath}

\* The entry of PATH at the first of the positions in found.
FirstOf(path, found) == path[CHOOSE i \in found : \A j \in found : i <= j]

\* Mutant: the shim's own directory is searched too.
FindAnyOp(path, at) ==
    LET found == {i \in DOMAIN path : at[path[i]] \notin {"none", "directory"}}
    IN  IF found = {} THEN UsrBin ELSE FirstOf(path, found)

\* One spelling of the shim's directory is skipped; any other file will do.
FindRealOp(path, at) ==
    LET found == {i \in DOMAIN path :
                     path[i] # ShimDir /\ at[path[i]] \notin {"none", "directory"}}
    IN  IF found = {} THEN UsrBin ELSE FirstOf(path, found)

\* runInstall: the fallback is looked up before the shim takes its place.
Install(path, at) ==
    [real |-> FindRealOp(path, at), at |-> [at EXCEPT ![ShimDir] = "shim"]]

\* What the shim runs when the proxy is not available: REAL_OP, if it is executable.
Fallback(real, at) == IF at[real] \in {"op", "shim"} THEN real ELSE NoOp

\* Mutant: a file that cannot be executed will do.
LocateAnyFile(path, at) ==
    LET found == {i \in DOMAIN path :
                     path[i] \notin Relative /\ at[path[i]] \in {"op", "file"}}
    IN  IF found = {} THEN NoOp ELSE FirstOf(path, found)

\* Relative entries, files that cannot be executed, and shims are skipped.
Locate(path, at) ==
    LET found == {i \in DOMAIN path : path[i] \notin Relative /\ at[path[i]] = "op"}
    IN  IF found = {} THEN NoOp ELSE FirstOf(path, found)

\* Go's lookup takes the first executable, and refuses it if the entry is relative.
LookPath(path, at) ==
    LET found == {i \in DOMAIN path : at[path[i]] \in {"op", "shim"}}
        first == FirstOf(path, found)
    IN  IF found = {} \/ first \in Relative THEN NoOp ELSE first

\* resolveRole, when no role is requested.
Role(path, at) ==
    IF at[ShimDir] # "shim" /\ Locate(path, at) # NoOp THEN "host" ELSE "client"

-----------------------------------------------------------------------------
(* Properties. *)

\* Installing again, with the shim in place, records the same fallback as the first time,
\* and a shim whose proxy is not available never runs a shim, which would call itself
\* without end, as long as PATH names the shim's directory in one spelling only ("Find the
\* real op: the first file named op on PATH, skipping ~/.local/bin").
FallbackIsNoShim ==
    \A path \in Paths, at \in Places :
        (\A e \in Entries \ {ShimDir} : at[e] # "shim") =>
            LET once  == Install(path, at)
                twice == Install(path, once.at)
            IN  /\ twice.real = once.real
                /\ Fallback(once.real, once.at) # NoOp => once.at[once.real] = "op"

\* Whenever the daemon would run a real op, it is the one the integration check has
\* looked at and judged ("which mirrors how exec.LookPath resolves op when the daemon
\* later runs it"), and a machine with no shim where the daemon can run op is taken for a
\* host.
LocatedIsRun ==
    \A path \in Paths, at \in Places :
        LET run == LookPath(path, at)
        IN  run # NoOp /\ at[run] = "op" =>
                /\ Locate(path, at) = run
                /\ at[ShimDir] # "shim" => Role(path, at) = "host"
=============================================================================
