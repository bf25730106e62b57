----------------------------- MODULE AtomicFile -----------------------------
(***************************************************************************)
(* What "written atomically" promises of a file: a save that succeeds      *)
(* replaces the whole content by what it was given, at one instant; a save *)
(* that fails or is cut short replaces nothing; nothing else changes it.   *)
(***************************************************************************)
CONSTANTS
    Writers,        \* who saves the file
    Version,        \* the contents they save
    Missing,        \* the content of a file that does not exist
    NoVersion       \* "saves nothing"

VARIABLES
    content,        \* what a reader finds
    saving,         \* the content each writer is saving
    returned        \* what its last save has returned

vars == <<content, saving, returned>>

Init ==
    /\ content = Missing
    /\ saving = [w \in Writers |-> NoVersion]
    /\ returned = [w \in Writers |-> "none"]

Begin(w) ==
    /\ saving[w] = NoVersion
    /\ \E v \in Version : saving' = [saving EXCEPT ![w] = v]
    /\ returned' = [returned EXCEPT ![w] = "none"]
    /\ UNCHANGED content

Succeed(w) ==
    /\ saving[w] # NoVersion
    /\ content' = saving[w]
    /\ saving' = [saving EXCEPT ![w] = NoVersion]
    /\ returned' = [returned EXCEPT ![w] = "ok"]

\* An error, or the end of the process, which returns nothing.
Fail(w) ==
    /\ saving[w] # NoVersion
    /\ saving' = [saving EXCEPT ![w] = NoVersion]
    /\ \E r \in {"error", "none"} : returned' = [returned EXCEPT ![w] = r]
    /\ UNCHANGED content

Next == \E w \in Writers : Begin(w) \/ Succeed(w) \/ Fail(w)

Spec == Init /\ [][Next]_vars
=============================================================================
