------------------------------ MODULE TokenFile ------------------------------
(***************************************************************************)
(* One token file at the level of the file system: SaveToPath of           *)
(* internal/auth and writeTokenFile of cmd/proxy.go (the same steps), and  *)
(* the readers LoadFromPath and readToken.  replaceBinaryAt of             *)
(* cmd/update.go writes the binary by the same steps.                      *)
(*                                                                         *)
(* A name in the directory leads to an inode; an open file is an inode     *)
(* too, and stays it when the name is renamed, replaced or removed.  Every *)
(* writer stages its content under one and the same temporary name.        *)
(***************************************************************************)
EXTENDS Naturals, FiniteSets

CONSTANTS
    Writers,        \* processes that save this file
    Readers,        \* processes that read it
    Inode,          \* the inodes of the file system
    NoInode,        \* "no such name" and "not open"
    MaxVersion      \* bound: how many saves are begun

ASSUME FileAssumption ==
    /\ IsFiniteSet(Writers) /\ IsFiniteSet(Readers) /\ IsFiniteSet(Inode)
    /\ Writers \cap Readers = {}
    /\ NoInode \notin Inode
    /\ MaxVersion \in Nat
    /\ Cardinality(Inode) >= Cardinality(Writers) + Cardinality(Readers) + 2

Version == 1..MaxVersion

\* What an inode holds when it is not a whole version.
Empty   == 0
Partial == MaxVersion + 1
Missing == MaxVersion + 2

VARIABLES
    path,           \* the inode of the token file's name
    tmp,            \* the inode of the name + ".tmp"
    data,           \* the content of each inode
    pc,             \* the next step of each writer
    fd,             \* the inode a writer or reader has open
    version,        \* the content each writer is saving
    begun,          \* how many saves were begun
    result,         \* what the last save of each writer returned
    got,            \* what the last read of each reader returned
    atOpen          \* history: what the file held when the reader opened it

vars == <<path, tmp, data, pc, fd, version, begun, result, got, atOpen>>
readers == <<got, atOpen>>

TypeOK ==
    /\ path \in Inode \cup {NoInode}
    /\ tmp \in Inode \cup {NoInode}
    /\ data \in [Inode -> Version \cup {Empty, Partial}]
    /\ pc \in [Writers -> {"idle", "write", "rename", "removeTmp"}]
    /\ fd \in [Writers \cup Readers -> Inode \cup {NoInode}]
    /\ version \in [Writers -> 0..MaxVersion]
    /\ begun \in 0..MaxVersion
    /\ result \in [Writers -> {"none", "ok", "error"}]
    /\ got \in [Readers -> Version \cup {Empty, Partial, Missing}]
    /\ atOpen \in [Readers -> Version \cup {Empty, Partial, Missing}]
    /\ tmp # NoInode => tmp # path      \* no inode has both names

\* What somebody who reads the file in one instant finds.
Content == IF path = NoInode THEN Missing ELSE data[path]

Init ==
    /\ path = NoInode
    /\ tmp = NoInode
    /\ data = [n \in Inode |-> Empty]
    /\ pc = [w \in Writers |-> "idle"]
    /\ fd = [p \in Writers \cup Readers |-> NoInode]
    /\ version = [w \in Writers |-> 0]
    /\ begun = 0
    /\ result = [w \in Writers |-> "none"]
    /\ got = [r \in Readers |-> Missing]
    /\ atOpen = [r \in Readers |-> Missing]

-----------------------------------------------------------------------------
(* Saving. *)

InUse == {path, tmp} \cup {fd[p] : p \in Writers \cup Readers}

NewInode == CHOOSE n \in Inode : n \notin InUse

Returns(w, r) ==
    /\ pc' = [pc EXCEPT ![w] = "idle"]
    /\ fd' = [fd EXCEPT ![w] = NoInode]
    /\ result' = [result EXCEPT ![w] = r]

\* Mutant: the content is written to the file itself.
OpenInPlace(w) ==
    /\ pc[w] = "idle"
    /\ begun < MaxVersion
    /\ begun' = begun + 1
    /\ version' = [version EXCEPT ![w] = begun + 1]
    /\ LET n == IF path = NoInode THEN NewInode ELSE path
       IN  /\ data' = [data EXCEPT ![n] = Empty]
           /\ path' = n
           /\ fd' = [fd EXCEPT ![w] = n]
    /\ pc' = [pc EXCEPT ![w] = "write"]
    /\ result' = [result EXCEPT ![w] = "none"]
    /\ UNCHANGED <<tmp, readers>>

\* Mutant: the temporary file is not truncated.
OpenWithoutTruncation(w) ==
    /\ pc[w] = "idle"
    /\ begun < MaxVersion
    /\ begun' = begun + 1
    /\ version' = [version EXCEPT ![w] = begun + 1]
    /\ LET n == IF tmp = NoInode THEN NewInode ELSE tmp
       IN  /\ tmp' = n
           /\ fd' = [fd EXCEPT ![w] = n]
           /\ pc' = [pc EXCEPT ![w] = IF data[n] \in {Empty} THEN "write" ELSE "rename"]
    /\ result' = [result EXCEPT ![w] = "none"]
    /\ UNCHANGED <<path, data, readers>>

\* os.WriteFile opens the temporary name: created if need be, else truncated.
OpenTmp(w) ==
    /\ pc[w] = "idle"
    /\ begun < MaxVersion
    /\ begun' = begun + 1
    /\ version' = [version EXCEPT ![w] = begun + 1]
    /\ LET n == IF tmp = NoInode THEN NewInode ELSE tmp
       IN  /\ data' = [data EXCEPT ![n] = Empty]
           /\ tmp' = n
           /\ fd' = [fd EXCEPT ![w] = n]
    /\ pc' = [pc EXCEPT ![w] = "write"]
    /\ result' = [result EXCEPT ![w] = "none"]
    /\ UNCHANGED <<path, readers>>

\* ... and writes; a full disk leaves a part of it there and is an error.
WriteTmp(w) ==
    /\ pc[w] = "write"
    /\ \/ /\ data' = [data EXCEPT ![fd[w]] = version[w]]
          /\ pc' = [pc EXCEPT ![w] = "rename"]
          /\ fd' = [fd EXCEPT ![w] = NoInode]
          /\ UNCHANGED result
       \/ /\ data' = [data EXCEPT ![fd[w]] = Partial]
          /\ Returns(w, "error")
    /\ UNCHANGED <<path, tmp, version, begun, readers>>

\* Mutant: the name is linked and the temporary one stays.
LinkTmp(w) ==
    /\ pc[w] = "rename"
    /\ \/ /\ tmp # NoInode
          /\ path' = tmp
          /\ Returns(w, "ok")
       \/ /\ pc' = [pc EXCEPT ![w] = "removeTmp"]
          /\ UNCHANGED <<path, fd, result>>
    /\ UNCHANGED <<tmp, data, version, begun, readers>>

\* os.Rename moves whatever has the temporary name now; with nothing there, or
\* refused by the system, it fails.
RenameTmp(w) ==
    /\ pc[w] = "rename"
    /\ \/ /\ tmp # NoInode
          /\ path' = tmp
          /\ tmp' = NoInode
          /\ Returns(w, "ok")
       \/ /\ pc' = [pc EXCEPT ![w] = "removeTmp"]
          /\ UNCHANGED <<path, tmp, fd, result>>
    /\ UNCHANGED <<data, version, begun, readers>>

\* Mutant: the cleanup removes the token file.
RemovePath(w) ==
    /\ pc[w] = "removeTmp"
    /\ path' = NoInode
    /\ Returns(w, "error")
    /\ UNCHANGED <<tmp, data, version, begun, readers>>

\* After a failed rename the temporary name is removed, best effort.
RemoveTmp(w) ==
    /\ pc[w] = "removeTmp"
    /\ tmp' \in {tmp, NoInode}
    /\ Returns(w, "error")
    /\ UNCHANGED <<path, data, version, begun, readers>>

\* The process dies between two steps and leaves the directory as it is.
Crash(w) ==
    /\ pc[w] # "idle"
    /\ Returns(w, "none")
    /\ UNCHANGED <<path, tmp, data, version, begun, readers>>

-----------------------------------------------------------------------------
(* Reading: os.ReadFile opens the name and then reads what it opened. *)

OpenPath(r) ==
    /\ fd[r] = NoInode
    /\ atOpen' = [atOpen EXCEPT ![r] = Content]
    /\ IF path = NoInode
       THEN got' = [got EXCEPT ![r] = Missing] /\ UNCHANGED fd
       ELSE fd' = [fd EXCEPT ![r] = path] /\ UNCHANGED got
    /\ UNCHANGED <<path, tmp, data, pc, version, begun, result>>

ReadOpened(r) ==
    /\ fd[r] # NoInode
    /\ got' = [got EXCEPT ![r] = data[fd[r]]]
    /\ fd' = [fd EXCEPT ![r] = NoInode]
    /\ UNCHANGED <<path, tmp, data, pc, version, begun, result, atOpen>>

-----------------------------------------------------------------------------
WriterStep(w) == OpenTmp(w) \/ WriteTmp(w) \/ RenameTmp(w) \/ RemoveTmp(w) \/ Crash(w)

ReaderStep(r) == OpenPath(r) \/ ReadOpened(r)

Next == (\E w \in Writers : WriterStep(w)) \/ (\E r \in Readers : ReaderStep(r))

Spec == Init /\ [][Next]_vars

-----------------------------------------------------------------------------
(* Properties. *)

\* "A reader never sees a partial token": a read returns a whole version or that
\* the file does not exist, whichever write or crash it overlaps.
WholeReads == \A r \in Readers : got[r] \in Version \cup {Missing}

\* ... and the version it returns is the one the file held when it was opened,
\* so a read that starts after a save returned sees that save.
FreshReads == \A r \in Readers : fd[r] = NoInode => got[r] = atOpen[r]

\* A save returns what it did: after success the file holds the saved version, and
\* a save that failed, on whichever step, or was cut short has changed nothing.
TruthfulReturns ==
    [][\A w \in Writers :
          (pc[w] # "idle" /\ pc'[w] = "idle") =>
              IF result'[w] = "ok" THEN Content' = version[w] ELSE Content' = Content]_vars

\* What each writer is saving, as AtomicFile sees it.
Saving == [w \in Writers |-> IF pc[w] = "idle" THEN Empty ELSE version[w]]

File == INSTANCE AtomicFile
            WITH content <- Content, saving <- Saving, returned <- result, NoVersion <- Empty

\* The steps of one writer implement an atomic file: a save takes effect at its rename and
\* nowhere else, with what it was given (never what an earlier save left behind under the
\* temporary name), and every other end of it has changed nothing.
ImplementsAtomicFile == File!Spec
=============================================================================
