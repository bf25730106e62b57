--------------------------- MODULE TokenFileProofs ---------------------------
(***************************************************************************)
(* The properties of TokenFile for any number of readers.  The type        *)
(* invariant needs nothing more; that the file is atomic is true of one    *)
(* writer only, as the run of two shows.                                   *)
(***************************************************************************)
EXTENDS TokenFile, FiniteSetTheorems, TLAPS

\* One process saves the file at a time.
OneWriter == \E w \in Writers : Writers = {w}

-----------------------------------------------------------------------------
(* The file system has an inode to spare. *)

LEMMA Constants ==
    /\ Empty \notin Version /\ Partial \notin Version /\ Missing \notin Version
    /\ Partial # Missing /\ Empty # Missing
    /\ MaxVersion \in Nat /\ NoInode \notin Inode
    /\ \A n \in 0..MaxVersion : n < MaxVersion => n + 1 \in Version
    /\ 0..MaxVersion = Version \cup {Empty}
  BY FileAssumption DEF Version, Empty, Partial, Missing

\* The type invariant with what makes it inductive: the writer of an open file has one.
TypeInv ==
    /\ TypeOK
    /\ \A w \in Writers : pc[w] = "write" => fd[w] # NoInode

\* There are never more inodes in use than FileAssumption leaves room for.
LEMMA SpareInode ==
    ASSUME TypeInv, tmp = NoInode
    PROVE  NewInode \in Inode /\ NewInode \notin InUse
<1> DEFINE Procs == Writers \cup Readers
           Open  == {fd[p] : p \in Procs}
<1>1. IsFiniteSet(Procs) /\ Cardinality(Procs) = Cardinality(Writers) + Cardinality(Readers)
  <2>1. Cardinality(Writers \cap Readers) = 0
    BY FileAssumption, FS_EmptySet
  <2>2. Cardinality(Writers) \in Nat /\ Cardinality(Readers) \in Nat
    BY FileAssumption, FS_CardinalityType
  <2>3. /\ IsFiniteSet(Procs)
        /\ Cardinality(Procs) = Cardinality(Writers) + Cardinality(Readers)
                                 - Cardinality(Writers \cap Readers)
    BY FileAssumption, FS_Union
  <2> QED
    BY <2>1, <2>2, <2>3
<1>2. IsFiniteSet(Open) /\ Cardinality(Open) <= Cardinality(Procs)
  <2>1. fd \in Surjection(Procs, Open)
    <3>1. DOMAIN fd = Procs /\ fd = [p \in DOMAIN fd |-> fd[p]]
      BY DEF TypeInv, TypeOK
    <3>2. fd \in [Procs -> Open]
      BY <3>1
    <3> QED
      BY <3>2 DEF Surjection
  <2> HIDE DEF Open, Procs
  <2> QED
    BY <2>1, <1>1, FS_Surjection
<1>3. \E n \in Inode : n \notin InUse
  <2> HIDE DEF Open, Procs
  <2>1. Cardinality(Procs) \in Nat /\ Cardinality(Open) \in Nat
    BY <1>1, <1>2, FS_CardinalityType
  <2>2. /\ IsFiniteSet(Open \cup {path})
        /\ Cardinality(Open \cup {path}) \in Nat
        /\ Cardinality(Open \cup {path}) <= Cardinality(Procs) + 1
    <3>1. /\ IsFiniteSet(Open \cup {path})
          /\ Cardinality(Open \cup {path}) =
                IF path \in Open THEN Cardinality(Open) ELSE Cardinality(Open) + 1
      BY <1>2, FS_AddElement
    <3> QED
      BY <3>1, <2>1, <1>2
  <2>3. /\ IsFiniteSet((Open \cup {path}) \cup {NoInode})
        /\ Cardinality((Open \cup {path}) \cup {NoInode}) \in Nat
        /\ Cardinality((Open \cup {path}) \cup {NoInode}) <= Cardinality(Procs) + 2
    <3> DEFINE Both == Open \cup {path}
    <3>1. /\ IsFiniteSet(Both \cup {NoInode})
          /\ Cardinality(Both \cup {NoInode}) =
                IF NoInode \in Both THEN Cardinality(Both) ELSE Cardinality(Both) + 1
      <4> HIDE DEF Both
      <4> QED
        BY <2>2, FS_AddElement DEF Both
    <3> QED
      BY <3>1, <2>1, <2>2
  <2>4. SUFFICES ASSUME Inode \subseteq InUse PROVE FALSE
    OBVIOUS
  <2>5. Inode \cup {NoInode} \subseteq (Open \cup {path}) \cup {NoInode}
    BY <2>4 DEF InUse, Open, Procs
  <2>6. Cardinality(Inode \cup {NoInode}) = Cardinality(Inode) + 1
    BY FileAssumption, FS_AddElement
  <2>7. Cardinality(Inode \cup {NoInode}) <= Cardinality((Open \cup {path}) \cup {NoInode})
    BY <2>3, <2>5, FS_Subset
  <2> QED
    <3>1. Cardinality(Inode) \in Nat
      BY FileAssumption, FS_CardinalityType
    <3> QED
      BY <1>1, <2>1, <2>3, <2>6, <2>7, <3>1, FileAssumption
<1> QED
  BY <1>3 DEF NewInode

-----------------------------------------------------------------------------
(* Types. *)

LEMMA TypeStep == TypeInv /\ [Next]_vars => TypeInv'
<1> SUFFICES ASSUME TypeInv, [Next]_vars PROVE TypeInv'
  OBVIOUS
<1> USE Constants DEF TypeInv, TypeOK
<1>1. ASSUME NEW w \in Writers, OpenTmp(w) PROVE TypeInv'
  <2> DEFINE n == IF tmp = NoInode THEN NewInode ELSE tmp
  <2>1. n \in Inode /\ n # path
    BY SpareInode DEF InUse
  <2>2. /\ tmp' = n /\ fd' = [fd EXCEPT ![w] = n] /\ data' = [data EXCEPT ![n] = Empty]
        /\ begun' = begun + 1 /\ version' = [version EXCEPT ![w] = begun + 1]
        /\ begun < MaxVersion
        /\ pc' = [pc EXCEPT ![w] = "write"] /\ result' = [result EXCEPT ![w] = "none"]
        /\ UNCHANGED <<path, readers>>
    BY <1>1 DEF OpenTmp
  <2> HIDE DEF n
  <2> QED
    BY <2>1, <2>2 DEF readers, Version
<1>2. ASSUME NEW w \in Writers, WriteTmp(w) PROVE TypeInv'
  BY <1>2 DEF WriteTmp, Returns, readers, Version
<1>3. ASSUME NEW w \in Writers, RenameTmp(w) PROVE TypeInv'
  BY <1>3 DEF RenameTmp, Returns, readers
<1>4. ASSUME NEW w \in Writers, RemoveTmp(w) \/ Crash(w) PROVE TypeInv'
  BY <1>4 DEF RemoveTmp, Crash, Returns, readers
<1>5. ASSUME NEW r \in Readers, OpenPath(r) \/ ReadOpened(r) PROVE TypeInv'
  BY <1>5, FileAssumption DEF OpenPath, ReadOpened, Content
<1>6. CASE UNCHANGED vars
  BY <1>6 DEF vars
<1> QED
  BY <1>1, <1>2, <1>3, <1>4, <1>5, <1>6 DEF Next, WriterStep, ReaderStep

\* Every reachable state is well typed, whatever writers and readers do; in particular
\* the file and the temporary one are never the same inode (os.WriteFile and os.Rename).
THEOREM TypeCorrect == Spec => []TypeOK
<1>1. Init => TypeInv
  BY Constants DEF Init, TypeInv, TypeOK, Version
<1>2. Spec => []TypeInv
  BY <1>1, TypeStep, PTL DEF Spec
<1>3. TypeInv => TypeOK
  BY DEF TypeInv
<1> QED
  BY <1>2, <1>3, PTL

-----------------------------------------------------------------------------
(* One writer. *)

\* Where the writer is, and what it has staged.
StagingInv ==
    /\ \A w \in Writers :
          /\ pc[w] = "write"  <=> fd[w] # NoInode
          /\ pc[w] = "write"  => fd[w] = tmp
          /\ pc[w] # "idle"   => tmp # NoInode /\ version[w] \in Version
          /\ pc[w] \in {"rename", "removeTmp"} => data[tmp] = version[w]
    /\ path # NoInode => data[path] \in Version

\* A reader holds an inode that nobody stages anything in, and has what it opened.
ReadingInv ==
    \A r \in Readers :
        /\ fd[r] # NoInode => fd[r] # tmp /\ atOpen[r] \in Version /\ data[fd[r]] = atOpen[r]
        /\ fd[r] = NoInode => got[r] = atOpen[r]
        /\ got[r] \in Version \cup {Missing}
        /\ atOpen[r] \in Version \cup {Missing}

FileInv == TypeInv /\ StagingInv /\ ReadingInv

LEMMA FileInit == Init => FileInv
  BY Constants DEF Init, FileInv, TypeInv, TypeOK, StagingInv, ReadingInv

LEMMA FileStep == OneWriter /\ FileInv /\ [Next]_vars => FileInv'
<1> SUFFICES ASSUME OneWriter, FileInv, [Next]_vars PROVE StagingInv' /\ ReadingInv'
  BY TypeStep DEF FileInv
<1>0. TypeInv'
  BY TypeStep DEF FileInv
<1>a. PICK only : Writers = {only}
  BY DEF OneWriter
<1> USE Constants, FileAssumption, <1>0, <1>a DEF FileInv, TypeInv, TypeOK
<1>1. ASSUME NEW w \in Writers, OpenTmp(w) PROVE StagingInv' /\ ReadingInv'
  <2> DEFINE n == IF tmp = NoInode THEN NewInode ELSE tmp
  <2>1. n \in Inode /\ n # path /\ \A r \in Readers : n # fd[r]
    BY SpareInode DEF InUse, ReadingInv
  <2>2. /\ tmp' = n /\ fd' = [fd EXCEPT ![w] = n] /\ data' = [data EXCEPT ![n] = Empty]
        /\ version' = [version EXCEPT ![w] = begun + 1] /\ begun < MaxVersion
        /\ pc' = [pc EXCEPT ![w] = "write"] /\ UNCHANGED <<path, got, atOpen>>
    BY <1>1 DEF OpenTmp, readers
  <2> HIDE DEF n
  <2>3. StagingInv'
    BY <2>1, <2>2 DEF StagingInv
  <2>4. ReadingInv'
    BY <2>1, <2>2 DEF ReadingInv
  <2> QED
    BY <2>3, <2>4
<1>2. ASSUME NEW w \in Writers, WriteTmp(w) PROVE StagingInv' /\ ReadingInv'
  <2>1. StagingInv'
    BY <1>2 DEF WriteTmp, Returns, readers, StagingInv
  <2>2. ReadingInv'
    BY <1>2 DEF WriteTmp, Returns, readers, StagingInv, ReadingInv
  <2> QED
    BY <2>1, <2>2
<1>3. ASSUME NEW w \in Writers, RenameTmp(w) PROVE StagingInv' /\ ReadingInv'
  <2>1. StagingInv'
    BY <1>3 DEF RenameTmp, Returns, readers, StagingInv
  <2>2. ReadingInv'
    BY <1>3 DEF RenameTmp, Returns, readers, StagingInv, ReadingInv
  <2> QED
    BY <2>1, <2>2
<1>4. ASSUME NEW w \in Writers, RemoveTmp(w) \/ Crash(w) PROVE StagingInv' /\ ReadingInv'
  <2>1. StagingInv'
    BY <1>4 DEF RemoveTmp, Crash, Returns, readers, StagingInv
  <2>2. ReadingInv'
    BY <1>4 DEF RemoveTmp, Crash, Returns, readers, StagingInv, ReadingInv
  <2> QED
    BY <2>1, <2>2
<1>5. ASSUME NEW r \in Readers, OpenPath(r) \/ ReadOpened(r) PROVE StagingInv' /\ ReadingInv'
  <2>1. StagingInv'
    BY <1>5 DEF OpenPath, ReadOpened, StagingInv
  <2>2. ReadingInv'
    BY <1>5 DEF OpenPath, ReadOpened, Content, StagingInv, ReadingInv
  <2> QED
    BY <2>1, <2>2
<1>6. CASE UNCHANGED vars
  BY <1>6 DEF vars, StagingInv, ReadingInv
<1> QED
  BY <1>1, <1>2, <1>3, <1>4, <1>5, <1>6 DEF Next, WriterStep, ReaderStep

LEMMA FileInvariant == OneWriter => (Spec => []FileInv)
<1> SUFFICES ASSUME OneWriter PROVE Spec => []FileInv
  OBVIOUS
<1>1. FileInv /\ [Next]_vars => FileInv'
  BY FileStep
<1> QED
  BY <1>1, FileInit, PTL DEF Spec

\* A reader of a token file never gets a part of a token (readToken and LoadFromPath over
\* writeTokenFile and SaveToPath), for any number of readers, and wherever the saves of
\* one process fail or are cut short.
THEOREM ReadsAreWhole == OneWriter => (Spec => []WholeReads)
<1>1. FileInv => WholeReads
  BY DEF FileInv, ReadingInv, WholeReads
<1> QED
  BY <1>1, FileInvariant, PTL

\* ... and gets what the file held when it was opened.
THEOREM ReadsAreFresh == OneWriter => (Spec => []FreshReads)
<1>1. FileInv => FreshReads
  BY DEF FileInv, ReadingInv, FreshReads
<1> QED
  BY <1>1, FileInvariant, PTL

-----------------------------------------------------------------------------
(* What a step does to the content of the file. *)

\* Only a successful rename changes it, to what is being saved.
LEMMA ContentStep ==
    ASSUME OneWriter, FileInv, [Next]_vars
    PROVE  \/ Content' = Content
           \/ \E w \in Writers : RenameTmp(w) /\ result'[w] = "ok" /\ Content' = version[w]
<1>a. PICK only : Writers = {only}
  BY DEF OneWriter
<1> USE Constants, FileAssumption, <1>a DEF FileInv, TypeInv, TypeOK, Content
<1>1. ASSUME NEW w \in Writers, OpenTmp(w) PROVE Content' = Content
  <2> DEFINE n == IF tmp = NoInode THEN NewInode ELSE tmp
  <2>1. n \in Inode /\ n # path
    BY SpareInode DEF InUse
  <2>2. data' = [data EXCEPT ![n] = Empty] /\ path' = path
    BY <1>1 DEF OpenTmp
  <2> HIDE DEF n
  <2> QED
    BY <2>1, <2>2
<1>2. ASSUME NEW w \in Writers, WriteTmp(w) PROVE Content' = Content
  BY <1>2 DEF WriteTmp, StagingInv
<1>3. ASSUME NEW w \in Writers, RenameTmp(w)
      PROVE  Content' = Content \/ (result'[w] = "ok" /\ Content' = version[w])
  BY <1>3 DEF RenameTmp, Returns, StagingInv
<1>4. ASSUME NEW w \in Writers, RemoveTmp(w) \/ Crash(w) PROVE Content' = Content
  BY <1>4 DEF RemoveTmp, Crash
<1>5. ASSUME NEW r \in Readers, OpenPath(r) \/ ReadOpened(r) PROVE Content' = Content
  BY <1>5 DEF OpenPath, ReadOpened
<1>6. CASE UNCHANGED vars
  BY <1>6 DEF vars
<1> QED
  BY <1>1, <1>2, <1>3, <1>4, <1>5, <1>6 DEF Next, WriterStep, ReaderStep

\* A save that returns has done what it says: success means that the file holds the new
\* token, an error or a crash that it holds the old one (saveTokenFile, SaveToPath).
THEOREM ReturnsAreTruthful == OneWriter => (Spec => TruthfulReturns)
<1> SUFFICES ASSUME OneWriter PROVE Spec => TruthfulReturns
  OBVIOUS
<1> DEFINE Truthful ==
       \A w \in Writers :
          (pc[w] # "idle" /\ pc'[w] = "idle") =>
              IF result'[w] = "ok" THEN Content' = version[w] ELSE Content' = Content
<1>1. FileInv /\ [Next]_vars => [Truthful]_vars
  <2> SUFFICES ASSUME FileInv, Next, NEW w \in Writers, pc[w] # "idle", pc'[w] = "idle"
               PROVE IF result'[w] = "ok" THEN Content' = version[w] ELSE Content' = Content
    OBVIOUS
  <2>a. Writers = {w}
    BY DEF OneWriter
  <2> USE <2>a, FileAssumption DEF FileInv, TypeInv, TypeOK
  <2>1. CASE WriteTmp(w) \/ RemoveTmp(w) \/ Crash(w)
    <3>1. result'[w] # "ok" /\ ~RenameTmp(w)
      BY <2>1 DEF WriteTmp, RemoveTmp, Crash, Returns, RenameTmp
    <3> QED
      BY <3>1, ContentStep
  <2>2. CASE RenameTmp(w)
    <3>1. result'[w] = "ok" /\ Content' = version[w]
      BY <2>2, Constants DEF RenameTmp, Returns, StagingInv, Content
    <3> QED
      BY <3>1
  <2>3. CASE OpenTmp(w)
    BY <2>3 DEF OpenTmp
  <2>4. CASE \E r \in Readers : ReaderStep(r)
    BY <2>4 DEF ReaderStep, OpenPath, ReadOpened
  <2> QED
    BY <2>1, <2>2, <2>3, <2>4 DEF Next, WriterStep
<1>2. Spec => []FileInv
  BY FileInvariant
<1> QED
  BY <1>1, <1>2, PTL DEF Spec, TruthfulReturns

\* A step of the writer begins a save, ends it or is not seen from outside.
LEMMA WriterRefines ==
    ASSUME OneWriter, FileInv, NEW w \in Writers, WriterStep(w)
    PROVE  File!Begin(w) \/ File!Succeed(w) \/ File!Fail(w) \/ UNCHANGED File!vars
<1>a. Writers = {w}
  BY DEF OneWriter
<1>b. [Next]_vars
  BY DEF Next
<1>c. Empty \notin Version
  BY Constants
<1> USE <1>a, <1>c DEF FileInv, TypeInv, TypeOK, Saving, File!vars
<1>1. CASE OpenTmp(w)
  <2>1. Content' = Content
    BY <1>1, <1>b, ContentStep DEF OpenTmp, RenameTmp
  <2>2. begun + 1 \in Version
    BY <1>1, Constants DEF OpenTmp
  <2>3. Saving' = [Saving EXCEPT ![w] = begun + 1]
    BY <1>1 DEF OpenTmp
  <2> QED
    BY <1>1, <2>1, <2>2, <2>3 DEF OpenTmp, File!Begin
<1>2. CASE RenameTmp(w) /\ pc'[w] = "idle"
  <2>1. /\ pc[w] = "rename" /\ path' = tmp /\ path' # NoInode /\ data' = data
        /\ pc' = [pc EXCEPT ![w] = "idle"] /\ result' = [result EXCEPT ![w] = "ok"]
    BY <1>2 DEF RenameTmp, Returns
  <2>2. Content' = version[w] /\ Saving[w] = version[w] /\ version[w] # Empty
    BY <2>1 DEF StagingInv, Content
  <2>3. Saving' = [Saving EXCEPT ![w] = Empty]
    BY <2>1
  <2> QED
    BY <2>1, <2>2, <2>3 DEF File!Succeed
<1>3. CASE (WriteTmp(w) \/ RemoveTmp(w) \/ Crash(w)) /\ pc'[w] = "idle"
  <2>1. /\ pc[w] # "idle" /\ pc' = [pc EXCEPT ![w] = "idle"] /\ result'[w] # "ok"
        /\ \E r \in {"error", "none"} : result' = [result EXCEPT ![w] = r]
    BY <1>3 DEF WriteTmp, RemoveTmp, Crash, Returns
  <2>2. Content' = Content
    BY <2>1, <1>b, ContentStep
  <2>3. Saving[w] # Empty /\ Saving' = [Saving EXCEPT ![w] = Empty]
    BY <2>1 DEF StagingInv
  <2> QED
    BY <2>1, <2>2, <2>3 DEF File!Fail
<1>4. CASE (WriteTmp(w) \/ RenameTmp(w)) /\ pc'[w] # "idle"
  <2>1. UNCHANGED <<result, version, path>> /\ pc[w] # "idle" /\ pc' = [pc EXCEPT ![w] = pc'[w]]
    BY <1>4 DEF WriteTmp, RenameTmp, Returns
  <2>2. Content' = Content
    BY <1>4 DEF WriteTmp, RenameTmp, Returns, StagingInv, Content
  <2> QED
    BY <1>4, <2>1, <2>2
<1> QED
  BY <1>1, <1>2, <1>3, <1>4 DEF WriterStep, RemoveTmp, Crash, Returns

\* The steps of SaveToPath and writeTokenFile implement an atomic file: a save takes effect
\* at its rename, with the token it was given, and every other end of it changes nothing.
THEOREM Refinement == OneWriter => (Spec => ImplementsAtomicFile)
<1> SUFFICES ASSUME OneWriter PROVE Spec => ImplementsAtomicFile
  OBVIOUS
<1>1. Init => File!Init
  BY DEF Init, File!Init, Content, Saving
<1>2. FileInv /\ [Next]_vars => [File!Next]_(File!vars)
  <2> SUFFICES ASSUME FileInv, [Next]_vars PROVE [File!Next]_(File!vars)
    OBVIOUS
  <2>1. ASSUME NEW w \in Writers, WriterStep(w) PROVE [File!Next]_(File!vars)
    BY <2>1, WriterRefines DEF File!Next
  <2>2. ASSUME NEW r \in Readers, ReaderStep(r) PROVE UNCHANGED File!vars
    BY <2>2 DEF ReaderStep, OpenPath, ReadOpened, Content, Saving, File!vars
  <2>3. CASE UNCHANGED vars
    BY <2>3 DEF vars, Content, Saving, File!vars
  <2> QED
    BY <2>1, <2>2, <2>3 DEF Next
<1>3. Spec => []FileInv
  BY FileInvariant
<1> QED
  BY <1>1, <1>2, <1>3, PTL DEF Spec, ImplementsAtomicFile, File!Spec
=============================================================================
