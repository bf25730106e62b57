--------------------------- MODULE OpLookupProofs ---------------------------
(***************************************************************************)
(* The lookups of OpLookup, for every PATH and every set of directories.   *)
(***************************************************************************)
EXTENDS OpLookup, TLAPS, WellFoundedInduction

\* A set of naturals that is not empty has a least element.
LEMMA LeastExists ==
    ASSUME NEW found, found \subseteq Nat, found # {}
    PROVE  \E i \in found : \A j \in found : i <= j
<1> DEFINE R == OpToRel(<, Nat)
<1>1. PICK i \in found : \A j \in found : ~(<<j, i>> \in R)
  BY NatLessThanWellFounded, WFMin
<1>2. ASSUME NEW j \in found PROVE i <= j
  <2>1. ~(j < i)
    BY <1>1 DEF OpToRel
  <2> QED
    BY <2>1
<1> QED
  BY <1>2

\* FirstOf takes a position of found before which none is.
LEMMA FirstOfIs ==
    ASSUME NEW path, NEW found, found \subseteq Nat, found # {}
    PROVE  \E i \in found : (\A j \in found : i <= j) /\ FirstOf(path, found) = path[i]
<1> DEFINE i == CHOOSE k \in found : \A j \in found : k <= j
<1>1. i \in found /\ \A j \in found : i <= j
  BY LeastExists
<1>2. FirstOf(path, found) = path[i]
  BY DEF FirstOf
<1> HIDE DEF i
<1> QED
  BY <1>1, <1>2

\* An element of Paths is a sequence of entries.
LEMMA PathType ==
    ASSUME NEW path \in Paths
    PROVE  DOMAIN path \subseteq Nat /\ \A i \in DOMAIN path : path[i] \in Entries
  BY DEF Paths

\* The fallback that is recorded is some directory other than the shim's: one that was
\* found, or the default.
LEMMA FindRealOpIs ==
    ASSUME NEW path \in Paths, NEW at \in Places
    PROVE  /\ FindRealOp(path, at) \in Entries
           /\ FindRealOp(path, at) # ShimDir
<1> DEFINE found == {i \in DOMAIN path :
                        path[i] # ShimDir /\ at[path[i]] \notin {"none", "directory"}}
<1>1. CASE found = {}
  BY <1>1, LookupAssumption DEF FindRealOp
<1>2. CASE found # {}
  <2>1. PICK i \in found : FirstOf(path, found) = path[i]
    BY <1>2, PathType, FirstOfIs
  <2>2. FindRealOp(path, at) = path[i]
    BY <1>2, <2>1 DEF FindRealOp
  <2> QED
    BY <2>1, <2>2, PathType
<1> QED
  BY <1>1, <1>2

\* What the shim's directory holds makes no difference to findRealOp.
LEMMA FindRealOpStable ==
    ASSUME NEW path \in Paths, NEW at \in Places
    PROVE  FindRealOp(path, [at EXCEPT ![ShimDir] = "shim"]) = FindRealOp(path, at)
<1> DEFINE later == [at EXCEPT ![ShimDir] = "shim"]
           found(c) == {i \in DOMAIN path :
                           path[i] # ShimDir /\ c[path[i]] \notin {"none", "directory"}}
<1>1. ASSUME NEW i \in DOMAIN path, path[i] # ShimDir
      PROVE  later[path[i]] = at[path[i]]
  BY <1>1, PathType DEF Places
<1>2. found(later) = found(at)
  BY <1>1
<1> QED
  BY <1>2 DEF FindRealOp

\* FallbackIsNoShim holds for a PATH of any length over any directories.
THEOREM FallbackNeverShim == FallbackIsNoShim
<1> SUFFICES ASSUME NEW path \in Paths, NEW at \in Places,
                    \A e \in Entries \ {ShimDir} : at[e] # "shim"
             PROVE  LET once  == Install(path, at)
                        twice == Install(path, once.at)
                    IN  /\ twice.real = once.real
                        /\ Fallback(once.real, once.at) # NoOp => once.at[once.real] = "op"
  BY DEF FallbackIsNoShim
<1> DEFINE later == [at EXCEPT ![ShimDir] = "shim"]
           real  == FindRealOp(path, at)
<1>1. Install(path, at).real = real /\ Install(path, at).at = later
  BY DEF Install
<1>2. Install(path, later).real = real
  BY FindRealOpStable DEF Install
<1>3. later[real] = at[real] /\ at[real] # "shim"
  BY FindRealOpIs DEF Places
<1>4. Fallback(real, later) # NoOp => later[real] = "op"
  BY <1>3 DEF Fallback
<1> QED
  BY <1>1, <1>2, <1>4

\* LocatedIsRun holds for a PATH of any length over any directories.
THEOREM LocatedAlwaysRun == LocatedIsRun
<1> SUFFICES ASSUME NEW path \in Paths, NEW at \in Places,
                    LookPath(path, at) # NoOp, at[LookPath(path, at)] = "op"
             PROVE  /\ Locate(path, at) = LookPath(path, at)
                    /\ at[ShimDir] # "shim" => Role(path, at) = "host"
  BY DEF LocatedIsRun
<1> DEFINE run  == LookPath(path, at)
           runs == {i \in DOMAIN path : at[path[i]] \in {"op", "shim"}}
           real == {i \in DOMAIN path : path[i] \notin Relative /\ at[path[i]] = "op"}
<1>1. runs # {} /\ run = FirstOf(path, runs) /\ run \notin Relative
  BY DEF LookPath
<1>2. PICK i \in runs : (\A j \in runs : i <= j) /\ run = path[i]
  BY <1>1, PathType, FirstOfIs
<1>3. i \in real
  BY <1>1, <1>2
<1>4. PICK k \in real : (\A j \in real : k <= j) /\ FirstOf(path, real) = path[k]
  BY <1>3, PathType, FirstOfIs
<1>5. i <= k /\ k <= i /\ i \in Nat /\ k \in Nat
  BY <1>2, <1>3, <1>4, PathType
<1>6. Locate(path, at) = run
  <2>1. i = k
    BY <1>5
  <2>2. Locate(path, at) = FirstOf(path, real)
    BY <1>3 DEF Locate
  <2> QED
    BY <2>1, <2>2, <1>2, <1>4
<1>7. at[ShimDir] # "shim" => Role(path, at) = "host"
  BY <1>6 DEF Role
<1> QED
  BY <1>6, <1>7
=============================================================================
