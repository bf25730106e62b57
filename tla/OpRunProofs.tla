---------------------------- MODULE OpRunProofs ----------------------------
(***************************************************************************)
(* The safety properties of OpRun, for every deadline, word size, buffer   *)
(* and amount of output.                                                   *)
(***************************************************************************)
EXTENDS OpRun, OpLookupProofs

\* A product of two int64 values is an int64.
LEMMA WrapType == \A n \in Int : Wrap(n) \in -Word..(Word - 1)
<1> TAKE n \in Int
<1>1. 2 * Word \in Nat \ {0} /\ n + Word \in Int
  BY RunAssumption
<1>2. (n + Word) % (2 * Word) \in 0..(2 * Word - 1)
  BY <1>1
<1> QED
  BY <1>1, <1>2, RunAssumption DEF Wrap

\* The timeout of an execution is an int64 and at most MaxTimeout.
LEMMA TimeoutType ==
    \A ms \in Requests : Timeout(ms) \in -Word..(Word - 1) /\ Timeout(ms) <= MaxTimeout
<1> TAKE ms \in Requests
<1>1. ms * Millisecond \in Int
  BY RunAssumption
<1>2. Wrap(ms * Millisecond) \in -Word..(Word - 1)
  BY <1>1, WrapType
<1> QED
  BY <1>2, RunAssumption DEF Timeout

LEMMA InitHolds == Init => IInv
BY RunAssumption DEF Init, IInv, TypeOK, ProcessInv, ContextInv, ErrorInv, ResultInv, ResultTrue,
   ProbeTrue, Executor, Before, After

\* Types: only the values a run goes through, and no more output than was written.
LEMMA TypeStep == IInv /\ [Next]_vars => TypeOK'
<1> SUFFICES ASSUME IInv, [Next]_vars PROVE TypeOK'
  OBVIOUS
<1> USE RunAssumption DEF IInv
<1>1. CASE UNCHANGED vars
  BY <1>1 DEF vars, TypeOK
<1>2. CASE RefuseArguments
  BY <1>2 DEF RefuseArguments, TypeOK, process
<1>3. CASE Begin
  BY <1>3, TimeoutType DEF Begin, TypeOK, process
<1>4. CASE StartFails
  BY <1>4 DEF StartFails, TypeOK, process
<1>5. CASE StartOp
  BY <1>5 DEF StartOp, TypeOK, ProcessInv, Before
<1>6. CASE ReadToEnd
  BY <1>6 DEF ReadToEnd, TypeOK, process
<1>7. CASE Reap
  BY <1>7 DEF Reap, TypeOK
<1>8. CASE CollectWatch
  BY <1>8 DEF CollectWatch, TypeOK, process
<1>9. CASE Drain
  BY <1>9 DEF Drain, TypeOK, process
<1>10. CASE InterpretRun
  BY <1>10 DEF InterpretRun, TypeOK, process
<1>11. CASE ClassifyProbe
  BY <1>11 DEF ClassifyProbe, TypeOK, process
<1>12. CASE Copy
  BY <1>12 DEF Copy, TypeOK, process
<1>13. CASE Kill
  <2>1. holders' \in {holders, holders \ {"op"}}
    BY <1>13 DEF Kill, process
  <2>2. holders' \subseteq {"op", "child"}
    BY <2>1 DEF TypeOK
  <2> QED
    BY <1>13, <2>1, <2>2 DEF Kill, TypeOK, ContextInv, process
<1>14. CASE DeadlinePasses
  BY <1>14 DEF DeadlinePasses, TypeOK, process
<1>15. CASE CallerGone
  BY <1>15 DEF CallerGone, TypeOK, process
<1>16. CASE Spawn
  BY <1>16 DEF Spawn, TypeOK
<1>17. CASE Exit
  BY <1>17 DEF Exit, TypeOK
<1>18. ASSUME NEW p \in {"op", "child"}, Write(p) PROVE TypeOK'
  BY <1>18 DEF Write, TypeOK
<1>19. ASSUME NEW p \in {"op", "child"}, Release(p) PROVE TypeOK'
  BY <1>19 DEF Release, TypeOK
<1> QED
  BY <1>1, <1>2, <1>3, <1>4, <1>5, <1>6, <1>7, <1>8, <1>9, <1>10, <1>11, <1>12, <1>13,
     <1>14, <1>15, <1>16, <1>17, <1>18, <1>19 DEF Next, Wait, Processes

\* op lives from its start to the wait that reaps it, on every step.
LEMMA ProcessStep == IInv /\ [Next]_vars => ProcessInv'
<1> SUFFICES ASSUME IInv, [Next]_vars PROVE ProcessInv'
  OBVIOUS
<1> USE RunAssumption DEF IInv
<1>1. CASE UNCHANGED vars
  BY <1>1 DEF vars, ProcessInv, AtEnd
<1>2. CASE RefuseArguments
  BY <1>2 DEF RefuseArguments, TypeOK, ProcessInv, Before, After, AtEnd, process
<1>3. CASE Begin
  BY <1>3, TimeoutType DEF Begin, ProcessInv, Before, After, process
<1>4. CASE StartFails
  BY <1>4 DEF StartFails, TypeOK, ProcessInv, Before, After, AtEnd, process
<1>5. CASE StartOp
  BY <1>5 DEF StartOp, ProcessInv, Before, After
<1>6. CASE ReadToEnd
  BY <1>6 DEF ReadToEnd, ProcessInv, Before, After, AtEnd, process
<1>7. CASE Reap
  BY <1>7 DEF Reap, ProcessInv, Before, After, AtEnd
<1>8. CASE CollectWatch
  BY <1>8 DEF CollectWatch, ProcessInv, Before, After, AtEnd, process
<1>9. CASE Drain
  BY <1>9 DEF Drain, ProcessInv, Before, AtEnd, process
<1>10. CASE InterpretRun
  BY <1>10 DEF InterpretRun, ProcessInv, Before, After, AtEnd, process
<1>11. CASE ClassifyProbe
  BY <1>11 DEF ClassifyProbe, ProcessInv, Before, After, process
<1>12. CASE Copy
  BY <1>12 DEF Copy, ProcessInv, AtEnd, process
<1>13. CASE Kill
  <2>1. holders' \in {holders, holders \ {"op"}}
    BY <1>13 DEF Kill, process
  <2>2. holders' \subseteq {"op", "child"}
    BY <2>1 DEF TypeOK
  <2> QED
    BY <1>13, <2>1, <2>2 DEF Kill, ProcessInv, ContextInv, AtEnd, process
<1>14. CASE DeadlinePasses
  BY <1>14 DEF DeadlinePasses, ProcessInv, AtEnd, process
<1>15. CASE CallerGone
  BY <1>15 DEF CallerGone, ProcessInv, process
<1>16. CASE Spawn
  BY <1>16 DEF Spawn, ProcessInv, AtEnd
<1>17. CASE Exit
  BY <1>17 DEF Exit, ProcessInv, AtEnd
<1>18. ASSUME NEW p \in {"op", "child"}, Write(p) PROVE ProcessInv'
  BY <1>18 DEF Write, ProcessInv, After, AtEnd
<1>19. ASSUME NEW p \in {"op", "child"}, Release(p) PROVE ProcessInv'
  BY <1>19 DEF Release, ProcessInv, AtEnd
<1> QED
  BY <1>1, <1>2, <1>3, <1>4, <1>5, <1>6, <1>7, <1>8, <1>9, <1>10, <1>11, <1>12, <1>13,
     <1>14, <1>15, <1>16, <1>17, <1>18, <1>19 DEF Next, Wait, Processes

\* The context ends for a reason that fits the runner, and op is killed for no other.
LEMMA ContextStep == IInv /\ [Next]_vars => ContextInv'
<1> SUFFICES ASSUME IInv, [Next]_vars PROVE ContextInv'
  OBVIOUS
<1> USE RunAssumption DEF IInv
<1>1. CASE UNCHANGED vars
  BY <1>1 DEF vars, ContextInv
<1>2. CASE RefuseArguments
  BY <1>2 DEF RefuseArguments, ContextInv, process
<1>3. CASE Begin
  BY <1>3, TimeoutType DEF Begin, TypeOK, ProcessInv, ContextInv, ErrorInv, Before, After,
     process
<1>4. CASE StartFails
  BY <1>4 DEF StartFails, ContextInv, process
<1>5. CASE StartOp
  BY <1>5 DEF StartOp, ContextInv
<1>6. CASE ReadToEnd
  BY <1>6 DEF ReadToEnd, ContextInv, process
<1>7. CASE Reap
  BY <1>7 DEF Reap, ContextInv
<1>8. CASE CollectWatch
  BY <1>8 DEF CollectWatch, ContextInv, process
<1>9. CASE Drain
  BY <1>9 DEF Drain, ContextInv, process
<1>10. CASE InterpretRun
  BY <1>10 DEF InterpretRun, ContextInv, process
<1>11. CASE ClassifyProbe
  BY <1>11 DEF ClassifyProbe, ContextInv, process
<1>12. CASE Copy
  BY <1>12 DEF Copy, ContextInv, process
<1>13. CASE Kill
  BY <1>13 DEF Kill, ContextInv, process
<1>14. CASE DeadlinePasses
  BY <1>14 DEF DeadlinePasses, ContextInv, process
<1>15. CASE CallerGone
  BY <1>15 DEF CallerGone, ContextInv, process
<1>16. CASE Spawn
  BY <1>16 DEF Spawn, ContextInv
<1>17. CASE Exit
  BY <1>17 DEF Exit, ContextInv
<1>18. ASSUME NEW p \in {"op", "child"}, Write(p) PROVE ContextInv'
  BY <1>18 DEF Write, ContextInv
<1>19. ASSUME NEW p \in {"op", "child"}, Release(p) PROVE ContextInv'
  BY <1>19 DEF Release, ContextInv
<1> QED
  BY <1>1, <1>2, <1>3, <1>4, <1>5, <1>6, <1>7, <1>8, <1>9, <1>10, <1>11, <1>12, <1>13,
     <1>14, <1>15, <1>16, <1>17, <1>18, <1>19 DEF Next, Wait, Processes

\* What starting or waiting for op returned stays true of op.
LEMMA ErrorStep == IInv /\ [Next]_vars => ErrorInv'
<1> SUFFICES ASSUME IInv, [Next]_vars PROVE ErrorInv'
  OBVIOUS
<1> USE RunAssumption DEF IInv
<1>1. CASE UNCHANGED vars
  BY <1>1 DEF vars, ErrorInv
<1>2. CASE RefuseArguments
  BY <1>2 DEF RefuseArguments, ErrorInv, After
<1>3. CASE Begin
  BY <1>3, TimeoutType DEF Begin, ErrorInv, After
<1>4. CASE StartFails
  BY <1>4 DEF StartFails, ProcessInv, ErrorInv, Before, After, process
<1>5. CASE StartOp
  BY <1>5 DEF StartOp, ErrorInv, After
<1>6. CASE ReadToEnd
  BY <1>6 DEF ReadToEnd, ErrorInv, After
<1>7. CASE Reap
  BY <1>7 DEF Reap, ErrorInv, After
<1>8. CASE CollectWatch
  BY <1>8 DEF CollectWatch, TypeOK, ProcessInv, ErrorInv, After, process
<1>9. CASE Drain
  BY <1>9 DEF Drain, ProcessInv, ErrorInv, After, process
<1>10. CASE InterpretRun
  BY <1>10 DEF InterpretRun, ErrorInv, After, process
<1>11. CASE ClassifyProbe
  BY <1>11 DEF ClassifyProbe, ErrorInv, After, process
<1>12. CASE Copy
  BY <1>12 DEF Copy, ErrorInv, process
<1>13. CASE Kill
  BY <1>13 DEF Kill, ProcessInv, ContextInv, ErrorInv, process
<1>14. CASE DeadlinePasses
  BY <1>14 DEF DeadlinePasses, ErrorInv, process
<1>15. CASE CallerGone
  BY <1>15 DEF CallerGone, ErrorInv, process
<1>16. CASE Spawn
  BY <1>16 DEF Spawn, ErrorInv
<1>17. CASE Exit
  BY <1>17 DEF Exit, ProcessInv, ErrorInv
<1>18. ASSUME NEW p \in {"op", "child"}, Write(p) PROVE ErrorInv'
  BY <1>18 DEF Write, ErrorInv
<1>19. ASSUME NEW p \in {"op", "child"}, Release(p) PROVE ErrorInv'
  BY <1>19 DEF Release, ErrorInv
<1> QED
  BY <1>1, <1>2, <1>3, <1>4, <1>5, <1>6, <1>7, <1>8, <1>9, <1>10, <1>11, <1>12, <1>13,
     <1>14, <1>15, <1>16, <1>17, <1>18, <1>19 DEF Next, Wait, Processes

\* What the caller is told is true when it is told, and nothing changes it later.
LEMMA ResultStep == IInv /\ [Next]_vars => ResultInv'
<1> SUFFICES ASSUME IInv, [Next]_vars PROVE ResultInv'
  OBVIOUS
<1> USE RunAssumption DEF IInv
<1>1. CASE UNCHANGED vars
  BY <1>1 DEF vars, ResultInv, ResultTrue, ProbeTrue
<1>2. CASE RefuseArguments
  BY <1>2 DEF RefuseArguments, ProcessInv, ResultInv, ResultTrue, ProbeTrue, Before, process
<1>3. CASE Begin
  BY <1>3, TimeoutType DEF Begin, ResultInv, ResultTrue, ProbeTrue
<1>4. CASE StartFails
  BY <1>4 DEF StartFails, ResultInv, ResultTrue, ProbeTrue
<1>5. CASE StartOp
  BY <1>5 DEF StartOp, ResultInv, ResultTrue, ProbeTrue
<1>6. CASE ReadToEnd
  BY <1>6 DEF ReadToEnd, ResultInv, ResultTrue, ProbeTrue
<1>7. CASE Reap
  BY <1>7 DEF Reap, ResultInv, ResultTrue, ProbeTrue
<1>8. CASE CollectWatch
  BY <1>8 DEF CollectWatch, ResultInv, ResultTrue, ProbeTrue
<1>9. CASE Drain
  BY <1>9 DEF Drain, ResultInv, ResultTrue, ProbeTrue
<1>10. CASE InterpretRun
  BY <1>10 DEF InterpretRun, TypeOK, ContextInv, ErrorInv, ResultInv, ResultTrue,
     ProbeTrue, Executor, process
<1>11. CASE ClassifyProbe
  BY <1>11 DEF ClassifyProbe, TypeOK, ProcessInv, ErrorInv, ResultInv, ResultTrue,
     ProbeTrue, process
<1>12. CASE Copy
  BY <1>12 DEF Copy, ResultInv, ResultTrue, ProbeTrue
<1>13. CASE Kill
  BY <1>13 DEF Kill, ProcessInv, ContextInv, ResultInv, ResultTrue, ProbeTrue, After,
     process
<1>14. CASE DeadlinePasses
  BY <1>14 DEF DeadlinePasses, ResultInv, ResultTrue, ProbeTrue
<1>15. CASE CallerGone
  BY <1>15 DEF CallerGone, ResultInv, ResultTrue, ProbeTrue
<1>16. CASE Spawn
  BY <1>16 DEF Spawn, ResultInv, ResultTrue, ProbeTrue
<1>17. CASE Exit
  BY <1>17 DEF Exit, ProcessInv, ResultInv, ResultTrue, ProbeTrue, After
<1>18. ASSUME NEW p \in {"op", "child"}, Write(p) PROVE ResultInv'
  BY <1>18 DEF Write, ResultInv, ResultTrue, ProbeTrue
<1>19. ASSUME NEW p \in {"op", "child"}, Release(p) PROVE ResultInv'
  BY <1>19 DEF Release, ResultInv, ResultTrue, ProbeTrue
<1> QED
  BY <1>1, <1>2, <1>3, <1>4, <1>5, <1>6, <1>7, <1>8, <1>9, <1>10, <1>11, <1>12, <1>13,
     <1>14, <1>15, <1>16, <1>17, <1>18, <1>19 DEF Next, Wait, Processes

-----------------------------------------------------------------------------
\* The strengthening is an invariant: whatever op, the process it starts, the clock
\* and the caller do, in whatever order.
THEOREM Invariance == Spec => []IInv
<1>1. IInv /\ [Next]_vars => IInv'
  BY TypeStep, ProcessStep, ContextStep, ErrorStep, ResultStep DEF IInv
<1> QED
  BY <1>1, InitHolds, PTL DEF Spec

\* Every variable of a run has its type, and op has an exit status only once it ended.
THEOREM TypeCorrect == Spec => []TypeOK
<1>1. IInv => TypeOK
  BY DEF IInv
<1> QED
  BY <1>1, Invariance, PTL

\* No command is relayed with less than op's own output: the terminal was read to its
\* end, and a pipe was emptied before the exit status of op was looked at.
THEOREM OutputIsComplete == Spec => []OutputComplete
<1>1. IInv => OutputComplete
  <2> SUFFICES ASSUME IInv, pc = "returned" PROVE buffered = 0 /\ output >= opWrote
    BY DEF OutputComplete
  <2>1. buffered = 0
    BY DEF IInv, ProcessInv, After
  <2> QED
    BY <2>1, RunAssumption DEF IInv, TypeOK
<1> QED
  BY <1>1, Invariance, PTL

\* A relayed exit status is op's own, and an error or a refusal means that op never
\* ran, so that the caller may run it elsewhere.
THEOREM ResultIsTrue == Spec => []ResultTrue
<1>1. IInv => ResultTrue
  BY DEF IInv, ResultInv
<1> QED
  BY <1>1, Invariance, PTL

\* A run that has returned has left no op behind, killed or not.
THEOREM OpIsGone == Spec => []NoOpLeftBehind
<1>1. IInv => NoOpLeftBehind
  BY DEF IInv, ProcessInv, After, NoOpLeftBehind
<1> QED
  BY <1>1, Invariance, PTL

\* The probe tells of a success only when op had one, of a timeout only when its deadline
\* passed, and of a locked app only when op was silent until then or wrote something and
\* ended before.
THEOREM ProbeIsTrue == Spec => []ProbeTrue
<1>1. IInv => ProbeTrue
  BY DEF IInv, ResultInv
<1> QED
  BY <1>1, Invariance, PTL

\* No op is started with more time than MaxTimeout, for every int64 that timeout_ms
\* can hold, those whose nanoseconds overflow included.
THEOREM MaxIsHonoured == Spec => []NeverBeyondMax
<1>1. IInv => NeverBeyondMax
  BY RunAssumption DEF IInv, TypeOK, ContextInv, NeverBeyondMax
<1> QED
  BY <1>1, Invariance, PTL

\* A run starts the op that was judged, for a PATH of any length over any directories.
THEOREM LocatedOpIsStarted == Spec => []RunsTheLocatedOp
<1>1. RunsTheLocatedOp
  BY LocatedAlwaysRun DEF RunsTheLocatedOp
<1> QED
  BY <1>1, PTL
=============================================================================
