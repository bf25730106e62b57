------------------------------- MODULE OpRun -------------------------------
(***************************************************************************)
(* One run of op on the host under a deadline: Execute and interpretRun of *)
(* internal/executor with its two platform runners, and the authenticated  *)
(* probe of internal/opcheck, which runs op like the Windows runner does.  *)
(*                                                                         *)
(* The goroutine that waits, the goroutine that copies, the goroutine of   *)
(* os/exec that kills op at the deadline, op itself and a process op has   *)
(* started run side by side.  Output is counted in chunks.                 *)
(***************************************************************************)
EXTENDS Integers, OpLookup

CONSTANTS
    Requests,       \* the values of timeout_ms that are requested
    Word,           \* an int64 ranges over -Word .. Word - 1
    Millisecond,    \* time.Millisecond, in nanoseconds
    DefaultTimeout, \* executor.DefaultTimeout, in nanoseconds
    MaxTimeout,     \* executor.MaxTimeout
    ProbeTimeout,   \* opcheck.DefaultProbeTimeout
    Capacity,       \* what the terminal or pipe buffers
    MaxWrites       \* bound: how much op and its descendant write

ASSUME RunAssumption ==
    /\ Word \in Nat \ {0}
    /\ Requests \subseteq -Word..(Word - 1)
    /\ Millisecond \in Nat \ {0}
    /\ MaxTimeout \in 1..(Word - 1)
    /\ DefaultTimeout \in 1..MaxTimeout
    /\ ProbeTimeout \in 1..MaxTimeout
    /\ Capacity \in Nat \ {0}
    /\ MaxWrites \in Nat

VARIABLES
    runner,         \* "pty" and "pipes" are Execute, "probe" is probeSession
    timeout,        \* the timeout the context was given
    ctx,            \* the context: its deadline, or the caller, may end it
    pc,             \* where the waiting goroutine is
    op,             \* the op process
    status,         \* what op exited with
    holders,        \* the processes that can write to op's terminal or pipe
    buffered,       \* chunks written and not read yet
    output,         \* chunks read
    opWrote,        \* history: chunks written up to op's last one
    watch,          \* the goroutine of os/exec that waits for the context
    waitErr,        \* what starting or waiting for op returned
    result          \* what the caller is told

vars == <<runner, timeout, ctx, pc, op, status, holders, buffered, output, opWrote,
          watch, waitErr, result>>
process == <<op, status, holders, opWrote>>

Executor == {"pty", "pipes"}

TypeOK ==
    /\ runner \in Executor \cup {"probe"}
    /\ timeout \in -Word..(Word - 1)
    /\ ctx \in {"none", "pending", "passed", "cancelled"}
    /\ pc \in {"begin", "start", "read", "wait", "collect", "drain", "interpret", "returned"}
    /\ op \in {"none", "running", "zombie", "reaped"}
    /\ status \in {"none", "success", "failure", "killed"}
    /\ holders \subseteq {"op", "child"}
    /\ buffered \in 0..Capacity
    /\ output \in 0..(MaxWrites - buffered)
    /\ opWrote \in 0..(buffered + output)
    /\ watch \in {"off", "waiting", "killed", "late"}
    /\ waitErr \in {"none", "nil", "start", "exit", "context", "waitDelay"}
    /\ result \in {"none", "invalid", "error", "timeout", "success", "failure",
                   "healthy", "failed", "app_locked"}
    /\ op \in {"zombie", "reaped"} <=> status # "none"  \* an exit status is op's own

Init ==
    /\ runner \in Executor \cup {"probe"}
    /\ timeout = 0
    /\ ctx = "none"
    /\ pc = "begin"
    /\ op = "none"
    /\ status = "none"
    /\ holders = {}
    /\ buffered = 0
    /\ output = 0
    /\ opWrote = 0
    /\ watch = "off"
    /\ waitErr = "none"
    /\ result = "none"

-----------------------------------------------------------------------------
(* Execute, up to the start of op. *)

\* Validate refuses the arguments: an answer of its own, with exit code 1.
RefuseArguments ==
    /\ pc = "begin"
    /\ runner \in Executor
    /\ result' = "invalid"
    /\ pc' = "returned"
    /\ UNCHANGED <<runner, timeout, ctx, process, buffered, output, watch, waitErr>>

\* The product of two int64 values.
Wrap(n) == ((n + Word) % (2 * Word)) - Word

\* Mutant: a requested timeout is not limited.
TimeoutUnlimited(ms) == IF ms > 0 THEN Wrap(ms * Millisecond) ELSE DefaultTimeout

Timeout(ms) ==
    LET requested == Wrap(ms * Millisecond)
    IN  IF ms <= 0 THEN DefaultTimeout
        ELSE IF requested > MaxTimeout THEN MaxTimeout ELSE requested

\* context.WithTimeout: a timeout that is not positive has passed already.
Begin ==
    /\ pc = "begin"
    /\ \/ runner = "probe" /\ timeout' = ProbeTimeout
       \/ runner \in Executor /\ \E ms \in Requests : timeout' = Timeout(ms)
    /\ ctx' = IF timeout' > 0 THEN "pending" ELSE "passed"
    /\ pc' = "start"
    /\ UNCHANGED <<runner, process, buffered, output, watch, waitErr, result>>

\* No op in PATH, a path that is refused, or Start fails; it does when ctx has ended.
StartFails ==
    /\ pc = "start"
    /\ waitErr' = "start"
    /\ pc' = "interpret"
    /\ UNCHANGED <<runner, timeout, ctx, process, buffered, output, watch, result>>

\* pty.Start or cmd.Start.  The terminal is read to its end before op is waited
\* for; pipes are read by a goroutine while op is waited for.
StartOp ==
    /\ pc = "start"
    /\ ctx = "pending"
    /\ op' = "running"
    /\ holders' = {"op"}
    /\ watch' = "waiting"
    /\ pc' = IF runner = "pty" THEN "read" ELSE "wait"
    /\ UNCHANGED <<runner, timeout, ctx, status, buffered, output, opWrote, waitErr, result>>

-----------------------------------------------------------------------------
(* op and a process it has started. *)

\* A full buffer blocks the writer.
Write(p) ==
    /\ p \in holders
    /\ pc \notin {"interpret", "returned"}
    /\ buffered < Capacity
    /\ buffered + output < MaxWrites
    /\ buffered' = buffered + 1
    /\ opWrote' = IF p = "op" THEN buffered + output + 1 ELSE opWrote
    /\ UNCHANGED <<runner, timeout, ctx, pc, op, status, holders, output, watch, waitErr, result>>

Spawn ==
    /\ op = "running"
    /\ "op" \in holders
    /\ holders' = holders \cup {"child"}
    /\ UNCHANGED <<runner, timeout, ctx, pc, op, status, buffered, output, opWrote, watch,
                   waitErr, result>>

\* A process closes its output, or the child ends.  A child of a terminal gets a
\* SIGHUP when op ends, which it may ignore.
Release(p) ==
    /\ p \in holders
    /\ holders' = holders \ {p}
    /\ UNCHANGED <<runner, timeout, ctx, pc, op, status, buffered, output, opWrote, watch,
                   waitErr, result>>

Exit ==
    /\ op = "running"
    /\ op' = "zombie"
    /\ status' \in {"success", "failure"}
    /\ holders' = holders \ {"op"}
    /\ UNCHANGED <<runner, timeout, ctx, pc, buffered, output, opWrote, watch, waitErr, result>>

-----------------------------------------------------------------------------
(* The context and the goroutine that watches it. *)

DeadlinePasses ==
    /\ ctx = "pending"
    /\ pc # "returned"
    /\ ctx' = "passed"
    /\ UNCHANGED <<runner, timeout, pc, process, buffered, output, watch, waitErr, result>>

\* The probe runs under the context of its request; Execute does not.
CallerGone ==
    /\ runner = "probe"
    /\ ctx = "pending"
    /\ pc # "returned"
    /\ ctx' = "cancelled"
    /\ UNCHANGED <<runner, timeout, pc, process, buffered, output, watch, waitErr, result>>

\* Killing a process that has exited but was not waited for succeeds as well.
Kill ==
    /\ watch = "waiting"
    /\ ctx \in {"passed", "cancelled"}
    /\ \/ op = "reaped" /\ watch' = "late" /\ UNCHANGED process
       \/ /\ op # "reaped"
          /\ watch' = "killed"
          /\ op' = "zombie"
          /\ status' = IF op = "running" THEN "killed" ELSE status
          /\ holders' = holders \ {"op"}
          /\ UNCHANGED opWrote
    /\ UNCHANGED <<runner, timeout, ctx, pc, buffered, output, waitErr, result>>

-----------------------------------------------------------------------------
(* Reading, waiting and telling. *)

\* ReadFrom of the terminal, or the copying goroutine of a pipe.
Copy ==
    /\ pc \in {"read", "wait", "collect", "drain"}
    /\ buffered > 0
    /\ output' = output + buffered
    /\ buffered' = 0
    /\ UNCHANGED <<runner, timeout, ctx, pc, process, watch, waitErr, result>>

AtEnd == holders = {} /\ buffered = 0

\* Mutant: one Read instead of reading to the end.
ReadOnce ==
    /\ pc = "read"
    /\ output > 0 \/ AtEnd
    /\ pc' = "wait"
    /\ UNCHANGED <<runner, timeout, ctx, process, buffered, output, watch, waitErr, result>>

\* The terminal has reached its end: nobody has it open any more.
ReadToEnd ==
    /\ pc = "read"
    /\ AtEnd
    /\ pc' = "wait"
    /\ UNCHANGED <<runner, timeout, ctx, process, buffered, output, watch, waitErr, result>>

\* Mutant: the wait for op ends with the context.
ReapOrGiveUp ==
    /\ pc = "wait"
    /\ op = "zombie" \/ ctx = "passed"
    /\ op' = IF op = "zombie" THEN "reaped" ELSE op
    /\ pc' = "collect"
    /\ UNCHANGED <<runner, timeout, ctx, status, holders, buffered, output, opWrote, watch,
                   waitErr, result>>

\* Mutant: a process that is still running is taken for one that ended.
ReapRunning ==
    /\ pc = "wait"
    /\ op' = "reaped"
    /\ pc' = "collect"
    /\ UNCHANGED <<runner, timeout, ctx, status, holders, buffered, output, opWrote, watch,
                   waitErr, result>>

\* cmd.Wait: the process is waited for ...
Reap ==
    /\ pc = "wait"
    /\ op = "zombie"
    /\ op' = "reaped"
    /\ pc' = "collect"
    /\ UNCHANGED <<runner, timeout, ctx, status, holders, buffered, output, opWrote, watch,
                   waitErr, result>>

\* ... then its watcher, whose kill turns a success into the context's error.
CollectWatch ==
    /\ pc = "collect"
    /\ watch' = "off"
    /\ waitErr' = IF status # "success" THEN "exit"
                  ELSE IF watch = "killed" THEN "context" ELSE "nil"
    /\ pc' = IF runner = "pty" THEN "interpret" ELSE "drain"
    /\ UNCHANGED <<runner, timeout, ctx, process, buffered, output, result>>

\* Mutant: no WaitDelay is set.
DrainToEnd ==
    /\ pc = "drain"
    /\ AtEnd
    /\ pc' = "interpret"
    /\ UNCHANGED <<runner, timeout, ctx, process, buffered, output, watch, waitErr, result>>

\* ... then the copying goroutine, for WaitDelay at most.  That is seconds, in which
\* what is in the pipe gets copied.  The Windows runner takes ErrWaitDelay for nil.
Drain ==
    /\ pc = "drain"
    /\ buffered = 0
    /\ waitErr' = IF ~AtEnd /\ waitErr = "nil" /\ runner = "probe" THEN "waitDelay" ELSE waitErr
    /\ pc' = "interpret"
    /\ UNCHANGED <<runner, timeout, ctx, process, buffered, output, watch, result>>

\* Mutant: the exit status is interpreted before the deadline is consulted.
InterpretStatusFirst ==
    /\ pc = "interpret"
    /\ runner \in Executor
    /\ result' = IF waitErr = "start" THEN "error"
                 ELSE IF waitErr = "exit" THEN "failure"
                 ELSE IF ctx = "passed" THEN "timeout" ELSE "success"
    /\ pc' = "returned"
    /\ UNCHANGED <<runner, timeout, ctx, process, buffered, output, watch, waitErr>>

\* interpretRun: a failed start, then the deadline, then the exit status.
InterpretRun ==
    /\ pc = "interpret"
    /\ runner \in Executor
    /\ result' = IF waitErr = "start" THEN "error"
                 ELSE IF ctx = "passed" THEN "timeout"
                 ELSE IF waitErr = "exit" THEN "failure"
                 ELSE IF waitErr = "nil" THEN "success" ELSE "error"
    /\ pc' = "returned"
    /\ UNCHANGED <<runner, timeout, ctx, process, buffered, output, watch, waitErr>>

\* Mutant: op has succeeded unless it exited with another status.
ClassifyLeniently ==
    /\ pc = "interpret"
    /\ runner = "probe"
    /\ result' = IF waitErr # "exit" THEN "healthy" ELSE "failed"
    /\ pc' = "returned"
    /\ UNCHANGED <<runner, timeout, ctx, process, buffered, output, watch, waitErr>>

\* probeSession and classifyFailure.  A deadline that passed in silence is a locked
\* app, provided that the account list was answered; without a deadline the text on
\* stderr decides, and "locked" in it is one as well.
ClassifyProbe ==
    /\ pc = "interpret"
    /\ runner = "probe"
    /\ result' \in IF waitErr = "nil" THEN {"healthy"}
                   ELSE IF ctx # "passed"
                   THEN {"failed"} \cup (IF output > 0 THEN {"app_locked"} ELSE {})
                   ELSE IF output = 0 THEN {"app_locked", "timeout"} ELSE {"timeout"}
    /\ pc' = "returned"
    /\ UNCHANGED <<runner, timeout, ctx, process, buffered, output, watch, waitErr>>

-----------------------------------------------------------------------------
Wait ==
    RefuseArguments \/ Begin \/ StartFails \/ StartOp \/ ReadToEnd \/ Reap
    \/ CollectWatch \/ Drain \/ InterpretRun \/ ClassifyProbe

Processes == Spawn \/ Exit \/ \E p \in {"op", "child"} : Write(p) \/ Release(p)

Next == Wait \/ Copy \/ Kill \/ DeadlinePasses \/ CallerGone \/ Processes

Spec == Init /\ [][Next]_vars

\* The goroutines run and the clock goes on; op and its child may do nothing.
FairSpec ==
    Spec /\ WF_vars(Wait) /\ WF_vars(Copy) /\ WF_vars(Kill) /\ WF_vars(DeadlinePasses)

-----------------------------------------------------------------------------
(* Properties. *)

Relayed == {"success", "failure", "healthy"}

\* op's output is complete whenever its own exit status is relayed, however op, what
\* it started and the deadline interleave; a terminal is read to its end in any case.
OutputComplete ==
    pc = "returned" => /\ result \in Relayed => output >= opWrote
                       /\ runner = "pty" => buffered = 0

\* Execute reports what happened: an exit status is op's own and never that of a
\* killed op (the "-1" interpretRun's comment warns of), and an error or a refusal
\* means that op was never started, which is what the shim's local run relies on.
ResultTrue ==
    /\ result \in {"success", "failure"} => status = result
    /\ result \in {"invalid", "error"} => op = "none"

\* "The daemon terminates op": no op outlives the run it was started for.
NoOpLeftBehind == pc = "returned" => op \in {"none", "reaped"}

\* "SessionHealthy means an authenticated read succeeded"; a locked app is told of an op
\* that has said nothing until its deadline, or that ended before it and has said something;
\* and a timeout only of one that reached its deadline.
ProbeTrue ==
    /\ result = "healthy" => status = "success"
    /\ result = "app_locked" => IF ctx = "passed" THEN opWrote = 0 ELSE output > 0
    /\ runner = "probe" /\ result = "timeout" => ctx = "passed"

\* No op runs longer than MaxTimeout, whatever timeout_ms says: too large a value is
\* limited, and one whose nanoseconds overflow starts no op or is limited as well.
NeverBeyondMax == op # "none" => timeout \in 1..MaxTimeout

\* A run that is about to start a real op starts the one that the integration check has
\* judged, whatever PATH and its directories are.
RunsTheLocatedOp == pc = "start" => LocatedIsRun

\* Every run ends, with op stopped, unless a process op has started keeps the
\* terminal open; pipes do not wait for it.
RunEnds ==
    pc = "begin" ~> (pc = "returned" \/ (runner = "pty" /\ "child" \in holders))

\* "When the clock expires, the daemon terminates op and returns exit_code 124."
DeadlineHonoured == ctx = "passed" ~> pc = "returned"

-----------------------------------------------------------------------------
(* The inductive invariant behind the safety properties. *)

Before == {"begin", "start"}
After  == {"interpret", "returned"}

\* op exists between its start and the wait that reaps it, and only a process that
\* runs writes; the terminal was read to its end before op was waited for.
ProcessInv ==
    /\ pc \in Before => op = "none"
    /\ pc \in {"read", "wait"} => op \in {"running", "zombie"}
    /\ pc \in {"collect", "drain"} => op = "reaped"
    /\ pc \in After => op \in {"none", "reaped"}
    /\ op = "none" => pc \in Before \cup After /\ holders = {} /\ buffered + output = 0
    /\ op # "running" => "op" \notin holders
    /\ pc = "read" => runner = "pty"
    /\ runner = "pty" /\ pc \in {"wait", "collect", "drain"} \cup After => AtEnd
    /\ pc \in After => buffered = 0

\* The context ends for a reason that fits the runner, and only then is op killed.
ContextInv ==
    /\ timeout <= MaxTimeout
    /\ ctx = "pending" \/ op # "none" => timeout > 0
    /\ op # "none" => ctx # "none"
    /\ runner # "probe" => ctx # "cancelled"
    /\ status = "killed" \/ watch = "killed" \/ waitErr = "context" => ctx \in {"passed", "cancelled"}
    /\ watch # "off" => op # "none"

\* What the wait returned is what became of op.
ErrorInv ==
    /\ pc \notin {"drain"} \cup After => waitErr = "none"
    /\ pc = "drain" => waitErr \in {"nil", "exit", "context"}
    /\ pc = "interpret" => waitErr # "none"
    /\ waitErr = "start" => pc \in After /\ op = "none"
    /\ pc = "interpret" /\ op = "none" => waitErr = "start"
    /\ waitErr = "nil" => status = "success"
    /\ waitErr = "exit" => status \in {"failure", "killed"}
    /\ waitErr = "waitDelay" => runner = "probe"

\* Nothing is told before the run is over.
ResultInv ==
    /\ result # "none" => pc = "returned"
    /\ ResultTrue /\ ProbeTrue

IInv == TypeOK /\ ProcessInv /\ ContextInv /\ ErrorInv /\ ResultInv
=============================================================================
