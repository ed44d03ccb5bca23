---------------------------- MODULE Orchestrator ----------------------------
(***************************************************************************)
(* Runs of the scan orchestrator.                                          *)
(*                                                                         *)
(* A run drives its lifecycle state through three concurrent phases, each  *)
(* a gather of one task per enabled check under a semaphore, and reports   *)
(* by events on the run's bus.  All runs of the dashboard share one plugin *)
(* registry, so the check objects, and the dependencies bound into them,   *)
(* are shared by the runs.                                                 *)
(*                                                                         *)
(* The tasks and the run are coroutines of one event loop: an action is    *)
(* what runs between two awaits that can suspend.  Publishing an event and *)
(* taking the evidence lock never suspend (the subscriber fills unbounded  *)
(* queues, the lock is never held across a suspension).                    *)
(***************************************************************************)
EXTENDS Integers, Sequences, FiniteSets

CONSTANTS
  Runs,            \* scans run by the orchestrator
  Checks,          \* the registry
  MaxConcurrent,   \* limits.max_concurrent_requests, at least 1
  MaxCandidates,   \* bound on the candidates one check discovers
  None             \* a check that was never bound

ASSUME OrchestratorAssumption ==
  /\ MaxConcurrent \in Nat \ {0}
  /\ MaxCandidates \in Nat \ {0}
  /\ None \notin Runs
  /\ IsFiniteSet(Checks)

VARIABLES
  st,        \* ctx.state of each run
  at,        \* what the run() coroutine waits for
  enabled,   \* _enabled_checks() of the run
  phase,     \* phase whose tasks were created last
  task,      \* the task of each check in that phase
  left,      \* candidates the task still has to process
  bound,     \* the run whose dependencies each check object holds
  found,     \* checks with a finding in ctx.findings
  finished,  \* history: SCAN_FINISHED events published
  late,      \* history: an event was published after SCAN_FINISHED
  visits     \* history: phases each check has gone through

runVars  == <<st, at, enabled, phase, bound>>
taskVars == <<task, left, found>>
hist     == <<finished, late, visits>>
orchVars == <<runVars, taskVars, hist>>

ScanState == {"initialized", "discovering", "discovery_complete", "checking",
              "validating", "reporting", "completed", "failed"}

(* _ALLOWED without "aborted", which nothing asks for. *)
Allowed ==
  [initialized        |-> {"discovering", "failed"},
   discovering        |-> {"discovery_complete", "failed"},
   discovery_complete |-> {"checking", "failed"},
   checking           |-> {"validating", "reporting", "failed"},
   validating         |-> {"reporting", "failed"},
   reporting          |-> {"completed", "failed"},
   completed          |-> {},
   failed             |-> {}]

(* Where run() is: not started, in mapper.build(), in gather(), in         *)
(* HttpClient.__aexit__, or ended in one of three ways.                    *)
Ended == {"returned", "raised", "cancelled"}
Place == {"idle", "build", "gather", "closing"} \cup Ended

Active  == {"discover", "validate", "collect", "assess"}
TaskPos == Active \cup {"none", "waiting", "done", "raised"}

Busy(r)   == {c \in Checks : task[r][c] \in Active}
Fresh(E)  == [c \in Checks |-> IF c \in E THEN "waiting" ELSE "none"]
Cleared   == [c \in Checks |-> 0]

(* Faulty forms of the operators below. *)
GatheredAny(r)      == \E c \in enabled[r] : task[r][c] = "done"
FinishedNever(r)    == finished

(* async with self._sem *)
Admits(r) == Cardinality(Busy(r)) < MaxConcurrent

(* gather() without return_exceptions: the first exception ends it, the    *)
(* other tasks go on; otherwise it waits for all of them.                  *)
GatherRaises(r)  == \E c \in enabled[r] : task[r][c] = "raised"
Gathered(r)      == \A c \in enabled[r] : task[r][c] = "done"

(* The states a run passes through when the gather of a phase is over.     *)
Transitions(p) ==
  CASE p = 1 -> <<"discovery_complete", "checking">>
    [] p = 2 -> <<"validating">>
    [] p = 3 -> <<"reporting", "completed">>

(* _bind_all_checks: bind replaces what the check object held. *)
Bind(r, E) == [c \in Checks |-> IF c \in E THEN r ELSE bound[c]]

(* Events of the run: any, or the final SCAN_FINISHED. *)
Emit(r)     == late' = [late EXCEPT ![r] = @ \/ finished[r] > 0]
Finishes(r) == [finished EXCEPT ![r] = @ + 1]

Init ==
  /\ st = [r \in Runs |-> "initialized"]
  /\ at = [r \in Runs |-> "idle"]
  /\ enabled = [r \in Runs |-> {}]
  /\ phase = [r \in Runs |-> 0]
  /\ task = [r \in Runs |-> Fresh({})]
  /\ left = [r \in Runs |-> Cleared]
  /\ bound = [c \in Checks |-> None]
  /\ found = [r \in Runs |-> {}]
  /\ finished = [r \in Runs |-> 0]
  /\ late = [r \in Runs |-> FALSE]
  /\ visits = [r \in Runs |-> Cleared]

-----------------------------------------------------------------------------
(* The run() coroutine *)

(* Construction binds the checks; then SCAN_STARTED, DISCOVERING and the   *)
(* attack surface mapper.                                                  *)
Start(r) ==
  /\ at[r] = "idle"
  /\ \E E \in SUBSET Checks :
       /\ enabled' = [enabled EXCEPT ![r] = E]
       /\ bound' = Bind(r, E)
  /\ st' = [st EXCEPT ![r] = "discovering"]
  /\ at' = [at EXCEPT ![r] = "build"]
  /\ Emit(r)
  /\ UNCHANGED <<phase, taskVars, finished, visits>>

(* Tasks of phase p are created, unless no check is enabled: then the run  *)
(* goes through its remaining phases without suspending.                   *)
Enter(r, p) ==
  /\ Emit(r)
  /\ IF p > 3 \/ enabled[r] = {}
     THEN /\ st' = [st EXCEPT ![r] = "completed"]
          /\ at' = [at EXCEPT ![r] = "closing"]
          /\ finished' = Finishes(r)
          /\ UNCHANGED <<phase, task>>
     ELSE /\ st' = [st EXCEPT ![r] = IF p = 1 THEN @
                       ELSE Transitions(p - 1)[Len(Transitions(p - 1))]]
          /\ at' = [at EXCEPT ![r] = "gather"]
          /\ phase' = [phase EXCEPT ![r] = p]
          /\ task' = [task EXCEPT ![r] = Fresh(enabled[r])]
          /\ UNCHANGED finished

(* A model that cannot be built is reported as an ERROR and the run goes   *)
(* on; one that can is bound into the checks again.                        *)
Build(r, ok) ==
  /\ at[r] = "build"
  /\ bound' = IF ok THEN Bind(r, enabled[r]) ELSE bound
  /\ Enter(r, 1)
  /\ UNCHANGED <<enabled, left, found, visits>>

PhaseEnds(r) ==
  /\ at[r] = "gather"
  /\ ~GatherRaises(r) /\ Gathered(r)
  /\ Enter(r, phase[r] + 1)
  /\ UNCHANGED <<enabled, bound, left, found, visits>>

(* FAILED, ERROR, SCAN_FINISHED; the tasks that are still there go on.     *)
RunFails(r) ==
  /\ at[r] = "gather"
  /\ GatherRaises(r)
  /\ st' = [st EXCEPT ![r] = "failed"]
  /\ at' = [at EXCEPT ![r] = "closing"]
  /\ Emit(r)
  /\ finished' = Finishes(r)
  /\ UNCHANGED <<enabled, phase, bound, taskVars, visits>>

Closed(r) ==
  /\ at[r] = "closing"
  /\ at' = [at EXCEPT ![r] = IF st[r] = "failed" THEN "raised" ELSE "returned"]
  /\ UNCHANGED <<st, enabled, phase, bound, taskVars, hist>>

(* The producer task is cancelled.  A gather that waits cancels its tasks; *)
(* one that already has its exception leaves them.  CancelledError is not  *)
(* an Exception: no transition, no event.                                  *)
Cancel(r) ==
  /\ at[r] \in {"build", "gather", "closing"}
  /\ at' = [at EXCEPT ![r] = "cancelled"]
  /\ task' = IF at[r] = "gather" /\ ~GatherRaises(r)
             THEN [task EXCEPT ![r] = Fresh({})] ELSE task
  /\ UNCHANGED <<st, enabled, phase, bound, left, found, hist>>

-----------------------------------------------------------------------------
(* The task of check c in the current phase of run r *)

Goes(r, c, pos) == task' = [task EXCEPT ![r][c] = pos]
Ends(r, c) ==
  /\ Goes(r, c, "done")
  /\ visits' = [visits EXCEPT ![r][c] = @ + 1]

(* The semaphore is taken; in phase 2 CHECK_STARTED is published. *)
Acquire(r, c) ==
  /\ task[r][c] = "waiting"
  /\ Admits(r)
  /\ Goes(r, c, "discover")
  /\ IF phase[r] = 2 THEN Emit(r) ELSE UNCHANGED late
  /\ UNCHANGED <<runVars, left, found, finished, visits>>

(* discover() returns in phase 1 or 2, or is not implemented. *)
Discovered(r, c) ==
  /\ task[r][c] = "discover"
  /\ phase[r] < 3
  /\ Ends(r, c)
  /\ IF phase[r] = 2 THEN Emit(r) ELSE UNCHANGED late
  /\ UNCHANGED <<runVars, left, found, finished>>

(* In phase 3 the candidates it returns are validated one by one. *)
Candidates(r, c) ==
  /\ task[r][c] = "discover"
  /\ phase[r] = 3
  /\ \E n \in 0..MaxCandidates :
       /\ left' = [left EXCEPT ![r][c] = n]
       /\ IF n = 0 THEN Ends(r, c) /\ UNCHANGED late
                   ELSE Goes(r, c, "validate") /\ Emit(r) /\ UNCHANGED visits
  /\ UNCHANGED <<runVars, found, finished>>

(* On to the next candidate, whose validation is announced. *)
NextCandidate(r, c) ==
  /\ left' = [left EXCEPT ![r][c] = @ - 1]
  /\ IF left[r][c] = 1 THEN Ends(r, c) ELSE Goes(r, c, "validate") /\ UNCHANGED visits

(* validate() returns; a false positive is dropped. *)
Validated(r, c) ==
  /\ task[r][c] = "validate"
  /\ Emit(r)
  /\ \/ NextCandidate(r, c)
     \/ Goes(r, c, "collect") /\ UNCHANGED <<left, visits>>
  /\ UNCHANGED <<runVars, found, finished>>

(* collect_evidence() returns; the evidence is stored and announced. *)
Collected(r, c) ==
  /\ task[r][c] = "collect"
  /\ Goes(r, c, "assess")
  /\ Emit(r)
  /\ UNCHANGED <<runVars, left, found, finished, visits>>

(* assess() returns nothing, or a finding that is registered. *)
Assessed(r, c, finding) ==
  /\ task[r][c] = "assess"
  /\ NextCandidate(r, c)
  /\ found' = IF finding THEN [found EXCEPT ![r] = @ \cup {c}] ELSE found
  /\ Emit(r)
  /\ UNCHANGED <<runVars, finished>>

(* The check raises (or its client does): nothing catches it in the task.  *)
Raises(r, c) ==
  /\ task[r][c] \in Active
  /\ Goes(r, c, "raised")
  /\ UNCHANGED <<runVars, left, found, hist>>

-----------------------------------------------------------------------------

TaskStep(r, c) ==
  \/ Acquire(r, c) \/ Discovered(r, c) \/ Candidates(r, c)
  \/ Validated(r, c) \/ Collected(r, c)
  \/ \E finding \in BOOLEAN : Assessed(r, c, finding)

RunStep(r) ==
  \/ \E ok \in BOOLEAN : Build(r, ok)
  \/ PhaseEnds(r) \/ RunFails(r) \/ Closed(r)

Next ==
  \E r \in Runs :
    \/ Start(r) \/ RunStep(r) \/ Cancel(r)
    \/ \E c \in Checks : TaskStep(r, c) \/ Raises(r, c)

Spec == Init /\ [][Next]_orchVars

-----------------------------------------------------------------------------
(* Properties *)

TypeOK ==
  /\ st \in [Runs -> ScanState]
  /\ at \in [Runs -> Place]
  /\ enabled \in [Runs -> SUBSET Checks]
  /\ phase \in [Runs -> 0..3]
  /\ task \in [Runs -> [Checks -> TaskPos]]
  /\ left \in [Runs -> [Checks -> 0..MaxCandidates]]
  /\ bound \in [Checks -> Runs \cup {None}]
  /\ found \in [Runs -> SUBSET Checks]
  /\ finished \in [Runs -> 0..1]
  /\ late \in [Runs -> BOOLEAN]
  /\ visits \in [Runs -> [Checks -> 0..3]]

(* At most max_concurrent_requests checks of a run are between the awaits  *)
(* of their phase, the tasks left behind by a failed phase included.       *)
SemaphoreBound == \A r \in Runs : Cardinality(Busy(r)) <= MaxConcurrent

(* The lifecycle never refuses what the run asks for: wherever a phase may *)
(* end, each transition it will make, and FAILED, is in _ALLOWED.  A       *)
(* refused one would raise inside the except clause and lose the           *)
(* SCAN_FINISHED event.                                                    *)
LifecycleNeverRefuses ==
  \A r \in Runs : at[r] = "gather" =>
    LET path == <<st[r]>> \o (IF phase[r] \in 1..3 THEN Transitions(phase[r]) ELSE <<>>)
    IN /\ "failed" \in Allowed[st[r]]
       /\ \A i \in 1..(Len(path) - 1) : path[i + 1] \in Allowed[path[i]]

(* A phase is a barrier: the tasks of a phase exist only when every        *)
(* enabled check has gone through the phases before it, and a completed    *)
(* run has taken every enabled check through all three.                    *)
PhaseBarrier ==
  \A r \in Runs : \A c \in enabled[r] :
    /\ phase[r] > 0 => visits[r][c] \in {phase[r] - 1, phase[r]}
    /\ st[r] = "completed" => visits[r][c] = 3 /\ task[r][c] = "done"

(* Checks of one phase run side by side within the semaphore, and none of  *)
(* them overlaps a phase it does not belong to (orchestrator.py:295).      *)
PhaseDiscipline == PhaseBarrier /\ SemaphoreBound

(* A run that returns or raises has published exactly one SCAN_FINISHED;   *)
(* one that was cancelled at most one.                                     *)
FinishedOnce ==
  \A r \in Runs :
    /\ at[r] \in {"closing", "returned", "raised"} => finished[r] = 1
    /\ at[r] \in {"idle", "build", "gather"} => finished[r] = 0
    /\ finished[r] <= 1

(* Every way out of run() announces the end of the scan exactly once, and  *)
(* no state the lifecycle is left in can refuse the step that leads there  *)
(* (orchestrator.py run, lifecycle.py transition).                         *)
OneFinish == LifecycleNeverRefuses /\ FinishedOnce

(* After a run that completed nothing of it is left: no task still sends   *)
(* requests, and SCAN_FINISHED was its last event.                         *)
QuietAfterSuccess ==
  \A r \in Runs : at[r] = "returned" => Busy(r) = {} /\ ~late[r]

(* A started run comes to an end. *)
RunTerminates == \A r \in Runs : at[r] = "build" ~> at[r] \in Ended

(* A check works with the client and scope of the run it works for. *)
OwnClient == \A r \in Runs, c \in Checks : task[r][c] \in Active => bound[c] = r

=============================================================================
