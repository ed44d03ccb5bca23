---------------------------- MODULE EngineProofs ----------------------------
(***************************************************************************)
(* Proofs about the orchestrator's run and about one scan end to end.      *)
(*                                                                         *)
(* OrchInv says, for every place run() can be in, which lifecycle state,   *)
(* phase and event history go with it (Placed), and for every check what   *)
(* its task, its candidates and its visits say of the phase (Fits).  It is *)
(* inductive for Next, so it holds of every scan, whose steps are steps of *)
(* Next or leave the run alone.                                            *)
(***************************************************************************)
EXTENDS ScanEngine, TLAPS, FiniteSetTheorems

(* The lifecycle state while the tasks of phase p are gathered. *)
PhaseState(p) ==
  CASE p = 1 -> "discovering"
    [] p = 2 -> "checking"
    [] p = 3 -> "validating"

Raised(r) == \E c \in enabled[r] : task[r][c] = "raised"
Quiet(r)  == \A c \in Checks : task[r][c] \in {"none", "done", "raised"}

Placed(r) ==
  /\ at[r] = "idle" => st[r] = "initialized" /\ phase[r] = 0
  /\ at[r] = "build" => st[r] = "discovering" /\ phase[r] = 0
  /\ at[r] = "gather" => phase[r] \in 1..3 /\ st[r] = PhaseState(phase[r])
  /\ at[r] = "closing" => st[r] \in {"completed", "failed"}
  /\ at[r] = "returned" => st[r] = "completed"
  /\ at[r] = "raised" => st[r] = "failed"
  /\ at[r] = "cancelled" => Quiet(r) \/ Raised(r)
  /\ finished[r] = IF st[r] \in {"completed", "failed"} THEN 1 ELSE 0
  /\ late[r] => st[r] = "failed"
  /\ st[r] = "failed" => Raised(r)

(* The task of a check, its visits and its candidates in the run's phase.  *)
Fits(r, c) ==
  /\ c \notin enabled[r] => task[r][c] = "none"
  /\ phase[r] = 0 => task[r][c] = "none" /\ visits[r][c] = 0
  /\ task[r][c] = "done" => visits[r][c] = phase[r]
  /\ task[r][c] \in Active \cup {"waiting", "raised"} => visits[r][c] = phase[r] - 1
  /\ c \in enabled[r] /\ phase[r] > 0 /\ task[r][c] = "none" =>
       at[r] = "cancelled" /\ visits[r][c] \in {phase[r] - 1, phase[r]}
  /\ st[r] = "completed" /\ c \in enabled[r] => task[r][c] = "done" /\ visits[r][c] = 3
  /\ task[r][c] \in {"validate", "collect", "assess"} => left[r][c] > 0

AllPlaced == \A r \in Runs : Placed(r)
AllFit    == \A r \in Runs : \A c \in Checks : Fits(r, c)

OrchInv == TypeOK /\ AllPlaced /\ AllFit /\ SemaphoreBound

-----------------------------------------------------------------------------
(* EngineInv adds what the producer, the queue and the driver know.        *)

Stored(r) == rows[r] = found[r] \/ faults[r]

(* The places of a run whose scan is reported failed with a text. *)
Broken(r) == at[r] \in {"idle", "raised"}

(* Where the run is when the producer is at each of its places. *)
Produces(r) ==
  /\ cons[r] = "off" <=> prod[r] = "off"
  /\ prod[r] \in {"off", "created"} => at[r] = "idle"
  /\ prod[r] = "run" => at[r] \in {"build", "gather", "closing"}
  /\ prod[r] \in {"findings", "evidence"} => at[r] = "returned"
  /\ prod[r] = "evidence" => Stored(r)
  /\ prod[r] = "done" => at[r] \in Ended \cup {"idle"}
  /\ cons[r] = "done" => prod[r] = "done"

(* Before the producer's last step no end has been put, nor been seen. *)
Open(r) ==
  /\ \A i \in DOMAIN queue[r] : queue[r][i] \notin {None, "failed", "completed"}
  /\ err[r] # "text"

(* What the queue holds around the sentinel. *)
Closes(r, i) ==
  /\ i > 1 => queue[r][i - 1] \in {"failed", "completed"}
  /\ \A j \in DOMAIN queue[r] : j > i => queue[r][j] = "check" /\ at[r] = "raised"

Queues(r) ==
  /\ prod[r] # "done" => Open(r)
  /\ \A i \in DOMAIN queue[r] : queue[r][i] = None => Closes(r, i) /\ at[r] # "cancelled"
  /\ \A i \in DOMAIN queue[r] : queue[r][i] \in {"failed", "completed"} =>
       i + 1 \in DOMAIN queue[r] /\ queue[r][i + 1] = None
  /\ prod[r] = "done" /\ cons[r] = "get" => \E i \in DOMAIN queue[r] : queue[r][i] = None

(* The last event before the sentinel says what became of the run, in the  *)
(* queue and when the driver has taken it.                                 *)
Sums(r) ==
  /\ \A i \in DOMAIN queue[r] :
       /\ queue[r][i] = "completed" => at[r] = "returned" /\ Stored(r)
       /\ queue[r][i] = "failed" => Broken(r)
  /\ err[r] = "text" => Broken(r)
  /\ cons[r] = "get" /\ 1 \in DOMAIN queue[r] /\ queue[r][1] = None =>
       \/ err[r] = "text"
       \/ at[r] = "returned" /\ Stored(r) /\ dir[r]

Concludes(r) ==
  /\ verdict[r] # "none" => cons[r] = "done"
  /\ verdict[r] = "completed" => at[r] = "returned" /\ Stored(r) /\ dir[r]
  /\ verdict[r] = "failed" => Broken(r)
  /\ verdict[r] = "unwritten" => at[r] = "returned"

Scan(r) == Produces(r) /\ Queues(r) /\ Sums(r) /\ Concludes(r)

EngineInv ==
  /\ OrchInv
  /\ EngineTypeOK
  /\ \A r \in Runs : Scan(r)

-----------------------------------------------------------------------------
(* The orchestrator's run *)

(* What a run has under way can be counted. *)
LEMMA BusyFinite == ASSUME NEW r \in Runs PROVE IsFiniteSet(Busy(r))
  BY OrchestratorAssumption, FS_Subset DEF Busy

(* A step after which no task is active that was not before keeps the      *)
(* semaphore's bound.                                                      *)
LEMMA BusyShrinks ==
  ASSUME SemaphoreBound, \A q \in Runs : Busy(q)' \subseteq Busy(q)
  PROVE  SemaphoreBound'
<1> SUFFICES ASSUME NEW q \in Runs PROVE Cardinality(Busy(q)') <= MaxConcurrent
  BY DEF SemaphoreBound
<1>1. IsFiniteSet(Busy(q)) BY BusyFinite
<1>2. Cardinality(Busy(q)') <= Cardinality(Busy(q)) BY <1>1, FS_Subset
<1>3. Cardinality(Busy(q)') \in Nat /\ Cardinality(Busy(q)) \in Nat
  BY <1>1, FS_Subset, FS_CardinalityType
<1>4. Cardinality(Busy(q)) <= MaxConcurrent BY DEF SemaphoreBound
<1> QED BY <1>2, <1>3, <1>4, OrchestratorAssumption

(* Nothing runs yet. *)
LEMMA InitOrchInv == Init => OrchInv
<1> SUFFICES ASSUME Init PROVE OrchInv OBVIOUS
<1>1. TypeOK BY OrchestratorAssumption DEF Init, TypeOK, ScanState, Place, TaskPos, Fresh, Cleared
<1>2. AllPlaced BY DEF Init, AllPlaced, Placed
<1>3. AllFit BY DEF Init, AllFit, Fits, Fresh, Cleared, Active
<1>4. SemaphoreBound
  <2>1. \A r \in Runs : Busy(r) = {} BY DEF Init, Busy, Fresh, Active
  <2> QED BY <2>1, FS_EmptySet, OrchestratorAssumption DEF SemaphoreBound
<1> QED BY <1>1, <1>2, <1>3, <1>4 DEF OrchInv

(* A new run has none of the scans, and no permits, of another. *)
LEMMA StartOrchInv ==
  ASSUME OrchInv, NEW r \in Runs, Start(r)
  PROVE  OrchInv'
<1> USE DEF OrchInv, Start, taskVars, Emit
<1>1. TypeOK'
  BY DEF TypeOK, ScanState, Place, Bind
<1>2. AllPlaced'
  <2> SUFFICES ASSUME NEW q \in Runs PROVE Placed(q)' BY DEF AllPlaced
  <2>1. Placed(q) /\ Placed(r) BY DEF AllPlaced
  <2>2. CASE q = r BY <2>1, <2>2 DEF TypeOK, Placed
  <2>3. CASE q # r BY <2>1, <2>3 DEF TypeOK, Placed, Quiet, Raised
  <2> QED BY <2>2, <2>3
<1>3. AllFit'
  BY DEF TypeOK, AllPlaced, Placed, AllFit, Fits, Active
<1>4. SemaphoreBound'
  BY BusyShrinks DEF Busy
<1> QED BY <1>1, <1>2, <1>3, <1>4

(* Entering phase p, when every enabled check has gone through the phases  *)
(* before it and no event has ended the run.                               *)
LEMMA EnterOrchInv ==
  ASSUME OrchInv, NEW r \in Runs, NEW p \in 1..4, Enter(r, p),
         at[r] \in {"build", "gather"}, p = phase[r] + 1,
         Gathered(r) \/ phase[r] = 0,
         bound' \in [Checks -> Runs \cup {None}],
         UNCHANGED <<enabled, left, found, visits>>
  PROVE  OrchInv'
<1> USE DEF OrchInv, Enter, Emit
<1>1. Placed(r) BY DEF AllPlaced
<1>2. st[r] \in {"discovering", "checking", "validating"}
  <2>1. CASE at[r] = "build" BY <1>1, <2>1 DEF Placed
  <2>2. CASE at[r] = "gather" BY <1>1, <2>2 DEF Placed, PhaseState
  <2> QED BY <2>1, <2>2
<1>3. finished[r] = 0 /\ late[r] = FALSE
  BY <1>1, <1>2 DEF Placed, TypeOK
<1>4. late' = late
  BY <1>3 DEF TypeOK
<1>5. CASE p > 3 \/ enabled[r] = {}
  <2>1. /\ st' = [st EXCEPT ![r] = "completed"]
        /\ at' = [at EXCEPT ![r] = "closing"]
        /\ finished' = [finished EXCEPT ![r] = 1]
        /\ UNCHANGED <<phase, task>>
    BY <1>3, <1>5 DEF Finishes, TypeOK
  <2>2. TypeOK'
    BY <1>4, <2>1 DEF TypeOK, ScanState, Place
  <2>3. AllPlaced'
    <3> SUFFICES ASSUME NEW q \in Runs PROVE Placed(q)' BY DEF AllPlaced
    <3>1. CASE q = r BY <1>3, <1>4, <2>1, <3>1 DEF TypeOK, Placed
    <3>2. CASE q # r BY <1>4, <2>1, <3>2 DEF TypeOK, AllPlaced, Placed, Quiet, Raised
    <3> QED BY <3>1, <3>2
  <2>4. AllFit'
    <3> SUFFICES ASSUME NEW q \in Runs, NEW c \in Checks PROVE Fits(q, c)' BY DEF AllFit
    <3>1. Fits(q, c) BY DEF AllFit
    <3>2. CASE q = r
      <4>1. c \in enabled[r] => phase[r] = 3 /\ task[r][c] = "done"
        BY <1>5, <3>1, <3>2 DEF Gathered, TypeOK
      <4> QED BY <2>1, <3>1, <3>2, <4>1 DEF Fits, TypeOK
    <3>3. CASE q # r BY <2>1, <3>1, <3>3 DEF Fits, TypeOK
    <3> QED BY <3>2, <3>3
  <2>5. SemaphoreBound' BY <2>1, BusyShrinks DEF Busy
  <2> QED BY <2>2, <2>3, <2>4, <2>5
<1>6. CASE ~(p > 3 \/ enabled[r] = {})
  <2>1. /\ p \in 1..3
        /\ at' = [at EXCEPT ![r] = "gather"]
        /\ phase' = [phase EXCEPT ![r] = p]
        /\ task' = [task EXCEPT ![r] = Fresh(enabled[r])]
        /\ UNCHANGED finished
    BY <1>6
  <2>2. st' = [st EXCEPT ![r] = PhaseState(p)]
    <3>1. CASE p = 1
      <4>1. st[r] = PhaseState(1) BY <3>1, <1>1 DEF Placed, PhaseState, TypeOK
      <4> QED BY <1>6, <3>1, <4>1
    <3>2. CASE p = 2 BY <1>6, <3>2 DEF Transitions, PhaseState
    <3>3. CASE p = 3 BY <1>6, <3>3 DEF Transitions, PhaseState
    <3> QED BY <2>1, <3>1, <3>2, <3>3
  <2>3. PhaseState(p) \in {"discovering", "checking", "validating"}
    BY <2>1 DEF PhaseState
  <2>4. TypeOK'
    BY <1>4, <2>1, <2>2, <2>3 DEF TypeOK, ScanState, Place, Fresh, TaskPos
  <2>5. AllPlaced'
    <3> SUFFICES ASSUME NEW q \in Runs PROVE Placed(q)' BY DEF AllPlaced
    <3>1. CASE q = r BY <1>3, <1>4, <2>1, <2>2, <2>3, <3>1 DEF TypeOK, Placed
    <3>2. CASE q # r BY <1>4, <2>1, <2>2, <3>2 DEF TypeOK, AllPlaced, Placed, Quiet, Raised
    <3> QED BY <3>1, <3>2
  <2>6. AllFit'
    <3> SUFFICES ASSUME NEW q \in Runs, NEW c \in Checks PROVE Fits(q, c)' BY DEF AllFit
    <3>1. Fits(q, c) BY DEF AllFit
    <3>2. CASE q = r
      <4>1. c \in enabled[r] => visits[r][c] = p - 1
        <5>1. phase[r] = p - 1
          <6>1. phase[r] \in 0..3 BY DEF TypeOK
          <6> QED BY <6>1
        <5>2. CASE phase[r] = 0 BY <3>1, <3>2, <5>1, <5>2 DEF Fits
        <5>3. CASE Gathered(r) BY <3>1, <3>2, <5>1, <5>3 DEF Fits, Gathered
        <5> QED BY <5>2, <5>3
      <4>2. task'[r][c] = IF c \in enabled[r] THEN "waiting" ELSE "none"
        BY <2>1 DEF Fresh, TypeOK
      <4>3. phase'[r] = p /\ st'[r] # "completed"
        BY <2>1, <2>2, <2>3 DEF TypeOK
      <4> QED BY <2>1, <3>1, <3>2, <4>1, <4>2, <4>3 DEF Fits, TypeOK, Active
    <3>3. CASE q # r BY <2>1, <2>2, <3>1, <3>3 DEF Fits, TypeOK
    <3> QED BY <3>2, <3>3
  <2>7. SemaphoreBound'
    <3>1. \A q \in Runs : Busy(q)' \subseteq Busy(q)
      <4> SUFFICES ASSUME NEW q \in Runs, NEW c \in Busy(q)' PROVE c \in Busy(q) OBVIOUS
      <4>1. CASE q = r BY <2>1, <4>1 DEF Busy, Fresh, Active, TypeOK
      <4>2. CASE q # r BY <2>1, <4>2 DEF Busy, TypeOK
      <4> QED BY <4>1, <4>2
    <3> QED BY <3>1, BusyShrinks
  <2> QED BY <2>4, <2>5, <2>6, <2>7
<1> QED BY <1>5, <1>6

(* The registry is built and the run enters its first phase, or fails. *)
LEMMA BuildOrchInv ==
  ASSUME OrchInv, NEW r \in Runs, NEW ok \in BOOLEAN, Build(r, ok)
  PROVE  OrchInv'
<1>1. Placed(r) BY DEF OrchInv, AllPlaced
<1>2. phase[r] = 0 /\ at[r] = "build" BY <1>1 DEF Build, Placed
<1>3. bound' \in [Checks -> Runs \cup {None}] BY DEF Build, Bind, OrchInv, TypeOK
<1>4. Enter(r, 1) /\ UNCHANGED <<enabled, left, found, visits>> BY DEF Build
<1> QED BY <1>2, <1>3, <1>4, EnterOrchInv

(* A phase ends when none of its tasks is left. *)
LEMMA PhaseEndsOrchInv ==
  ASSUME OrchInv, NEW r \in Runs, PhaseEnds(r)
  PROVE  OrchInv'
<1>1. Placed(r) BY DEF OrchInv, AllPlaced
<1>2. at[r] = "gather" /\ phase[r] \in 1..3 /\ Gathered(r) BY <1>1 DEF PhaseEnds, Placed
<1>3. bound' \in [Checks -> Runs \cup {None}] BY DEF PhaseEnds, OrchInv, TypeOK
<1>4. Enter(r, phase[r] + 1) /\ UNCHANGED <<enabled, left, found, visits>> BY DEF PhaseEnds
<1>5. phase[r] + 1 \in 1..4 BY <1>2
<1> QED BY <1>2, <1>3, <1>4, <1>5, EnterOrchInv

(* A run that fails, is closed or is cancelled: only the run's own place,  *)
(* lifecycle and history change, and its tasks are kept or all dropped.    *)
LEMMA RunFailsOrchInv ==
  ASSUME OrchInv, NEW r \in Runs, RunFails(r)
  PROVE  OrchInv'
<1> USE DEF OrchInv, RunFails, taskVars
<1>1. Placed(r) /\ Raised(r) BY DEF AllPlaced, GatherRaises, Raised
<1>2. st[r] \in {"discovering", "checking", "validating"}
  BY <1>1 DEF Placed, PhaseState
<1>3. finished[r] = 0 /\ late' = late
  BY <1>1, <1>2 DEF Placed, TypeOK, Emit
<1>4. finished' = [finished EXCEPT ![r] = 1]
  BY <1>3 DEF TypeOK, Finishes
<1>5. TypeOK' BY <1>3, <1>4 DEF TypeOK, ScanState, Place
<1>6. AllPlaced'
  <2> SUFFICES ASSUME NEW q \in Runs PROVE Placed(q)' BY DEF AllPlaced
  <2>1. Placed(q) BY DEF AllPlaced
  <2>2. CASE q = r BY <1>1, <1>3, <1>4, <2>2 DEF TypeOK, Placed, Raised
  <2>3. CASE q # r BY <1>3, <1>4, <2>1, <2>3 DEF TypeOK, Placed, Quiet, Raised
  <2> QED BY <2>2, <2>3
<1>7. AllFit'
  <2> SUFFICES ASSUME NEW q \in Runs, NEW c \in Checks PROVE Fits(q, c)' BY DEF AllFit
  <2>1. Fits(q, c) BY DEF AllFit
  <2>2. CASE q = r BY <1>1, <2>1, <2>2 DEF TypeOK, Fits
  <2>3. CASE q # r BY <2>1, <2>3 DEF TypeOK, Fits
  <2> QED BY <2>2, <2>3
<1>8. SemaphoreBound' BY BusyShrinks DEF Busy
<1> QED BY <1>5, <1>6, <1>7, <1>8

(* The http client is closed once, after the last phase. *)
LEMMA ClosedOrchInv ==
  ASSUME OrchInv, NEW r \in Runs, Closed(r)
  PROVE  OrchInv'
<1> USE DEF OrchInv, Closed, taskVars, hist
<1>1. TypeOK' BY DEF TypeOK, Place, Ended
<1>2. AllPlaced'
  <2> SUFFICES ASSUME NEW q \in Runs PROVE Placed(q)' BY DEF AllPlaced
  <2>1. Placed(q) BY DEF AllPlaced
  <2>2. CASE q = r BY <2>1, <2>2 DEF TypeOK, Placed, Raised
  <2>3. CASE q # r BY <2>1, <2>3 DEF TypeOK, Placed, Quiet, Raised
  <2> QED BY <2>2, <2>3
<1>3. AllFit'
  <2> SUFFICES ASSUME NEW q \in Runs, NEW c \in Checks PROVE Fits(q, c)' BY DEF AllFit
  <2>1. Fits(q, c) BY DEF AllFit
  <2>2. at[q] = "cancelled" => at'[q] = "cancelled" BY DEF TypeOK
  <2> QED BY <2>1, <2>2 DEF Fits
<1>4. SemaphoreBound' BY BusyShrinks DEF Busy
<1> QED BY <1>1, <1>2, <1>3, <1>4

(* Cancelled tasks leave, and what they had counted stays. *)
LEMMA CancelOrchInv ==
  ASSUME OrchInv, NEW r \in Runs, Cancel(r)
  PROVE  OrchInv'
<1> USE DEF OrchInv, Cancel, hist
<1>1. TypeOK' BY DEF TypeOK, Place, Ended, Fresh, TaskPos
<1>2. \A q \in Runs : q # r => at'[q] = at[q] /\ task'[q] = task[q]
  BY DEF TypeOK
<1>3. at'[r] = "cancelled" BY DEF TypeOK
<1>4. CASE at[r] = "gather" /\ ~GatherRaises(r)
  <2>1. \A c \in Checks : task'[r][c] = "none" BY <1>4 DEF TypeOK, Fresh
  <2>2. st[r] \in {"discovering", "checking", "validating"}
    BY <1>4 DEF AllPlaced, Placed, PhaseState
  <2>3. AllPlaced'
    <3> SUFFICES ASSUME NEW q \in Runs PROVE Placed(q)' BY DEF AllPlaced
    <3>1. Placed(q) BY DEF AllPlaced
    <3>2. CASE q = r BY <1>3, <2>1, <2>2, <3>1, <3>2 DEF Placed, Quiet
    <3>3. CASE q # r BY <1>2, <3>1, <3>3 DEF Placed, Quiet, Raised
    <3> QED BY <3>2, <3>3
  <2>4. AllFit'
    <3> SUFFICES ASSUME NEW q \in Runs, NEW c \in Checks PROVE Fits(q, c)' BY DEF AllFit
    <3>1. Fits(q, c) BY DEF AllFit
    <3>2. CASE q = r
      <4>1. task[r][c] \in TaskPos /\ phase[r] \in 1..3
        BY <1>4 DEF TypeOK, AllPlaced, Placed
      <4>2. c \in enabled[r] => visits[r][c] \in {phase[r] - 1, phase[r]}
        BY <1>4, <3>1, <3>2, <4>1 DEF Fits, TaskPos
      <4> QED BY <1>3, <2>1, <2>2, <3>1, <3>2, <4>1, <4>2 DEF Fits, Active
    <3>3. CASE q # r BY <1>2, <3>1, <3>3 DEF Fits
    <3> QED BY <3>2, <3>3
  <2>5. SemaphoreBound'
    <3>1. \A q \in Runs : Busy(q)' \subseteq Busy(q)
      BY <1>2, <2>1 DEF Busy, Active
    <3> QED BY <3>1, BusyShrinks
  <2> QED BY <1>1, <2>3, <2>4, <2>5
<1>5. CASE ~(at[r] = "gather" /\ ~GatherRaises(r))
  <2>1. task' = task BY <1>5
  <2>2. Quiet(r) \/ Raised(r)
    <3>1. Placed(r) /\ \A c \in Checks : Fits(r, c) BY DEF AllPlaced, AllFit
    <3>2. CASE at[r] = "gather" BY <1>5, <3>2 DEF GatherRaises, Raised
    <3>3. CASE at[r] = "build" BY <3>1, <3>3 DEF Placed, Fits, Quiet
    <3>4. CASE at[r] = "closing" /\ st[r] = "completed"
      BY <3>1, <3>4 DEF Fits, Quiet
    <3>5. CASE at[r] = "closing" /\ st[r] = "failed" BY <3>1, <3>5 DEF Placed
    <3> QED BY <3>1, <3>2, <3>3, <3>4, <3>5 DEF Placed
  <2>3. AllPlaced'
    <3> SUFFICES ASSUME NEW q \in Runs PROVE Placed(q)' BY DEF AllPlaced
    <3>1. Placed(q) BY DEF AllPlaced
    <3>2. CASE q = r BY <1>3, <2>1, <2>2, <3>1, <3>2 DEF Placed, Quiet, Raised
    <3>3. CASE q # r BY <1>2, <3>1, <3>3 DEF Placed, Quiet, Raised
    <3> QED BY <3>2, <3>3
  <2>4. AllFit'
    <3> SUFFICES ASSUME NEW q \in Runs, NEW c \in Checks PROVE Fits(q, c)' BY DEF AllFit
    <3>1. Fits(q, c) BY DEF AllFit
    <3>2. at[q] = "cancelled" => at'[q] = "cancelled" BY <1>2, <1>3
    <3> QED BY <2>1, <3>1, <3>2 DEF Fits
  <2>5. SemaphoreBound' BY <2>1, BusyShrinks DEF Busy
  <2> QED BY <1>1, <2>3, <2>4, <2>5
<1> QED BY <1>4, <1>5

-----------------------------------------------------------------------------
(* The tasks of a phase *)

(* A task can only act for an enabled check, in a phase that is under way, *)
(* and never after the run has completed.                                  *)
LEMMA TaskActs ==
  ASSUME OrchInv, NEW r \in Runs, NEW c \in Checks,
         task[r][c] \in Active \cup {"waiting"}
  PROVE  /\ c \in enabled[r]
         /\ phase[r] \in 1..3
         /\ st[r] # "completed"
         /\ visits[r][c] = phase[r] - 1
         /\ left[r][c] \in 0..MaxCandidates
<1>1. Fits(r, c) /\ phase[r] \in 0..3 BY DEF OrchInv, AllFit, TypeOK
<1>2. task[r][c] \notin {"none", "done"} BY DEF Active
<1> QED BY <1>1, <1>2 DEF Fits, OrchInv, TypeOK

(* The step of a task that takes it to pos, with n candidates left and v   *)
(* phases gone through, whatever it announces and finds.                   *)
LEMMA TaskMoves ==
  ASSUME OrchInv, NEW r \in Runs, NEW c \in Checks,
         NEW pos \in Active \cup {"done", "raised"},
         NEW n \in 0..MaxCandidates, NEW v,
         task[r][c] \in Active \cup {"waiting"},
         Goes(r, c, pos),
         left' = [left EXCEPT ![r][c] = n],
         visits' = [visits EXCEPT ![r][c] = v],
         v = IF pos = "done" THEN phase[r] ELSE phase[r] - 1,
         pos \in {"validate", "collect", "assess"} => n > 0,
         pos \in Active => task[r][c] \in Active \/ Admits(r),
         Emit(r) \/ UNCHANGED late,
         found' \in [Runs -> SUBSET Checks],
         UNCHANGED <<runVars, finished>>
  PROVE  OrchInv'
<1> USE DEF OrchInv, Goes, runVars
<1>1. /\ c \in enabled[r] /\ phase[r] \in 1..3 /\ st[r] # "completed"
      /\ visits[r][c] = phase[r] - 1
  BY TaskActs
<1>2. pos \in TaskPos \ {"none", "waiting"}  BY DEF TaskPos, Active
<1>3. v \in 0..3 BY <1>1
<1>4. \A q \in Runs : \A d \in Checks :
        /\ task'[q][d] = IF q = r /\ d = c THEN pos ELSE task[q][d]
        /\ left'[q][d] = IF q = r /\ d = c THEN n ELSE left[q][d]
        /\ visits'[q][d] = IF q = r /\ d = c THEN v ELSE visits[q][d]
  BY DEF TypeOK
<1>5. TypeOK'
  BY <1>2, <1>3 DEF TypeOK, Emit
<1>6. AllPlaced'
  <2> SUFFICES ASSUME NEW q \in Runs PROVE Placed(q)' BY DEF AllPlaced
  <2>1. Placed(q) BY DEF AllPlaced
  <2>2. late'[q] => st[q] = "failed"
    <3>1. CASE UNCHANGED late BY <2>1, <3>1 DEF Placed
    <3>2. CASE Emit(r)
      <4>1. CASE q = r BY <1>1, <2>1, <3>2, <4>1 DEF Placed, Emit, TypeOK
      <4>2. CASE q # r BY <2>1, <3>2, <4>2 DEF Placed, Emit, TypeOK
      <4> QED BY <4>1, <4>2
    <3> QED BY <3>1, <3>2
  <2>3. Raised(q) => Raised(q)'
    <3>1. \A d \in enabled[q] : d \in Checks BY DEF TypeOK
    <3>2. task[r][c] # "raised" BY DEF Active
    <3> QED BY <1>4, <3>1, <3>2 DEF Raised
  <2>4. Quiet(q) => q # r BY DEF Quiet, Active
  <2>5. q # r /\ Quiet(q) => Quiet(q)' BY <1>4 DEF Quiet
  <2> QED BY <2>1, <2>2, <2>3, <2>4, <2>5 DEF Placed
<1>7. AllFit'
  <2> SUFFICES ASSUME NEW q \in Runs, NEW d \in Checks PROVE Fits(q, d)' BY DEF AllFit
  <2>1. Fits(q, d) BY DEF AllFit
  <2>2. CASE q = r /\ d = c
    BY <1>1, <1>2, <1>4, <2>1, <2>2 DEF Fits, Active
  <2>3. CASE ~(q = r /\ d = c) BY <1>4, <2>1, <2>3 DEF Fits
  <2> QED BY <2>2, <2>3
<1>8. SemaphoreBound'
  <2>1. \A q \in Runs : q # r => Busy(q)' = Busy(q)
    BY <1>4 DEF Busy
  <2>2. Busy(r)' \subseteq Busy(r) \cup {c}
    BY <1>4 DEF Busy
  <2>3. CASE pos \notin Active \/ task[r][c] \in Active
    <3>1. Busy(r)' \subseteq Busy(r) BY <1>4, <2>3 DEF Busy
    <3> QED BY <2>1, <3>1, BusyShrinks
  <2>4. CASE Admits(r)
    <3>1. IsFiniteSet(Busy(r)) BY BusyFinite
    <3>2. /\ IsFiniteSet(Busy(r) \cup {c})
          /\ Cardinality(Busy(r) \cup {c}) <= Cardinality(Busy(r)) + 1
      <4>1. Cardinality(Busy(r)) \in Nat BY <3>1, FS_CardinalityType
      <4>2. /\ IsFiniteSet(Busy(r) \cup {c})
            /\ \/ Cardinality(Busy(r) \cup {c}) = Cardinality(Busy(r))
               \/ Cardinality(Busy(r) \cup {c}) = Cardinality(Busy(r)) + 1
        BY <3>1, FS_AddElement
      <4> QED BY <4>1, <4>2
    <3>3. /\ IsFiniteSet(Busy(r)')
          /\ Cardinality(Busy(r)') <= Cardinality(Busy(r) \cup {c})
      BY <2>2, <3>2, FS_Subset
    <3>4. /\ Cardinality(Busy(r)) \in Nat /\ Cardinality(Busy(r)') \in Nat
          /\ Cardinality(Busy(r) \cup {c}) \in Nat
      BY <3>1, <3>2, <3>3, FS_CardinalityType
    <3>5. Cardinality(Busy(r)') <= MaxConcurrent
      BY <2>4, <3>2, <3>3, <3>4, OrchestratorAssumption DEF Admits
    <3> QED BY <2>1, <3>5 DEF SemaphoreBound
  <2> QED BY <2>3, <2>4
<1> QED BY <1>5, <1>6, <1>7, <1>8

(* A permit taken is a task more that holds one. *)
LEMMA AcquireOrchInv ==
  ASSUME OrchInv, NEW r \in Runs, NEW c \in Checks, Acquire(r, c)
  PROVE  OrchInv'
<1> DEFINE n == left[r][c]
           v == phase[r] - 1
<1>1. task[r][c] \in Active \cup {"waiting"} /\ Goes(r, c, "discover") BY DEF Acquire
<1>2. n \in 0..MaxCandidates /\ visits[r][c] = v /\ phase[r] \in 1..3 BY <1>1, TaskActs
<1>3. left' = [left EXCEPT ![r][c] = n] /\ visits' = [visits EXCEPT ![r][c] = v]
  BY <1>2 DEF Acquire, OrchInv, TypeOK
<1>4. Emit(r) \/ UNCHANGED late BY DEF Acquire
<1>5. found' \in [Runs -> SUBSET Checks] BY DEF Acquire, OrchInv, TypeOK
<1>6. "discover" \in Active \cup {"done", "raised"} BY DEF Active
<1>7. Admits(r) /\ UNCHANGED <<runVars, finished>> BY DEF Acquire
<1> HIDE DEF n, v
<1> QED BY ONLY OrchInv, <1>1, <1>2, <1>3, <1>4, <1>5, <1>6, <1>7, TaskMoves DEF v

(* In the first two phases a task is over when discover returns. *)
LEMMA DiscoveredOrchInv ==
  ASSUME OrchInv, NEW r \in Runs, NEW c \in Checks, Discovered(r, c)
  PROVE  OrchInv'
<1> DEFINE n == left[r][c]
<1>1. task[r][c] \in Active \cup {"waiting"} /\ Goes(r, c, "done")
  BY DEF Discovered, Ends, Active
<1>2. n \in 0..MaxCandidates /\ visits[r][c] = phase[r] - 1 /\ phase[r] \in 1..3 BY <1>1, TaskActs
<1>3. left' = [left EXCEPT ![r][c] = n] /\ visits' = [visits EXCEPT ![r][c] = phase[r]]
  <2>1. left' = [left EXCEPT ![r][c] = n] BY DEF Discovered, OrchInv, TypeOK
  <2>2. visits' = [visits EXCEPT ![r][c] = phase[r]]
    <3>1. visits' = [visits EXCEPT ![r][c] = @ + 1] BY DEF Discovered, Ends
    <3>2. visits[r][c] + 1 = phase[r] BY <1>2
    <3> QED BY <3>1, <3>2 DEF OrchInv, TypeOK
  <2> QED BY <2>1, <2>2
<1>4. Emit(r) \/ UNCHANGED late BY DEF Discovered
<1>5. found' \in [Runs -> SUBSET Checks] BY DEF Discovered, OrchInv, TypeOK
<1>6. "done" \notin Active BY DEF Active
<1>7. UNCHANGED <<runVars, finished>> BY DEF Discovered
<1> HIDE DEF n
<1> QED BY <1>1, <1>2, <1>3, <1>4, <1>5, <1>6, <1>7, TaskMoves

(* In the third the candidates are validated, if there are any. *)
LEMMA CandidatesOrchInv ==
  ASSUME OrchInv, NEW r \in Runs, NEW c \in Checks, Candidates(r, c)
  PROVE  OrchInv'
<1>1. task[r][c] \in Active \cup {"waiting"} /\ task[r][c] \in Active
  BY DEF Candidates, Active
<1>2. visits[r][c] = phase[r] - 1 /\ phase[r] \in 1..3 BY <1>1, TaskActs
<1>3. PICK n \in 0..MaxCandidates :
        /\ left' = [left EXCEPT ![r][c] = n]
        /\ IF n = 0 THEN Ends(r, c) /\ UNCHANGED late
                    ELSE Goes(r, c, "validate") /\ Emit(r) /\ UNCHANGED visits
  BY DEF Candidates
<1>4. found' \in [Runs -> SUBSET Checks] /\ UNCHANGED <<runVars, finished>>
  BY DEF Candidates, OrchInv, TypeOK
<1>5. "validate" \in Active /\ "done" \notin Active BY DEF Active
<1>6. CASE n = 0
  <2>1. visits' = [visits EXCEPT ![r][c] = phase[r]] /\ Goes(r, c, "done")
    BY <1>2, <1>3, <1>6 DEF Ends, OrchInv, TypeOK
  <2> QED BY <1>1, <1>3, <1>4, <1>5, <1>6, <2>1, TaskMoves
<1>7. CASE n # 0
  <2> DEFINE v == phase[r] - 1
  <2>1. visits' = [visits EXCEPT ![r][c] = v]
    BY <1>2, <1>3, <1>7 DEF OrchInv, TypeOK
  <2>2. n > 0 /\ Goes(r, c, "validate") /\ Emit(r) BY <1>3, <1>7
  <2> QED BY <1>1, <1>3, <1>4, <1>5, <2>1, <2>2, TaskMoves
<1> QED BY <1>6, <1>7

(* Going on to the next candidate, the last one ending the phase. *)
LEMMA NextCandidateOrchInv ==
  ASSUME OrchInv, NEW r \in Runs, NEW c \in Checks, NextCandidate(r, c),
         task[r][c] \in {"validate", "assess"}, Emit(r),
         found' \in [Runs -> SUBSET Checks],
         UNCHANGED <<runVars, finished>>
  PROVE  OrchInv'
<1>1. task[r][c] \in Active \cup {"waiting"} /\ task[r][c] \in Active
  BY DEF Active
<1>2. visits[r][c] = phase[r] - 1 /\ phase[r] \in 1..3 BY <1>1, TaskActs
<1>3. left[r][c] \in 1..MaxCandidates
  BY OrchestratorAssumption DEF OrchInv, AllFit, Fits, TypeOK
<1>4. "validate" \in Active /\ "done" \notin Active BY DEF Active
<1>5. PICK n \in 0..MaxCandidates : n = left[r][c] - 1
  BY <1>3, OrchestratorAssumption
<1>6. left' = [left EXCEPT ![r][c] = n]
  BY <1>5 DEF NextCandidate, OrchInv, TypeOK
<1>7. CASE left[r][c] = 1
  <2>1. visits' = [visits EXCEPT ![r][c] = phase[r]] /\ Goes(r, c, "done")
    BY <1>2, <1>7 DEF NextCandidate, Ends, OrchInv, TypeOK
  <2> QED BY <1>1, <1>4, <1>6, <2>1, TaskMoves
<1>8. CASE left[r][c] # 1
  <2> DEFINE v == phase[r] - 1
  <2>1. visits' = [visits EXCEPT ![r][c] = v] /\ Goes(r, c, "validate")
    BY <1>2, <1>8 DEF NextCandidate, OrchInv, TypeOK
  <2>2. n > 0 BY <1>3, <1>5, <1>8
  <2> QED BY <1>1, <1>4, <1>6, <2>1, <2>2, TaskMoves
<1> QED BY <1>7, <1>8

(* The candidate is dropped, or its evidence is collected. *)
LEMMA ValidatedOrchInv ==
  ASSUME OrchInv, NEW r \in Runs, NEW c \in Checks, Validated(r, c)
  PROVE  OrchInv'
<1>1. found' \in [Runs -> SUBSET Checks] /\ UNCHANGED <<runVars, finished>> /\ Emit(r)
  BY DEF Validated, OrchInv, TypeOK
<1>2. task[r][c] = "validate" BY DEF Validated
<1>3. CASE NextCandidate(r, c) BY <1>1, <1>2, <1>3, NextCandidateOrchInv
<1>4. CASE Goes(r, c, "collect") /\ UNCHANGED <<left, visits>>
  <2> DEFINE n == left[r][c]
             v == phase[r] - 1
  <2>1. task[r][c] \in Active \cup {"waiting"} /\ "collect" \in Active /\ task[r][c] \in Active
    BY <1>2 DEF Active
  <2>2. n \in 0..MaxCandidates /\ visits[r][c] = v /\ phase[r] \in 1..3 BY <2>1, TaskActs
  <2>3. left' = [left EXCEPT ![r][c] = n] /\ visits' = [visits EXCEPT ![r][c] = v]
    BY <1>4, <2>2 DEF OrchInv, TypeOK
  <2>4. n > 0 BY <1>2 DEF OrchInv, AllFit, Fits
  <2> HIDE DEF n, v
  <2> QED BY ONLY OrchInv, <1>1, <1>4, <2>1, <2>2, <2>3, <2>4, TaskMoves DEF v
<1> QED BY <1>3, <1>4 DEF Validated

(* The evidence is stored. *)
LEMMA CollectedOrchInv ==
  ASSUME OrchInv, NEW r \in Runs, NEW c \in Checks, Collected(r, c)
  PROVE  OrchInv'
<1> DEFINE n == left[r][c]
           v == phase[r] - 1
<1>1. task[r][c] \in Active \cup {"waiting"} /\ "assess" \in Active /\ task[r][c] \in Active
  BY DEF Collected, Active
<1>2. n \in 0..MaxCandidates /\ visits[r][c] = v /\ phase[r] \in 1..3 BY <1>1, TaskActs
<1>3. left' = [left EXCEPT ![r][c] = n] /\ visits' = [visits EXCEPT ![r][c] = v]
  BY <1>2 DEF Collected, OrchInv, TypeOK
<1>4. n > 0 BY DEF Collected, OrchInv, AllFit, Fits
<1>5. /\ found' \in [Runs -> SUBSET Checks] /\ UNCHANGED <<runVars, finished>>
      /\ Emit(r) /\ Goes(r, c, "assess")
  BY DEF Collected, OrchInv, TypeOK
<1> HIDE DEF n, v
<1> QED BY ONLY OrchInv, <1>1, <1>2, <1>3, <1>4, <1>5, TaskMoves DEF v

(* A finding is registered, or there is none. *)
LEMMA AssessedOrchInv ==
  ASSUME OrchInv, NEW r \in Runs, NEW c \in Checks, NEW finding \in BOOLEAN,
         Assessed(r, c, finding)
  PROVE  OrchInv'
<1>1. found' \in [Runs -> SUBSET Checks] /\ UNCHANGED <<runVars, finished>> /\ Emit(r)
  BY DEF Assessed, OrchInv, TypeOK
<1> QED BY <1>1, NextCandidateOrchInv DEF Assessed

(* A check that raises takes its own task with it only. *)
LEMMA RaisesOrchInv ==
  ASSUME OrchInv, NEW r \in Runs, NEW c \in Checks, Raises(r, c)
  PROVE  OrchInv'
<1> DEFINE n == left[r][c]
           v == phase[r] - 1
<1>1. task[r][c] \in Active \cup {"waiting"} /\ "raised" \notin Active
  BY DEF Raises, Active
<1>2. n \in 0..MaxCandidates /\ visits[r][c] = v /\ phase[r] \in 1..3 BY <1>1, TaskActs
<1>3. left' = [left EXCEPT ![r][c] = n] /\ visits' = [visits EXCEPT ![r][c] = v]
  BY <1>2 DEF Raises, hist, OrchInv, TypeOK
<1>4. /\ found' \in [Runs -> SUBSET Checks] /\ UNCHANGED <<runVars, finished>>
      /\ UNCHANGED late /\ Goes(r, c, "raised")
  BY DEF Raises, hist, OrchInv, TypeOK
<1> HIDE DEF n, v
<1> QED BY ONLY OrchInv, <1>1, <1>2, <1>3, <1>4, TaskMoves DEF v

(* Every step keeps the invariant of the orchestrator. *)
LEMMA NextOrchInv == OrchInv /\ [Next]_orchVars => OrchInv'
<1> SUFFICES ASSUME OrchInv, [Next]_orchVars PROVE OrchInv' OBVIOUS
<1>1. ASSUME NEW r \in Runs, Start(r) PROVE OrchInv' BY <1>1, StartOrchInv
<1>2. ASSUME NEW r \in Runs, RunStep(r) PROVE OrchInv'
  BY <1>2, BuildOrchInv, PhaseEndsOrchInv, RunFailsOrchInv, ClosedOrchInv DEF RunStep
<1>3. ASSUME NEW r \in Runs, Cancel(r) PROVE OrchInv' BY <1>3, CancelOrchInv
<1>4. ASSUME NEW r \in Runs, NEW c \in Checks, TaskStep(r, c) PROVE OrchInv'
  BY <1>4, AcquireOrchInv, DiscoveredOrchInv, CandidatesOrchInv, ValidatedOrchInv,
     CollectedOrchInv, AssessedOrchInv DEF TaskStep
<1>5. ASSUME NEW r \in Runs, NEW c \in Checks, Raises(r, c) PROVE OrchInv'
  BY <1>5, RaisesOrchInv
<1>6. CASE UNCHANGED orchVars
  BY <1>6 DEF orchVars, runVars, taskVars, hist, OrchInv, TypeOK, AllPlaced, Placed, Quiet,
              Raised, AllFit, Fits, SemaphoreBound, Busy
<1> QED BY <1>1, <1>2, <1>3, <1>4, <1>5, <1>6 DEF Next

(* Every variable of a run keeps its type, from the first step of run() to *)
(* the last of the tasks it leaves behind (orchestrator.py).               *)
THEOREM OrchTypes == Spec => []TypeOK
<1>1. OrchInv => TypeOK BY DEF OrchInv
<1> QED BY <1>1, InitOrchInv, NextOrchInv, PTL DEF Spec

(* Phases are barriers and the semaphore holds within each of them.        *)
LEMMA InvPhaseDiscipline == OrchInv => PhaseDiscipline
<1> SUFFICES ASSUME OrchInv PROVE PhaseBarrier
  BY DEF PhaseDiscipline, OrchInv
<1> SUFFICES ASSUME NEW r \in Runs, NEW c \in enabled[r]
    PROVE /\ phase[r] > 0 => visits[r][c] \in {phase[r] - 1, phase[r]}
          /\ st[r] = "completed" => visits[r][c] = 3 /\ task[r][c] = "done"
  BY DEF PhaseBarrier
<1>1. c \in Checks /\ task[r][c] \in TaskPos BY DEF OrchInv, TypeOK
<1>2. Fits(r, c) BY <1>1 DEF OrchInv, AllFit
<1> QED BY <1>1, <1>2 DEF Fits, TaskPos

(* The end of a run is announced once, and no transition is refused.       *)
LEMMA InvOneFinish == OrchInv => OneFinish
<1> SUFFICES ASSUME OrchInv PROVE OneFinish OBVIOUS
<1>1. LifecycleNeverRefuses
  <2> SUFFICES ASSUME NEW r \in Runs, at[r] = "gather"
      PROVE LET path == <<st[r]>> \o (IF phase[r] \in 1..3 THEN Transitions(phase[r]) ELSE <<>>)
            IN /\ "failed" \in Allowed[st[r]]
               /\ \A i \in 1..(Len(path) - 1) : path[i + 1] \in Allowed[path[i]]
    BY DEF LifecycleNeverRefuses
  <2>1. phase[r] \in 1..3 /\ st[r] = PhaseState(phase[r])
    BY DEF OrchInv, AllPlaced, Placed
  <2>2. CASE phase[r] = 1
    <3>1. st[r] = "discovering" BY <2>1, <2>2 DEF PhaseState
    <3>2. Transitions(phase[r]) = <<"discovery_complete", "checking">>
      BY <2>2 DEF Transitions
    <3> QED BY <2>1, <3>1, <3>2 DEF Allowed
  <2>3. CASE phase[r] = 2
    <3>1. st[r] = "checking" BY <2>1, <2>3 DEF PhaseState
    <3>2. Transitions(phase[r]) = <<"validating">> BY <2>3 DEF Transitions
    <3> QED BY <2>1, <3>1, <3>2 DEF Allowed
  <2>4. CASE phase[r] = 3
    <3>1. st[r] = "validating" BY <2>1, <2>4 DEF PhaseState
    <3>2. Transitions(phase[r]) = <<"reporting", "completed">> BY <2>4 DEF Transitions
    <3> QED BY <2>1, <3>1, <3>2 DEF Allowed
  <2>5. phase[r] = 1 \/ phase[r] = 2 \/ phase[r] = 3 BY <2>1
  <2> QED BY <2>2, <2>3, <2>4, <2>5
<1>2. FinishedOnce
  <2> SUFFICES ASSUME NEW r \in Runs
      PROVE /\ at[r] \in {"closing", "returned", "raised"} => finished[r] = 1
            /\ at[r] \in {"idle", "build", "gather"} => finished[r] = 0
            /\ finished[r] <= 1
    BY DEF FinishedOnce
  <2>1. Placed(r) BY DEF OrchInv, AllPlaced
  <2>2. at[r] = "gather" => st[r] \in {"discovering", "checking", "validating"}
    BY <2>1 DEF Placed, PhaseState
  <2> QED BY <2>1, <2>2 DEF Placed
<1> QED BY <1>1, <1>2 DEF OneFinish

(* A completed run leaves no task, and its last event was the final one.   *)
LEMMA InvQuietAfterSuccess == OrchInv => QuietAfterSuccess
<1> SUFFICES ASSUME OrchInv, NEW r \in Runs, at[r] = "returned"
    PROVE Busy(r) = {} /\ ~late[r]
  BY DEF QuietAfterSuccess
<1>1. st[r] = "completed" /\ ~late[r] BY DEF OrchInv, AllPlaced, Placed
<1>2. ASSUME NEW c \in Checks PROVE task[r][c] \notin Active
  <2>1. Fits(r, c) BY DEF OrchInv, AllFit
  <2> QED BY <1>1, <2>1 DEF Fits, Active
<1> QED BY <1>1, <1>2 DEF Busy

-----------------------------------------------------------------------------
(* One scan end to end *)

(* A step of a scan is a step of its run, or leaves every run alone.       *)
LEMMA EngineStepsRun == [EngineNext]_allVars => [Next]_orchVars
<1> SUFFICES ASSUME [EngineNext]_allVars PROVE [Next]_orchVars OBVIOUS
<1>1. ASSUME NEW r \in Runs, ProducerStep(r) PROVE [Next]_orchVars
  <2>1. ASSUME Start(r) \/ RunStep(r) PROVE Next BY <2>1 DEF Next
  <2> QED
    BY <1>1, <2>1 DEF ProducerStep, ProducerStarts, EngineBuild, EnginePhaseEnds, EngineRunFails,
       EngineClosed, WriteFindings, WriteFails, EvidenceDone, RunStep
<1>2. ASSUME NEW r \in Runs, DriverCancelled(r) PROVE [Next]_orchVars
  BY <1>2 DEF DriverCancelled, StopProducer, Next
<1>3. ASSUME NEW r \in Runs, NEW c \in Checks, EngineTask(r, c) \/ EngineRaises(r, c)
      PROVE [Next]_orchVars
  BY <1>3 DEF EngineTask, EngineRaises, TaskStep, Next
<1>4. ASSUME NEW r \in Runs, RunScan(r) \/ ConfigFails(r) \/ LockedAgain(r) \/ Take(r)
      PROVE [Next]_orchVars
  BY <1>4 DEF RunScan, ConfigFails, LockedAgain, Take
<1>5. CASE UNCHANGED allVars BY <1>5 DEF allVars
<1> QED BY <1>1, <1>2, <1>3, <1>4, <1>5 DEF EngineNext

(* What the queue holds after a Put of one item or of two, and after a Get. *)
LEMMA PutOne ==
  ASSUME NEW q \in Seq(Event), NEW e \in Event
  PROVE  /\ q \o <<e>> \in Seq(Event)
         /\ Len(q) \in Nat /\ Len(q \o <<e>>) = Len(q) + 1
         /\ \A i \in 1..Len(q) : (q \o <<e>>)[i] = q[i]
         /\ (q \o <<e>>)[Len(q) + 1] = e
  OBVIOUS

(* Two items are put in the queue in order. *)
LEMMA PutTwo ==
  ASSUME NEW q \in Seq(Event), NEW e \in Event, NEW f \in Event
  PROVE  /\ q \o <<e, f>> \in Seq(Event)
         /\ Len(q) \in Nat /\ Len(q \o <<e, f>>) = Len(q) + 2
         /\ \A i \in 1..Len(q) : (q \o <<e, f>>)[i] = q[i]
         /\ (q \o <<e, f>>)[Len(q) + 1] = e
         /\ (q \o <<e, f>>)[Len(q) + 2] = f
<1>1. <<e, f>> \in Seq(Event) /\ Len(<<e, f>>) = 2 OBVIOUS
<1>2. q \o <<e, f>> \in Seq(Event) /\ Len(q \o <<e, f>>) = Len(q) + 2 BY <1>1
<1> QED BY <1>1, <1>2

(* The oldest item is taken. *)
LEMMA GetOne ==
  ASSUME NEW q \in Seq(Event), q # <<>>
  PROVE  /\ Tail(q) \in Seq(Event) /\ Head(q) \in Event /\ Head(q) = q[1]
         /\ Len(q) \in Nat \ {0} /\ Len(Tail(q)) = Len(q) - 1
         /\ \A i \in 1..(Len(q) - 1) : Tail(q)[i] = q[i + 1]
  OBVIOUS

(* A run none of whose variables changes keeps what is known of its scan.  *)
Kept(q) ==
  /\ at'[q] = at[q] /\ found'[q] = found[q]
  /\ prod'[q] = prod[q] /\ queue'[q] = queue[q] /\ cons'[q] = cons[q]
  /\ err'[q] = err[q] /\ dir'[q] = dir[q] /\ verdict'[q] = verdict[q]
  /\ rows'[q] = rows[q] /\ faults'[q] = faults[q]

(* What is no matter of a scan leaves it alone. *)
LEMMA KeptScan ==
  ASSUME NEW q \in Runs, Scan(q), Kept(q)
  PROVE  Scan(q)'
  BY DEF Scan, Kept, Produces, Queues, Open, Closes, Sums, Concludes, Stored, Broken

(* The steps of a run leave the places and findings of other runs alone.   *)
LEMMA OthersKept ==
  ASSUME OrchInv, NEW r \in Runs, NEW q \in Runs, q # r,
         Start(r) \/ RunStep(r) \/ Cancel(r)
           \/ \E c \in Checks : TaskStep(r, c) \/ Raises(r, c)
  PROVE  at'[q] = at[q] /\ found'[q] = found[q]
<1> USE DEF OrchInv, TypeOK, taskVars, runVars, hist
<1>1. CASE Start(r) BY <1>1 DEF Start
<1>2. CASE RunStep(r)
  BY <1>2 DEF RunStep, Build, PhaseEnds, RunFails, Closed, Enter
<1>3. CASE Cancel(r) BY <1>3 DEF Cancel
<1>4. ASSUME NEW c \in Checks, TaskStep(r, c) \/ Raises(r, c)
      PROVE at'[q] = at[q] /\ found'[q] = found[q]
  BY <1>4 DEF TaskStep, Acquire, Discovered, Candidates, Validated, Collected, Assessed, Raises
<1> QED BY <1>1, <1>2, <1>3, <1>4

(* While the producer has its last step ahead, the rest follows. *)
LEMMA OpenQueues ==
  ASSUME NEW r \in Runs, prod'[r] # "done", Open(r)'
  PROVE  Queues(r)' /\ Sums(r)'
  BY DEF Queues, Sums, Open

(* No scan has an engine yet. *)
LEMMA InitEngineInv == EngineInit => EngineInv
<1> SUFFICES ASSUME EngineInit PROVE EngineInv OBVIOUS
<1>1. OrchInv BY InitOrchInv DEF EngineInit
<1>2. EngineTypeOK
  BY EngineAssumption DEF EngineInit, EngineTypeOK, ProdPos, Event, Verdict
<1>3. \A r \in Runs : Scan(r)
  BY DEF EngineInit, Init, Scan, Produces, Queues, Open, Sums, Concludes, Ended
<1> QED BY <1>1, <1>2, <1>3 DEF EngineInv

EngineRest == EngineTypeOK /\ \A q \in Runs : Scan(q)

(* A scan starts with a queue of its own. *)
LEMMA RunScanRest ==
  ASSUME EngineInv, NEW r \in Runs, RunScan(r)
  PROVE  EngineRest'
<1> USE DEF EngineInv, RunScan, Moves, Store, orchVars, runVars, taskVars, hist
<1>1. EngineTypeOK' BY DEF EngineTypeOK, ProdPos
<1>2. ASSUME NEW q \in Runs PROVE Scan(q)'
  <2>1. CASE q = r
    <3>1. /\ prod'[r] = "created" /\ cons'[r] = "get" /\ prod[r] = "off"
      BY DEF EngineTypeOK, Scan, Produces
    <3>2. Open(r)' BY <3>1 DEF Scan, Queues, Open
    <3>3. Queues(r)' /\ Sums(r)' BY <3>1, <3>2, OpenQueues
    <3> QED
      BY <2>1, <3>1, <3>3 DEF Scan, Produces, Concludes
  <2>2. CASE q # r BY <2>2, KeptScan DEF Kept, EngineTypeOK
  <2> QED BY <2>1, <2>2
<1> QED BY <1>1, <1>2 DEF EngineRest

(* The end of the producer: behind a queue without one it puts the event   *)
(* that says what became of the run, and the sentinel.                     *)
LEMMA EndingQueues ==
  ASSUME EngineInv, NEW r \in Runs, prod[r] # "done", prod'[r] = "done",
         NEW e \in {"failed", "completed"},
         queue'[r] = queue[r] \o Ending(e), err'[r] = err[r],
         at'[r] # "cancelled",
         e = "failed" => Broken(r)',
         e = "completed" => at'[r] = "returned" /\ Stored(r)'
  PROVE  Queues(r)' /\ Sums(r)' /\ queue'[r] \in Seq(Event)
<1>1. e \in Event /\ None \in Event /\ None \notin {"failed", "completed", "check"}
  BY EngineAssumption DEF Event
<1>2. queue[r] \in Seq(Event) BY DEF EngineInv, EngineTypeOK
<1>3. queue'[r] = queue[r] \o <<e, None>> BY DEF Ending
<1>4. Open(r) BY DEF EngineInv, Scan, Queues
<1> DEFINE n == Len(queue[r])
<1>5. /\ queue'[r] \in Seq(Event)
      /\ n \in Nat /\ Len(queue'[r]) = n + 2
      /\ \A i \in 1..n : queue'[r][i] = queue[r][i]
      /\ queue'[r][n + 1] = e /\ queue'[r][n + 2] = None
  BY <1>1, <1>2, <1>3, PutTwo
<1>6. DOMAIN queue'[r] = 1..(n + 2) /\ DOMAIN queue[r] = 1..n BY <1>2, <1>5
<1> HIDE DEF n
<1>7. \A i \in 1..n : queue'[r][i] \notin {None, "failed", "completed"}
  BY <1>4, <1>5, <1>6 DEF Open
<1>8. \A i \in 1..(n + 2) : i \in 1..n \/ i = n + 1 \/ i = n + 2 BY <1>5
<1>9. \A i \in 1..(n + 2) :
        /\ queue'[r][i] = None => i = n + 2
        /\ queue'[r][i] \in {"failed", "completed"} => i = n + 1 /\ queue'[r][i] = e
  BY <1>1, <1>5, <1>7, <1>8
<1>10. n + 1 \in 1..(n + 2) /\ n + 2 \in 1..(n + 2) /\ (n + 2) - 1 = n + 1 /\ n + 2 # 1
       /\ (n + 1) + 1 = n + 2
  BY <1>5
<1>11. ASSUME NEW i \in 1..(n + 2), i = n + 2 PROVE Closes(r, i)'
  <2>1. queue'[r][i - 1] \in {"failed", "completed"} BY <1>5, <1>10, <1>11
  <2>2. \A j \in 1..(n + 2) : ~(j > i) BY <1>5, <1>11
  <2> QED BY <1>6, <2>1, <2>2 DEF Closes
<1>12. Queues(r)'
  <2>1. \A i \in 1..(n + 2) : queue'[r][i] = None => Closes(r, i)' BY <1>9, <1>11
  <2>2. \A i \in 1..(n + 2) : queue'[r][i] \in {"failed", "completed"} =>
          i + 1 \in 1..(n + 2) /\ queue'[r][i + 1] = None
    BY <1>5, <1>9, <1>10
  <2>3. \E i \in 1..(n + 2) : queue'[r][i] = None BY <1>5, <1>10
  <2> QED BY <1>6, <2>1, <2>2, <2>3 DEF Queues
<1>13. Sums(r)'
  <2>1. \A i \in 1..(n + 2) :
          /\ queue'[r][i] = "completed" => at'[r] = "returned" /\ Stored(r)'
          /\ queue'[r][i] = "failed" => Broken(r)'
    BY <1>9
  <2>2. err'[r] # "text" BY <1>4 DEF Open
  <2>3. ~(1 \in 1..(n + 2) /\ queue'[r][1] = None) BY <1>9, <1>10
  <2> QED BY <1>6, <2>1, <2>2, <2>3 DEF Sums
<1> QED BY <1>5, <1>12, <1>13

(* A configuration that cannot be built leaves no producer. *)
LEMMA ConfigFailsRest ==
  ASSUME EngineInv, NEW r \in Runs, ConfigFails(r)
  PROVE  EngineRest'
<1> USE DEF EngineInv, ConfigFails, Moves, Put, Driver, Store, orchVars, runVars, taskVars, hist
<1>1. /\ prod[r] = "created" /\ prod'[r] = "done" /\ at'[r] = at[r] /\ at[r] = "idle"
      /\ queue'[r] = queue[r] \o Ending("failed") /\ err'[r] = err[r]
  BY DEF EngineTypeOK, Scan, Produces
<1>2. Broken(r)' BY <1>1 DEF Broken
<1>3. Queues(r)' /\ Sums(r)' /\ queue'[r] \in Seq(Event)
  BY <1>1, <1>2, EndingQueues
<1>4. EngineTypeOK'
  BY <1>3 DEF EngineTypeOK, ProdPos
<1>5. ASSUME NEW q \in Runs PROVE Scan(q)'
  <2>1. CASE q = r
    <3>1. Scan(r) OBVIOUS
    <3>2. Produces(r)' BY <1>1, <3>1 DEF Scan, Produces
    <3>3. Concludes(r)' BY <1>1, <3>1 DEF Scan, Concludes, Produces
    <3> QED BY <1>3, <2>1, <3>2, <3>3 DEF Scan
  <2>2. CASE q # r BY <2>2, KeptScan DEF Kept, EngineTypeOK
  <2> QED BY <2>1, <2>2
<1> QED BY <1>4, <1>5 DEF EngineRest

(* The producer starts the run of its scan. *)
LEMMA ProducerStartsRest ==
  ASSUME EngineInv, NEW r \in Runs, ProducerStarts(r)
  PROVE  EngineRest'
<1> USE DEF EngineInv, ProducerStarts, Moves, Put, Driver, Store
<1>0. "started_dir" \in Event /\ "started" \in Event BY DEF Event
<1>1. /\ queue[r] \in Seq(Event)
      /\ queue' = [queue EXCEPT ![r] = queue[r] \o <<"started_dir", "started">>]
      /\ queue[r] \o <<"started_dir", "started">> \in Seq(Event)
  BY <1>0, PutTwo DEF EngineTypeOK
<1>2. EngineTypeOK' BY <1>1 DEF EngineTypeOK, ProdPos
<1>3. ASSUME NEW q \in Runs PROVE Scan(q)'
  <2>1. CASE q = r
    <3>1. /\ prod'[r] = "run" /\ queue'[r] = queue[r] \o <<"started_dir", "started">>
          /\ cons'[r] = cons[r] /\ at'[r] = "build"
      BY <1>1 DEF EngineTypeOK, Start, OrchInv, TypeOK
    <3>2. Scan(r) /\ prod[r] = "created" OBVIOUS
    <3>3. Produces(r)' BY <3>1, <3>2 DEF Scan, Produces
    <3>4. Open(r)'
      <4>1. Open(r) BY <3>2 DEF Scan, Queues
      <4>2. \A i \in DOMAIN queue'[r] :
              \/ i \in DOMAIN queue[r] /\ queue'[r][i] = queue[r][i]
              \/ queue'[r][i] \in {"started_dir", "started"}
        BY <1>0, <1>1, <3>1, PutTwo
      <4> QED BY <4>1, <4>2, EngineAssumption DEF Open
    <3>5. Queues(r)' /\ Sums(r)' BY <3>1, <3>4, OpenQueues
    <3>6. Concludes(r)' BY <3>1, <3>2 DEF Scan, Concludes, Produces
    <3> QED BY <2>1, <3>3, <3>5, <3>6 DEF Scan
  <2>2. CASE q # r
    <3>1. at'[q] = at[q] /\ found'[q] = found[q] BY <2>2, OthersKept
    <3> QED BY <1>1, <2>2, <3>1, KeptScan DEF Kept, EngineTypeOK
  <2> QED BY <2>1, <2>2
<1> QED BY <1>2, <1>3 DEF EngineRest

(* A step of run() that may put scan.failed: to its place "run" it goes on *)
(* to be one of the three it can be in.                                    *)
LEMMA RunsOnRest ==
  ASSUME EngineInv, NEW r \in Runs, prod[r] = "run", RunStep(r),
         at'[r] \in {"gather", "closing"},
         UNCHANGED queue \/ Put(r, <<"failed_data">>),
         UNCHANGED <<prod, Driver, Store>>
  PROVE  EngineRest'
<1> USE DEF EngineInv, Put, Driver, Store
<1>0. "failed_data" \in Event BY DEF Event
<1>1. queue[r] \in Seq(Event) /\ queue[r] \o <<"failed_data">> \in Seq(Event)
  BY <1>0, PutOne DEF EngineTypeOK
<1>2. EngineTypeOK' BY <1>1 DEF EngineTypeOK, ProdPos
<1>3. ASSUME NEW q \in Runs PROVE Scan(q)'
  <2>1. CASE q = r
    <3>1. prod'[r] = "run" /\ queue'[r] \in {queue[r], queue[r] \o <<"failed_data">>}
      BY <1>1 DEF EngineTypeOK
    <3>2. Scan(r) OBVIOUS
    <3>3. Produces(r)' BY <3>1, <3>2 DEF Scan, Produces
    <3>4. Open(r)'
      <4>1. Open(r) BY <3>2 DEF Scan, Queues
      <4>2. CASE queue'[r] = queue[r] BY <4>1, <4>2 DEF Open
      <4>3. CASE queue'[r] = queue[r] \o <<"failed_data">>
        <5>1. \A i \in DOMAIN queue'[r] :
                \/ i \in DOMAIN queue[r] /\ queue'[r][i] = queue[r][i]
                \/ queue'[r][i] = "failed_data"
          BY <1>0, <1>1, <4>3, PutOne
        <5> QED BY <4>1, <5>1, EngineAssumption DEF Open
      <4> QED BY <3>1, <4>2, <4>3
    <3>5. Concludes(r)' BY <3>1, <3>2 DEF Scan, Concludes, Produces
    <3>6. Queues(r)' /\ Sums(r)' BY <3>1, <3>4, OpenQueues
    <3> QED BY <2>1, <3>3, <3>5, <3>6 DEF Scan
  <2>2. CASE q # r
    <3>1. at'[q] = at[q] /\ found'[q] = found[q] BY <2>2, OthersKept
    <3> QED BY <1>1, <2>2, <3>1, KeptScan DEF Kept, EngineTypeOK
  <2> QED BY <2>1, <2>2
<1> QED BY <1>2, <1>3 DEF EngineRest

(* The other parts of a scan stay as they are when its run is built, *)
LEMMA EngineBuildRest ==
  ASSUME EngineInv, NEW r \in Runs, EngineBuild(r)
  PROVE  EngineRest'
<1>1. PICK ok \in BOOLEAN : Build(r, ok) /\ IF ok THEN UNCHANGED queue ELSE Put(r, <<"failed_data">>)
  BY DEF EngineBuild
<1>2. at'[r] \in {"gather", "closing"}
  BY <1>1 DEF Build, Enter, EngineInv, OrchInv, TypeOK
<1>3. RunStep(r) BY <1>1 DEF RunStep
<1> QED BY <1>1, <1>2, <1>3, RunsOnRest DEF EngineBuild

(* when a phase of it ends, *)
LEMMA EnginePhaseEndsRest ==
  ASSUME EngineInv, NEW r \in Runs, EnginePhaseEnds(r)
  PROVE  EngineRest'
<1>1. at'[r] \in {"gather", "closing"}
  BY DEF EnginePhaseEnds, PhaseEnds, Enter, EngineInv, OrchInv, TypeOK
<1>2. RunStep(r) BY DEF EnginePhaseEnds, RunStep
<1> QED BY <1>1, <1>2, RunsOnRest DEF EnginePhaseEnds, engineVars, Driver, Store

(* and when it raises, with its client still to close. *)
LEMMA EngineRunFailsRest ==
  ASSUME EngineInv, NEW r \in Runs, EngineRunFails(r)
  PROVE  EngineRest'
<1>1. at'[r] \in {"gather", "closing"}
  BY DEF EngineRunFails, RunFails, EngineInv, OrchInv, TypeOK
<1>2. RunStep(r) BY DEF EngineRunFails, RunStep
<1> QED BY <1>1, <1>2, RunsOnRest DEF EngineRunFails

(* A run that is over puts its end in the queue, then the sentinel. *)
LEMMA EngineClosedRest ==
  ASSUME EngineInv, NEW r \in Runs, EngineClosed(r)
  PROVE  EngineRest'
<1> USE DEF EngineInv, EngineClosed, Moves, Put, Driver, Store
<1>1. prod[r] = "run" /\ Closed(r) OBVIOUS
<1>2. UNCHANGED <<found, enabled>> /\ at'[r] \in {"raised", "returned"}
  BY <1>1 DEF Closed, taskVars, OrchInv, TypeOK
<1>3. ASSUME NEW q \in Runs, q # r, queue'[q] = queue[q] PROVE Scan(q)'
  <2>1. at'[q] = at[q] /\ found'[q] = found[q] BY <1>1, <1>3, OthersKept DEF RunStep
  <2>2. prod'[q] = prod[q] BY <1>3 DEF EngineTypeOK
  <2> QED BY <1>3, <2>1, <2>2, KeptScan DEF Kept
<1>4. CASE at'[r] = "raised"
  <2>1. prod' = [prod EXCEPT ![r] = "done"] /\ queue' = [queue EXCEPT ![r] = @ \o Ending("failed")]
    BY <1>4
  <2>2. prod'[r] = "done" /\ queue'[r] = queue[r] \o Ending("failed")
    BY <2>1 DEF EngineTypeOK
  <2>3. Queues(r)' /\ Sums(r)' /\ queue'[r] \in Seq(Event)
    BY <1>1, <1>4, <2>2, EndingQueues DEF Broken
  <2>4. EngineTypeOK' BY <2>1, <2>2, <2>3 DEF EngineTypeOK, ProdPos
  <2>5. Produces(r)' BY <1>1, <1>4, <2>2 DEF Scan, Produces, Ended
  <2>6. Concludes(r)' BY <1>1, <2>2 DEF Scan, Concludes, Produces
  <2>7. Scan(r)' BY <2>3, <2>5, <2>6 DEF Scan
  <2>8. \A q \in Runs : q # r => queue'[q] = queue[q] BY <2>1 DEF EngineTypeOK
  <2> QED BY <1>3, <2>4, <2>7, <2>8 DEF EngineRest
<1>5. CASE at'[r] # "raised"
  <2>1. prod' = [prod EXCEPT ![r] = "findings"] /\ UNCHANGED queue BY <1>5
  <2>2. prod'[r] = "findings" /\ at'[r] = "returned" BY <1>2, <1>5, <2>1 DEF EngineTypeOK
  <2>3. EngineTypeOK' BY <2>1 DEF EngineTypeOK, ProdPos
  <2>4. Scan(r)'
    <3>1. Queues(r)' /\ Sums(r)'
      BY <1>1, <2>1, <2>2, OpenQueues DEF Scan, Queues, Open
    <3> QED BY <1>1, <2>1, <2>2, <3>1 DEF Scan, Produces, Concludes
  <2> QED BY <1>3, <2>1, <2>3, <2>4 DEF EngineRest
<1> QED BY <1>4, <1>5

(* The findings are written, or not, or the database was locked. *)
LEMMA WritesRest ==
  ASSUME EngineInv, NEW r \in Runs, WriteFindings(r) \/ WriteFails(r) \/ LockedAgain(r)
  PROVE  EngineRest'
<1> USE DEF EngineInv, Moves, Driver, orchVars, taskVars, runVars, hist
<1>1. EngineTypeOK'
  <2>1. CASE WriteFindings(r)
    BY <2>1, EngineAssumption DEF WriteFindings, EngineTypeOK, ProdPos, OrchInv, TypeOK
  <2>2. CASE WriteFails(r)
    BY <2>2, EngineAssumption DEF WriteFails, EngineTypeOK, ProdPos
  <2>3. CASE LockedAgain(r)
    BY <2>3, EngineAssumption DEF LockedAgain, TriesAgain, EngineTypeOK
  <2> QED BY <2>1, <2>2, <2>3
<1>2. ASSUME NEW q \in Runs PROVE Scan(q)'
  <2>1. CASE LockedAgain(r) BY <2>1, KeptScan DEF LockedAgain, Kept
  <2>2. CASE q # r
    BY <2>1, <2>2, KeptScan DEF WriteFindings, WriteFails, Kept, EngineTypeOK
  <2>3. CASE q = r /\ WriteFindings(r)
    <3>1. prod'[r] = "evidence" /\ rows'[r] = found[r] /\ prod[r] = "findings"
      BY <2>3 DEF WriteFindings, EngineTypeOK
    <3>2. Queues(r)' /\ Sums(r)'
      BY <2>3, <3>1, OpenQueues DEF WriteFindings, Scan, Queues, Open
    <3> QED
      BY <2>3, <3>1, <3>2 DEF WriteFindings, Scan, Produces, Concludes, Stored
  <2>4. CASE q = r /\ WriteFails(r)
    <3>1. prod'[r] = "evidence" /\ faults'[r] /\ prod[r] = "findings"
      BY <2>4 DEF WriteFails, EngineTypeOK
    <3>2. Queues(r)' /\ Sums(r)'
      BY <2>4, <3>1, OpenQueues DEF WriteFails, Scan, Queues, Open
    <3> QED
      BY <2>4, <3>1, <3>2 DEF WriteFails, Scan, Produces, Concludes, Stored
  <2> QED BY <2>1, <2>2, <2>3, <2>4
<1> QED BY <1>1, <1>2 DEF EngineRest

(* With the evidence written, the end and the sentinel are put. *)
LEMMA EvidenceDoneRest ==
  ASSUME EngineInv, NEW r \in Runs, EvidenceDone(r)
  PROVE  EngineRest'
<1> USE DEF EngineInv, EvidenceDone, Moves, Put, Driver, Store, orchVars, taskVars, runVars, hist
<1>1. /\ prod[r] = "evidence" /\ prod'[r] = "done"
      /\ queue'[r] = queue[r] \o Ending("completed") /\ err'[r] = err[r]
  BY DEF EngineTypeOK
<1>2. at'[r] = "returned" /\ Stored(r)'
  BY <1>1 DEF Scan, Produces, Stored
<1>3. Queues(r)' /\ Sums(r)' /\ queue'[r] \in Seq(Event)
  BY <1>1, <1>2, EndingQueues
<1>4. EngineTypeOK' BY <1>1, <1>3 DEF EngineTypeOK, ProdPos
<1>5. ASSUME NEW q \in Runs PROVE Scan(q)'
  <2>1. CASE q = r
    <3>1. Scan(r) OBVIOUS
    <3>2. Produces(r)' BY <1>1, <1>2, <3>1 DEF Scan, Produces, Ended
    <3>3. Concludes(r)' BY <1>1, <3>1 DEF Scan, Concludes, Produces
    <3> QED BY <1>3, <2>1, <3>2, <3>3 DEF Scan
  <2>2. CASE q # r BY <2>2, KeptScan DEF Kept, EngineTypeOK
  <2> QED BY <2>1, <2>2
<1> QED BY <1>4, <1>5 DEF EngineRest

(* The driver takes the next item; None ends its loop and makes it         *)
(* conclude from the last scan.failed it saw.                              *)
LEMMA TakeRest ==
  ASSUME EngineInv, NEW r \in Runs, Take(r)
  PROVE  EngineRest'
<1> USE DEF EngineInv, Store, orchVars, taskVars, runVars, hist
<1> DEFINE e == Head(queue[r])
           n == Len(queue[r])
<1>1. cons[r] = "get" /\ queue[r] # <<>> /\ queue[r] \in Seq(Event)
  BY DEF Take, EngineTypeOK
<1>2. /\ queue'[r] \in Seq(Event) /\ e \in Event /\ e = queue[r][1]
      /\ n \in Nat \ {0} /\ Len(queue'[r]) = n - 1
      /\ \A i \in 1..(n - 1) : queue'[r][i] = queue[r][i + 1]
      /\ dir'[r] = KeepsDir(e, dir[r])
      /\ err'[r] = KeepsError(e, err[r])
  BY <1>1, GetOne DEF Take, EngineTypeOK
<1>3. DOMAIN queue[r] = 1..n /\ DOMAIN queue'[r] = 1..(n - 1) /\ 1 \in 1..n BY <1>1, <1>2
<1>4. /\ KeepsDir(e, dir[r]) \in BOOLEAN
      /\ KeepsError(e, err[r]) \in {"none", "text", "data"}
  BY DEF KeepsDir, KeepsError, EngineTypeOK
<1>5. EngineTypeOK'
  <2>1. Conclude(r) \in Verdict BY DEF Conclude, EngineTypeOK, Verdict
  <2>2. queue' \in [Runs -> Seq(Event)] BY <1>2 DEF Take, EngineTypeOK
  <2>3. dir' \in [Runs -> BOOLEAN] BY <1>4 DEF Take, EngineTypeOK
  <2>4. err' \in [Runs -> {"none", "text", "data"}] BY <1>4 DEF Take, EngineTypeOK
  <2>5. cons' \in [Runs -> {"off", "get", "done"}] BY DEF Take, EngineTypeOK
  <2>6. verdict' \in [Runs -> Verdict] BY <2>1 DEF Take, EngineTypeOK
  <2> QED BY <2>2, <2>3, <2>4, <2>5, <2>6 DEF Take, EngineTypeOK
<1>6. /\ prod'[r] = prod[r] /\ at'[r] = at[r] /\ Stored(r)' = Stored(r)
      /\ Broken(r)' = Broken(r)
  BY DEF Take, Stored, Broken
<1>7. ASSUME NEW q \in Runs, q # r PROVE Scan(q)'
  BY <1>7, KeptScan DEF Take, Kept, EngineTypeOK
<1>8. /\ e = None => cons'[r] = "done" /\ verdict'[r] = Conclude(r)
      /\ e # None => cons'[r] = cons[r] /\ verdict'[r] = verdict[r]
  BY DEF Take, EngineTypeOK
<1>9. Scan(r) OBVIOUS
<1> HIDE DEF e, n
<1>10. \A i \in 1..(n - 1) :
         /\ i \in 1..n /\ i + 1 \in 1..n /\ queue'[r][i] = queue[r][i + 1]
         /\ i > 1 => i - 1 \in 1..(n - 1) /\ queue'[r][i - 1] = queue[r][i]
         /\ (i + 1) + 1 \in 1..n =>
              i + 1 \in 1..(n - 1) /\ queue'[r][i + 1] = queue[r][(i + 1) + 1]
  <2> SUFFICES ASSUME NEW i \in 1..(n - 1)
      PROVE /\ i \in 1..n /\ i + 1 \in 1..n /\ queue'[r][i] = queue[r][i + 1]
            /\ i > 1 => i - 1 \in 1..(n - 1) /\ queue'[r][i - 1] = queue[r][i]
            /\ (i + 1) + 1 \in 1..n =>
                 i + 1 \in 1..(n - 1) /\ queue'[r][i + 1] = queue[r][(i + 1) + 1]
    OBVIOUS
  <2>1. i \in 1..n /\ i + 1 \in 1..n /\ queue'[r][i] = queue[r][i + 1] BY <1>2
  <2>2. ASSUME i > 1 PROVE i - 1 \in 1..(n - 1) /\ queue'[r][i - 1] = queue[r][i]
    <3>1. i - 1 \in 1..(n - 1) /\ (i - 1) + 1 = i BY <1>2, <2>2
    <3> QED BY <1>2, <3>1
  <2>3. ASSUME (i + 1) + 1 \in 1..n
        PROVE i + 1 \in 1..(n - 1) /\ queue'[r][i + 1] = queue[r][(i + 1) + 1]
    <3>1. i + 1 \in 1..(n - 1) BY <1>2, <2>3
    <3> QED BY <1>2, <3>1
  <2> QED BY <2>1, <2>2, <2>3
<1>11. Queues(r)'
  <2>1. prod[r] # "done" => Open(r)'
    <3> SUFFICES ASSUME Open(r) PROVE Open(r)' BY <1>9 DEF Scan, Queues
    <3>1. e # "failed" BY <1>2, <1>3 DEF Open
    <3>2. err'[r] # "text" BY <1>2, <3>1 DEF Open, KeepsError
    <3> QED BY <1>3, <1>10, <3>2 DEF Open
  <2>2. ASSUME NEW i \in 1..(n - 1), queue'[r][i] = None
        PROVE Closes(r, i)' /\ at'[r] # "cancelled"
    <3>1. Closes(r, i + 1) /\ at[r] # "cancelled"
      BY <1>3, <1>9, <1>10, <2>2 DEF Scan, Queues
    <3>2. i > 1 => queue'[r][i - 1] \in {"failed", "completed"}
      <4> SUFFICES ASSUME i > 1 PROVE queue'[r][i - 1] \in {"failed", "completed"} OBVIOUS
      <4>1. i + 1 > 1 /\ (i + 1) - 1 = i BY <1>2
      <4> QED BY <1>10, <3>1, <4>1 DEF Closes
    <3>3. ASSUME NEW j \in 1..(n - 1), j > i PROVE queue'[r][j] = "check" /\ at'[r] = "raised"
      <4>1. j + 1 > i + 1 BY <1>2, <3>3
      <4> QED BY <1>3, <1>6, <1>10, <3>1, <4>1 DEF Closes
    <3> QED BY <1>3, <1>6, <3>1, <3>2, <3>3 DEF Closes
  <2>3. ASSUME NEW i \in 1..(n - 1), queue'[r][i] \in {"failed", "completed"}
        PROVE i + 1 \in 1..(n - 1) /\ queue'[r][i + 1] = None
    <3>1. (i + 1) + 1 \in 1..n /\ queue[r][(i + 1) + 1] = None
      BY <1>3, <1>9, <1>10, <2>3 DEF Scan, Queues
    <3> QED BY <1>10, <3>1
  <2>4. ASSUME prod[r] = "done", cons'[r] = "get"
        PROVE \E i \in 1..(n - 1) : queue'[r][i] = None
    <3>1. e # None BY <1>8, <2>4
    <3>2. PICK i \in 1..n : queue[r][i] = None BY <1>1, <1>3, <1>9, <2>4 DEF Scan, Queues
    <3>3. i # 1 BY <1>2, <3>1, <3>2
    <3>4. i - 1 \in 1..(n - 1) /\ (i - 1) + 1 = i BY <1>2, <3>3
    <3> QED BY <1>10, <3>2, <3>4
  <2> QED BY <1>3, <1>6, <2>1, <2>2, <2>3, <2>4 DEF Queues
<1>12. Sums(r)'
  <2>1. \A i \in 1..(n - 1) :
          /\ queue'[r][i] = "completed" => at'[r] = "returned" /\ Stored(r)'
          /\ queue'[r][i] = "failed" => Broken(r)'
    BY <1>3, <1>6, <1>9, <1>10 DEF Scan, Sums
  <2>2. err'[r] = "text" => Broken(r)'
    BY <1>2, <1>3, <1>6, <1>9 DEF Scan, Sums, KeepsError
  <2>3. ASSUME cons'[r] = "get", 1 \in 1..(n - 1), queue'[r][1] = None
        PROVE \/ err'[r] = "text"
              \/ at'[r] = "returned" /\ Stored(r)' /\ dir'[r]
    <3>1. 1 + 1 \in 1..n /\ queue[r][1 + 1] = None BY <1>10, <2>3
    <3>2. Closes(r, 1 + 1) BY <1>3, <1>9, <3>1 DEF Scan, Queues
    <3>3. 1 + 1 > 1 /\ (1 + 1) - 1 = 1 OBVIOUS
    <3>4. e \in {"failed", "completed"} BY <1>2, <3>2, <3>3 DEF Closes
    <3>5. CASE e = "failed" BY <1>2, <3>5 DEF KeepsError
    <3>6. CASE e = "completed"
      <4>1. at[r] = "returned" /\ Stored(r) BY <1>2, <1>3, <1>9, <3>6 DEF Scan, Sums
      <4>2. dir'[r] BY <1>2, <3>6 DEF KeepsDir
      <4> QED BY <1>6, <4>1, <4>2
    <3> QED BY <3>4, <3>5, <3>6
  <2> QED BY <1>3, <2>1, <2>2, <2>3 DEF Sums
<1>13. Produces(r)' /\ Concludes(r)'
  <2>1. CASE e = None
    <3>1. 1 \in DOMAIN queue[r] /\ queue[r][1] = None BY <1>2, <1>3, <2>1
    <3>2. prod[r] = "done" BY <1>9, <3>1 DEF Scan, Queues, Open
    <3>3. \/ err[r] = "text" /\ Broken(r)
          \/ at[r] = "returned" /\ Stored(r) /\ dir[r]
      BY <1>1, <1>9, <3>1 DEF Scan, Sums
    <3>4. dir'[r] = dir[r] BY <1>2, <2>1, EngineAssumption DEF KeepsDir
    <3>5. err[r] \in {"none", "text", "data"} BY DEF EngineTypeOK
    <3>6. err[r] # "text" => at[r] = "returned" /\ Stored(r) /\ dir[r] BY <3>3
    <3>7. err[r] = "text" => Broken(r) BY <1>9 DEF Scan, Sums
    <3>8. Concludes(r)'
      <4>1. CASE err[r] = "none"
        BY <1>6, <1>8, <2>1, <3>4, <3>6, <4>1 DEF Concludes, Conclude
      <4>2. CASE err[r] = "text"
        BY <1>6, <1>8, <2>1, <3>7, <4>2 DEF Concludes, Conclude
      <4>3. CASE err[r] = "data"
        BY <1>6, <1>8, <2>1, <3>6, <4>3 DEF Concludes, Conclude
      <4> QED BY <3>5, <4>1, <4>2, <4>3
    <3> QED BY <1>1, <1>6, <1>8, <1>9, <2>1, <3>2, <3>8 DEF Scan, Produces
  <2>2. CASE e # None
    <3>1. cons'[r] = cons[r] /\ verdict'[r] = verdict[r] BY <1>8, <2>2
    <3>2. verdict[r] = "none" BY <1>1, <1>9 DEF Scan, Concludes
    <3> QED BY <1>6, <1>9, <3>1, <3>2 DEF Scan, Produces, Concludes
  <2> QED BY <2>1, <2>2
<1> QED BY <1>5, <1>7, <1>11, <1>12, <1>13 DEF EngineRest, Scan

(* The driver is cancelled: the producer is stopped wherever it was. *)
LEMMA DriverCancelledRest ==
  ASSUME EngineInv, NEW r \in Runs, DriverCancelled(r)
  PROVE  EngineRest'
<1> USE DEF EngineInv, DriverCancelled, StopProducer
<1>1. /\ prod'[r] = "done" /\ cons'[r] = "done" /\ verdict'[r] = "cancelled"
      /\ queue' = queue /\ err' = err /\ dir' = dir /\ faults' = faults
  BY DEF EngineTypeOK
<1>2. EngineTypeOK'
  <2>1. rows' \in [Runs -> SUBSET Checks] BY DEF EngineTypeOK, OrchInv, TypeOK
  <2> QED BY <2>1 DEF EngineTypeOK, ProdPos, Verdict
<1>3. at'[r] \in Ended \cup {"idle"}
  <2>1. CASE prod[r] = "run"
    BY <2>1 DEF Cancel, OrchInv, TypeOK, Ended
  <2>2. CASE prod[r] # "run"
    <3>1. at' = at BY <2>2 DEF orchVars, runVars
    <3>2. prod[r] \in ProdPos /\ Produces(r) BY DEF EngineTypeOK, Scan
    <3> QED BY <2>2, <3>1, <3>2 DEF Produces, ProdPos, Ended
  <2> QED BY <2>1, <2>2
<1>4. Queues(r)' /\ Sums(r)'
  <2>1. Scan(r) OBVIOUS
  <2>2. CASE prod[r] # "done"
    <3>1. Open(r) BY <2>1, <2>2 DEF Scan, Queues
    <3> QED BY <1>1, <3>1 DEF Open, Queues, Sums
  <2>3. CASE prod[r] = "done"
    <3>1. at' = at /\ rows' = rows /\ found' = found
      BY <2>3 DEF orchVars, runVars, taskVars
    <3> QED BY <1>1, <2>1, <2>3, <3>1 DEF Scan, Queues, Closes, Sums, Stored, Broken
  <2> QED BY <2>2, <2>3
<1>5. ASSUME NEW q \in Runs PROVE Scan(q)'
  <2>1. CASE q = r
    <3>1. Scan(r) OBVIOUS
    <3>2. Produces(r)' BY <1>1, <1>3, <3>1 DEF Produces
    <3>3. Concludes(r)' BY <1>1 DEF Concludes
    <3> QED BY <1>4, <2>1, <3>2, <3>3 DEF Scan
  <2>2. CASE q # r
    <3>1. at'[q] = at[q] /\ found'[q] = found[q]
      <4>1. CASE prod[r] = "run" BY <2>2, <4>1, OthersKept
      <4>2. CASE prod[r] # "run" BY <4>2 DEF orchVars, runVars, taskVars
      <4> QED BY <4>1, <4>2
    <3> QED BY <1>1, <2>2, <3>1, KeptScan DEF Kept, EngineTypeOK
  <2> QED BY <2>1, <2>2
<1> QED BY <1>2, <1>5 DEF EngineRest

(* A task can add a finding only while its run has not returned, and put   *)
(* an event behind the sentinel only when its run has raised.              *)
LEMMA TasksRest ==
  ASSUME EngineInv, NEW r \in Runs, NEW c \in Checks, EngineTask(r, c) \/ EngineRaises(r, c)
  PROVE  EngineRest'
<1> USE DEF EngineInv
<1>1. TaskStep(r, c) \/ Raises(r, c) BY DEF EngineTask, EngineRaises, TaskStep
<1>2. UNCHANGED <<prod, Driver, Store>> /\ (UNCHANGED queue \/ Put(r, <<"check">>))
  BY DEF EngineTask, EngineRaises, engineVars, Driver, Store
<1>3. "check" \in Event /\ None \notin {"check", "failed", "completed"}
  BY EngineAssumption DEF Event
<1>4. queue[r] \in Seq(Event) /\ queue[r] \o <<"check">> \in Seq(Event)
  BY <1>3, PutOne DEF EngineTypeOK
<1>5. EngineTypeOK' BY <1>2, <1>4 DEF EngineTypeOK, Driver, Store, Put
<1>6. at' = at
  BY <1>1 DEF TaskStep, Acquire, Discovered, Candidates, Validated, Collected, Assessed, Raises, runVars
<1>7. task[r][c] \in Active \cup {"waiting"}
  BY <1>1 DEF TaskStep, Acquire, Discovered, Candidates, Validated, Collected, Assessed, Raises, Active
<1>8. at[r] \notin {"returned", "idle"}
  <2>1. st[r] # "completed" /\ phase[r] \in 1..3 BY <1>7, TaskActs
  <2> QED BY <2>1 DEF OrchInv, AllPlaced, Placed
<1>9. Scan(r)'
  <2>1. Scan(r) OBVIOUS
  <2>2. Produces(r)' BY <1>2, <1>6, <1>8, <2>1 DEF Scan, Produces, Driver
  <2>3. Concludes(r)' BY <1>2, <1>6, <1>8, <2>1 DEF Scan, Concludes, Broken, Driver
  <2>4. Broken(r)' = Broken(r) /\ err' = err /\ cons' = cons /\ prod' = prod /\ dir' = dir
    BY <1>2, <1>6 DEF Broken, Driver
  <2>5. CASE UNCHANGED queue
    <3>1. Queues(r)' BY <1>6, <2>1, <2>4, <2>5 DEF Scan, Queues, Open, Closes
    <3>2. Sums(r)' BY <1>6, <1>8, <2>1, <2>4, <2>5 DEF Scan, Sums
    <3> QED BY <2>2, <2>3, <3>1, <3>2 DEF Scan
  <2>6. CASE Put(r, <<"check">>)
    <3> DEFINE n == Len(queue[r])
    <3>1. queue'[r] = queue[r] \o <<"check">> BY <2>6 DEF Put, EngineTypeOK
    <3>2. /\ n \in Nat /\ DOMAIN queue[r] = 1..n /\ DOMAIN queue'[r] = 1..(n + 1)
          /\ \A i \in 1..n : queue'[r][i] = queue[r][i]
          /\ queue'[r][n + 1] = "check"
      BY <1>3, <1>4, <3>1, PutOne
    <3> HIDE DEF n
    <3>3. \A i \in 1..(n + 1) : i \in 1..n \/ i = n + 1 BY <3>2
    <3>4. \A i \in 1..n : i \in 1..(n + 1) /\ i # n + 1 BY <3>2
    <3>5. prod[r] # "done" => Open(r)'
      BY <1>3, <2>1, <2>4, <3>2, <3>3 DEF Scan, Queues, Open
    <3>6. ASSUME NEW i \in 1..(n + 1), queue'[r][i] = None
          PROVE Closes(r, i)' /\ at'[r] # "cancelled"
      <4>1. i \in 1..n /\ queue[r][i] = None BY <1>3, <3>2, <3>3, <3>6
      <4>2. Closes(r, i) /\ at[r] # "cancelled" BY <2>1, <3>2, <4>1 DEF Scan, Queues
      <4>3. at[r] = "raised"
        <5>1. prod[r] = "done" BY <2>1, <3>2, <4>1 DEF Scan, Queues, Open
        <5>2. at[r] \in Ended \cup {"idle"} BY <2>1, <5>1 DEF Scan, Produces
        <5> QED BY <1>8, <4>2, <5>2 DEF Ended
      <4>4. i > 1 => i - 1 \in 1..n BY <3>2, <4>1
      <4>5. i > 1 => queue'[r][i - 1] \in {"failed", "completed"}
        BY <3>2, <4>2, <4>4 DEF Closes
      <4>6. \A j \in 1..(n + 1) : j > i => queue'[r][j] = "check"
        BY <3>2, <3>3, <4>2 DEF Closes
      <4> QED BY <1>6, <3>2, <4>3, <4>5, <4>6 DEF Closes
    <3>7. ASSUME NEW i \in 1..(n + 1), queue'[r][i] \in {"failed", "completed"}
          PROVE i + 1 \in 1..(n + 1) /\ queue'[r][i + 1] = None
      <4>1. i \in 1..n /\ queue[r][i] \in {"failed", "completed"} BY <3>2, <3>3, <3>7
      <4>2. i + 1 \in 1..n /\ queue[r][i + 1] = None BY <2>1, <3>2, <4>1 DEF Scan, Queues
      <4> QED BY <3>2, <3>4, <4>2
    <3>8. prod[r] = "done" /\ cons[r] = "get" => \E i \in 1..(n + 1) : queue'[r][i] = None
      BY <2>1, <3>2, <3>4 DEF Scan, Queues
    <3>9. Queues(r)' BY <2>4, <3>2, <3>5, <3>6, <3>7, <3>8 DEF Queues
    <3>10. \A i \in 1..(n + 1) :
             /\ queue'[r][i] = "completed" => at'[r] = "returned" /\ Stored(r)'
             /\ queue'[r][i] = "failed" => Broken(r)'
      BY <1>8, <2>1, <2>4, <3>2, <3>3 DEF Scan, Sums
    <3>11. err'[r] = "text" => Broken(r)' BY <2>1, <2>4 DEF Scan, Sums
    <3>12. ASSUME cons'[r] = "get", queue'[r][1] = None, 1 \in 1..(n + 1)
           PROVE err'[r] = "text"
      <4>1. 1 \in 1..n /\ queue[r][1] = None BY <1>3, <3>2, <3>3, <3>12
      <4> QED BY <1>8, <2>1, <2>4, <3>2, <3>12, <4>1 DEF Scan, Sums
    <3>13. Sums(r)' BY <3>2, <3>10, <3>11, <3>12 DEF Sums
    <3> QED BY <2>2, <2>3, <3>9, <3>13 DEF Scan
  <2> QED BY <1>2, <2>5, <2>6
<1>10. ASSUME NEW q \in Runs, q # r PROVE Scan(q)'
  <2>1. at'[q] = at[q] /\ found'[q] = found[q] BY <1>1, <1>10, OthersKept
  <2>2. queue'[q] = queue[q] BY <1>2, <1>10 DEF Put, EngineTypeOK
  <2>3. Kept(q) BY <1>2, <2>1, <2>2 DEF Kept, Driver, Store
  <2> QED BY <2>3, KeptScan
<1> QED BY <1>5, <1>9, <1>10 DEF EngineRest

(* Every step keeps the invariant of the engine. *)
LEMMA NextEngineInv == EngineInv /\ [EngineNext]_allVars => EngineInv'
<1> SUFFICES ASSUME EngineInv, [EngineNext]_allVars PROVE EngineInv' OBVIOUS
<1>1. OrchInv' BY EngineStepsRun, NextOrchInv DEF EngineInv
<1>2. ASSUME NEW r \in Runs, ProducerStep(r) PROVE EngineRest'
  BY <1>2, ProducerStartsRest, EngineBuildRest, EnginePhaseEndsRest, EngineRunFailsRest,
     EngineClosedRest, WritesRest, EvidenceDoneRest DEF ProducerStep
<1>3. ASSUME NEW r \in Runs, RunScan(r) \/ ConfigFails(r) \/ LockedAgain(r)
      PROVE EngineRest'
  BY <1>3, RunScanRest, ConfigFailsRest, WritesRest
<1>4. ASSUME NEW r \in Runs, Take(r) \/ DriverCancelled(r) PROVE EngineRest'
  BY <1>4, TakeRest, DriverCancelledRest
<1>5. ASSUME NEW r \in Runs, NEW c \in Checks, EngineTask(r, c) \/ EngineRaises(r, c)
      PROVE EngineRest'
  BY <1>5, TasksRest
<1>6. CASE UNCHANGED allVars
  <2>1. EngineTypeOK' BY <1>6 DEF EngineInv, allVars, engineVars, EngineTypeOK
  <2>2. \A q \in Runs : Kept(q)
    BY <1>6 DEF allVars, engineVars, orchVars, runVars, taskVars, Kept
  <2>3. ASSUME NEW q \in Runs PROVE Scan(q)'
    <3>1. Scan(q) /\ Kept(q) BY <2>2 DEF EngineInv
    <3> QED BY <3>1, KeptScan
  <2> QED BY <1>1, <2>1, <2>3 DEF EngineInv
<1>7. CASE EngineNext
  <2>1. PICK r \in Runs :
          \/ RunScan(r) \/ ConfigFails(r) \/ ProducerStep(r) \/ LockedAgain(r)
          \/ Take(r) \/ DriverCancelled(r)
          \/ \E c \in Checks : EngineTask(r, c) \/ EngineRaises(r, c)
    BY <1>7 DEF EngineNext
  <2>2. EngineRest' BY <1>2, <1>3, <1>4, <1>5, <2>1
  <2> QED BY <1>1, <2>2 DEF EngineInv, EngineRest
<1> QED BY <1>6, <1>7

(* So it holds throughout. *)
LEMMA SpecEngineInv == EngineSpec => []EngineInv
  BY InitEngineInv, NextEngineInv, PTL DEF EngineSpec

-----------------------------------------------------------------------------
(* Theorems *)

(* A scan, with its producer, its queue and its driver, runs the           *)
(* orchestrator's specification: what holds of every run of that holds of  *)
(* every scan (scanner.py _run_producer, orchestrator.py run).             *)
THEOREM ScansRunTheOrchestrator == EngineSpec => Spec
<1>1. EngineInit => Init BY DEF EngineInit
<1> QED BY <1>1, EngineStepsRun, PTL DEF EngineSpec, Spec

(* Every variable of a scan keeps its type: in particular a write is tried *)
(* at most max_attempts times, and SCAN_FINISHED is published at most once.*)
THEOREM EngineTypes == EngineSpec => [](TypeOK /\ EngineTypeOK)
<1>1. EngineInv => TypeOK /\ EngineTypeOK BY DEF EngineInv, OrchInv
<1> QED BY <1>1, SpecEngineInv, PTL

(* The phases of a scan are barriers, and at most max_concurrent_requests  *)
(* of its checks are between the awaits of their phase                     *)
(* (orchestrator.py:295).                                                  *)
THEOREM PhasesAreBarriers == EngineSpec => []PhaseDiscipline
<1>1. EngineInv => PhaseDiscipline BY InvPhaseDiscipline DEF EngineInv
<1> QED BY <1>1, SpecEngineInv, PTL

(* The end of a scan's run is announced exactly once on every way out, and *)
(* the lifecycle refuses none of its transitions (lifecycle.py).           *)
THEOREM RunsFinishOnce == EngineSpec => []OneFinish
<1>1. EngineInv => OneFinish BY InvOneFinish DEF EngineInv
<1> QED BY <1>1, SpecEngineInv, PTL

(* Nothing of a completed run goes on, and SCAN_FINISHED was its last      *)
(* event (orchestrator.py run).                                            *)
THEOREM SuccessIsQuiet == EngineSpec => []QuietAfterSuccess
<1>1. EngineInv => QuietAfterSuccess BY InvQuietAfterSuccess DEF EngineInv
<1> QED BY <1>1, SpecEngineInv, PTL

(* The sentinel is put once, behind the event that sums the scan up;       *)
(* behind it are only events of tasks a failed run has left, and a driver  *)
(* that waits finds it (scanner.py _run_producer, _make_subscriber).       *)
THEOREM SentinelEndsTheQueue == EngineSpec => []SentinelClosesQueue
<1>1. ASSUME EngineInv PROVE SentinelClosesQueue
  <2>1. ASSUME NEW r \in Runs PROVE Queues(r) BY <1>1 DEF EngineInv, Scan
  <2> QED BY <2>1 DEF SentinelClosesQueue, Queues, Closes
<1> QED BY <1>1, SpecEngineInv, PTL

(* A driver that has left its loop leaves no producer, and a task only     *)
(* behind a check that raised (scanner.py run_scan's finally clause).      *)
THEOREM DriversLeaveNothing == EngineSpec => []NoProducerLeft
<1>1. ASSUME EngineInv PROVE NoProducerLeft
  <2> SUFFICES ASSUME NEW r \in Runs, cons[r] = "done"
      PROVE /\ prod[r] = "done"
            /\ at[r] \in Ended \cup {"idle"}
            /\ \A c \in Checks : task[r][c] \in Active =>
                 \E b \in Checks : task[r][b] = "raised"
    BY DEF NoProducerLeft
  <2>1. prod[r] = "done" /\ at[r] \in Ended \cup {"idle"}
    BY <1>1 DEF EngineInv, Scan, Produces
  <2>2. ASSUME NEW c \in Checks, task[r][c] \in Active
        PROVE \E b \in Checks : task[r][b] = "raised"
    <3>1. OrchInv /\ Placed(r) BY <1>1 DEF EngineInv, OrchInv, AllPlaced
    <3>2. phase[r] \in 1..3 /\ st[r] # "completed" BY <2>2, <3>1, TaskActs
    <3>3. ~Quiet(r) BY <2>2 DEF Quiet, Active
    <3>4. Raised(r) BY <2>1, <3>1, <3>2, <3>3 DEF Placed, Ended
    <3>5. enabled[r] \subseteq Checks BY <3>1 DEF OrchInv, TypeOK
    <3> QED BY <3>4, <3>5 DEF Raised
  <2> QED BY <2>1, <2>2
<1> QED BY <1>1, SpecEngineInv, PTL

(* A scan is reported completed only if its run completed, its findings    *)
(* are stored unless their write failed, and its report is found; failed   *)
(* only if it did not complete; and no status is missing but that of a     *)
(* completed run (scans.py:263, scanner.py _run_producer).                 *)
THEOREM VerdictsAreTrue == EngineSpec => []VerdictTrue
<1>1. ASSUME EngineInv PROVE VerdictTrue
  <2>1. ASSUME NEW r \in Runs PROVE Concludes(r) /\ Placed(r)
    BY <1>1 DEF EngineInv, Scan, OrchInv, AllPlaced
  <2>2. CompletedIsTrue BY <2>1 DEF CompletedIsTrue, Concludes, Placed, Stored
  <2>3. CompletedHasReport BY <2>1 DEF CompletedHasReport, Concludes
  <2>4. FailedIsTrue BY <2>1 DEF FailedIsTrue, Concludes, Broken
  <2> QED BY <2>2, <2>3, <2>4 DEF VerdictTrue
<1> QED BY <1>1, SpecEngineInv, PTL

=============================================================================
