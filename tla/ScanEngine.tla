----------------------------- MODULE ScanEngine -----------------------------
(***************************************************************************)
(* One scan of the dashboard, end to end: the orchestrator's run, the      *)
(* producer task that wraps it (Scanner._run_producer), the queue between  *)
(* the producer and the driver, and the driver's loop over run_scan        *)
(* (_drive_scan), which turns what it received into the scan's status.     *)
(*                                                                         *)
(* The queue holds what the driver looks at: the two forms of scan.started *)
(* (with and without an output directory), the two of scan.failed (whose   *)
(* error is a text, or the data of an ERROR event), scan.completed and the *)
(* sentinel None; and, as "check", what a step of a task puts there        *)
(* (check.started, check.completed and finding.detected).                  *)
(***************************************************************************)
EXTENDS Orchestrator

CONSTANT MaxAttempts     \* of retry_on_lock

ASSUME EngineAssumption ==
  /\ MaxAttempts \in Nat \ {0}
  /\ None \notin {"started_dir", "started", "failed", "failed_data", "completed", "check"}

VARIABLES
  prod,     \* the producer task of each scan
  queue,    \* between producer and driver
  cons,     \* the driver's loop: "off", "get", or "done"
  err,      \* final_error: "none", a "text", or the "data" of an event
  dir,      \* output_dir is set
  verdict,  \* the status the driver writes when the loop is over
  rows,     \* the scan's rows in the findings table
  tries,    \* lock errors of the write under way
  faults    \* history: a write of findings failed, or an id collided

engineVars == <<prod, queue, cons, err, dir, verdict, rows, tries, faults>>
allVars    == <<orchVars, engineVars>>

ProdPos == {"off", "created", "run", "findings", "evidence", "done"}
Event   == {"started_dir", "started", "failed", "failed_data", "completed", "check", None}
Verdict == {"none", "completed", "failed", "cancelled", "unwritten"}

Put(r, items)  == queue' = [queue EXCEPT ![r] = @ \o items]
Moves(r, pos)  == prod' = [prod EXCEPT ![r] = pos]
Driver         == <<cons, err, dir, verdict>>
Store          == <<rows, tries, faults>>

(* Faulty forms of the operators below. *)
AlwaysCompleted(r)  == "completed"
KeepProducer(r)     == UNCHANGED <<orchVars, prod, Store>>
EndingOpen(event)   == <<event>>
EndedFirst(event)   == <<None, event>>

(* The status _drive_scan writes: final_error decides, whatever came after. *)
(* An event's data is a dict, which the column of the error cannot hold:   *)
(* the commit raises outside the try block and the row stays running.      *)
Conclude(r) ==
  CASE err[r] = "none" -> "completed"
    [] err[r] = "text" -> "failed"
    [] err[r] = "data" -> "unwritten"

(* What an event leaves in final_error. *)
KeepsError(e, old) ==
  CASE e = "failed"      -> "text"
    [] e = "failed_data" -> "data"
    [] OTHER             -> old

(* How the producer ends: the terminal event, then the sentinel. *)
Ending(event) == <<event, None>>

(* What an event leaves in output_dir: scan.started overwrites it with its *)
(* own field, which the orchestrator's SCAN_STARTED does not have.         *)
KeepsDir(e, old) ==
  CASE e = "started_dir" -> TRUE
    [] e = "started"     -> FALSE
    [] e = "completed"   -> TRUE
    [] OTHER             -> old

(* attempt < max_attempts - 1: sleep and try again. *)
TriesAgain(r) == tries[r] < MaxAttempts - 1

EngineInit ==
  /\ Init
  /\ prod = [r \in Runs |-> "off"]
  /\ queue = [r \in Runs |-> <<>>]
  /\ cons = [r \in Runs |-> "off"]
  /\ err = [r \in Runs |-> "none"]
  /\ dir = [r \in Runs |-> FALSE]
  /\ verdict = [r \in Runs |-> "none"]
  /\ rows = [r \in Runs |-> {}]
  /\ tries = [r \in Runs |-> 0]
  /\ faults = [r \in Runs |-> FALSE]

-----------------------------------------------------------------------------
(* The producer task *)

(* run_scan: the first step of the loop creates the producer. *)
RunScan(r) ==
  /\ cons[r] = "off"
  /\ cons' = [cons EXCEPT ![r] = "get"]
  /\ Moves(r, "created")
  /\ UNCHANGED <<orchVars, queue, err, dir, verdict, Store>>

(* The configuration cannot be built. *)
ConfigFails(r) ==
  /\ prod[r] = "created"
  /\ Moves(r, "done")
  /\ Put(r, Ending("failed"))
  /\ UNCHANGED <<orchVars, Driver, Store>>

(* scan.started with the directory, then the orchestrator's SCAN_STARTED.  *)
ProducerStarts(r) ==
  /\ prod[r] = "created"
  /\ Start(r)
  /\ Moves(r, "run")
  /\ Put(r, <<"started_dir", "started">>)
  /\ UNCHANGED <<Driver, Store>>

(* The subscriber turns every ERROR event into scan.failed, whose error is *)
(* the event's data.                                                       *)
EngineBuild(r) ==
  /\ prod[r] = "run"
  /\ \E ok \in BOOLEAN :
       /\ Build(r, ok)
       /\ IF ok THEN UNCHANGED queue ELSE Put(r, <<"failed_data">>)
  /\ UNCHANGED <<prod, Driver, Store>>

EnginePhaseEnds(r) ==
  /\ prod[r] = "run"
  /\ PhaseEnds(r)
  /\ UNCHANGED engineVars

EngineRunFails(r) ==
  /\ prod[r] = "run"
  /\ RunFails(r)
  /\ Put(r, <<"failed_data">>)
  /\ UNCHANGED <<prod, Driver, Store>>

(* run() is over: a failure is reported again, a success is persisted. *)
EngineClosed(r) ==
  /\ prod[r] = "run"
  /\ Closed(r)
  /\ IF at'[r] = "raised"
     THEN Moves(r, "done") /\ Put(r, Ending("failed"))
     ELSE Moves(r, "findings") /\ UNCHANGED queue
  /\ UNCHANGED <<Driver, Store>>

(* _write_finding_rows: one transaction for all findings. *)
WriteFindings(r) ==
  /\ prod[r] = "findings"
  /\ rows' = [rows EXCEPT ![r] = found[r]]
  /\ Moves(r, "evidence")
  /\ tries' = [tries EXCEPT ![r] = 0]
  /\ UNCHANGED <<orchVars, queue, Driver, faults>>

LockedAgain(r) ==
  /\ prod[r] \in {"findings", "evidence"}
  /\ TriesAgain(r)
  /\ tries' = [tries EXCEPT ![r] = @ + 1]
  /\ UNCHANGED <<orchVars, prod, queue, Driver, rows, faults>>

(* Out of attempts, or another error, such as an id that exists already    *)
(* (wpoc_id is unique over all scans): logged, and the producer goes on.   *)
WriteFails(r) ==
  /\ prod[r] = "findings"
  /\ faults' = [faults EXCEPT ![r] = TRUE]
  /\ Moves(r, "evidence")
  /\ tries' = [tries EXCEPT ![r] = 0]
  /\ UNCHANGED <<orchVars, queue, Driver, rows>>

(* The evidence is written, or fails to be, and scan.completed is the end. *)
EvidenceDone(r) ==
  /\ prod[r] = "evidence"
  /\ Moves(r, "done")
  /\ Put(r, Ending("completed"))
  /\ UNCHANGED <<orchVars, Driver, Store>>

-----------------------------------------------------------------------------
(* The tasks of a run *)

(* The subscriber passes the events of the second phase on, and the        *)
(* confirmed findings of the third, whether the run still waits for the    *)
(* task or not.                                                            *)
EngineTask(r, c) ==
  /\ \/ /\ Acquire(r, c) \/ Discovered(r, c)
        /\ IF phase[r] = 2 THEN Put(r, <<"check">>) ELSE UNCHANGED queue
     \/ /\ Candidates(r, c) \/ Validated(r, c) \/ Collected(r, c)
        /\ UNCHANGED queue
     \/ \E finding \in BOOLEAN :
          /\ Assessed(r, c, finding)
          /\ \/ UNCHANGED queue
             \/ finding /\ Put(r, <<"check">>)
  /\ UNCHANGED <<prod, Driver, Store>>

EngineRaises(r, c) == Raises(r, c) /\ UNCHANGED engineVars

-----------------------------------------------------------------------------
(* The driver's loop *)

Take(r) ==
  /\ cons[r] = "get"
  /\ queue[r] # <<>>
  /\ LET e == Head(queue[r])
     IN /\ queue' = [queue EXCEPT ![r] = Tail(@)]
        /\ dir' = [dir EXCEPT ![r] = KeepsDir(e, @)]
        /\ err' = [err EXCEPT ![r] = KeepsError(e, @)]
        /\ IF e = None
           THEN /\ cons' = [cons EXCEPT ![r] = "done"]
                /\ verdict' = [verdict EXCEPT ![r] = Conclude(r)]
           ELSE UNCHANGED <<cons, verdict>>
  /\ UNCHANGED <<orchVars, prod, Store>>

(* The finally clause of run_scan: a producer that is not done is          *)
(* cancelled and awaited.  A commit under way may have landed.             *)
StopProducer(r) ==
  /\ IF prod[r] = "run" THEN Cancel(r) ELSE UNCHANGED orchVars
  /\ prod' = [prod EXCEPT ![r] = "done"]
  /\ \/ UNCHANGED rows
     \/ prod[r] = "findings" /\ rows' = [rows EXCEPT ![r] = found[r]]
  /\ UNCHANGED <<tries, faults>>

(* The driver is cancelled while it waits for the queue. *)
DriverCancelled(r) ==
  /\ cons[r] = "get"
  /\ cons' = [cons EXCEPT ![r] = "done"]
  /\ verdict' = [verdict EXCEPT ![r] = "cancelled"]
  /\ StopProducer(r)
  /\ UNCHANGED <<queue, err, dir>>

-----------------------------------------------------------------------------

ProducerStep(r) ==
  \/ ProducerStarts(r) \/ EngineBuild(r) \/ EnginePhaseEnds(r) \/ EngineRunFails(r)
  \/ EngineClosed(r) \/ WriteFindings(r) \/ WriteFails(r) \/ EvidenceDone(r)

EngineNext ==
  \E r \in Runs :
    \/ RunScan(r) \/ ConfigFails(r) \/ ProducerStep(r) \/ LockedAgain(r)
    \/ Take(r) \/ DriverCancelled(r)
    \/ \E c \in Checks : EngineTask(r, c) \/ EngineRaises(r, c)

EngineSpec == EngineInit /\ [][EngineNext]_allVars

(* The event loop runs what is ready; every await of a check ends, because *)
(* requests have time-outs and the gate of a dashboard scan asks nobody.   *)
FairEngineSpec ==
  /\ EngineSpec
  /\ \A r \in Runs :
       /\ WF_allVars(ProducerStep(r))
       /\ WF_allVars(Take(r))
       /\ \A c \in Checks : WF_allVars(EngineTask(r, c))

-----------------------------------------------------------------------------
(* Properties *)

EngineTypeOK ==
  /\ prod \in [Runs -> ProdPos]
  /\ queue \in [Runs -> Seq(Event)]
  /\ cons \in [Runs -> {"off", "get", "done"}]
  /\ err \in [Runs -> {"none", "text", "data"}]
  /\ dir \in [Runs -> BOOLEAN]
  /\ verdict \in [Runs -> Verdict]
  /\ rows \in [Runs -> SUBSET Checks]
  /\ tries \in [Runs -> 0..(MaxAttempts - 1)]
  /\ faults \in [Runs -> BOOLEAN]

(* A scan is reported completed only when the orchestrator completed, and  *)
(* then its findings are in the table unless the write was seen to fail.   *)
CompletedIsTrue ==
  \A r \in Runs : verdict[r] = "completed" =>
    /\ st[r] = "completed" /\ at[r] = "returned"
    /\ rows[r] = found[r] \/ faults[r]

(* The producer closes the queue once: behind the one event that sums the  *)
(* scan up it puts the sentinel, and what follows it are events of tasks   *)
(* that a failed run has left behind, none that the driver would have to   *)
(* act on.  A driver that waits will find the sentinel, or its producer is *)
(* still there to put it (scanner.py _run_producer, _make_subscriber).     *)
SentinelClosesQueue ==
  \A r \in Runs :
    /\ \A i \in DOMAIN queue[r] : queue[r][i] = None =>
         /\ i > 1 => queue[r][i - 1] \in {"failed", "completed"}
         /\ \A j \in DOMAIN queue[r] : j > i => queue[r][j] = "check" /\ at[r] = "raised"
    /\ cons[r] = "get" /\ prod[r] = "done" =>
         \E i \in DOMAIN queue[r] : queue[r][i] = None

(* When the driver leaves its loop nothing of the producer is left, and    *)
(* the tasks of the run's gather are over unless the run failed.           *)
NoProducerLeft ==
  \A r \in Runs : cons[r] = "done" =>
    /\ prod[r] = "done"
    /\ at[r] \in Ended \cup {"idle"}
    /\ \A c \in Checks : task[r][c] \in Active =>
         \E b \in Checks : task[r][b] = "raised"

(* The report directory of a completed scan is recorded. *)
CompletedHasReport ==
  \A r \in Runs : verdict[r] = "completed" => dir[r]

(* A scan is reported failed only when it never ran or its run raised; a   *)
(* status cannot be written only where the run completed all the same.     *)
FailedIsTrue ==
  \A r \in Runs :
    /\ verdict[r] = "failed" => at[r] \in {"idle", "raised"}
    /\ verdict[r] = "unwritten" => at[r] = "returned"

(* The verdict can be believed.  "completed": the run did complete, its    *)
(* findings are stored unless their write failed, and its report is found. *)
(* "failed": the run did not complete; and of such a run a cancel alone    *)
(* keeps it from being written (scans.py:263, scanner.py _run_producer).   *)
VerdictTrue == CompletedIsTrue /\ CompletedHasReport /\ FailedIsTrue

(* Every scan gets a verdict. *)
EngineTerminates == \A r \in Runs : cons[r] = "get" ~> cons[r] = "done"

(* A scan that was started ends, the run of its checks and the driver that *)
(* waits for them alike, whichever of them failed.                         *)
ScanEnds == RunTerminates /\ EngineTerminates

(* Findings captured before a cancellation are persisted. *)
CancelKeepsFindings ==
  \A r \in Runs : verdict[r] = "cancelled" => rows[r] = found[r]

=============================================================================
