--------------------------- MODULE ScanLifecycle ---------------------------
(***************************************************************************)
(* The life of a scan row in the dashboard server.                         *)
(*                                                                         *)
(* One asyncio process serves HTTP requests and runs one background task   *)
(* (a driver) per scan.  Requests and drivers share the rows of the scans  *)
(* table and the registry _SCAN_TASKS, and interleave at every await.  An  *)
(* action below is what runs between two awaits, or one statement of the   *)
(* database thread: a row is READ by one action and WRITTEN by a later     *)
(* one, and anything may happen in between.  The session writes an         *)
(* attribute only when it differs from the value it loaded, so a commit    *)
(* depends on the value that was seen, not on the value that is there.     *)
(*                                                                         *)
(* There are two kinds of driver: "ui" (_drive_scan, started by POST       *)
(* /api/scans and POST /api/scans/{id}/start, registered so that /cancel   *)
(* can reach it) and "sched" (run_scheduled_scan, not registered).         *)
(***************************************************************************)
EXTENDS Integers, FiniteSets

CONSTANTS
  MaxScans,   \* bound on the ids of the scans table
  Drivers,    \* background tasks that may exist at the same time
  Requests,   \* HTTP requests in flight at the same time
  Ops,        \* the routes the clients of this instance call
  Faults,     \* whether the process may crash and commits may fail
  None        \* no driver registered, no scan

AllOps == {"create", "start", "cancel", "trigger", "delete"}

ASSUME LifecycleAssumption ==
  /\ MaxScans \in Nat \ {0}
  /\ Ops \subseteq AllOps
  /\ Faults \in BOOLEAN
  /\ None \notin Drivers
  /\ None \notin 1..MaxScans

Scans    == 1..MaxScans
Terminal == {"completed", "failed", "cancelled"}
Status   == {"pending", "running"} \cup Terminal
Goal     == {"running"} \cup Terminal
Outcome  == {"completed", "failed"}

VARIABLES
  up,      \* the process is serving (after the recovery sweep)
  target,  \* the target row the scans belong to exists
  row,     \* status column of each scan id, "absent" when there is no row
  drv,     \* the background tasks
  reg,     \* _SCAN_TASKS
  req,     \* the requests in flight
  lost     \* history: scans whose driver died owing the row a final status

vars == <<up, target, row, drv, reg, req, lost>>

(***************************************************************************)
(* A driver is                                                             *)
(*   "begin"   before its first read of the row,                           *)
(*   "commit"  with an UPDATE of the row to goal under way,                *)
(*   "exit"    after the commit of "running", still closing that session,  *)
(*   "run"     inside the try block, consuming scanner.run_scan,           *)
(*   "handler" in the except CancelledError clause, before it reads,       *)
(*   "final"   past the try block, before the final read,                  *)
(*   "ended"   finished, its done-callback not run yet;                    *)
(* seen is the status its open session loaded.                             *)
(***************************************************************************)
Resting == {"begin", "exit", "run", "handler", "ended"}
Kinds   == {"ui", "sched"}
Free    == [pc |-> "free"]
Driver  ==
  [pc : Resting, scan : Scans, kind : Kinds, seen : {"none"}, goal : {"none"}]
    \cup [pc : {"final"}, scan : Scans, kind : Kinds, seen : {"none"}, goal : Outcome]
    \cup [pc : {"commit"}, scan : Scans, kind : Kinds, seen : Status, goal : Goal]

Live(d)  == drv[d].pc \notin {"free", "ended"}
Works(d, s) == drv[d].pc # "free" /\ drv[d].scan = s

NewDriver(s, k) ==
  [pc |-> "begin", scan |-> s, kind |-> k, seen |-> "none", goal |-> "none"]

At(d, pc, seen, goal) ==
  [pc |-> pc, scan |-> drv[d].scan, kind |-> drv[d].kind,
   seen |-> seen, goal |-> goal]

Move(d, pc, seen, goal) == drv' = [drv EXCEPT ![d] = At(d, pc, seen, goal)]
End(d)                  == Move(d, "ended", "none", "none")

(* A request is idle or waits, with what it read, to run its next step.    *)
Dispatches == {"create_dispatch", "trigger_dispatch", "start_dispatch"}
Cancels    == {"cancel_act", "cancel_commit"}
Idle       == [step |-> "idle"]
Request    ==
  [step : {"create_insert"}, scan : {None}, seen : {"none"}, gone : {{}}]
    \cup [step : Dispatches \cup Cancels, scan : Scans, seen : Status, gone : {{}}]
    \cup [step : {"delete_commit"}, scan : {None}, seen : {"none"}, gone : SUBSET Scans]

Wait(r, step, s, seen) ==
  req' = [req EXCEPT ![r] = [step |-> step, scan |-> s, seen |-> seen,
                             gone |-> {}]]
Answer(r) == req' = [req EXCEPT ![r] = Idle]

(* What a commit of goal leaves in the row of s when the session had       *)
(* loaded seen; an UPDATE of a row that is gone raises and writes nothing. *)
Written(s, seen, goal) ==
  IF row[s] # "absent" /\ seen # goal
  THEN [row EXCEPT ![s] = goal] ELSE row

(* INTEGER PRIMARY KEY without AUTOINCREMENT: the largest id plus one, so  *)
(* the id of a deleted last row is given out again.                        *)
IsNextId(s) ==
  \A t \in Scans : /\ t >= s => row[t] = "absent"
                   /\ t = s - 1 => row[t] # "absent"

Insert(s) == row' = [row EXCEPT ![s] = "pending"]

(* Faulty forms of the five operators below, one per property.             *)
RegisterNothing(s, d)   == reg
PopNothing(s)           == reg
StartableAgain(st)      == st \in {"pending", "failed"}
MarkablePending(st)     == st = "pending"

(* _SCAN_TASKS after _register_scan_task and _pop_scan_task. *)
RegisterTask(s, d) == [reg EXCEPT ![s] = d]
PopTask(s)         == [reg EXCEPT ![s] = None]

(* The statuses /start dispatches a driver for, and the one the except     *)
(* CancelledError clause marks.                                            *)
Startable(st)  == st = "pending"
Markable(st)   == st = "running"

(* What recover_orphan_scans makes of a status. *)
Swept(st) == IF st = "running" THEN "failed" ELSE st

Init ==
  /\ up = TRUE
  /\ target = TRUE
  /\ row = [s \in Scans |-> "absent"]
  /\ drv = [d \in Drivers |-> Free]
  /\ reg = [s \in Scans |-> None]
  /\ req = [r \in Requests |-> Idle]
  /\ lost = {}

-----------------------------------------------------------------------------
(* Requests *)

Starts(r, op) == up /\ op \in Ops /\ req[r] = Idle
Resumes(r, step) == up /\ req[r].step = step

(* POST /api/targets, after the target was deleted. *)
CreateTarget ==
  /\ up /\ ~target
  /\ target' = TRUE
  /\ UNCHANGED <<up, row, drv, reg, req, lost>>

(* POST /api/scans: look the target up, insert the pending row, create and *)
(* register the driver.                                                    *)
CreateRead(r) ==
  /\ Starts(r, "create")
  /\ target
  /\ Wait(r, "create_insert", None, "none")
  /\ UNCHANGED <<up, target, row, drv, reg, lost>>

CreateInsert(r, s) ==
  /\ Resumes(r, "create_insert")
  /\ IsNextId(s)
  /\ Insert(s)
  /\ Wait(r, "create_dispatch", s, "pending")
  /\ UNCHANGED <<up, target, drv, reg, lost>>

Dispatch(r, d) ==
  /\ drv[d] = Free
  /\ drv' = [drv EXCEPT ![d] = NewDriver(req[r].scan, "ui")]
  /\ reg' = RegisterTask(req[r].scan, d)
  /\ Answer(r)

CreateDispatch(r, d) ==
  /\ Resumes(r, "create_dispatch")
  /\ Dispatch(r, d)
  /\ UNCHANGED <<up, target, row, lost>>

(* POST /api/schedules/{id}/trigger and the cron job: a pending row for    *)
(* the schedule's target, whether that target still exists or not, and a   *)
(* driver that is not registered.                                          *)
TriggerInsert(r, s) ==
  /\ Starts(r, "trigger")
  /\ IsNextId(s)
  /\ Insert(s)
  /\ Wait(r, "trigger_dispatch", s, "pending")
  /\ UNCHANGED <<up, target, drv, reg, lost>>

TriggerDispatch(r, d) ==
  /\ Resumes(r, "trigger_dispatch")
  /\ drv[d] = Free
  /\ drv' = [drv EXCEPT ![d] = NewDriver(req[r].scan, "sched")]
  /\ Answer(r)
  /\ UNCHANGED <<up, target, row, reg, lost>>

(* POST /api/scans/{id}/start: only a row read as pending goes on; running *)
(* is answered 200, a terminal status 409, and neither changes anything.   *)
StartRead(r, s) ==
  /\ Starts(r, "start")
  /\ Startable(row[s])
  /\ Wait(r, "start_dispatch", s, row[s])
  /\ UNCHANGED <<up, target, row, drv, reg, lost>>

StartDispatch(r, d) ==
  /\ Resumes(r, "start_dispatch")
  /\ target
  /\ Dispatch(r, d)
  /\ UNCHANGED <<up, target, row, lost>>

StartNoTarget(r) ==
  /\ Resumes(r, "start_dispatch")
  /\ ~target
  /\ Answer(r)
  /\ UNCHANGED <<up, target, row, drv, reg, lost>>

(* A driver owes the row of its scan a final status: it left the row at    *)
(* "running", or may have, and its remaining code is what will change it.  *)
Owes(d) ==
  \/ drv[d].pc \in {"exit", "run", "handler", "final"}
  \/ drv[d].pc = "commit" /\ drv[d].seen = "running" /\ drv[d].goal # "running"

(* task.cancel() is delivered at the await the task is suspended on.       *)
(* Inside the try block it starts the except clause.  Anywhere else it     *)
(* ends the task: there a statement already handed to the database thread  *)
(* may have committed (landed) or is rolled back.                          *)
CancelTask(d, landed) ==
  LET s    == drv[d].scan
      next == IF drv[d].pc = "run" THEN "handler" ELSE "ended"
      owed == IF landed THEN drv[d].goal = "running" ELSE Owes(d)
  IN /\ landed => drv[d].pc = "commit"
     /\ row'  = IF landed THEN Written(s, drv[d].seen, drv[d].goal) ELSE row
     /\ Move(d, next, "none", "none")
     /\ lost' = IF next = "ended" /\ owed /\ row'[s] = "running"
                THEN lost \cup {s} ELSE lost

(* POST /api/scans/{id}/cancel: pop the registered task and cancel it, and *)
(* when the row was read as pending mark it here.                          *)
CancelRead(r, s) ==
  /\ Starts(r, "cancel")
  /\ row[s] \in {"pending", "running"}
  /\ Wait(r, "cancel_act", s, row[s])
  /\ UNCHANGED <<up, target, row, drv, reg, lost>>

CancelAct(r) ==
  LET s == req[r].scan
  IN /\ Resumes(r, "cancel_act")
     /\ reg' = PopTask(s)
     /\ \/ /\ reg[s] # None
           /\ \E landed \in BOOLEAN : CancelTask(reg[s], landed)
        \/ /\ reg[s] = None
           /\ UNCHANGED <<row, drv, lost>>
     /\ IF req[r].seen = "pending"
        THEN Wait(r, "cancel_commit", s, "pending")
        ELSE Answer(r)
     /\ UNCHANGED <<up, target>>

CancelCommit(r) ==
  /\ Resumes(r, "cancel_commit")
  /\ row' = Written(req[r].scan, req[r].seen, "cancelled")
  /\ Answer(r)
  /\ UNCHANGED <<up, target, drv, reg, lost>>

(* DELETE /api/targets/{id}: the cascade loads the scans, then one commit  *)
(* deletes them and the target.  Drivers and registry are not told.        *)
DeleteRead(r) ==
  /\ Starts(r, "delete")
  /\ target
  /\ req' = [req EXCEPT ![r] =
               [step |-> "delete_commit", scan |-> None, seen |-> "none",
                gone |-> {s \in Scans : row[s] # "absent"}]]
  /\ UNCHANGED <<up, target, row, drv, reg, lost>>

DeleteCommit(r) ==
  /\ Resumes(r, "delete_commit")
  /\ target' = FALSE
  /\ row' = [s \in Scans |-> IF s \in req[r].gone THEN "absent" ELSE row[s]]
  /\ lost' = lost \ req[r].gone
  /\ Answer(r)
  /\ UNCHANGED <<up, drv, reg>>

-----------------------------------------------------------------------------
(* Drivers *)

(* The first session of _drive_scan: without a row it goes on all the same. *)
BeginRead(d) ==
  LET s == drv[d].scan
  IN /\ up /\ drv[d].pc = "begin" /\ drv[d].kind = "ui"
     /\ IF row[s] = "absent" THEN Move(d, "run", "none", "none")
                             ELSE Move(d, "commit", row[s], "running")
     /\ UNCHANGED <<up, target, row, reg, req, lost>>

(* The first session of run_scheduled_scan: it returns without a row, and  *)
(* fails the scan when its target is gone.                                 *)
SchedBeginRead(d) ==
  LET s == drv[d].scan
  IN /\ up /\ drv[d].pc = "begin" /\ drv[d].kind = "sched"
     /\ IF row[s] = "absent"
        THEN End(d)
        ELSE Move(d, "commit", row[s], IF target THEN "running" ELSE "failed")
     /\ UNCHANGED <<up, target, row, reg, req, lost>>

(* The commit of any of a driver's sessions.  When the row is gone the     *)
(* flush raises StaleDataError, outside the try block: the task ends.      *)
Commit(d) ==
  LET s == drv[d].scan
  IN /\ up /\ drv[d].pc = "commit"
     /\ row' = Written(s, drv[d].seen, drv[d].goal)
     /\ IF row[s] # "absent" /\ drv[d].goal = "running"
        THEN Move(d, "exit", "none", "none")
        ELSE End(d)
     /\ UNCHANGED <<up, target, reg, req, lost>>

(* The session is closed; the driver enters the try block. *)
Enter(d) ==
  /\ up /\ drv[d].pc = "exit"
  /\ Move(d, "run", "none", "none")
  /\ UNCHANGED <<up, target, row, reg, req, lost>>

(* run_scan is exhausted or raises; the bus is closed. *)
RunEnds(d) ==
  /\ up /\ drv[d].pc = "run"
  /\ \E goal \in Outcome : Move(d, "final", "none", goal)
  /\ UNCHANGED <<up, target, row, reg, req, lost>>

FinalRead(d) ==
  LET s == drv[d].scan
  IN /\ up /\ drv[d].pc = "final"
     /\ IF row[s] = "absent" THEN End(d)
                             ELSE Move(d, "commit", row[s], drv[d].goal)
     /\ UNCHANGED <<up, target, row, reg, req, lost>>

(* except CancelledError: mark the row only when it is still running. *)
HandlerRead(d) ==
  LET s == drv[d].scan
  IN /\ up /\ drv[d].pc = "handler"
     /\ IF Markable(row[s]) THEN Move(d, "commit", row[s], "cancelled")
                             ELSE End(d)
     /\ UNCHANGED <<up, target, row, reg, req, lost>>

(* The task is done; its callback pops whatever is registered for its scan. *)
DoneCallback(d) ==
  /\ up /\ drv[d].pc = "ended"
  /\ drv' = [drv EXCEPT ![d] = Free]
  /\ reg' = IF drv[d].kind = "ui" THEN PopTask(drv[d].scan) ELSE reg
  /\ UNCHANGED <<up, target, row, req, lost>>

-----------------------------------------------------------------------------
(* Failures *)

(* "database is locked" after busy_timeout: the driver's sessions are not  *)
(* wrapped in retry_on_lock and their commits are outside the try block.   *)
(* A final commit also fails without a fault, when the error of the last   *)
(* scan.failed is the data of an event and not a text.                     *)
CommitFails(d) ==
  /\ up /\ drv[d].pc = "commit"
  /\ Faults \/ drv[d].goal \in Outcome
  /\ lost' = IF Owes(d) /\ row[drv[d].scan] = "running"
             THEN lost \cup {drv[d].scan} ELSE lost
  /\ End(d)
  /\ UNCHANGED <<up, target, row, reg, req>>

CancelCommitFails(r) ==
  /\ Faults /\ Resumes(r, "cancel_commit")
  /\ Answer(r)
  /\ UNCHANGED <<up, target, row, drv, reg, lost>>

(* The process dies with everything it keeps in memory. *)
Crash ==
  /\ Faults /\ up
  /\ up' = FALSE
  /\ drv' = [d \in Drivers |-> Free]
  /\ reg' = [s \in Scans |-> None]
  /\ req' = [r \in Requests |-> Idle]
  /\ UNCHANGED <<target, row, lost>>

(* recover_orphan_scans, run by the lifespan before requests are accepted. *)
Recover ==
  /\ ~up
  /\ up' = TRUE
  /\ row' = [s \in Scans |-> Swept(row[s])]
  /\ lost' = {}
  /\ UNCHANGED <<target, drv, reg, req>>

-----------------------------------------------------------------------------

RequestStep(r) ==
  \/ \E s \in Scans : CreateInsert(r, s)
  \/ \E d \in Drivers : CreateDispatch(r, d) \/ TriggerDispatch(r, d) \/ StartDispatch(r, d)
  \/ StartNoTarget(r)
  \/ CancelAct(r)
  \/ CancelCommit(r)
  \/ DeleteCommit(r)

Arrival(r) ==
  \/ CreateRead(r)
  \/ DeleteRead(r)
  \/ \E s \in Scans : TriggerInsert(r, s) \/ StartRead(r, s) \/ CancelRead(r, s)

(* Everything a driver does except deciding when the scan itself is over. *)
DriverStep(d) ==
  \/ BeginRead(d) \/ SchedBeginRead(d) \/ Commit(d) \/ Enter(d)
  \/ FinalRead(d) \/ HandlerRead(d) \/ DoneCallback(d)

Environment ==
  \/ \E r \in Requests : CancelCommitFails(r)
  \/ \E d \in Drivers : RunEnds(d) \/ CommitFails(d)
  \/ CreateTarget
  \/ Crash
  \/ Recover

Next ==
  \/ \E r \in Requests : Arrival(r) \/ RequestStep(r)
  \/ \E d \in Drivers : DriverStep(d)
  \/ Environment

Spec == Init /\ [][Next]_vars

(***************************************************************************)
(* The dashboard's own use of the routes: /start only for a row that has   *)
(* no driver (the rows left pending by a restart) and that nobody else is  *)
(* acting on, /cancel only once the scan's driver has been created.        *)
(***************************************************************************)
Acting(s, steps) ==
  \E q \in Requests : req[q].step \in steps /\ req[q].scan = s

PoliteArrival(r) ==
  \/ CreateRead(r)
  \/ DeleteRead(r)
  \/ \E s \in Scans :
       \/ TriggerInsert(r, s)
       \/ StartRead(r, s) /\ ~Acting(s, Dispatches \cup Cancels) /\ ~\E d \in Drivers : Works(d, s)
       \/ CancelRead(r, s) /\ ~Acting(s, Dispatches)

PoliteNext ==
  \/ \E r \in Requests : PoliteArrival(r) \/ RequestStep(r)
  \/ \E d \in Drivers : DriverStep(d)
  \/ Environment

PoliteSpec == Init /\ [][PoliteNext]_vars

-----------------------------------------------------------------------------
(* Properties *)

TypeOK ==
  /\ up \in BOOLEAN
  /\ target \in BOOLEAN
  /\ row \in [Scans -> Status \cup {"absent"}]
  /\ drv \in [Drivers -> Driver \cup {Free}]
  /\ reg \in [Scans -> Drivers \cup {None}]
  /\ req \in [Requests -> Request \cup {Idle}]
  /\ lost \subseteq Scans

(* While the server is up, a row says "running" only if some task is still *)
(* bound to change it, or its task was killed outside the try block, or    *)
(* could not commit.  No interleaving of requests and drivers, no deletion *)
(* with reuse of the id, and no crash and restart makes any other.         *)
OrphansAccounted ==
  up => \A s \in Scans :
          row[s] = "running" =>
            s \in lost \/ \E d \in Drivers : Works(d, s) /\ Owes(d)

(* Has the except clause of _drive_scan been entered?                      *)
Cancelling(d) ==
  \/ drv[d].pc = "handler"
  \/ drv[d].pc = "commit" /\ drv[d].goal = "cancelled"

(* What _SCAN_TASKS holds for a scan is an unfinished or just finished     *)
(* task of that scan, and never one that was cancelled before: a second    *)
(* /cancel cannot interrupt the clause that marks the row.                 *)
RegistrySound ==
  \A s \in Scans : reg[s] # None =>
    /\ Works(reg[s], s)
    /\ drv[reg[s]].kind = "ui"
    /\ ~Cancelling(reg[s])

(* /cancel can signal every task that drives a scan for the scans routes.  *)
CancelCanReach ==
  \A d \in Drivers :
    Live(d) /\ drv[d].kind = "ui" /\ ~Cancelling(d) => reg[drv[d].scan] = d

(* The arcs of a scan's status: no terminal status has one. *)
Arcs ==
  {<<"absent", "pending">>, <<"pending", "running">>, <<"pending", "cancelled">>}
    \cup {<<"running", st>> : st \in Terminal}

(* A finished scan is marked cancelled by a /cancel that had read its row  *)
(* while it was pending and has not looked again since.                    *)
Overtaken(s) ==
  /\ row[s] \in Outcome
  /\ row'[s] = "cancelled"
  /\ \E r \in Requests :
       /\ req[r].step = "cancel_commit" /\ req[r].scan = s /\ req[r].seen = "pending"
       /\ req'[r] = Idle

(* A status only moves along the arcs, so a terminal one stays (the        *)
(* response matrix of cancel_scan and start_scan), but for the /cancel     *)
(* that started before the scan did and commits after its end.             *)
StatusMachine ==
  [][\A s \in Scans :
       row'[s] # row[s] => <<row[s], row'[s]>> \in Arcs \/ Overtaken(s)]_vars

(* Cancelled is terminal, whoever runs the scan. *)
CancelledIsTerminal ==
  [][\A s \in Scans : row[s] = "cancelled" => row'[s] \in {"cancelled", "absent"}]_row

(* A cancel that reaches a scan inside its try block ends its running      *)
(* state, unless the commit fails or the process dies first.               *)
CancelLands ==
  \A s \in Scans :
    (\E d \in Drivers : Works(d, s) /\ drv[d].pc = "handler")
      ~> (row[s] # "running" \/ s \in lost \/ ~up)

=============================================================================
