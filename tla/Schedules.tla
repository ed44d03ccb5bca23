----------------------------- MODULE Schedules -----------------------------
(***************************************************************************)
(* The schedules: a row in the database and, for an enabled one, a job of  *)
(* the scheduler in memory.  The two are changed one after the other by    *)
(* requests that interleave, by an add or a delete that may fail, and by a *)
(* restart, which loses the jobs and loads them from the rows, or fails to.*)
(***************************************************************************)
EXTENDS Naturals, FiniteSets

CONSTANTS
  SchedIds,     \* row ids, 1..n
  SchedReqs     \* requests in a behaviour

ASSUME SchedAssumption == SchedIds \subseteq Nat \ {0}

VARIABLES
  up,          \* the server runs
  loaded,      \* the scheduler has been started, with the rows of that time
  rows,        \* the table: id -> a flag, or "free"
  jobs,        \* ids the scheduler has a job for
  sreq,        \* the requests
  broken       \* history: ids whose job a failed delete has removed, or a
               \* creator has set whose own row was gone by then

schedVars == <<up, loaded, rows, jobs, sreq, broken>>

(* A row is enabled or not; an enabled one may have a cron that croniter   *)
(* takes and APScheduler refuses: an alias, six fields, weekday 7.         *)
Flags == {"on", "off", "odd"}

NewRequest == [pc |-> "new"]

SchedOff ==
  /\ up = FALSE /\ loaded = FALSE /\ rows = [i \in SchedIds |-> "free"] /\ jobs = {}
  /\ sreq = [r \in SchedReqs |-> [pc |-> "off"]] /\ broken = {}

SchedInit ==
  /\ up = TRUE /\ loaded = TRUE /\ rows = [i \in SchedIds |-> "free"] /\ jobs = {}
  /\ sreq = [r \in SchedReqs |-> NewRequest] /\ broken = {}

StoredIds == {i \in SchedIds : rows[i] # "free"}

(* SQLite gives the successor of the largest id in use. *)
IsNext(id) == (\A i \in StoredIds : i < id) /\ (id = 1 \/ id - 1 \in StoredIds)

(* create_schedule commits the row ...                                     *)
CommitSchedule(r) ==
  /\ up /\ sreq[r].pc = "new"
  /\ \E id \in SchedIds, flag \in Flags :
       /\ IsNext(id) /\ rows' = [rows EXCEPT ![id] = flag]
       /\ sreq' = [sreq EXCEPT ![r] = [pc |-> "created", id |-> id]]
  /\ UNCHANGED <<up, loaded, jobs, broken>>

(* ... reads it again, which raises when it is gone ...                    *)
RefreshSchedule(r) ==
  /\ up /\ sreq[r].pc = "created"
  /\ LET id == sreq[r].id IN
       sreq' = [sreq EXCEPT ![r] =
         IF rows[id] = "free" THEN [pc |-> "done"]
         ELSE [pc |-> "read", id |-> id, flag |-> rows[id]]]
  /\ UNCHANGED <<up, loaded, rows, jobs, broken>>

(* add_job: the old job of this id goes; a disabled row gets none, nor one *)
(* whose cron is refused, which is only logged.                            *)
JobsWith(id, flag) == IF flag = "on" THEN jobs \cup {id} ELSE jobs \ {id}

(* ... and adds its job, after the row as it was read; "stray" is history: *)
(* that row was deleted since.                                             *)
AddJob(r) ==
  /\ up /\ sreq[r].pc \in {"read", "stray"}
  /\ LET q == sreq[r] IN
       /\ jobs' = JobsWith(q.id, q.flag)
       /\ broken' = IF q.pc = "read" THEN broken \ {q.id} ELSE broken \cup {q.id}
  /\ sreq' = [sreq EXCEPT ![r] = [pc |-> "done"]]
  /\ UNCHANGED <<up, loaded, rows>>

(* delete_schedule finds the row and removes the job ...                   *)
Unschedule(r) ==
  /\ up /\ sreq[r].pc = "new"
  /\ \E id \in StoredIds :
       /\ jobs' = jobs \ {id}
       /\ sreq' = [sreq EXCEPT ![r] = [pc |-> "unscheduled", id |-> id]]
  /\ UNCHANGED <<up, loaded, rows, broken>>

(* ... then deletes the row, by its id; who has read it has a row no more. *)
DeleteSchedule(r) ==
  /\ up /\ sreq[r].pc = "unscheduled"
  /\ LET id == sreq[r].id IN
       /\ rows' = [rows EXCEPT ![id] = "free"]
       /\ sreq' = [q \in SchedReqs |->
            IF q = r THEN [pc |-> "done"]
            ELSE IF sreq[q].pc = "read" /\ sreq[q].id = id
                 THEN [sreq[q] EXCEPT !.pc = "stray"] ELSE sreq[q]]
  /\ UNCHANGED <<up, loaded, jobs, broken>>

(* The commit fails: the row stays, its job is gone. *)
DeleteFails(r) ==
  /\ up /\ sreq[r].pc = "unscheduled"
  /\ broken' = broken \cup {sreq[r].id}
  /\ sreq' = [sreq EXCEPT ![r] = [pc |-> "done"]]
  /\ UNCHANGED <<up, loaded, rows, jobs>>

Stop ==
  /\ up /\ up' = FALSE /\ loaded' = FALSE /\ jobs' = {} /\ broken' = {}
  /\ sreq' = [r \in SchedReqs |->
       IF sreq[r].pc = "new" THEN sreq[r] ELSE [pc |-> "done"]]
  /\ UNCHANGED rows

(* Faulty form. *)
LoadedAll == StoredIds

Loaded == {i \in SchedIds : rows[i] = "on"}

(* lifespan: load_schedules adds the job of every enabled row and starts   *)
(* the scheduler; when it fails, which is only logged, no job ever runs.   *)
Start ==
  /\ ~up /\ \A r \in SchedReqs : sreq[r].pc # "off"
  /\ up' = TRUE
  /\ \/ loaded' = TRUE /\ jobs' = Loaded
     \/ loaded' = FALSE /\ jobs' \in {{}, Loaded}
  /\ UNCHANGED <<rows, sreq, broken>>

SchedNext ==
  \/ Stop \/ Start
  \/ \E r \in SchedReqs :
       \/ CommitSchedule(r) \/ RefreshSchedule(r) \/ AddJob(r)
       \/ Unschedule(r) \/ DeleteSchedule(r) \/ DeleteFails(r)

SchedSpec == SchedInit /\ [][SchedNext]_schedVars

-----------------------------------------------------------------------------
Busy(id) ==
  \E r \in SchedReqs :
    sreq[r].pc \in {"created", "read", "stray", "unscheduled"} /\ sreq[r].id = id

(* Where the scheduler was started and no request is at work on it, a      *)
(* stored schedule has its job exactly when it is enabled with a cron that *)
(* APScheduler takes, through creates, deletes, ids used again and         *)
(* restarts, but for two races: a delete that failed half-way, which has   *)
(* taken the job, and a creator that set its job after its own row was     *)
(* deleted and the id given away (scheduler.py:37, schedules.py:46, 65).   *)
(* The next start, or the next creator of the id, mends both.  Of a job    *)
(* without a row nothing is said: such a creator leaves one.               *)
JobsMatch ==
  up /\ loaded => \A id \in StoredIds :
    Busy(id) \/ id \in broken \/ (id \in jobs <=> rows[id] = "on")
=============================================================================
