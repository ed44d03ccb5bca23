------------------------ MODULE ScanLifecycleProofs ------------------------
(***************************************************************************)
(* Proofs about ScanLifecycle for every number of scans, drivers and       *)
(* requests, every set of routes, with and without faults.                 *)
(***************************************************************************)
EXTENDS ScanLifecycle, TLAPS

(* What a driver that is not free looks like. *)
LEMMA BusyDriver ==
  ASSUME TypeOK, NEW d \in Drivers, drv[d].pc # "free"
  PROVE  /\ drv[d] \in Driver
         /\ drv[d].scan \in Scans
         /\ drv[d].kind \in Kinds
         /\ drv[d].pc = "commit" => drv[d].seen \in Status /\ drv[d].goal \in Goal
         /\ drv[d].pc = "final" => drv[d].goal \in Outcome
  BY DEF TypeOK, Driver, Free, Resting

(* What At builds keeps the scan and the kind of the driver.  *)
LEMMA AtFields ==
  ASSUME NEW d, NEW pc, NEW seen, NEW goal
  PROVE  /\ At(d, pc, seen, goal).pc = pc
         /\ At(d, pc, seen, goal).scan = drv[d].scan
         /\ At(d, pc, seen, goal).kind = drv[d].kind
         /\ At(d, pc, seen, goal).seen = seen
         /\ At(d, pc, seen, goal).goal = goal
  BY DEF At

(* A move of a busy driver to a well-formed state keeps drv well typed. *)
LEMMA MoveTyped ==
  ASSUME TypeOK, NEW d \in Drivers, drv[d].pc # "free", NEW pc, NEW seen, NEW goal,
         \/ pc \in Resting /\ seen = "none" /\ goal = "none"
         \/ pc = "final" /\ seen = "none" /\ goal \in Outcome
         \/ pc = "commit" /\ seen \in Status /\ goal \in Goal,
         Move(d, pc, seen, goal)
  PROVE  drv' \in [Drivers -> Driver \cup {Free}]
  <1>1. At(d, pc, seen, goal) \in Driver
    BY BusyDriver DEF At, Driver
  <1>2. drv \in [Drivers -> Driver \cup {Free}]
    BY DEF TypeOK
  <1>3. QED
    BY <1>1, <1>2 DEF Move

(* A commit keeps the row typed. *)
LEMMA WrittenTyped ==
  ASSUME TypeOK, NEW s, NEW seen, NEW goal \in Goal
  PROVE  Written(s, seen, goal) \in [Scans -> Status \cup {"absent"}]
  BY DEF TypeOK, Written, Goal, Status, Terminal

(* A waiting request. *)
LEMMA WaitTyped ==
  ASSUME TypeOK, NEW r \in Requests, NEW step, NEW s, NEW seen,
         \/ step = "create_insert" /\ s = None /\ seen = "none"
         \/ step \in Dispatches \cup Cancels /\ s \in Scans /\ seen \in Status,
         Wait(r, step, s, seen)
  PROVE  req' \in [Requests -> Request \cup {Idle}]
  <1>1. [step |-> step, scan |-> s, seen |-> seen, gone |-> {}] \in Request
    BY DEF Request
  <1>2. QED
    BY <1>1 DEF TypeOK, Wait

(* A request that is answered is idle. *)
LEMMA AnswerTyped ==
  ASSUME TypeOK, NEW r \in Requests, Answer(r)
  PROVE  req' \in [Requests -> Request \cup {Idle}]
  BY DEF TypeOK, Answer

(* What a waiting request holds. *)
LEMMA WaitingRequest ==
  ASSUME TypeOK, NEW r \in Requests
  PROVE  /\ req[r].step \in Dispatches \cup Cancels =>
              req[r].scan \in Scans /\ req[r].seen \in Status
         /\ req[r].step = "delete_commit" => req[r].gone \subseteq Scans
  BY DEF TypeOK, Request, Idle, Dispatches, Cancels

(* A new task. *)
LEMMA NewDriverTyped ==
  ASSUME TypeOK, NEW d \in Drivers, NEW s \in Scans, NEW k \in Kinds,
         drv' = [drv EXCEPT ![d] = NewDriver(s, k)]
  PROVE  drv' \in [Drivers -> Driver \cup {Free}]
  <1>1. NewDriver(s, k) \in Driver
    BY DEF NewDriver, Driver, Resting
  <1>2. QED
    BY <1>1 DEF TypeOK

-----------------------------------------------------------------------------

(* Every step preserves the type invariant. *)
LEMMA TypeStep ==
  ASSUME LifecycleAssumption, TypeOK, RegistrySound, [Next]_vars
  PROVE  TypeOK'
  <1> USE DEF LifecycleAssumption
  <1>1. ASSUME NEW r \in Requests, CreateRead(r)
        PROVE  TypeOK'
    BY <1>1, WaitTyped DEF CreateRead, TypeOK
  <1>2. ASSUME NEW r \in Requests, DeleteRead(r)
        PROVE  TypeOK'
    BY <1>2 DEF DeleteRead, TypeOK, Request
  <1>3. ASSUME NEW r \in Requests, NEW s \in Scans, TriggerInsert(r, s)
        PROVE  TypeOK'
    BY <1>3, WaitTyped DEF TriggerInsert, TypeOK, Insert, Status, Dispatches
  <1>4. ASSUME NEW r \in Requests, NEW s \in Scans, StartRead(r, s)
        PROVE  TypeOK'
    BY <1>4, WaitTyped DEF StartRead, TypeOK, Startable, Status, Dispatches
  <1>5. ASSUME NEW r \in Requests, NEW s \in Scans, CancelRead(r, s)
        PROVE  TypeOK'
    BY <1>5, WaitTyped DEF CancelRead, TypeOK, Status, Cancels
  <1>6. ASSUME NEW r \in Requests, NEW s \in Scans, CreateInsert(r, s)
        PROVE  TypeOK'
    BY <1>6, WaitTyped DEF CreateInsert, TypeOK, Insert, Status, Dispatches
  <1>7. ASSUME NEW r \in Requests, NEW d \in Drivers, CreateDispatch(r, d)
        PROVE  TypeOK'
    <2>1. req[r].scan \in Scans
      BY <1>7, WaitingRequest DEF CreateDispatch, Resumes, Dispatches
    <2>2. drv' \in [Drivers -> Driver \cup {Free}]
      BY <1>7, <2>1, NewDriverTyped DEF CreateDispatch, Dispatch, Kinds
    <2>3. req' \in [Requests -> Request \cup {Idle}]
      BY <1>7, AnswerTyped DEF CreateDispatch, Dispatch
    <2>4. reg' \in [Scans -> Drivers \cup {None}]
      BY <1>7, <2>1 DEF CreateDispatch, Dispatch, RegisterTask, TypeOK
    <2>5. QED
      BY <1>7, <2>2, <2>3, <2>4 DEF CreateDispatch, TypeOK
  <1>8. ASSUME NEW r \in Requests, NEW d \in Drivers, TriggerDispatch(r, d)
        PROVE  TypeOK'
    <2>1. req[r].scan \in Scans
      BY <1>8, WaitingRequest DEF TriggerDispatch, Resumes, Dispatches
    <2>2. drv' \in [Drivers -> Driver \cup {Free}]
      BY <1>8, <2>1, NewDriverTyped DEF TriggerDispatch, Kinds
    <2>3. req' \in [Requests -> Request \cup {Idle}]
      BY <1>8, AnswerTyped DEF TriggerDispatch
    <2>4. QED
      BY <1>8, <2>2, <2>3 DEF TriggerDispatch, TypeOK
  <1>9. ASSUME NEW r \in Requests, NEW d \in Drivers, StartDispatch(r, d)
        PROVE  TypeOK'
    <2>1. req[r].scan \in Scans
      BY <1>9, WaitingRequest DEF StartDispatch, Resumes, Dispatches
    <2>2. drv' \in [Drivers -> Driver \cup {Free}]
      BY <1>9, <2>1, NewDriverTyped DEF StartDispatch, Dispatch, Kinds
    <2>3. req' \in [Requests -> Request \cup {Idle}]
      BY <1>9, AnswerTyped DEF StartDispatch, Dispatch
    <2>4. reg' \in [Scans -> Drivers \cup {None}]
      BY <1>9, <2>1 DEF StartDispatch, Dispatch, RegisterTask, TypeOK
    <2>5. QED
      BY <1>9, <2>2, <2>3, <2>4 DEF StartDispatch, TypeOK
  <1>10. ASSUME NEW r \in Requests, StartNoTarget(r)
         PROVE  TypeOK'
    BY <1>10, AnswerTyped DEF StartNoTarget, TypeOK
  <1>11. ASSUME NEW r \in Requests, CancelAct(r)
         PROVE  TypeOK'
    <2> DEFINE s == req[r].scan
    <2>1. s \in Scans /\ req[r].seen \in Status
      BY <1>11, WaitingRequest DEF CancelAct, Resumes, Cancels
    <2>2. req' \in [Requests -> Request \cup {Idle}]
      BY <1>11, <2>1, WaitTyped, AnswerTyped DEF CancelAct, Cancels
    <2>3. reg' \in [Scans -> Drivers \cup {None}]
      BY <1>11, <2>1 DEF CancelAct, PopTask, TypeOK
    <2>4. row' \in [Scans -> Status \cup {"absent"}] /\ lost' \subseteq Scans
          /\ drv' \in [Drivers -> Driver \cup {Free}]
      <3>1. CASE reg[s] = None
        BY <1>11, <3>1 DEF CancelAct, TypeOK
      <3>2. CASE reg[s] # None
        <4> DEFINE d == reg[s]
        <4>1. PICK landed \in BOOLEAN : CancelTask(d, landed)
          BY <1>11, <3>2 DEF CancelAct
        <4>2. d \in Drivers /\ drv[d].pc # "free"
          BY <2>1, <3>2 DEF TypeOK, RegistrySound, Works
        <4>3. drv' \in [Drivers -> Driver \cup {Free}]
          BY <4>1, <4>2, MoveTyped DEF CancelTask, Resting
        <4>4. row' \in [Scans -> Status \cup {"absent"}]
          BY <4>1, <4>2, BusyDriver, WrittenTyped DEF CancelTask, TypeOK
        <4>5. lost' \subseteq Scans
          BY <4>1, <4>2, BusyDriver DEF CancelTask, TypeOK
        <4>6. QED
          BY <4>3, <4>4, <4>5
      <3>3. QED
        BY <3>1, <3>2
    <2>5. QED
      BY <1>11, <2>2, <2>3, <2>4 DEF CancelAct, TypeOK
  <1>12. ASSUME NEW r \in Requests, CancelCommit(r)
         PROVE  TypeOK'
    <2>1. row' \in [Scans -> Status \cup {"absent"}]
      BY <1>12, WrittenTyped DEF CancelCommit, Goal, Terminal
    <2>2. QED
      BY <1>12, <2>1, AnswerTyped DEF CancelCommit, TypeOK
  <1>13. ASSUME NEW r \in Requests, DeleteCommit(r)
         PROVE  TypeOK'
    BY <1>13, AnswerTyped DEF DeleteCommit, TypeOK
  <1>14. ASSUME NEW r \in Requests, CancelCommitFails(r)
         PROVE  TypeOK'
    BY <1>14, AnswerTyped DEF CancelCommitFails, TypeOK
  <1>15. ASSUME NEW d \in Drivers, BeginRead(d) \/ SchedBeginRead(d)
         PROVE  TypeOK'
    <2> DEFINE s == drv[d].scan
    <2>1. drv[d].pc # "free" /\ s \in Scans
      BY <1>15, BusyDriver DEF BeginRead, SchedBeginRead
    <2>2. row[s] \in Status \cup {"absent"}
      BY <2>1 DEF TypeOK
    <2>3. drv' \in [Drivers -> Driver \cup {Free}]
      BY <1>15, <2>1, <2>2, MoveTyped DEF BeginRead, SchedBeginRead, End, Resting, Goal, Terminal
    <2>4. QED
      BY <1>15, <2>3 DEF BeginRead, SchedBeginRead, TypeOK
  <1>16. ASSUME NEW d \in Drivers, Commit(d)
         PROVE  TypeOK'
    <2>1. drv[d].pc # "free" /\ drv[d].goal \in Goal
      BY <1>16, BusyDriver DEF Commit
    <2>2. drv' \in [Drivers -> Driver \cup {Free}]
      BY <1>16, <2>1, MoveTyped DEF Commit, End, Resting
    <2>3. row' \in [Scans -> Status \cup {"absent"}]
      BY <1>16, <2>1, WrittenTyped DEF Commit
    <2>4. QED
      BY <1>16, <2>2, <2>3 DEF Commit, TypeOK
  <1>17. ASSUME NEW d \in Drivers, Enter(d)
         PROVE  TypeOK'
    BY <1>17, MoveTyped DEF Enter, Resting, TypeOK
  <1>18. ASSUME NEW d \in Drivers, RunEnds(d)
         PROVE  TypeOK'
    BY <1>18, MoveTyped DEF RunEnds, TypeOK
  <1>19. ASSUME NEW d \in Drivers, FinalRead(d)
         PROVE  TypeOK'
    <2> DEFINE s == drv[d].scan
    <2>1. drv[d].pc # "free" /\ s \in Scans /\ drv[d].goal \in Goal
      BY <1>19, BusyDriver DEF FinalRead, Goal, Terminal, Outcome
    <2>2. row[s] \in Status \cup {"absent"}
      BY <2>1 DEF TypeOK
    <2>3. drv' \in [Drivers -> Driver \cup {Free}]
      BY <1>19, <2>1, <2>2, MoveTyped DEF FinalRead, End, Resting
    <2>4. QED
      BY <1>19, <2>3 DEF FinalRead, TypeOK
  <1>20. ASSUME NEW d \in Drivers, HandlerRead(d)
         PROVE  TypeOK'
    <2>1. drv' \in [Drivers -> Driver \cup {Free}]
      BY <1>20, MoveTyped DEF HandlerRead, Markable, End, Resting, Status, Goal, Terminal
    <2>2. QED
      BY <1>20, <2>1 DEF HandlerRead, TypeOK
  <1>21. ASSUME NEW d \in Drivers, DoneCallback(d)
         PROVE  TypeOK'
    BY <1>21, BusyDriver DEF DoneCallback, PopTask, TypeOK
  <1>22. ASSUME NEW d \in Drivers, CommitFails(d)
         PROVE  TypeOK'
    <2>1. drv' \in [Drivers -> Driver \cup {Free}]
      BY <1>22, MoveTyped DEF CommitFails, End, Resting
    <2>2. QED
      BY <1>22, <2>1, BusyDriver DEF CommitFails, TypeOK
  <1>23. CASE CreateTarget
    BY <1>23 DEF CreateTarget, TypeOK
  <1>24. CASE Crash
    BY <1>24 DEF Crash, TypeOK
  <1>25. CASE Recover
    BY <1>25 DEF Recover, Swept, TypeOK, Status, Terminal
  <1>26. CASE UNCHANGED vars
    BY <1>26 DEF vars, TypeOK
  <1>27. QED
    BY <1>1, <1>2, <1>3, <1>4, <1>5, <1>6, <1>7, <1>8, <1>9, <1>10, <1>11, <1>12,
       <1>13, <1>14, <1>15, <1>16, <1>17, <1>18, <1>19, <1>20, <1>21, <1>22, <1>23,
       <1>24, <1>25, <1>26
    DEF Next, Arrival, RequestStep, DriverStep, Environment

-----------------------------------------------------------------------------

(* A busy driver that moves leaves the registry sound as long as it is not *)
(* entering the except clause.                                             *)
LEMMA MoveRegistered ==
  ASSUME TypeOK, RegistrySound, NEW d \in Drivers, drv[d].pc # "free",
         NEW pc, NEW seen, NEW goal, Move(d, pc, seen, goal), pc # "free",
         reg' = reg,
         Cancelling(d) \/ (pc # "handler" /\ ~(pc = "commit" /\ goal = "cancelled"))
  PROVE  RegistrySound'
  <1> SUFFICES ASSUME NEW s \in Scans, reg[s] # None
               PROVE  /\ Works(reg[s], s)'
                      /\ drv'[reg[s]].kind = "ui"
                      /\ ~Cancelling(reg[s])'
    BY DEF RegistrySound
  <1>1. /\ reg[s] \in Drivers
        /\ Works(reg[s], s)
        /\ drv[reg[s]].kind = "ui"
        /\ ~Cancelling(reg[s])
    BY DEF RegistrySound, TypeOK
  <1>2. CASE reg[s] # d
    <2>1. drv'[reg[s]] = drv[reg[s]]
      BY <1>1, <1>2 DEF Move, TypeOK
    <2>2. QED
      BY <1>1, <2>1 DEF Works, Cancelling
  <1>3. CASE reg[s] = d
    <2>1. drv'[d] = At(d, pc, seen, goal)
      BY DEF Move, TypeOK
    <2>2. /\ drv'[d].pc = pc
          /\ drv'[d].scan = drv[d].scan
          /\ drv'[d].kind = drv[d].kind
          /\ drv'[d].goal = goal
      BY <2>1 DEF At
    <2>3. QED
      BY <1>1, <1>3, <2>2 DEF Works, Cancelling
  <1>4. QED
    BY <1>2, <1>3

(* Registering a new driver keeps the registry sound: a free driver was    *)
(* registered nowhere.                                                     *)
LEMMA DispatchRegistered ==
  ASSUME TypeOK, RegistrySound, NEW r \in Requests, NEW d \in Drivers,
         req[r].scan \in Scans, Dispatch(r, d)
  PROVE  RegistrySound'
  <1> SUFFICES ASSUME NEW s \in Scans, reg'[s] # None
               PROVE  /\ Works(reg[s], s)'
                      /\ drv'[reg'[s]].kind = "ui"
                      /\ ~Cancelling(reg[s])'
    BY DEF RegistrySound
  <1>1. drv'[d] = NewDriver(req[r].scan, "ui")
    BY DEF Dispatch, TypeOK
  <1>2. CASE s = req[r].scan
    <2>1. reg'[s] = d
      BY <1>2 DEF Dispatch, RegisterTask, TypeOK
    <2>2. QED
      BY <1>1, <1>2, <2>1 DEF NewDriver, Works, Cancelling
  <1>3. CASE s # req[r].scan
    <2>1. reg'[s] = reg[s]
      BY <1>3 DEF Dispatch, RegisterTask, TypeOK
    <2>2. reg[s] \in Drivers /\ reg[s] # d
      BY <2>1 DEF RegistrySound, TypeOK, Works, Dispatch, Free
    <2>3. drv'[reg[s]] = drv[reg[s]]
      BY <2>2 DEF Dispatch, TypeOK
    <2>4. QED
      BY <2>1, <2>3 DEF RegistrySound, Works, Cancelling
  <1>4. QED
    BY <1>2, <1>3

(* Steps that touch neither the drivers nor the registry. *)
LEMMA RegistryUnchanged ==
  ASSUME RegistrySound, drv' = drv, reg' = reg
  PROVE  RegistrySound'
  BY DEF RegistrySound, Works, Cancelling

(* Every step keeps the registry sound. *)
LEMMA RegistryStep ==
  ASSUME LifecycleAssumption, TypeOK, RegistrySound, [Next]_vars
  PROVE  RegistrySound'
  <1>1. ASSUME NEW r \in Requests, Arrival(r)
        PROVE  RegistrySound'
    <2>1. drv' = drv /\ reg' = reg
      BY <1>1 DEF Arrival, CreateRead, DeleteRead, TriggerInsert, StartRead, CancelRead
    <2>2. QED
      BY <2>1, RegistryUnchanged
  <1>2. ASSUME NEW r \in Requests, NEW s \in Scans, CreateInsert(r, s)
        PROVE  RegistrySound'
    BY <1>2, RegistryUnchanged DEF CreateInsert
  <1>3. ASSUME NEW r \in Requests, NEW d \in Drivers,
               CreateDispatch(r, d) \/ StartDispatch(r, d)
        PROVE  RegistrySound'
    <2>1. req[r].scan \in Scans /\ Dispatch(r, d)
      BY <1>3, WaitingRequest DEF CreateDispatch, StartDispatch, Resumes, Dispatches
    <2>2. QED
      BY <2>1, DispatchRegistered
  <1>4. ASSUME NEW r \in Requests, NEW d \in Drivers, TriggerDispatch(r, d)
        PROVE  RegistrySound'
    <2>1. \A s \in Scans : reg[s] # None => reg[s] \in Drivers /\ reg[s] # d
      BY <1>4 DEF TriggerDispatch, RegistrySound, TypeOK, Works, Free
    <2>2. \A e \in Drivers : e # d => drv'[e] = drv[e]
      BY <1>4 DEF TriggerDispatch, TypeOK
    <2>3. reg' = reg
      BY <1>4 DEF TriggerDispatch
    <2>4. QED
      BY <2>1, <2>2, <2>3 DEF RegistrySound, Works, Cancelling
  <1>5. ASSUME NEW r \in Requests,
               StartNoTarget(r) \/ CancelCommit(r) \/ DeleteCommit(r) \/ CancelCommitFails(r)
        PROVE  RegistrySound'
    BY <1>5, RegistryUnchanged
    DEF StartNoTarget, CancelCommit, DeleteCommit, CancelCommitFails
  <1>6. ASSUME NEW r \in Requests, CancelAct(r)
        PROVE  RegistrySound'
    <2> DEFINE t == req[r].scan
    <2>1. t \in Scans
      BY <1>6, WaitingRequest DEF CancelAct, Resumes, Cancels
    <2>2. reg'[t] = None /\ \A s \in Scans : s # t => reg'[s] = reg[s]
      BY <1>6, <2>1 DEF CancelAct, PopTask, TypeOK
    <2>3. ASSUME NEW s \in Scans, s # t, reg[s] # None
          PROVE  drv'[reg[s]] = drv[reg[s]]
      <3>1. reg[s] \in Drivers /\ drv[reg[s]].scan = s
        BY <2>3 DEF RegistrySound, TypeOK, Works
      <3>2. CASE reg[t] = None
        BY <1>6, <3>2 DEF CancelAct
      <3>3. CASE reg[t] # None
        <4>1. drv[reg[t]].scan = t
          BY <2>1, <3>3 DEF RegistrySound, Works
        <4>2. PICK landed \in BOOLEAN : CancelTask(reg[t], landed)
          BY <1>6, <3>3 DEF CancelAct
        <4>3. QED
          BY <2>3, <3>1, <4>1, <4>2 DEF CancelTask, Move, TypeOK
      <3>4. QED
        BY <3>2, <3>3
    <2>4. QED
      BY <2>1, <2>2, <2>3 DEF RegistrySound, Works, Cancelling
  <1>7. ASSUME NEW d \in Drivers, BeginRead(d) \/ SchedBeginRead(d)
        PROVE  RegistrySound'
    BY <1>7, MoveRegistered DEF BeginRead, SchedBeginRead, End
  <1>8. ASSUME NEW d \in Drivers, Commit(d)
        PROVE  RegistrySound'
    BY <1>8, MoveRegistered DEF Commit, End
  <1>9. ASSUME NEW d \in Drivers, Enter(d)
        PROVE  RegistrySound'
    BY <1>9, MoveRegistered DEF Enter
  <1>10. ASSUME NEW d \in Drivers, RunEnds(d)
         PROVE  RegistrySound'
    BY <1>10, MoveRegistered DEF RunEnds
  <1>11. ASSUME NEW d \in Drivers, FinalRead(d)
         PROVE  RegistrySound'
    <2>1. drv[d].pc # "free" /\ drv[d].goal # "cancelled"
      BY <1>11, BusyDriver DEF FinalRead, Outcome
    <2>2. QED
      BY <1>11, <2>1, MoveRegistered DEF FinalRead, End
  <1>12. ASSUME NEW d \in Drivers, HandlerRead(d)
         PROVE  RegistrySound'
    BY <1>12, MoveRegistered DEF HandlerRead, End, Cancelling
  <1>13. ASSUME NEW d \in Drivers, DoneCallback(d)
         PROVE  RegistrySound'
    <2> DEFINE t == drv[d].scan
    <2>1. t \in Scans
      BY <1>13, BusyDriver DEF DoneCallback
    <2>2. \A s \in Scans : reg'[s] # None => reg'[s] = reg[s] /\ reg[s] # d
      BY <1>13, <2>1 DEF DoneCallback, PopTask, RegistrySound, Works, TypeOK
    <2>3. \A e \in Drivers : e # d => drv'[e] = drv[e]
      BY <1>13 DEF DoneCallback, TypeOK
    <2>4. QED
      BY <2>2, <2>3 DEF RegistrySound, Works, Cancelling, TypeOK
  <1>14. ASSUME NEW d \in Drivers, CommitFails(d)
         PROVE  RegistrySound'
    BY <1>14, MoveRegistered DEF CommitFails, End
  <1>15. CASE CreateTarget
    BY <1>15, RegistryUnchanged DEF CreateTarget
  <1>16. CASE Crash
    BY <1>16 DEF Crash, RegistrySound
  <1>17. CASE Recover
    BY <1>17, RegistryUnchanged DEF Recover
  <1>18. CASE UNCHANGED vars
    BY <1>18, RegistryUnchanged DEF vars
  <1>19. QED
    BY <1>1, <1>2, <1>3, <1>4, <1>5, <1>6, <1>7, <1>8, <1>9, <1>10, <1>11, <1>12,
       <1>13, <1>14, <1>15, <1>16, <1>17, <1>18
    DEF Next, RequestStep, DriverStep, Environment

-----------------------------------------------------------------------------

(* The witness of an orphan-free running row survives a step that leaves   *)
(* every owing driver alone.                                               *)
LEMMA OrphansKept ==
  ASSUME OrphansAccounted, up' = up, lost \subseteq lost',
         \A s \in Scans : row'[s] = "running" => row[s] = "running",
         \A e \in Drivers : drv[e].pc # "free" /\ Owes(e) => drv'[e] = drv[e]
  PROVE  OrphansAccounted'
  <1> SUFFICES ASSUME up, NEW s \in Scans, row'[s] = "running", s \notin lost'
               PROVE  \E e \in Drivers : Works(e, s)' /\ Owes(e)'
    BY DEF OrphansAccounted
  <1>1. PICK e \in Drivers : Works(e, s) /\ Owes(e)
    BY DEF OrphansAccounted
  <1>2. drv'[e] = drv[e]
    BY <1>1 DEF Works
  <1>3. QED
    BY <1>1, <1>2 DEF Works, Owes

(* A driver that moves and still owes, or owed nothing, keeps the rows     *)
(* accounted for.                                                          *)
LEMMA MoveOwes ==
  ASSUME OrphansAccounted, NEW d \in Drivers,
         up' = up, row' = row, lost \subseteq lost',
         \A e \in Drivers : e # d => drv'[e] = drv[e],
         drv'[d].scan = drv[d].scan,
         Owes(d) /\ row[drv[d].scan] = "running" =>
           drv[d].scan \in lost' \/ (Owes(d)' /\ drv'[d].pc # "free")
  PROVE  OrphansAccounted'
  <1> SUFFICES ASSUME up, NEW s \in Scans, row[s] = "running", s \notin lost'
               PROVE  \E e \in Drivers : Works(e, s)' /\ Owes(e)'
    BY DEF OrphansAccounted
  <1>1. PICK e \in Drivers : Works(e, s) /\ Owes(e)
    BY DEF OrphansAccounted
  <1>2. CASE e # d
    BY <1>1, <1>2 DEF Works, Owes
  <1>3. CASE e = d
    BY <1>1, <1>3 DEF Works
  <1>4. QED
    BY <1>2, <1>3

(* A commit: the writer either leaves the row at its goal, or wrote        *)
(* nothing because it had seen its goal, and then it owed nothing.         *)
LEMMA CommitOwes ==
  ASSUME TypeOK, OrphansAccounted, NEW d \in Drivers, Commit(d)
  PROVE  OrphansAccounted'
  <1> DEFINE t == drv[d].scan
  <1>1. drv[d].pc = "commit" /\ t \in Scans /\ drv[d].goal \in Goal
    BY BusyDriver DEF Commit
  <1>2. /\ row' = Written(t, drv[d].seen, drv[d].goal)
        /\ up' = up /\ lost' = lost
    BY DEF Commit
  <1>3. /\ drv'[d].scan = t
        /\ row[t] # "absent" /\ drv[d].goal = "running" => drv'[d].pc = "exit"
        /\ \A e \in Drivers : e # d => drv'[e] = drv[e]
    BY DEF Commit, End, Move, At, TypeOK
  <1> SUFFICES ASSUME up, NEW s \in Scans, row'[s] = "running", s \notin lost
               PROVE  \E e \in Drivers : Works(e, s)' /\ Owes(e)'
    BY <1>2 DEF OrphansAccounted
  <1>4. CASE s = t /\ row[s] # "absent" /\ drv[d].goal = "running"
    BY <1>3, <1>4 DEF Works, Owes
  <1>5. CASE ~(s = t /\ row[s] # "absent" /\ drv[d].goal = "running")
    <2>1. row[s] = "running"
      BY <1>1, <1>2, <1>5 DEF Written, TypeOK
    <2>2. PICK e \in Drivers : Works(e, s) /\ Owes(e)
      BY <2>1 DEF OrphansAccounted
    <2>3. e # d
      <3>1. SUFFICES ASSUME e = d PROVE FALSE
        OBVIOUS
      <3>2. s = t /\ drv[d].seen = "running" /\ drv[d].goal # "running"
        BY <1>1, <2>2, <3>1 DEF Works, Owes
      <3>3. row'[s] = drv[d].goal
        BY <1>2, <2>1, <3>2 DEF Written, TypeOK
      <3>4. QED
        BY <3>2, <3>3
    <2>4. QED
      BY <1>3, <2>2, <2>3 DEF Works, Owes
  <1>6. QED
    BY <1>4, <1>5

(* A cancelled task either reaches the except clause, or dies and is       *)
(* recorded as lost when the row stays running.                            *)
LEMMA CancelOwes ==
  ASSUME TypeOK, OrphansAccounted, NEW d \in Drivers, drv[d].pc # "free",
         NEW landed \in BOOLEAN, CancelTask(d, landed), up' = up
  PROVE  OrphansAccounted'
  <1> DEFINE t == drv[d].scan
             nxt == IF drv[d].pc = "run" THEN "handler" ELSE "ended"
  <1>1. t \in Scans /\ (drv[d].pc = "commit" => drv[d].goal \in Goal)
    BY BusyDriver
  <1>2. Move(d, nxt, "none", "none") /\ lost \subseteq lost'
    BY DEF CancelTask
  <1>3. CASE ~landed
    <2>1. row' = row
      BY <1>3 DEF CancelTask
    <2>2. /\ \A e \in Drivers : e # d => drv'[e] = drv[e]
          /\ drv'[d].scan = t /\ drv'[d].pc = nxt
      BY <1>2 DEF Move, At, TypeOK
    <2>3. Owes(d) /\ row[t] = "running" => t \in lost' \/ nxt = "handler"
      BY <1>3, <2>1 DEF CancelTask
    <2>4. Owes(d) /\ row[t] = "running" =>
            t \in lost' \/ (Owes(d)' /\ drv'[d].pc # "free")
      BY <2>2, <2>3 DEF Owes
    <2>5. QED
      BY <1>2, <2>1, <2>2, <2>4, MoveOwes
  <1>4. CASE landed
    <2>1. drv[d].pc = "commit" /\ row' = Written(t, drv[d].seen, drv[d].goal)
      BY <1>4 DEF CancelTask
    <2>2. drv[d].goal = "running" /\ row'[t] = "running" => t \in lost'
      BY <1>4, <2>1 DEF CancelTask
    <2> SUFFICES ASSUME up, NEW s \in Scans, row'[s] = "running", s \notin lost'
                 PROVE  \E e \in Drivers : Works(e, s)' /\ Owes(e)'
      BY DEF OrphansAccounted
    <2>3. ~(s = t /\ drv[d].goal = "running")
      BY <2>2
    <2>4. row[s] = "running"
      BY <1>1, <2>1, <2>3 DEF Written, TypeOK
    <2>5. PICK e \in Drivers : Works(e, s) /\ Owes(e)
      BY <1>2, <2>4 DEF OrphansAccounted
    <2>6. e # d
      <3>1. SUFFICES ASSUME e = d PROVE FALSE
        OBVIOUS
      <3>2. s = t /\ drv[d].seen = "running" /\ drv[d].goal # "running"
        BY <2>1, <2>5, <3>1 DEF Works, Owes
      <3>3. row'[s] = drv[d].goal
        BY <2>1, <2>4, <3>2 DEF Written, TypeOK
      <3>4. QED
        BY <3>2, <3>3
    <2>7. drv'[e] = drv[e]
      BY <1>2, <2>6 DEF Move, TypeOK
    <2>8. QED
      BY <2>5, <2>7 DEF Works, Owes
  <1>5. QED
    BY <1>3, <1>4

(* Every step keeps the running rows accounted for. *)
LEMMA OrphansStep ==
  ASSUME LifecycleAssumption, TypeOK, RegistrySound, OrphansAccounted, [Next]_vars
  PROVE  OrphansAccounted'
  <1>1. ASSUME NEW r \in Requests, Arrival(r)
        PROVE  OrphansAccounted'
    <2>1. /\ drv' = drv /\ up' = up /\ lost' = lost
          /\ \A s \in Scans : row'[s] = "running" => row[s] = "running"
      BY <1>1 DEF Arrival, CreateRead, DeleteRead, TriggerInsert, StartRead,
                  CancelRead, Insert, TypeOK
    <2>2. QED
      BY <2>1, OrphansKept
  <1>2. ASSUME NEW r \in Requests, NEW s \in Scans, CreateInsert(r, s)
        PROVE  OrphansAccounted'
    BY <1>2, OrphansKept DEF CreateInsert, Insert, TypeOK
  <1>3. ASSUME NEW r \in Requests, NEW d \in Drivers,
               CreateDispatch(r, d) \/ StartDispatch(r, d) \/ TriggerDispatch(r, d)
        PROVE  OrphansAccounted'
    <2>1. /\ drv[d].pc = "free" /\ up' = up /\ lost' = lost /\ row' = row
          /\ \A e \in Drivers : e # d => drv'[e] = drv[e]
      BY <1>3 DEF CreateDispatch, StartDispatch, TriggerDispatch, Dispatch, Free, TypeOK
    <2>2. QED
      BY <2>1, OrphansKept
  <1>4. ASSUME NEW r \in Requests, StartNoTarget(r) \/ CancelCommitFails(r)
        PROVE  OrphansAccounted'
    BY <1>4, OrphansKept DEF StartNoTarget, CancelCommitFails
  <1>5. ASSUME NEW r \in Requests, CancelAct(r)
        PROVE  OrphansAccounted'
    <2> DEFINE t == req[r].scan
    <2>1. t \in Scans /\ up' = up
      BY <1>5, WaitingRequest DEF CancelAct, Resumes, Cancels
    <2>2. CASE reg[t] = None
      BY <1>5, <2>1, <2>2, OrphansKept DEF CancelAct
    <2>3. CASE reg[t] # None
      <3>1. reg[t] \in Drivers /\ drv[reg[t]].pc # "free"
        BY <2>1, <2>3 DEF RegistrySound, Works, TypeOK
      <3>2. PICK landed \in BOOLEAN : CancelTask(reg[t], landed)
        BY <1>5, <2>3 DEF CancelAct
      <3>3. QED
        BY <2>1, <3>1, <3>2, CancelOwes
    <2>4. QED
      BY <2>2, <2>3
  <1>6. ASSUME NEW r \in Requests, CancelCommit(r)
        PROVE  OrphansAccounted'
    BY <1>6, OrphansKept DEF CancelCommit, Written, TypeOK
  <1>7. ASSUME NEW r \in Requests, DeleteCommit(r)
        PROVE  OrphansAccounted'
    <2> SUFFICES ASSUME up, NEW s \in Scans, row'[s] = "running", s \notin lost'
                 PROVE  \E e \in Drivers : Works(e, s)' /\ Owes(e)'
      BY <1>7 DEF OrphansAccounted, DeleteCommit
    <2>1. row[s] = "running" /\ s \notin lost /\ drv' = drv
      BY <1>7 DEF DeleteCommit
    <2>2. QED
      BY <2>1 DEF OrphansAccounted, Works, Owes
  <1>8. ASSUME NEW d \in Drivers, BeginRead(d) \/ SchedBeginRead(d)
        PROVE  OrphansAccounted'
    <2>1. /\ up' = up /\ row' = row /\ lost \subseteq lost'
          /\ \A e \in Drivers : e # d => drv'[e] = drv[e]
          /\ drv'[d].scan = drv[d].scan
          /\ Owes(d) /\ row[drv[d].scan] = "running" =>
               drv[d].scan \in lost' \/ (Owes(d)' /\ drv'[d].pc # "free")
      BY <1>8 DEF BeginRead, SchedBeginRead, Move, At, Owes, TypeOK, End
    <2>2. QED
      BY <2>1, MoveOwes
  <1>9. ASSUME NEW d \in Drivers, Commit(d)
        PROVE  OrphansAccounted'
    BY <1>9, CommitOwes
  <1>10. ASSUME NEW d \in Drivers, Enter(d)
         PROVE  OrphansAccounted'
    <2>1. /\ up' = up /\ row' = row /\ lost \subseteq lost'
          /\ \A e \in Drivers : e # d => drv'[e] = drv[e]
          /\ drv'[d].scan = drv[d].scan
          /\ Owes(d) /\ row[drv[d].scan] = "running" =>
               drv[d].scan \in lost' \/ (Owes(d)' /\ drv'[d].pc # "free")
      BY <1>10 DEF Enter, Move, At, Owes, TypeOK
    <2>2. QED
      BY <2>1, MoveOwes
  <1>11. ASSUME NEW d \in Drivers, RunEnds(d)
         PROVE  OrphansAccounted'
    <2>1. /\ up' = up /\ row' = row /\ lost \subseteq lost'
          /\ \A e \in Drivers : e # d => drv'[e] = drv[e]
          /\ drv'[d].scan = drv[d].scan
          /\ Owes(d) /\ row[drv[d].scan] = "running" =>
               drv[d].scan \in lost' \/ (Owes(d)' /\ drv'[d].pc # "free")
      BY <1>11 DEF RunEnds, Move, At, Owes, TypeOK
    <2>2. QED
      BY <2>1, MoveOwes
  <1>12. ASSUME NEW d \in Drivers, FinalRead(d)
         PROVE  OrphansAccounted'
    <2>0. drv[d].goal # "running"
      BY <1>12, BusyDriver DEF FinalRead, Outcome
    <2>1. /\ up' = up /\ row' = row /\ lost \subseteq lost'
          /\ \A e \in Drivers : e # d => drv'[e] = drv[e]
          /\ drv'[d].scan = drv[d].scan
          /\ Owes(d) /\ row[drv[d].scan] = "running" =>
               drv[d].scan \in lost' \/ (Owes(d)' /\ drv'[d].pc # "free")
      BY <1>12, <2>0 DEF FinalRead, Move, At, Owes, TypeOK, End
    <2>2. QED
      BY <2>1, MoveOwes
  <1>13. ASSUME NEW d \in Drivers, HandlerRead(d)
         PROVE  OrphansAccounted'
    <2>1. /\ up' = up /\ row' = row /\ lost \subseteq lost'
          /\ \A e \in Drivers : e # d => drv'[e] = drv[e]
          /\ drv'[d].scan = drv[d].scan
          /\ Owes(d) /\ row[drv[d].scan] = "running" =>
               drv[d].scan \in lost' \/ (Owes(d)' /\ drv'[d].pc # "free")
      BY <1>13 DEF HandlerRead, Move, At, Owes, TypeOK, Markable, End
    <2>2. QED
      BY <2>1, MoveOwes
  <1>14. ASSUME NEW d \in Drivers, DoneCallback(d)
         PROVE  OrphansAccounted'
    <2>1. ~Owes(d) /\ \A e \in Drivers : e # d => drv'[e] = drv[e]
      BY <1>14 DEF DoneCallback, Owes, TypeOK
    <2>2. QED
      BY <1>14, <2>1, OrphansKept DEF DoneCallback
  <1>15. ASSUME NEW d \in Drivers, CommitFails(d)
         PROVE  OrphansAccounted'
    <2>1. /\ up' = up /\ row' = row /\ lost \subseteq lost'
          /\ \A e \in Drivers : e # d => drv'[e] = drv[e]
          /\ drv'[d].scan = drv[d].scan
          /\ Owes(d) /\ row[drv[d].scan] = "running" =>
               drv[d].scan \in lost' \/ (Owes(d)' /\ drv'[d].pc # "free")
      BY <1>15 DEF CommitFails, Move, At, Owes, TypeOK, End
    <2>2. QED
      BY <2>1, MoveOwes
  <1>16. CASE CreateTarget
    BY <1>16, OrphansKept DEF CreateTarget
  <1>17. CASE Crash
    BY <1>17 DEF Crash, OrphansAccounted
  <1>18. CASE Recover
    BY <1>18 DEF Recover, OrphansAccounted, Swept
  <1>19. CASE UNCHANGED vars
    BY <1>19, OrphansKept DEF vars
  <1>20. QED
    BY <1>1, <1>2, <1>3, <1>4, <1>5, <1>6, <1>7, <1>8, <1>9, <1>10, <1>11, <1>12,
       <1>13, <1>14, <1>15, <1>16, <1>17, <1>18, <1>19
    DEF Next, RequestStep, DriverStep, Environment

-----------------------------------------------------------------------------

(* The inductive invariant: the three invariants need each other.  The     *)
(* registry must be sound for CancelAct to reach a task of the right scan, *)
(* and a cancelled task must not be registered for its except clause to    *)
(* run to its end.                                                         *)
IInv == TypeOK /\ RegistrySound /\ OrphansAccounted

(* The inductive invariant holds at the start ... *)
LEMMA InitIInv ==
  ASSUME LifecycleAssumption, Init
  PROVE  IInv
  BY DEF LifecycleAssumption, Init, IInv, TypeOK, RegistrySound, OrphansAccounted

(* ... and every step keeps it. *)
LEMMA StepIInv ==
  ASSUME LifecycleAssumption, IInv, [Next]_vars
  PROVE  IInv'
  BY TypeStep, RegistryStep, OrphansStep DEF IInv

(* The inductive invariant holds throughout. *)
THEOREM Invariance == Spec => []IInv
  <1>1. Init => IInv
    BY InitIInv, LifecycleAssumption
  <1>2. IInv /\ [Next]_vars => IInv'
    BY StepIInv, LifecycleAssumption
  <1>3. QED
    BY <1>1, <1>2, PTL DEF Spec

(* Type correctness. *)
THEOREM TypeCorrect == Spec => []TypeOK
  <1>1. IInv => TypeOK
    BY DEF IInv
  <1>2. QED
    BY <1>1, Invariance, PTL

(* What the registry holds is a live or just finished task of that scan,   *)
(* never one that was cancelled: the except clause of _drive_scan runs     *)
(* without being interrupted by another /cancel.                           *)
THEOREM RegistryCorrect == Spec => []RegistrySound
  <1>1. IInv => RegistrySound
    BY DEF IInv
  <1>2. QED
    BY <1>1, Invariance, PTL

(* A row is never left at "running" without a task bound to change it,     *)
(* except by the recorded causes, whatever the clients do.                 *)
THEOREM NoUnexplainedOrphan == Spec => []OrphansAccounted
  <1>1. IInv => OrphansAccounted
    BY DEF IInv
  <1>2. QED
    BY <1>1, Invariance, PTL


-----------------------------------------------------------------------------
(* One run per scan.  Where no target is deleted and no scan is started    *)
(* while somebody runs it, an id is given to one task only.                *)

(* Request r is about to hand scan s to a new task. *)
Hands(r, s) == req[r].step \in Dispatches /\ req[r].scan = s

Alone(s) ==
  /\ \A d \in Drivers : ~Works(d, s)
  /\ \A r \in Requests : ~Hands(r, s)

OneRun ==
  /\ \A r \in Requests : req[r].step # "delete_commit"
  /\ \A s \in Scans : \A d, e \in Drivers : Works(d, s) /\ Works(e, s) => d = e
  /\ \A s \in Scans : \A r, q \in Requests : Hands(r, s) /\ Hands(q, s) => r = q
  /\ \A s \in Scans, d \in Drivers, r \in Requests : ~(Works(d, s) /\ Hands(r, s))
  /\ \A s \in Scans : row[s] = "absent" => Alone(s)

(* The steps of clients that start a scan nobody runs or is about to run. *)
OrderlyArrival(r) ==
  \/ CreateRead(r)
  \/ DeleteRead(r)
  \/ \E s \in Scans :
       TriggerInsert(r, s) \/ CancelRead(r, s) \/ (StartRead(r, s) /\ Alone(s))

OrderlyNext ==
  \/ \E r \in Requests : OrderlyArrival(r) \/ RequestStep(r)
  \/ \E d \in Drivers : DriverStep(d)
  \/ Environment

(* The task has nothing left to publish: its run is over. *)
Past(d) ==
  \/ drv[d].pc \in {"final", "ended"}
  \/ drv[d].pc = "commit" /\ drv[d].goal # "running"

(* The three things a step can do to who runs what: a request takes a scan *)
(* that nobody has, a request hands its scan to a task, or neither.        *)
RowsStay == \A t \in Scans : row'[t] = "absent" => row[t] = "absent"

NoNewHands == \A q \in Requests, t \in Scans : Hands(q, t)' => Hands(q, t)

NoNewWork ==
  \A e \in Drivers, t \in Scans :
    Works(e, t)' => Works(e, t) /\ (Past(e) => Past(e)')

Takes(r, s) ==
  /\ Alone(s) /\ row'[s] # "absent" /\ drv' = drv
  /\ row[s] = "absent" \/ "start" \in Ops
  /\ \A q \in Requests, t \in Scans : Hands(q, t)' => Hands(q, t) \/ (q = r /\ t = s)

Gives(r, d, s) ==
  /\ Hands(r, s) /\ drv[d].pc = "free"
  /\ \A t \in Scans : ~Hands(r, t)'
  /\ NoNewHands
  /\ \A e \in Drivers : e # d => drv'[e] = drv[e]
  /\ drv'[d].scan = s

Calm == NoNewHands /\ NoNewWork

(* A scan that nobody had goes to one request. *)
LEMMA TakesKeeps ==
  ASSUME OneRun, NEW r \in Requests, NEW s \in Scans, Takes(r, s), RowsStay,
         \A q \in Requests : req'[q].step # "delete_commit"
  PROVE  OneRun'
  <1>1. \A d \in Drivers, t \in Scans : Works(d, t)' <=> Works(d, t)
    BY DEF Takes, Works
  <1>2. QED
    BY <1>1 DEF OneRun, Takes, Alone, RowsStay

(* The one request that has a scan hands it to a task nobody else sees. *)
LEMMA GivesKeeps ==
  ASSUME OneRun, NEW r \in Requests, NEW d \in Drivers, NEW s \in Scans,
         Gives(r, d, s), RowsStay,
         \A q \in Requests : req'[q].step # "delete_commit"
  PROVE  OneRun'
  <1>1. \A e \in Drivers, t \in Scans : Works(e, t)' => Works(e, t) \/ (e = d /\ t = s)
    BY DEF Gives, Works
  <1>2. row[s] # "absent" /\ \A e \in Drivers : ~Works(e, s)
    BY DEF OneRun, Gives, Alone
  <1>3. \A q \in Requests : ~Hands(q, s)'
    BY DEF OneRun, Gives, NoNewHands
  <1>4. QED
    BY <1>1, <1>2, <1>3 DEF OneRun, Gives, Alone, RowsStay, NoNewHands

(* A step that gives no scan to anyone. *)
LEMMA CalmKeeps ==
  ASSUME OneRun, Calm, RowsStay,
         \A q \in Requests : req'[q].step # "delete_commit"
  PROVE  OneRun'
  BY DEF OneRun, Calm, NoNewHands, NoNewWork, Alone, RowsStay

(* What the moves of a task do to its work. *)
LEMMA MoveCalm ==
  ASSUME TypeOK, NEW d \in Drivers, drv[d].pc # "free",
         NEW pc, NEW seen, NEW goal, Move(d, pc, seen, goal),
         Past(d) => pc \in {"final", "ended"} \/ (pc = "commit" /\ goal # "running"),
         req' = req
  PROVE  Calm
  <1>1. drv'[d] = At(d, pc, seen, goal) /\ \A e \in Drivers : e # d => drv'[e] = drv[e]
    BY DEF Move, TypeOK
  <1>2. NoNewHands
    BY DEF NoNewHands, Hands
  <1>3. ASSUME NEW e \in Drivers, NEW t \in Scans, Works(e, t)'
        PROVE  Works(e, t) /\ (Past(e) => Past(e)')
    BY <1>1, <1>3, AtFields DEF Works, Past
  <1>4. QED
    BY <1>2, <1>3 DEF Calm, NoNewWork

(* Every step leaves the rows there and does one of the three things. *)
LEMMA OrderlyMoves ==
  ASSUME LifecycleAssumption, TypeOK, RegistrySound, OneRun,
         "delete" \notin Ops, [OrderlyNext]_vars
  PROVE  /\ RowsStay
         /\ \A q \in Requests : req'[q].step # "delete_commit"
         /\ \/ \E r \in Requests, s \in Scans : Takes(r, s)
            \/ \E r \in Requests, d \in Drivers, s \in Scans : Gives(r, d, s)
            \/ Calm
  <1> DEFINE NoDelete == \A q \in Requests : req'[q].step # "delete_commit"
             Moves == \/ \E r \in Requests, s \in Scans : Takes(r, s)
                      \/ \E r \in Requests, d \in Drivers, s \in Scans : Gives(r, d, s)
                      \/ Calm
             Kept == RowsStay /\ NoDelete /\ Moves
  <1> SUFFICES Kept
    OBVIOUS
  <1>a. \A q \in Requests : req[q].step # "delete_commit"
    BY DEF OneRun
  <1>b. ASSUME drv' = drv, NoNewHands
        PROVE  Calm
    BY <1>b DEF Calm, NoNewWork, Works, Past
  <1>1. ASSUME NEW r \in Requests, CreateRead(r) \/ \E s \in Scans : CancelRead(r, s)
        PROVE  Kept
    <2>1. drv' = drv /\ row' = row
      BY <1>1 DEF CreateRead, CancelRead
    <2>2. \A q \in Requests : q # r => req'[q] = req[q]
      BY <1>1 DEF CreateRead, CancelRead, Wait, TypeOK
    <2>3. req'[r].step \in {"create_insert", "cancel_act"}
      BY <1>1 DEF CreateRead, CancelRead, Wait, TypeOK
    <2>4. NoNewHands
      BY <2>2, <2>3 DEF NoNewHands, Hands, Dispatches
    <2>5. QED
      BY <1>a, <1>b, <2>1, <2>2, <2>3, <2>4 DEF RowsStay
  <1>2. ASSUME NEW r \in Requests, DeleteRead(r)
        PROVE  Kept
    BY <1>2 DEF DeleteRead, Starts
  <1>3. ASSUME NEW r \in Requests, NEW s \in Scans,
               TriggerInsert(r, s) \/ CreateInsert(r, s)
        PROVE  Kept
    <2>1. row[s] = "absent"
      BY <1>3 DEF TriggerInsert, CreateInsert, IsNextId, Scans, LifecycleAssumption
    <2>2. Alone(s)
      BY <2>1 DEF OneRun
    <2>3. drv' = drv /\ row' = [row EXCEPT ![s] = "pending"]
      BY <1>3 DEF TriggerInsert, CreateInsert, Insert
    <2>4. \A q \in Requests : q # r => req'[q] = req[q]
      BY <1>3 DEF TriggerInsert, CreateInsert, Wait, TypeOK
    <2>5. req'[r].step \in Dispatches /\ req'[r].scan = s
      BY <1>3 DEF TriggerInsert, CreateInsert, Wait, TypeOK, Dispatches
    <2>6. Takes(r, s)
      BY <2>1, <2>2, <2>3, <2>4, <2>5 DEF Takes, Hands, TypeOK
    <2>7. RowsStay
      BY <2>3 DEF RowsStay, TypeOK
    <2>8. NoDelete
      BY <1>a, <2>4, <2>5 DEF Dispatches
    <2>9. QED
      BY <2>6, <2>7, <2>8
  <1>4. ASSUME NEW r \in Requests, NEW s \in Scans, StartRead(r, s), Alone(s)
        PROVE  Kept
    <2>1. drv' = drv /\ row' = row /\ row[s] # "absent" /\ "start" \in Ops
      BY <1>4 DEF StartRead, Startable, Starts
    <2>2. \A q \in Requests : q # r => req'[q] = req[q]
      BY <1>4 DEF StartRead, Wait, TypeOK
    <2>3. req'[r].step = "start_dispatch" /\ req'[r].scan = s
      BY <1>4 DEF StartRead, Wait, TypeOK
    <2>4. Takes(r, s)
      BY <1>4, <2>1, <2>2, <2>3 DEF Takes, Hands
    <2>5. QED
      BY <1>a, <2>1, <2>2, <2>3, <2>4 DEF RowsStay
  <1>5. ASSUME NEW r \in Requests, NEW d \in Drivers,
               CreateDispatch(r, d) \/ TriggerDispatch(r, d) \/ StartDispatch(r, d)
        PROVE  Kept
    <2> DEFINE s == req[r].scan
    <2>1. Hands(r, s)
      BY <1>5 DEF CreateDispatch, TriggerDispatch, StartDispatch, Resumes, Hands, Dispatches
    <2>2. s \in Scans
      BY <2>1, WaitingRequest DEF Hands
    <2>3. drv[d].pc = "free" /\ row' = row
      BY <1>5 DEF CreateDispatch, TriggerDispatch, StartDispatch, Dispatch, Free
    <2>4. \A e \in Drivers : e # d => drv'[e] = drv[e]
      BY <1>5 DEF CreateDispatch, TriggerDispatch, StartDispatch, Dispatch, TypeOK
    <2>5. drv'[d].scan = s
      BY <1>5 DEF CreateDispatch, TriggerDispatch, StartDispatch, Dispatch, TypeOK, NewDriver
    <2>6. req'[r] = Idle /\ \A q \in Requests : q # r => req'[q] = req[q]
      BY <1>5 DEF CreateDispatch, TriggerDispatch, StartDispatch, Dispatch, Answer, TypeOK
    <2>7. Gives(r, d, s)
      BY <2>1, <2>3, <2>4, <2>5, <2>6 DEF Gives, NoNewHands, Hands, Idle, Dispatches
    <2>8. NoDelete /\ RowsStay
      BY <1>a, <2>3, <2>6 DEF Idle, RowsStay
    <2>9. QED
      BY <2>2, <2>7, <2>8
  <1>6. ASSUME NEW r \in Requests,
               StartNoTarget(r) \/ CancelCommit(r) \/ CancelCommitFails(r)
        PROVE  Kept
    <2>1. drv' = drv /\ \A q \in Requests : req'[q] = req[q] \/ req'[q] = Idle
      BY <1>6 DEF StartNoTarget, CancelCommit, CancelCommitFails, Answer, TypeOK
    <2>2. Calm /\ NoDelete
      BY <1>a, <1>b, <2>1 DEF NoNewHands, Hands, Idle, Dispatches
    <2>3. RowsStay
      BY <1>6 DEF StartNoTarget, CancelCommit, CancelCommitFails, Written, RowsStay, TypeOK
    <2>4. QED
      BY <2>2, <2>3
  <1>7. ASSUME NEW r \in Requests, DeleteCommit(r)
        PROVE  Kept
    BY <1>a, <1>7 DEF DeleteCommit, Resumes
  <1>8. ASSUME NEW r \in Requests, CancelAct(r)
        PROVE  Kept
    <2> DEFINE s == req[r].scan
    <2>1. s \in Scans
      BY <1>8, WaitingRequest DEF CancelAct, Resumes, Cancels
    <2>2. \A q \in Requests : q # r => req'[q] = req[q]
      BY <1>8 DEF CancelAct, Wait, Answer, TypeOK
    <2>3. req'[r].step \in {"cancel_commit", "idle"}
      BY <1>8 DEF CancelAct, Wait, Answer, Idle, TypeOK
    <2>4. NoDelete /\ NoNewHands
      BY <1>a, <2>2, <2>3 DEF NoNewHands, Hands, Dispatches
    <2>5. CASE reg[s] = None
      <3>1. drv' = drv /\ row' = row
        BY <1>8, <2>5 DEF CancelAct
      <3>2. QED
        BY <1>b, <2>4, <3>1 DEF RowsStay
    <2>6. CASE reg[s] # None
      <3> DEFINE d == reg[s]
      <3>1. d \in Drivers /\ drv[d].pc # "free"
        BY <2>1, <2>6 DEF TypeOK, RegistrySound, Works
      <3>2. PICK landed \in BOOLEAN : CancelTask(d, landed)
        BY <1>8, <2>6 DEF CancelAct
      <3>3. RowsStay
        BY <3>1, <3>2, BusyDriver
        DEF CancelTask, Written, RowsStay, TypeOK, Goal, Terminal
      <3>4. NoNewWork
        <4>1. /\ drv'[d].scan = drv[d].scan
              /\ drv'[d].pc = IF drv[d].pc = "run" THEN "handler" ELSE "ended"
          BY <3>1, <3>2 DEF CancelTask, Move, At, TypeOK
        <4>2. \A e \in Drivers : e # d => drv'[e] = drv[e]
          BY <3>1, <3>2 DEF CancelTask, Move, TypeOK
        <4>3. QED
          BY <3>1, <4>1, <4>2 DEF NoNewWork, Works, Past
      <3>5. QED
        BY <2>4, <3>3, <3>4 DEF Calm
    <2>7. QED
      BY <2>5, <2>6
  <1>c. ASSUME req' = req, RowsStay, Calm
        PROVE  Kept
    BY <1>a, <1>c
  <1>9. ASSUME NEW d \in Drivers, BeginRead(d) \/ SchedBeginRead(d)
        PROVE  Kept
    <2>1. Calm
      BY <1>9, MoveCalm DEF BeginRead, SchedBeginRead, End, Past
    <2>2. QED
      BY <1>9, <1>c, <2>1 DEF BeginRead, SchedBeginRead, RowsStay
  <1>10. ASSUME NEW d \in Drivers, Commit(d)
         PROVE  Kept
    <2>1. Calm
      BY <1>10, MoveCalm DEF Commit, End, Past
    <2>2. RowsStay
      BY <1>10, BusyDriver DEF Commit, Written, RowsStay, TypeOK, Goal, Terminal
    <2>3. QED
      BY <1>10, <1>c, <2>1, <2>2 DEF Commit
  <1>11. ASSUME NEW d \in Drivers, Enter(d) \/ RunEnds(d)
         PROVE  Kept
    <2>1. Calm
      BY <1>11, MoveCalm DEF Enter, RunEnds, Past
    <2>2. QED
      BY <1>11, <1>c, <2>1 DEF Enter, RunEnds, RowsStay
  <1>12. ASSUME NEW d \in Drivers, FinalRead(d)
         PROVE  Kept
    <2>1. drv[d].goal # "running"
      BY <1>12, BusyDriver DEF FinalRead, Outcome
    <2>2. Calm
      BY <1>12, <2>1, MoveCalm DEF FinalRead, End
    <2>3. QED
      BY <1>12, <1>c, <2>2 DEF FinalRead, RowsStay
  <1>13. ASSUME NEW d \in Drivers, HandlerRead(d)
         PROVE  Kept
    <2>1. Calm
      BY <1>13, MoveCalm DEF HandlerRead, End, Past
    <2>2. QED
      BY <1>13, <1>c, <2>1 DEF HandlerRead, RowsStay
  <1>14. ASSUME NEW d \in Drivers, DoneCallback(d)
         PROVE  Kept
    <2>1. drv'[d] = Free /\ \A e \in Drivers : e # d => drv'[e] = drv[e]
      BY <1>14 DEF DoneCallback, TypeOK
    <2>2. NoNewWork
      BY <2>1 DEF NoNewWork, Works, Past, Free
    <2>3. QED
      BY <1>14, <1>c, <2>2 DEF DoneCallback, RowsStay, Calm, NoNewHands, Hands
  <1>15. ASSUME NEW d \in Drivers, CommitFails(d)
         PROVE  Kept
    <2>1. Calm
      BY <1>15, MoveCalm DEF CommitFails, End
    <2>2. QED
      BY <1>15, <1>c, <2>1 DEF CommitFails, RowsStay
  <1>16. CASE CreateTarget \/ UNCHANGED vars
    <2>1. drv' = drv /\ req' = req /\ row' = row
      BY <1>16 DEF CreateTarget, vars
    <2>2. QED
      BY <1>b, <1>c, <2>1 DEF RowsStay, NoNewHands, Hands
  <1>17. CASE Crash
    BY <1>17 DEF Crash, RowsStay, Calm, NoNewHands, NoNewWork, Hands, Works, Free, Idle, Dispatches
  <1>18. CASE Recover
    <2>1. drv' = drv /\ req' = req /\ RowsStay
      BY <1>18 DEF Recover, Swept, RowsStay
    <2>2. QED
      BY <1>b, <1>c, <2>1 DEF NoNewHands, Hands
  <1>19. QED
    BY <1>1, <1>2, <1>3, <1>4, <1>5, <1>6, <1>7, <1>8, <1>9, <1>10, <1>11, <1>12,
       <1>13, <1>14, <1>15, <1>16, <1>17, <1>18
    DEF OrderlyNext, OrderlyArrival, RequestStep, DriverStep, Environment

(* An id is given to one task only. *)
LEMMA OneRunStep ==
  ASSUME LifecycleAssumption, TypeOK, RegistrySound, OneRun,
         "delete" \notin Ops, [OrderlyNext]_vars
  PROVE  OneRun'
  BY OrderlyMoves, TakesKeeps, GivesKeeps, CalmKeeps

(* At the start nobody runs anything. *)
LEMMA OneRunInit ==
  ASSUME LifecycleAssumption, Init
  PROVE  OneRun
  BY DEF Init, OneRun, Alone, Works, Hands, Free, Idle, Dispatches

-----------------------------------------------------------------------------
(* Polite clients: every task can be cancelled, and the status of a scan   *)
(* only moves along the arcs.                                              *)

(* A polite client only starts a scan that is alone. *)
LEMMA PoliteIsOrderly ==
  ASSUME [PoliteNext]_vars
  PROVE  [OrderlyNext]_vars /\ [Next]_vars
  <1>1. ASSUME NEW r \in Requests, NEW s \in Scans,
               ~Acting(s, Dispatches \cup Cancels), ~\E d \in Drivers : Works(d, s)
        PROVE  Alone(s)
    BY <1>1 DEF Acting, Alone, Hands
  <1>2. ASSUME NEW r \in Requests, PoliteArrival(r)
        PROVE  OrderlyArrival(r) /\ Arrival(r)
    BY <1>1, <1>2 DEF PoliteArrival, OrderlyArrival, Arrival
  <1>3. QED
    BY <1>2 DEF PoliteNext, OrderlyNext, Next

(* A task that moves on stays registered. *)
LEMMA MoveReach ==
  ASSUME TypeOK, CancelCanReach, NEW d \in Drivers, drv[d].pc # "free",
         NEW pc, NEW seen, NEW goal, Move(d, pc, seen, goal), reg' = reg,
         pc = "ended" \/ (Live(d) /\ (Cancelling(d) => pc = "commit" /\ goal = "cancelled"))
  PROVE  CancelCanReach'
  <1>1. drv'[d] = At(d, pc, seen, goal) /\ \A e \in Drivers : e # d => drv'[e] = drv[e]
    BY DEF Move, TypeOK
  <1> SUFFICES ASSUME NEW e \in Drivers, Live(e)', drv'[e].kind = "ui", ~Cancelling(e)'
               PROVE  reg[drv'[e].scan] = e
    BY DEF CancelCanReach
  <1>2. CASE e # d
    BY <1>1, <1>2 DEF CancelCanReach, Live, Cancelling
  <1>3. CASE e = d
    BY <1>1, <1>3, AtFields DEF CancelCanReach, Live, Cancelling
  <1>4. QED
    BY <1>2, <1>3

(* Every orderly step leaves every task reachable: it is the only one of   *)
(* its scan, so no other overwrote or popped its entry.                    *)
LEMMA ReachStep ==
  ASSUME LifecycleAssumption, TypeOK, RegistrySound, OneRun, CancelCanReach,
         "delete" \notin Ops, [OrderlyNext]_vars
  PROVE  CancelCanReach'
  <1>a. ASSUME drv' = drv, reg' = reg
        PROVE  CancelCanReach'
    BY <1>a DEF CancelCanReach, Live, Cancelling
  <1>1. ASSUME NEW r \in Requests, OrderlyArrival(r)
        PROVE  CancelCanReach'
    BY <1>1, <1>a DEF OrderlyArrival, CreateRead, DeleteRead, TriggerInsert, CancelRead, StartRead
  <1>2. ASSUME NEW r \in Requests,
               \/ \E s \in Scans : CreateInsert(r, s)
               \/ StartNoTarget(r) \/ CancelCommit(r) \/ DeleteCommit(r) \/ CancelCommitFails(r)
        PROVE  CancelCanReach'
    BY <1>2, <1>a DEF CreateInsert, StartNoTarget, CancelCommit, DeleteCommit, CancelCommitFails
  <1>3. ASSUME NEW r \in Requests, NEW d \in Drivers, CreateDispatch(r, d) \/ StartDispatch(r, d)
        PROVE  CancelCanReach'
    <2> DEFINE s == req[r].scan
    <2>1. Hands(r, s) /\ Dispatch(r, d)
      BY <1>3 DEF CreateDispatch, StartDispatch, Resumes, Hands, Dispatches
    <2>2. s \in Scans
      BY <2>1, WaitingRequest DEF Hands
    <2>3. \A e \in Drivers : ~Works(e, s)
      BY <2>1, <2>2 DEF OneRun
    <2>4. reg'[s] = d /\ \A t \in Scans : t # s => reg'[t] = reg[t]
      BY <2>1, <2>2 DEF Dispatch, RegisterTask, TypeOK
    <2>5. drv'[d].scan = s /\ \A e \in Drivers : e # d => drv'[e] = drv[e]
      BY <2>1 DEF Dispatch, NewDriver, TypeOK
    <2> SUFFICES ASSUME NEW e \in Drivers, Live(e)', drv'[e].kind = "ui", ~Cancelling(e)'
                 PROVE  reg'[drv'[e].scan] = e
      BY DEF CancelCanReach
    <2>6. CASE e = d
      BY <2>4, <2>5, <2>6
    <2>7. CASE e # d
      <3>1. drv'[e] = drv[e] /\ drv[e].pc # "free"
        BY <2>5, <2>7 DEF Live
      <3>2. drv[e].scan \in Scans /\ drv[e].scan # s
        BY <2>3, <3>1, BusyDriver DEF Works
      <3>3. reg[drv[e].scan] = e
        BY <3>1 DEF CancelCanReach, Live, Cancelling
      <3>4. QED
        BY <2>4, <3>1, <3>2, <3>3
    <2>8. QED
      BY <2>6, <2>7
  <1>4. ASSUME NEW r \in Requests, NEW d \in Drivers, TriggerDispatch(r, d)
        PROVE  CancelCanReach'
    <2>1. drv'[d].kind = "sched" /\ \A e \in Drivers : e # d => drv'[e] = drv[e]
      BY <1>4 DEF TriggerDispatch, NewDriver, TypeOK
    <2>2. QED
      BY <1>4, <2>1 DEF TriggerDispatch, CancelCanReach, Live, Cancelling
  <1>5. ASSUME NEW r \in Requests, CancelAct(r)
        PROVE  CancelCanReach'
    <2> DEFINE s == req[r].scan
    <2>1. s \in Scans
      BY <1>5, WaitingRequest DEF CancelAct, Resumes, Cancels
    <2>2. \A t \in Scans : t # s => reg'[t] = reg[t]
      BY <1>5, <2>1 DEF CancelAct, PopTask, TypeOK
    <2> SUFFICES ASSUME NEW e \in Drivers, Live(e)', drv'[e].kind = "ui", ~Cancelling(e)'
                 PROVE  reg'[drv'[e].scan] = e
      BY DEF CancelCanReach
    <2>3. CASE reg[s] = None
      <3>1. drv' = drv
        BY <1>5, <2>3 DEF CancelAct
      <3>2. drv[e].scan \in Scans /\ reg[drv[e].scan] = e
        BY <3>1, BusyDriver DEF CancelCanReach, Live, Cancelling
      <3>3. QED
        BY <2>2, <2>3, <3>1, <3>2 DEF LifecycleAssumption
    <2>4. CASE reg[s] # None
      <3> DEFINE d == reg[s]
      <3>1. d \in Drivers /\ drv[d].pc # "free" /\ drv[d].scan = s
        BY <2>1, <2>4 DEF TypeOK, RegistrySound, Works
      <3>2. PICK landed \in BOOLEAN : CancelTask(d, landed)
        BY <1>5, <2>4 DEF CancelAct
      <3>3. drv'[d].pc \in {"handler", "ended"}
            /\ \A q \in Drivers : q # d => drv'[q] = drv[q]
        BY <3>1, <3>2 DEF CancelTask, Move, At, TypeOK
      <3>4. e # d
        BY <3>3 DEF Live, Cancelling
      <3>5. drv'[e] = drv[e] /\ drv[e].pc # "free"
        BY <3>3, <3>4 DEF Live
      <3>6. drv[e].scan \in Scans /\ reg[drv[e].scan] = e
        BY <3>5, BusyDriver DEF CancelCanReach, Live, Cancelling
      <3>7. QED
        BY <2>2, <3>4, <3>5, <3>6
    <2>5. QED
      BY <2>3, <2>4
  <1>6. ASSUME NEW d \in Drivers, BeginRead(d) \/ SchedBeginRead(d)
        PROVE  CancelCanReach'
    BY <1>6, MoveReach DEF BeginRead, SchedBeginRead, End, Live, Cancelling
  <1>7. ASSUME NEW d \in Drivers, Commit(d)
        PROVE  CancelCanReach'
    BY <1>7, MoveReach DEF Commit, End, Live, Cancelling
  <1>8. ASSUME NEW d \in Drivers, Enter(d) \/ RunEnds(d)
        PROVE  CancelCanReach'
    BY <1>8, MoveReach DEF Enter, RunEnds, Live, Cancelling
  <1>9. ASSUME NEW d \in Drivers, FinalRead(d)
        PROVE  CancelCanReach'
    BY <1>9, MoveReach DEF FinalRead, End, Live, Cancelling
  <1>10. ASSUME NEW d \in Drivers, HandlerRead(d)
         PROVE  CancelCanReach'
    BY <1>10, MoveReach DEF HandlerRead, End, Live, Cancelling
  <1>11. ASSUME NEW d \in Drivers, DoneCallback(d)
         PROVE  CancelCanReach'
    <2>1. drv[d].pc # "free" /\ drv[d].scan \in Scans
      BY <1>11, BusyDriver DEF DoneCallback
    <2>2. drv'[d] = Free /\ \A e \in Drivers : e # d => drv'[e] = drv[e]
      BY <1>11 DEF DoneCallback, TypeOK
    <2>3. \A t \in Scans : t # drv[d].scan => reg'[t] = reg[t]
      BY <1>11, <2>1 DEF DoneCallback, PopTask, TypeOK
    <2> SUFFICES ASSUME NEW e \in Drivers, Live(e)', drv'[e].kind = "ui", ~Cancelling(e)'
                 PROVE  reg'[drv'[e].scan] = e
      BY DEF CancelCanReach
    <2>4. e # d /\ drv'[e] = drv[e] /\ drv[e].pc # "free"
      BY <2>2 DEF Live, Free
    <2>5. drv[e].scan \in Scans /\ reg[drv[e].scan] = e
      BY <2>4, BusyDriver DEF CancelCanReach, Live, Cancelling
    <2>6. drv[e].scan # drv[d].scan
      BY <2>1, <2>4, <2>5 DEF OneRun, Works
    <2>7. QED
      BY <2>3, <2>4, <2>5, <2>6
  <1>12. ASSUME NEW d \in Drivers, CommitFails(d)
         PROVE  CancelCanReach'
    BY <1>12, MoveReach DEF CommitFails, End
  <1>13. CASE CreateTarget \/ Recover \/ UNCHANGED vars
    BY <1>13, <1>a DEF CreateTarget, Recover, vars
  <1>14. CASE Crash
    BY <1>14 DEF Crash, CancelCanReach, Live, Free
  <1>15. QED
    BY <1>1, <1>2, <1>3, <1>4, <1>5, <1>6, <1>7, <1>8, <1>9, <1>10, <1>11, <1>12,
       <1>13, <1>14
    DEF OrderlyNext, RequestStep, DriverStep, Environment

(* The row follows its task: what the task saw is what is there, but for a *)
(* mark /cancel may have left meanwhile.                                   *)
RowFits(d) ==
  LET st == row[drv[d].scan]
  IN /\ drv[d].kind = "ui"
     /\ drv[d].pc = "begin" => st = "pending"
     /\ drv[d].pc \in {"exit", "run", "final"} => st = "running"
     /\ drv[d].pc = "handler" => st \in {"running", "cancelled"}
     /\ drv[d].pc = "commit" =>
          /\ drv[d].goal = "running" => drv[d].seen = "pending" /\ st = "pending"
          /\ drv[d].goal \in Outcome => drv[d].seen = "running" /\ st = "running"
          /\ drv[d].goal = "cancelled" =>
               drv[d].seen = "running" /\ st \in {"running", "cancelled"}

(* A scan about to be handed over is pending and nobody is cancelling it;  *)
(* once /cancel is about to mark a row, its task is on its way out.  A     *)
(* process that is down has neither tasks nor requests.                    *)
RowsFollow ==
  /\ \A d \in Drivers : drv[d].pc # "free" => RowFits(d)
  /\ \A r \in Requests, s \in Scans : Hands(r, s) => row[s] = "pending" /\ ~Acting(s, Cancels)
  /\ \A r \in Requests : req[r].step \in Cancels => row[req[r].scan] # "absent"
  /\ \A r \in Requests : req[r].step = "cancel_commit" => req[r].seen = "pending"
  /\ \A r \in Requests, d \in Drivers :
       req[r].step = "cancel_commit" /\ Works(d, req[r].scan) =>
         Cancelling(d) \/ drv[d].pc = "ended"
  /\ \A r \in Requests : req[r].step # "trigger_dispatch"
  /\ ~up => /\ \A d \in Drivers : drv[d] = Free
            /\ \A r \in Requests : req[r] = Idle

PoliteInv == IInv /\ OneRun /\ CancelCanReach /\ RowsFollow

(* A task moves and may write the row of its scan: nobody else looks at it. *)
LEMMA FollowMove ==
  ASSUME TypeOK, OneRun, RowsFollow, NEW d \in Drivers, drv[d].pc # "free",
         NEW pc, NEW seen, NEW goal, Move(d, pc, seen, goal),
         \A t \in Scans : t # drv[d].scan => row'[t] = row[t],
         row'[drv[d].scan] = "absent" => row[drv[d].scan] = "absent",
         RowFits(d)', Cancelling(d) => Cancelling(d)' \/ pc = "ended",
         drv[d].pc # "ended", req' = req, up, up' = up
  PROVE  RowsFollow'
  <1> DEFINE s == drv[d].scan
  <1>1. drv'[d] = At(d, pc, seen, goal) /\ \A e \in Drivers : e # d => drv'[e] = drv[e]
    BY DEF Move, TypeOK
  <1>2. s \in Scans /\ \A r \in Requests : ~Hands(r, s)
    BY BusyDriver DEF OneRun, Works
  <1>3. \A t \in Scans : Acting(t, Cancels)' <=> Acting(t, Cancels)
    BY DEF Acting
  <1>4. \A r \in Requests, t \in Scans : Hands(r, t)' <=> Hands(r, t)
    BY DEF Hands
  <1>5. ASSUME NEW e \in Drivers, drv'[e].pc # "free"
        PROVE  RowFits(e)'
    <2>1. CASE e # d
      <3>1. drv'[e] = drv[e] /\ drv[e].pc # "free"
        BY <1>1, <1>5, <2>1
      <3>2. drv[e].scan \in Scans /\ drv[e].scan # s
        BY <1>2, <2>1, <3>1, BusyDriver DEF OneRun, Works
      <3>3. row'[drv[e].scan] = row[drv[e].scan]
        BY <3>2
      <3>4. RowFits(e)
        BY <3>1 DEF RowsFollow
      <3>5. QED
        BY <3>1, <3>3, <3>4 DEF RowFits
    <2>2. QED
      BY <2>1
  <1>6. ASSUME NEW r \in Requests, NEW t \in Scans, Hands(r, t)
        PROVE  row'[t] = "pending" /\ ~Acting(t, Cancels)
    BY <1>2, <1>6 DEF RowsFollow
  <1>7. ASSUME NEW r \in Requests, req[r].step \in Cancels
        PROVE  row'[req[r].scan] # "absent"
    BY <1>7, WaitingRequest DEF RowsFollow
  <1>8. ASSUME NEW r \in Requests, NEW e \in Drivers,
               req[r].step = "cancel_commit", Works(e, req[r].scan)'
        PROVE  Cancelling(e)' \/ drv'[e].pc = "ended"
    <2>1. CASE e # d
      BY <1>1, <1>8, <2>1 DEF RowsFollow, Works, Cancelling
    <2>2. CASE e = d
      BY <1>1, <1>8, <2>2, AtFields DEF RowsFollow, Works, Cancelling
    <2>3. QED
      BY <2>1, <2>2
  <1>9. QED
    BY <1>3, <1>4, <1>5, <1>6, <1>7, <1>8 DEF RowsFollow

(* The row a commit leaves. *)
LEMMA WrittenRow ==
  ASSUME TypeOK, NEW s \in Scans, NEW seen, NEW goal
  PROVE  /\ \A t \in Scans : t # s => Written(s, seen, goal)[t] = row[t]
         /\ Written(s, seen, goal)[s] =
              IF row[s] # "absent" /\ seen # goal THEN goal ELSE row[s]
  BY DEF Written, TypeOK

(* Every step of a polite client, a task or the process leaves rows and    *)
(* tasks in agreement.                                                     *)
LEMMA RowsStep ==
  ASSUME LifecycleAssumption, PoliteInv, "delete" \notin Ops, "trigger" \notin Ops,
         [PoliteNext]_vars
  PROVE  RowsFollow'
  <1> USE DEF PoliteInv, IInv
  <1>a. RowsStay
    BY PoliteIsOrderly, OrderlyMoves
  <1>b. \A q \in Requests : req[q].step # "delete_commit"
    BY DEF OneRun
  <1>c. \A e \in Drivers : drv[e].pc # "free" => drv[e].scan \in Scans
    BY BusyDriver
  <1>1. ASSUME NEW r \in Requests, CreateRead(r)
        PROVE  RowsFollow'
    <2>1. drv' = drv /\ row' = row /\ up /\ up' = up
      BY <1>1 DEF CreateRead, Starts
    <2>2. /\ req'[r].step = "create_insert"
          /\ \A q \in Requests : q # r => req'[q] = req[q]
      BY <1>1 DEF CreateRead, Wait, TypeOK
    <2>3. QED
      BY <2>1, <2>2 DEF RowsFollow, RowFits, Hands, Acting, Works, Cancelling, Cancels, Dispatches
  <1>2. ASSUME NEW r \in Requests, NEW s \in Scans, CancelRead(r, s), ~Acting(s, Dispatches)
        PROVE  RowsFollow'
    <2>1. drv' = drv /\ row' = row /\ up /\ up' = up /\ row[s] # "absent"
      BY <1>2 DEF CancelRead, Starts
    <2>2. /\ req'[r].step = "cancel_act" /\ req'[r].scan = s
          /\ \A q \in Requests : q # r => req'[q] = req[q]
      BY <1>2 DEF CancelRead, Wait, TypeOK
    <2>3. \A q \in Requests : ~Hands(q, s)
      BY <1>2 DEF Hands, Acting
    <2>4. QED
      BY <2>1, <2>2, <2>3 DEF RowsFollow, RowFits, Hands, Acting, Works, Cancelling, Cancels, Dispatches
  <1>3. ASSUME NEW r \in Requests, NEW s \in Scans, StartRead(r, s),
               ~Acting(s, Dispatches \cup Cancels)
        PROVE  RowsFollow'
    <2>1. drv' = drv /\ row' = row /\ up /\ up' = up /\ row[s] = "pending"
      BY <1>3 DEF StartRead, Starts, Startable
    <2>2. /\ req'[r].step = "start_dispatch" /\ req'[r].scan = s
          /\ \A q \in Requests : q # r => req'[q] = req[q]
      BY <1>3 DEF StartRead, Wait, TypeOK
    <2>3. \A q \in Requests : ~(req[q].step \in Cancels /\ req[q].scan = s)
      BY <1>3 DEF Acting
    <2>4. QED
      BY <2>1, <2>2, <2>3 DEF RowsFollow, RowFits, Hands, Acting, Works, Cancelling, Cancels, Dispatches
  <1>4. ASSUME NEW r \in Requests, NEW s \in Scans, CreateInsert(r, s)
        PROVE  RowsFollow'
    <2>1. row[s] = "absent" /\ up /\ up' = up /\ drv' = drv
      BY <1>4 DEF CreateInsert, IsNextId, Scans, LifecycleAssumption, Resumes
    <2>2. Alone(s)
      BY <2>1 DEF OneRun
    <2>3. row'[s] = "pending" /\ \A t \in Scans : t # s => row'[t] = row[t]
      BY <1>4 DEF CreateInsert, Insert, TypeOK
    <2>4. /\ req'[r].step = "create_dispatch" /\ req'[r].scan = s
          /\ \A q \in Requests : q # r => req'[q] = req[q]
      BY <1>4 DEF CreateInsert, Wait, TypeOK
    <2>5. \A q \in Requests : ~(req[q].step \in Cancels /\ req[q].scan = s)
      BY <2>1 DEF RowsFollow
    <2>6. \A e \in Drivers : drv[e].pc # "free" => row'[drv[e].scan] = row[drv[e].scan]
      BY <1>c, <2>2, <2>3 DEF Alone, Works
    <2>7. \A q \in Requests : req[q].step \in Cancels => req[q].scan \in Scans
      BY WaitingRequest
    <2>8. \A e \in Drivers : drv'[e].pc # "free" => RowFits(e)'
      BY <2>1, <2>6 DEF RowsFollow, RowFits
    <2>9. \A q \in Requests, t \in Scans :
            Hands(q, t)' => row'[t] = "pending" /\ ~Acting(t, Cancels)'
      BY <2>2, <2>3, <2>4, <2>5
      DEF RowsFollow, Hands, Acting, Alone, Cancels, Dispatches
    <2>10. \A q \in Requests : req'[q].step \in Cancels => row'[req'[q].scan] # "absent"
      BY <2>3, <2>4, <2>7 DEF RowsFollow, Cancels
    <2>11. QED
      BY <2>1, <2>4, <2>8, <2>9, <2>10 DEF RowsFollow, Works, Cancelling
  <1>5. ASSUME NEW r \in Requests, NEW d \in Drivers, CreateDispatch(r, d) \/ StartDispatch(r, d)
        PROVE  RowsFollow'
    <2> DEFINE s == req[r].scan
    <2>1. Hands(r, s) /\ Dispatch(r, d) /\ row' = row /\ up /\ up' = up
      BY <1>5 DEF CreateDispatch, StartDispatch, Resumes, Hands, Dispatches
    <2>2. s \in Scans
      BY <2>1, WaitingRequest DEF Hands
    <2>3. row[s] = "pending" /\ ~Acting(s, Cancels)
      BY <2>1, <2>2 DEF RowsFollow
    <2>4. /\ drv'[d] = NewDriver(s, "ui")
          /\ \A e \in Drivers : e # d => drv'[e] = drv[e]
      BY <2>1 DEF Dispatch, TypeOK
    <2>5. req'[r] = Idle /\ \A q \in Requests : q # r => req'[q] = req[q]
      BY <2>1 DEF Dispatch, Answer, TypeOK
    <2>6. \A e \in Drivers : drv'[e].pc # "free" => RowFits(e)'
      BY <2>1, <2>3, <2>4 DEF RowsFollow, RowFits, NewDriver
    <2>7. \A q \in Requests, e \in Drivers :
            req'[q].step = "cancel_commit" /\ Works(e, req[q].scan)' =>
              Cancelling(e)' \/ drv'[e].pc = "ended"
      BY <2>3, <2>4, <2>5
      DEF RowsFollow, Works, Cancelling, NewDriver, Acting, Cancels, Idle
    <2>8. QED
      BY <2>1, <2>5, <2>6, <2>7 DEF RowsFollow, Hands, Acting, Idle, Cancels, Dispatches, Works
  <1>6. ASSUME NEW r \in Requests, NEW s \in Scans, TriggerInsert(r, s)
        PROVE  FALSE
    BY <1>6 DEF TriggerInsert, Starts
  <1>7. ASSUME NEW r \in Requests, NEW d \in Drivers, TriggerDispatch(r, d)
        PROVE  FALSE
    BY <1>7 DEF TriggerDispatch, Resumes, RowsFollow
  <1>8. ASSUME NEW r \in Requests, StartNoTarget(r) \/ CancelCommitFails(r)
        PROVE  RowsFollow'
    <2>1. drv' = drv /\ row' = row /\ up /\ up' = up
      BY <1>8 DEF StartNoTarget, CancelCommitFails, Resumes
    <2>2. req'[r] = Idle /\ \A q \in Requests : q # r => req'[q] = req[q]
      BY <1>8 DEF StartNoTarget, CancelCommitFails, Answer, TypeOK
    <2>3. QED
      BY <2>1, <2>2 DEF RowsFollow, RowFits, Hands, Acting, Works, Cancelling, Cancels, Dispatches, Idle
  <1>9. ASSUME NEW r \in Requests, CancelCommit(r)
        PROVE  RowsFollow'
    <2> DEFINE s == req[r].scan
    <2>1. drv' = drv /\ up /\ up' = up /\ req[r].step = "cancel_commit"
      BY <1>9 DEF CancelCommit, Resumes
    <2>2. s \in Scans
      BY <2>1, WaitingRequest DEF Cancels
    <2>3. /\ \A t \in Scans : t # s => row'[t] = row[t]
          /\ row'[s] \in {row[s], "cancelled"}
      BY <1>9, <2>2, WrittenRow DEF CancelCommit
    <2>4. req'[r] = Idle /\ \A q \in Requests : q # r => req'[q] = req[q]
      BY <1>9 DEF CancelCommit, Answer, TypeOK
    <2>5. Acting(s, Cancels)
      BY <2>1 DEF Acting, Cancels
    <2>6. ASSUME NEW e \in Drivers, drv[e].pc # "free"
          PROVE  RowFits(e)'
      <3>1. CASE drv[e].scan # s
        BY <1>c, <2>1, <2>3, <2>6, <3>1 DEF RowsFollow, RowFits
      <3>2. CASE drv[e].scan = s
        <4>1. Cancelling(e) \/ drv[e].pc = "ended"
          BY <2>1, <2>6, <3>2 DEF RowsFollow, Works
        <4>2. RowFits(e)
          BY <2>6 DEF RowsFollow
        <4>3. QED
          BY <2>1, <2>3, <3>2, <4>1, <4>2 DEF RowFits, Cancelling, Outcome
      <3>3. QED
        BY <3>1, <3>2
    <2>7. \A q \in Requests, t \in Scans :
            Hands(q, t)' => row'[t] = "pending" /\ ~Acting(t, Cancels)'
      BY <2>3, <2>4, <2>5
      DEF RowsFollow, Hands, Acting, Cancels, Dispatches, Idle
    <2>8. \A q \in Requests : req'[q].step \in Cancels => row'[req'[q].scan] # "absent"
      BY <1>a, <2>4, WaitingRequest DEF RowsFollow, Cancels, RowsStay, Idle
    <2>9. QED
      BY <2>1, <2>4, <2>6, <2>7, <2>8 DEF RowsFollow, Works, Cancelling, Idle
  <1>10. ASSUME NEW r \in Requests, DeleteCommit(r)
         PROVE  FALSE
    BY <1>b, <1>10 DEF DeleteCommit, Resumes
  <1>11. ASSUME NEW r \in Requests, CancelAct(r)
         PROVE  RowsFollow'
    <2> DEFINE s == req[r].scan
    <2>1. s \in Scans /\ up /\ up' = up
      BY <1>11, WaitingRequest DEF CancelAct, Resumes, Cancels
    <2>2. Acting(s, Cancels) /\ \A q \in Requests : ~Hands(q, s)
      BY <1>11, <2>1 DEF RowsFollow, CancelAct, Resumes, Acting, Cancels
    <2>3. /\ \A q \in Requests : q # r => req'[q] = req[q]
          /\ \/ req'[r].step = "cancel_commit" /\ req'[r].scan = s
             \/ req'[r] = Idle
      BY <1>11 DEF CancelAct, Wait, Answer, TypeOK
    <2>4. /\ \A t \in Scans : t # s => row'[t] = row[t]
          /\ \A e \in Drivers : ~Works(e, s) => drv'[e] = drv[e]
          /\ \A e \in Drivers : Works(e, s) =>
               /\ drv'[e].scan = s
               /\ Cancelling(e)' \/ drv'[e].pc = "ended"
               /\ RowFits(e)'
      <3>1. CASE reg[s] = None
        <4>1. drv' = drv /\ row' = row
          BY <1>11, <3>1 DEF CancelAct
        <4>2. ASSUME NEW e \in Drivers, Works(e, s)
              PROVE  Cancelling(e) \/ drv[e].pc = "ended"
          <5>1. drv[e].kind = "ui"
            BY <4>2 DEF Works, RowsFollow, RowFits
          <5>2. e # None
            BY DEF LifecycleAssumption
          <5>3. QED
            BY <3>1, <4>2, <5>1, <5>2 DEF Works, CancelCanReach, Live
        <4>3. QED
          BY <4>1, <4>2 DEF Works, Cancelling, RowsFollow, RowFits
      <3>2. CASE reg[s] # None
        <4>0. PICK d \in Drivers : d = reg[s]
          BY <2>1, <3>2 DEF TypeOK
        <4>1. drv[d].pc # "free" /\ drv[d].scan = s
          BY <2>1, <3>2, <4>0 DEF RegistrySound, Works
        <4>2. PICK landed \in BOOLEAN : CancelTask(d, landed)
          BY <1>11, <3>2, <4>0 DEF CancelAct
        <4>3. \A e \in Drivers : Works(e, s) => e = d
          BY <2>1, <4>1 DEF OneRun, Works
        <4>4. /\ drv'[d].scan = s
              /\ drv'[d].kind = drv[d].kind
              /\ drv'[d].pc = IF drv[d].pc = "run" THEN "handler" ELSE "ended"
          BY <4>1, <4>2 DEF CancelTask, Move, At, TypeOK
        <4>5. \A e \in Drivers : e # d => drv'[e] = drv[e]
          BY <4>1, <4>2 DEF CancelTask, Move, TypeOK
        <4>6. \A t \in Scans : t # s => row'[t] = row[t]
          BY <2>1, <4>1, <4>2, WrittenRow DEF CancelTask
        <4>7. drv[d].pc = "run" => row' = row
          BY <4>2 DEF CancelTask
        <4>8. RowFits(d)
          BY <4>1 DEF RowsFollow
        <4>9. RowFits(d)'
          BY <4>1, <4>4, <4>7, <4>8 DEF RowFits
        <4>10. QED
          BY <4>1, <4>3, <4>4, <4>5, <4>6, <4>9 DEF Works, Cancelling
      <3>3. QED
        BY <3>1, <3>2
    <2>5. ASSUME NEW e \in Drivers, drv'[e].pc # "free"
          PROVE  RowFits(e)'
      <3>1. CASE Works(e, s)
        BY <2>4, <3>1
      <3>2. CASE ~Works(e, s)
        <4>1. drv'[e] = drv[e] /\ drv[e].pc # "free" /\ drv[e].scan # s
          BY <2>4, <2>5, <3>2 DEF Works
        <4>2. row'[drv[e].scan] = row[drv[e].scan]
          BY <1>c, <2>4, <4>1
        <4>3. QED
          BY <4>1, <4>2 DEF RowsFollow, RowFits
      <3>3. QED
        BY <3>1, <3>2
    <2>6. \A q \in Requests, t \in Scans :
            Hands(q, t)' => row'[t] = "pending" /\ ~Acting(t, Cancels)'
      <3> SUFFICES ASSUME NEW q \in Requests, NEW t \in Scans, Hands(q, t)'
                   PROVE  row'[t] = "pending" /\ ~Acting(t, Cancels)'
        OBVIOUS
      <3>1. q # r /\ Hands(q, t) /\ t # s
        BY <2>2, <2>3 DEF Hands, Dispatches, Idle
      <3>2. row[t] = "pending" /\ ~Acting(t, Cancels)
        BY <3>1 DEF RowsFollow
      <3>3. QED
        BY <2>3, <2>4, <3>1, <3>2 DEF Acting, Idle, Cancels
    <2>7. \A q \in Requests : req'[q].step \in Cancels => row'[req'[q].scan] # "absent"
      BY <1>11, <1>a, <2>1, <2>3, WaitingRequest
      DEF RowsFollow, Cancels, RowsStay, Idle, CancelAct, Resumes
    <2>8. ASSUME NEW q \in Requests, NEW e \in Drivers,
                 req'[q].step = "cancel_commit", Works(e, req[q].scan)'
          PROVE  Cancelling(e)' \/ drv'[e].pc = "ended"
      <3>1. CASE Works(e, s)
        BY <2>4, <3>1
      <3>2. CASE ~Works(e, s)
        <4>1. drv'[e] = drv[e]
          BY <2>4, <3>2
        <4>2. q # r
          BY <2>3, <2>8, <3>2, <4>1 DEF Works, Idle
        <4>3. QED
          BY <2>3, <2>8, <4>1, <4>2 DEF RowsFollow, Works, Cancelling
      <3>3. QED
        BY <3>1, <3>2
    <2>9. \A q \in Requests : req'[q].step = "cancel_commit" => req'[q].seen = "pending"
      <3>1. \A q \in Requests : q # r => req'[q] = req[q]
        BY <1>11 DEF CancelAct, Wait, Answer, TypeOK
      <3>2. \/ req'[r] = Idle
            \/ req'[r] = [step |-> "cancel_commit", scan |-> s, seen |-> "pending", gone |-> {}]
        BY <1>11 DEF CancelAct, Wait, Answer, TypeOK
      <3>3. QED
        BY <3>1, <3>2 DEF RowsFollow, Idle
    <2>10. QED
      BY <2>1, <2>3, <2>5, <2>6, <2>7, <2>8, <2>9 DEF RowsFollow, Idle
  <1>12. ASSUME NEW d \in Drivers, BeginRead(d)
         PROVE  RowsFollow'
    <2>1. RowFits(d) /\ drv[d].pc = "begin"
      BY <1>12 DEF RowsFollow, BeginRead
    <2>2. Move(d, "commit", "pending", "running")
      BY <1>12, <2>1 DEF BeginRead, RowFits
    <2>3. RowFits(d)'
      BY <1>12, <2>1, <2>2 DEF RowFits, Move, At, TypeOK, BeginRead, Outcome
    <2>4. QED
      BY <1>12, <2>1, <2>2, <2>3, FollowMove DEF BeginRead, Cancelling
  <1>13. ASSUME NEW d \in Drivers, SchedBeginRead(d)
         PROVE  FALSE
    BY <1>13 DEF RowsFollow, RowFits, SchedBeginRead
  <1>14. ASSUME NEW d \in Drivers, Commit(d)
         PROVE  RowsFollow'
    <2> DEFINE s == drv[d].scan
    <2>1. RowFits(d) /\ drv[d].pc = "commit" /\ s \in Scans /\ drv[d].goal \in Goal
      BY <1>14, BusyDriver DEF RowsFollow, Commit
    <2>2. /\ \A t \in Scans : t # s => row'[t] = row[t]
          /\ row'[s] = IF row[s] # "absent" /\ drv[d].seen # drv[d].goal
                       THEN drv[d].goal ELSE row[s]
      BY <1>14, <2>1, WrittenRow DEF Commit
    <2>3. row'[s] # "absent"
      BY <2>1, <2>2 DEF RowFits, Goal, Terminal, Outcome
    <2>4. CASE drv[d].goal = "running"
      <3>1. Move(d, "exit", "none", "none") /\ row'[s] = "running"
        BY <1>14, <2>1, <2>2, <2>4 DEF Commit, RowFits
      <3>2. RowFits(d)'
        BY <2>1, <3>1 DEF RowFits, Move, At, TypeOK
      <3>3. QED
        BY <1>14, <2>1, <2>2, <2>3, <2>4, <3>1, <3>2, FollowMove DEF Commit, Cancelling
    <2>5. CASE drv[d].goal # "running"
      <3>1. Move(d, "ended", "none", "none")
        BY <1>14, <2>5 DEF Commit, End
      <3>2. RowFits(d)'
        BY <2>1, <3>1 DEF RowFits, Move, At, TypeOK
      <3>3. QED
        BY <1>14, <2>1, <2>2, <2>3, <3>1, <3>2, FollowMove DEF Commit
    <2>6. QED
      BY <2>4, <2>5
  <1>15. ASSUME NEW d \in Drivers, Enter(d) \/ RunEnds(d)
         PROVE  RowsFollow'
    <2>1. /\ RowFits(d) /\ drv[d].pc \in {"exit", "run"} /\ row' = row
          /\ req' = req /\ up /\ up' = up
      BY <1>15 DEF RowsFollow, Enter, RunEnds
    <2>2. PICK pc \in {"run", "final"}, goal \in {"none"} \cup Outcome : Move(d, pc, "none", goal)
      BY <1>15 DEF Enter, RunEnds
    <2>3. RowFits(d)'
      BY <2>1, <2>2 DEF RowFits, Move, At, TypeOK
    <2>4. QED
      BY <2>1, <2>2, <2>3, FollowMove DEF Cancelling
  <1>16. ASSUME NEW d \in Drivers, FinalRead(d)
         PROVE  RowsFollow'
    <2>1. RowFits(d) /\ drv[d].pc = "final" /\ drv[d].goal \in Outcome
      BY <1>16, BusyDriver DEF RowsFollow, FinalRead
    <2>2. Move(d, "commit", "running", drv[d].goal)
      BY <1>16, <2>1 DEF FinalRead, RowFits
    <2>3. RowFits(d)'
      BY <1>16, <2>1, <2>2 DEF RowFits, Move, At, TypeOK, FinalRead, Outcome
    <2>4. QED
      BY <1>16, <2>1, <2>2, <2>3, FollowMove DEF FinalRead, Cancelling
  <1>17. ASSUME NEW d \in Drivers, HandlerRead(d)
         PROVE  RowsFollow'
    <2>1. RowFits(d) /\ drv[d].pc = "handler"
      BY <1>17 DEF RowsFollow, HandlerRead
    <2>2. CASE row[drv[d].scan] = "running"
      <3>1. Move(d, "commit", "running", "cancelled")
        BY <1>17, <2>2 DEF HandlerRead, Markable
      <3>2. RowFits(d)'
        BY <1>17, <2>1, <2>2, <3>1 DEF RowFits, Move, At, TypeOK, HandlerRead, Outcome
      <3>3. Cancelling(d)'
        BY <3>1 DEF Cancelling, Move, At, TypeOK
      <3>4. QED
        BY <1>17, <2>1, <3>1, <3>2, <3>3, FollowMove DEF HandlerRead
    <2>3. CASE row[drv[d].scan] # "running"
      <3>1. Move(d, "ended", "none", "none")
        BY <1>17, <2>3 DEF HandlerRead, Markable, End
      <3>2. RowFits(d)'
        BY <2>1, <3>1 DEF RowFits, Move, At, TypeOK
      <3>3. QED
        BY <1>17, <2>1, <3>1, <3>2, FollowMove DEF HandlerRead
    <2>4. QED
      BY <2>2, <2>3
  <1>18. ASSUME NEW d \in Drivers, CommitFails(d)
         PROVE  RowsFollow'
    <2>1. RowFits(d) /\ drv[d].pc = "commit" /\ Move(d, "ended", "none", "none")
      BY <1>18 DEF RowsFollow, CommitFails, End
    <2>2. RowFits(d)'
      BY <2>1 DEF RowFits, Move, At, TypeOK
    <2>3. QED
      BY <1>18, <2>1, <2>2, FollowMove DEF CommitFails
  <1>19. ASSUME NEW d \in Drivers, DoneCallback(d)
         PROVE  RowsFollow'
    <2>1. drv'[d] = Free /\ \A e \in Drivers : e # d => drv'[e] = drv[e]
      BY <1>19 DEF DoneCallback, TypeOK
    <2>2. row' = row /\ req' = req /\ up /\ up' = up
      BY <1>19 DEF DoneCallback
    <2>3. QED
      BY <2>1, <2>2 DEF RowsFollow, RowFits, Hands, Acting, Works, Cancelling, Free
  <1>20. CASE CreateTarget \/ UNCHANGED vars
    BY <1>20 DEF CreateTarget, vars, RowsFollow, RowFits, Hands, Acting, Works, Cancelling
  <1>21. CASE Crash
    BY <1>21 DEF Crash, RowsFollow, Hands, Works, Free, Idle, Cancels, Dispatches
  <1>22. CASE Recover
    <2>1. /\ \A d \in Drivers : drv'[d] = Free
          /\ \A r \in Requests : req'[r] = Idle
      BY <1>22 DEF Recover, RowsFollow
    <2>2. QED
      BY <1>22, <2>1 DEF Recover, RowsFollow, Hands, Works, Free, Idle, Cancels, Dispatches
  <1>23. QED
    BY <1>1, <1>2, <1>3, <1>4, <1>5, <1>6, <1>7, <1>8, <1>9, <1>10, <1>11, <1>12,
       <1>13, <1>14, <1>15, <1>16, <1>17, <1>18, <1>19, <1>20, <1>21, <1>22
    DEF PoliteNext, PoliteArrival, RequestStep, DriverStep, Environment, DeleteRead, Starts

(* The arcs, one by one. *)
LEMMA ArcCases ==
  /\ <<"absent", "pending">> \in Arcs
  /\ <<"pending", "running">> \in Arcs
  /\ \A st \in Terminal : <<"running", st>> \in Arcs
  /\ \A st \in {"pending", "running"} : <<st, "cancelled">> \in Arcs
  BY DEF Arcs, Terminal

(* What a task's commit may do to the row it follows. *)
LEMMA WrittenArc ==
  ASSUME PoliteInv, NEW d \in Drivers, drv[d].pc = "commit",
         NEW s \in Scans, drv[d].scan = s,
         row'[s] = Written(s, drv[d].seen, drv[d].goal)[s], row'[s] # row[s]
  PROVE  <<row[s], row'[s]>> \in Arcs
  <1>1. TypeOK /\ RowFits(d) /\ drv[d].goal \in Goal
    BY BusyDriver DEF PoliteInv, IInv, RowsFollow
  <1>2. row'[s] = drv[d].goal /\ row[s] # "absent"
    BY <1>1, WrittenRow
  <1>3. CASE drv[d].goal = "running"
    BY <1>1, <1>2, <1>3, ArcCases DEF RowFits
  <1>4. CASE drv[d].goal \in Outcome
    BY <1>1, <1>2, <1>4, ArcCases DEF RowFits, Outcome, Terminal
  <1>5. CASE drv[d].goal = "cancelled"
    BY <1>1, <1>2, <1>5, ArcCases DEF RowFits, Terminal
  <1>6. QED
    BY <1>1, <1>3, <1>4, <1>5 DEF Goal, Terminal, Outcome

(* A step moves a status along an arc; only a late mark of /cancel may not. *)
LEMMA ArcStep ==
  ASSUME LifecycleAssumption, PoliteInv, "delete" \notin Ops, "trigger" \notin Ops,
         [PoliteNext]_vars, NEW s \in Scans, row'[s] # row[s]
  PROVE  <<row[s], row'[s]>> \in Arcs \/ Overtaken(s)
  <1> USE DEF PoliteInv, IInv
  <1>1. ASSUME NEW r \in Requests, PoliteArrival(r)
        PROVE  FALSE
    BY <1>1
    DEF PoliteArrival, CreateRead, DeleteRead, TriggerInsert, StartRead, CancelRead, Starts
  <1>2. ASSUME NEW r \in Requests, NEW t \in Scans, CreateInsert(r, t)
        PROVE  <<row[s], row'[s]>> \in Arcs
    <2>1. row[t] = "absent" /\ row' = [row EXCEPT ![t] = "pending"]
      BY <1>2 DEF CreateInsert, IsNextId, Insert, Scans, LifecycleAssumption
    <2>2. row[s] = "absent" /\ row'[s] = "pending"
      BY <2>1 DEF TypeOK
    <2>3. QED
      BY <2>2, ArcCases
  <1>3. ASSUME NEW r \in Requests, NEW d \in Drivers,
               CreateDispatch(r, d) \/ TriggerDispatch(r, d) \/ StartDispatch(r, d)
        PROVE  FALSE
    BY <1>3 DEF CreateDispatch, TriggerDispatch, StartDispatch
  <1>4. ASSUME NEW r \in Requests, StartNoTarget(r) \/ CancelCommitFails(r)
        PROVE  FALSE
    BY <1>4 DEF StartNoTarget, CancelCommitFails
  <1>5. ASSUME NEW r \in Requests, DeleteCommit(r)
        PROVE  FALSE
    BY <1>5 DEF DeleteCommit, Resumes, OneRun
  <1>6. ASSUME NEW r \in Requests, CancelCommit(r)
        PROVE  <<row[s], row'[s]>> \in Arcs \/ Overtaken(s)
    <2>1. req[r].step = "cancel_commit" /\ req[r].scan \in Scans
      BY <1>6, WaitingRequest DEF CancelCommit, Resumes, Cancels
    <2>2. row[s] # "absent" /\ row'[s] = "cancelled" /\ s = req[r].scan
      BY <1>6, <2>1, WrittenRow DEF CancelCommit
    <2>3. CASE row[s] \in {"pending", "running"}
      BY <2>2, <2>3, ArcCases
    <2>4. CASE row[s] \in Outcome
      <3>1. req'[r] = Idle
        BY <1>6 DEF CancelCommit, Answer, TypeOK
      <3>2. req[r].seen = "pending"
        BY <2>1 DEF RowsFollow
      <3>3. QED
        BY <2>1, <2>2, <2>4, <3>1, <3>2 DEF Overtaken
    <2>5. QED
      BY <2>2, <2>3, <2>4 DEF TypeOK, Status, Terminal, Outcome
  <1>7. ASSUME NEW r \in Requests, CancelAct(r)
        PROVE  <<row[s], row'[s]>> \in Arcs
    <2> DEFINE t == req[r].scan
    <2>1. t \in Scans
      BY <1>7, WaitingRequest DEF CancelAct, Resumes, Cancels
    <2>2. reg[t] # None
      BY <1>7 DEF CancelAct
    <2>3. PICK d \in Drivers : d = reg[t]
      BY <2>1, <2>2 DEF TypeOK
    <2>4. drv[d].scan = t
      BY <2>1, <2>2, <2>3 DEF RegistrySound, Works
    <2>5. PICK landed \in BOOLEAN : CancelTask(d, landed)
      BY <1>7, <2>2, <2>3 DEF CancelAct
    <2>6. drv[d].pc = "commit" /\ row' = Written(t, drv[d].seen, drv[d].goal)
      BY <2>4, <2>5 DEF CancelTask
    <2>7. s = t
      BY <2>1, <2>6, WrittenRow
    <2>8. QED
      BY <2>4, <2>6, <2>7, WrittenArc
  <1>8. ASSUME NEW d \in Drivers, Commit(d)
        PROVE  <<row[s], row'[s]>> \in Arcs
    <2>1. drv[d].pc = "commit" /\ row' = Written(drv[d].scan, drv[d].seen, drv[d].goal)
      BY <1>8 DEF Commit
    <2>2. s = drv[d].scan
      BY <2>1, BusyDriver, WrittenRow
    <2>3. QED
      BY <2>1, <2>2, WrittenArc
  <1>9. ASSUME NEW d \in Drivers,
               \/ BeginRead(d) \/ SchedBeginRead(d) \/ Enter(d) \/ RunEnds(d) \/ FinalRead(d)
               \/ HandlerRead(d) \/ DoneCallback(d) \/ CommitFails(d)
        PROVE  FALSE
    BY <1>9 DEF BeginRead, SchedBeginRead, Enter, RunEnds, FinalRead, HandlerRead,
                DoneCallback, CommitFails
  <1>10. CASE CreateTarget \/ Crash \/ UNCHANGED vars
    BY <1>10 DEF CreateTarget, Crash, vars
  <1>11. CASE Recover
    BY <1>11, ArcCases DEF Recover, Swept, Terminal
  <1>12. QED
    BY <1>1, <1>2, <1>3, <1>4, <1>5, <1>6, <1>7, <1>8, <1>9, <1>10, <1>11
    DEF PoliteNext, RequestStep, DriverStep, Environment

(* Rows and tasks agree at the start ... *)
LEMMA PoliteInit ==
  ASSUME LifecycleAssumption, Init
  PROVE  PoliteInv
  BY InitIInv, OneRunInit
  DEF PoliteInv, Init, CancelCanReach, Live, RowsFollow, Hands, Works, Free, Idle,
      Cancels, Dispatches

(* ... after every step of polite clients ... *)
LEMMA PoliteStep ==
  ASSUME LifecycleAssumption, PoliteInv, "delete" \notin Ops, "trigger" \notin Ops,
         [PoliteNext]_vars
  PROVE  PoliteInv'
  <1>1. [OrderlyNext]_vars /\ [Next]_vars
    BY PoliteIsOrderly
  <1>2. IInv'
    BY <1>1, StepIInv DEF PoliteInv
  <1>3. OneRun' /\ CancelCanReach'
    BY <1>1, OneRunStep, ReachStep DEF PoliteInv, IInv
  <1>4. QED
    BY <1>2, <1>3, RowsStep DEF PoliteInv

(* The routes of the scans page are create, start and cancel. *)
ScanRoutesOnly == "delete" \notin Ops /\ "trigger" \notin Ops

(* ... and so throughout. *)
LEMMA PoliteInvariance == ASSUME ScanRoutesOnly PROVE PoliteSpec => []PoliteInv
  <1>1. Init => PoliteInv
    BY PoliteInit, LifecycleAssumption
  <1>2. PoliteInv /\ [PoliteNext]_vars => PoliteInv'
    BY PoliteStep, LifecycleAssumption DEF ScanRoutesOnly
  <1>3. QED
    BY <1>1, <1>2, PTL DEF PoliteSpec

(* Without deletions the scans of polite clients have one task each, which *)
(* the registry knows.                                                     *)
LEMMA PoliteReach ==
  ASSUME "delete" \notin Ops
  PROVE  PoliteSpec => [](OneRun /\ CancelCanReach)
  <1> DEFINE Inv == IInv /\ OneRun /\ CancelCanReach
  <1>1. Init => Inv
    BY PoliteInit, LifecycleAssumption DEF PoliteInv
  <1>2. Inv /\ [PoliteNext]_vars => Inv'
    <2> SUFFICES ASSUME Inv, [PoliteNext]_vars
                 PROVE  Inv'
      OBVIOUS
    <2>1. [OrderlyNext]_vars /\ [Next]_vars
      BY PoliteIsOrderly
    <2>2. IInv'
      BY <2>1, StepIInv, LifecycleAssumption
    <2>3. OneRun' /\ CancelCanReach'
      BY <2>1, OneRunStep, ReachStep, LifecycleAssumption DEF IInv
    <2>4. QED
      BY <2>2, <2>3
  <1>3. QED
    BY <1>1, <1>2, PTL DEF PoliteSpec

(* Polite clients can cancel every task that drives a scan for the scans   *)
(* routes, as long as no target is deleted: _SCAN_TASKS holds the task     *)
(* from its creation to its end (scans.py).                                *)
THEOREM EveryDriverReachable ==
  ASSUME "delete" \notin Ops
  PROVE  PoliteSpec => []CancelCanReach
  BY PoliteReach, PTL

(* Each scan is started where it is created, and its id is not given out   *)
(* again.                                                                  *)
StartedOnce == "start" \notin Ops /\ "delete" \notin Ops

(* Where no scan starts twice, every step is one of the orderly requests. *)
LEMMA StartedOnceOrderly ==
  ASSUME StartedOnce, [Next]_vars
  PROVE  [OrderlyNext]_vars
  <1>1. ASSUME NEW r \in Requests, NEW s \in Scans
        PROVE  ~StartRead(r, s)
    BY DEF StartedOnce, StartRead, Starts
  <1>2. QED
    BY <1>1 DEF Next, OrderlyNext, Arrival, OrderlyArrival

(* The row, the channel and the run directory of a scan have one writer:   *)
(* two tasks never work on it, and none does when a request is about to    *)
(* hand it to a task (scans.py create_scan, start_scan, scheduler.py).     *)
OneWriter ==
  \A s \in Scans : \A d, e \in Drivers : Works(d, s) =>
    /\ Works(e, s) => d = e
    /\ \A r \in Requests : ~Hands(r, s)

(* Without deletions every scan has one writer: with polite clients, and   *)
(* with any clients where nobody starts a scan a second time; crashes,     *)
(* recovery, schedules, cancels and failing commits do not change that.    *)
THEOREM OneTaskPerScan ==
  ASSUME "delete" \notin Ops
  PROVE  /\ PoliteSpec => []OneWriter
         /\ "start" \notin Ops => (Spec => []OneWriter)
  <1>1. OneRun => OneWriter
    BY DEF OneRun, OneWriter
  <1>2. PoliteSpec => []OneWriter
    BY <1>1, PoliteReach, PTL
  <1>3. ASSUME "start" \notin Ops
        PROVE  Spec => []OneWriter
    <2>1. Init => OneRun
      BY OneRunInit, LifecycleAssumption
    <2>2. IInv /\ OneRun /\ [Next]_vars => OneRun'
      BY <1>3, StartedOnceOrderly, OneRunStep, LifecycleAssumption DEF StartedOnce, IInv
    <2>3. QED
      BY <1>1, <2>1, <2>2, Invariance, PTL DEF Spec
  <1>4. QED
    BY <1>2, <1>3

(* With polite clients a status only moves along the arcs, crashes and     *)
(* failing commits included: a cancelled scan stays cancelled, a finished  *)
(* one as it is unless a /cancel read its row before the task had started. *)
THEOREM StatusFollowsArcs == ASSUME ScanRoutesOnly PROVE PoliteSpec => StatusMachine
  <1>1. PoliteInv /\ [PoliteNext]_vars
          => [\A s \in Scans :
                row'[s] # row[s] => <<row[s], row'[s]>> \in Arcs \/ Overtaken(s)]_vars
    BY ArcStep, LifecycleAssumption DEF ScanRoutesOnly
  <1>2. QED
    BY <1>1, PoliteInvariance, PTL DEF PoliteSpec, StatusMachine
=============================================================================
