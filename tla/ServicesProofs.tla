--------------------------- MODULE ServicesProofs ---------------------------
(* What the services around a scan promise, for every value of their       *)
(* constants: the schedules, the scope policy, the replay, the custom      *)
(* probe, access and its audit log, the model of the target, the crawler.  *)
EXTENDS Schedules, ScopePolicy, Replay, ProbeSeries, Access, AttackSurface, Crawler, TLAPS,
        FiniteSetTheorems, FunctionTheorems, SequenceTheorems, NaturalsInduction,
        WellFoundedInduction

-----------------------------------------------------------------------------
(* Schedules *)

AtWork == {"created", "read", "stray", "unscheduled"}

SchedTypeOK ==
  /\ up \in BOOLEAN /\ loaded \in BOOLEAN
  /\ rows \in [SchedIds -> Flags \cup {"free"}]
  /\ jobs \subseteq SchedIds
  /\ broken \subseteq SchedIds
  /\ sreq \in [SchedReqs -> [pc : {"off", "new", "done"}]
                            \cup [pc : {"created", "unscheduled"}, id : SchedIds]
                            \cup [pc : {"read", "stray"}, id : SchedIds, flag : Flags]]

(* What a creator has read of its row is in it until that is deleted. *)
ReadTrue ==
  \A r \in SchedReqs : sreq[r].pc = "read" => rows[sreq[r].id] = sreq[r].flag

(* With the types and the creators' rows JobsMatch is inductive: a request *)
(* at work on an id excuses it until the step in which it is done with it. *)
SchedInv == SchedTypeOK /\ ReadTrue /\ JobsMatch

(* A request whose record has an id is at work on that id and no other. *)
LEMMA SchedRequest ==
  ASSUME SchedTypeOK, NEW r \in SchedReqs
  PROVE  /\ sreq[r].pc \in AtWork => sreq[r].id \in SchedIds
         /\ sreq[r].pc \in {"read", "stray"} => sreq[r].flag \in Flags
  BY DEF SchedTypeOK, AtWork

(* The ids other requests are at work on stay so. *)
LEMMA OthersStayBusy ==
  ASSUME NEW r \in SchedReqs, NEW id \in SchedIds, Busy(id),
         \A q \in SchedReqs \ {r} : sreq[q].pc \in AtWork =>
           sreq'[q].pc \in AtWork /\ sreq'[q].id = sreq[q].id,
         sreq[r].pc \in AtWork => sreq[r].id # id
  PROVE  Busy(id)'
<1>1. PICK q \in SchedReqs : sreq[q].pc \in AtWork /\ sreq[q].id = id
  BY DEF Busy, AtWork
<1>2. q # r
  BY <1>1
<1> QED
  BY <1>1, <1>2 DEF Busy, AtWork

(* When one request's record changes the others' stay. *)
LEMMA OthersStay ==
  ASSUME SchedTypeOK, NEW r \in SchedReqs, NEW new, sreq' = [sreq EXCEPT ![r] = new]
  PROVE  /\ sreq'[r] = new
         /\ \A q \in SchedReqs \ {r} : sreq'[q] = sreq[q]
  BY DEF SchedTypeOK

(* No schedule yet. *)
LEMMA SchedInitInv == SchedInit => SchedInv
  BY DEF SchedInit, SchedInv, SchedTypeOK, ReadTrue, JobsMatch, StoredIds, NewRequest

(* A commit writes the row of its request, where there was none. *)
LEMMA CommitKeeps ==
  ASSUME SchedInv, NEW r \in SchedReqs, CommitSchedule(r)
  PROVE  SchedInv'
<1> USE DEF SchedInv
<1>1. PICK id \in SchedIds, flag \in Flags :
        /\ IsNext(id) /\ rows' = [rows EXCEPT ![id] = flag]
        /\ sreq' = [sreq EXCEPT ![r] = [pc |-> "created", id |-> id]]
  BY DEF CommitSchedule
<1>2. up' = up /\ loaded' = loaded /\ jobs' = jobs /\ broken' = broken /\ sreq[r].pc = "new"
  BY DEF CommitSchedule
<1>3. sreq'[r] = [pc |-> "created", id |-> id] /\ \A q \in SchedReqs \ {r} : sreq'[q] = sreq[q]
  BY <1>1, OthersStay
<1>4. SchedTypeOK'
  BY <1>1, <1>2 DEF SchedTypeOK
<1>5. id \notin StoredIds
  BY <1>1, SchedAssumption DEF IsNext
<1>6. ReadTrue'
  <2> SUFFICES ASSUME NEW q \in SchedReqs, sreq'[q].pc = "read"
               PROVE  rows'[sreq'[q].id] = sreq'[q].flag
    BY DEF ReadTrue
  <2>1. q # r /\ sreq'[q] = sreq[q]
    BY <1>3
  <2>2. sreq[q].id \in SchedIds /\ rows[sreq[q].id] = sreq[q].flag /\ sreq[q].flag \in Flags
    BY <2>1, SchedRequest DEF ReadTrue, AtWork
  <2>3. sreq[q].id # id
    BY <1>5, <2>2 DEF StoredIds, Flags
  <2> QED
    BY <1>1, <2>1, <2>2, <2>3 DEF SchedTypeOK
<1>7. ASSUME up', loaded', NEW i \in StoredIds'
      PROVE  Busy(i)' \/ i \in broken' \/ (i \in jobs' <=> rows'[i] = "on")
  <2>1. CASE i = id
    BY <1>3, <2>1 DEF Busy
  <2>2. CASE i # id
    <3>1. i \in SchedIds /\ rows'[i] = rows[i] /\ i \in StoredIds
      BY <1>1, <1>7, <2>2 DEF StoredIds, SchedTypeOK
    <3>2. Busy(i) => Busy(i)'
      BY <1>2, <1>3, <3>1, OthersStayBusy DEF AtWork
    <3> QED
      BY <1>2, <1>7, <3>1, <3>2 DEF JobsMatch
  <2> QED
    BY <2>1, <2>2
<1> QED
  BY <1>4, <1>6, <1>7 DEF JobsMatch

(* A creator reads the row as it is. *)
LEMMA RefreshKeeps ==
  ASSUME SchedInv, NEW r \in SchedReqs, RefreshSchedule(r)
  PROVE  SchedInv'
<1> USE DEF SchedInv
<1> DEFINE id == sreq[r].id
           new == IF rows[id] = "free" THEN [pc |-> "done"]
                  ELSE [pc |-> "read", id |-> id, flag |-> rows[id]]
<1>1. /\ UNCHANGED <<up, loaded, rows, jobs, broken>> /\ sreq[r].pc = "created"
      /\ sreq' = [sreq EXCEPT ![r] = new]
  BY DEF RefreshSchedule
<1>2. id \in SchedIds
  BY <1>1, SchedRequest DEF AtWork
<1>3. /\ rows[id] = "free" => new = [pc |-> "done"]
      /\ rows[id] # "free" => /\ new = [pc |-> "read", id |-> id, flag |-> rows[id]]
                              /\ rows[id] \in Flags
  BY <1>2 DEF SchedTypeOK
<1> HIDE DEF new
<1>4. sreq'[r] = new /\ \A q \in SchedReqs \ {r} : sreq'[q] = sreq[q]
  BY <1>1, OthersStay
<1>5. SchedTypeOK'
  BY <1>1, <1>2, <1>3 DEF SchedTypeOK
<1>6. ReadTrue'
  BY <1>1, <1>3, <1>4 DEF ReadTrue
<1>7. ASSUME up', loaded', NEW i \in StoredIds'
      PROVE  Busy(i)' \/ i \in broken' \/ (i \in jobs' <=> rows'[i] = "on")
  <2>1. i \in SchedIds /\ i \in StoredIds /\ rows[i] # "free"
    BY <1>1, <1>7 DEF StoredIds
  <2>2. CASE i = id
    BY <1>3, <1>4, <2>1, <2>2 DEF Busy
  <2>3. CASE i # id
    <3>1. Busy(i) => Busy(i)'
      BY <1>4, <2>1, <2>3, OthersStayBusy
    <3> QED
      BY <1>1, <1>7, <2>1, <3>1 DEF JobsMatch
  <2> QED
    BY <2>2, <2>3
<1> QED
  BY <1>5, <1>6, <1>7 DEF JobsMatch

(* A job is added for a row that is still there, or the id is a broken one. *)
LEMMA AddKeeps ==
  ASSUME SchedInv, NEW r \in SchedReqs, AddJob(r)
  PROVE  SchedInv'
<1> USE DEF SchedInv
<1> DEFINE id == sreq[r].id
           flag == sreq[r].flag
<1>1. /\ up' = up /\ loaded' = loaded /\ rows' = rows /\ sreq[r].pc \in {"read", "stray"}
      /\ jobs' = JobsWith(id, flag)
      /\ broken' = IF sreq[r].pc = "read" THEN broken \ {id} ELSE broken \cup {id}
      /\ sreq' = [sreq EXCEPT ![r] = [pc |-> "done"]]
  BY DEF AddJob
<1>2. id \in SchedIds /\ flag \in Flags
  BY <1>1, SchedRequest DEF AtWork
<1>3. sreq'[r] = [pc |-> "done"] /\ \A q \in SchedReqs \ {r} : sreq'[q] = sreq[q]
  BY <1>1, OthersStay
<1>4. SchedTypeOK'
  BY <1>1, <1>2 DEF SchedTypeOK, JobsWith
<1>5. ReadTrue'
  BY <1>1, <1>3 DEF ReadTrue
<1>6. ASSUME up', loaded', NEW i \in StoredIds'
      PROVE  Busy(i)' \/ i \in broken' \/ (i \in jobs' <=> rows'[i] = "on")
  <2>1. i \in SchedIds /\ i \in StoredIds
    BY <1>1, <1>6 DEF StoredIds
  <2>2. CASE i = id
    <3>1. sreq[r].pc = "read" => rows[id] = flag
      BY DEF ReadTrue
    <3>2. id \in jobs' <=> flag = "on"
      BY <1>1 DEF JobsWith
    <3> QED
      BY <1>1, <2>2, <3>1, <3>2
  <2>3. CASE i # id
    <3>1. Busy(i) => Busy(i)'
      BY <1>3, <2>1, <2>3, OthersStayBusy
    <3>2. (i \in jobs' <=> i \in jobs) /\ (i \in broken => i \in broken')
      BY <1>1, <2>3 DEF JobsWith
    <3> QED
      BY <1>1, <1>6, <2>1, <3>1, <3>2 DEF JobsMatch
  <2> QED
    BY <2>2, <2>3
<1> QED
  BY <1>4, <1>5, <1>6 DEF JobsMatch

(* A job is removed with its row. *)
LEMMA UnscheduleKeeps ==
  ASSUME SchedInv, NEW r \in SchedReqs, Unschedule(r)
  PROVE  SchedInv'
<1> USE DEF SchedInv
<1>1. PICK id \in StoredIds :
        /\ jobs' = jobs \ {id}
        /\ sreq' = [sreq EXCEPT ![r] = [pc |-> "unscheduled", id |-> id]]
  BY DEF Unschedule
<1>2. /\ up' = up /\ loaded' = loaded /\ rows' = rows /\ broken' = broken
      /\ sreq[r].pc = "new" /\ id \in SchedIds
  BY DEF Unschedule, StoredIds
<1>3. /\ sreq'[r] = [pc |-> "unscheduled", id |-> id]
      /\ \A q \in SchedReqs \ {r} : sreq'[q] = sreq[q]
  BY <1>1, OthersStay
<1>4. SchedTypeOK'
  BY <1>1, <1>2 DEF SchedTypeOK
<1>5. ReadTrue'
  BY <1>2, <1>3 DEF ReadTrue
<1>6. ASSUME up', loaded', NEW i \in StoredIds'
      PROVE  Busy(i)' \/ i \in broken' \/ (i \in jobs' <=> rows'[i] = "on")
  <2>1. i \in SchedIds /\ i \in StoredIds
    BY <1>2, <1>6 DEF StoredIds
  <2>2. CASE i = id
    BY <1>3, <2>2 DEF Busy
  <2>3. CASE i # id
    <3>1. Busy(i) => Busy(i)'
      BY <1>2, <1>3, <2>1, OthersStayBusy DEF AtWork
    <3> QED
      BY <1>1, <1>2, <1>6, <2>1, <2>3, <3>1 DEF JobsMatch
  <2> QED
    BY <2>2, <2>3
<1> QED
  BY <1>4, <1>5, <1>6 DEF JobsMatch

(* With a row its readers go astray. *)
LEMMA DeleteKeeps ==
  ASSUME SchedInv, NEW r \in SchedReqs, DeleteSchedule(r)
  PROVE  SchedInv'
<1> USE DEF SchedInv
<1> DEFINE id == sreq[r].id
<1>1. /\ UNCHANGED <<up, loaded, jobs, broken>> /\ sreq[r].pc = "unscheduled"
      /\ rows' = [rows EXCEPT ![id] = "free"]
      /\ sreq' = [q \in SchedReqs |->
           IF q = r THEN [pc |-> "done"]
           ELSE IF sreq[q].pc = "read" /\ sreq[q].id = id
                THEN [sreq[q] EXCEPT !.pc = "stray"] ELSE sreq[q]]
  BY DEF DeleteSchedule
<1>2. id \in SchedIds
  BY <1>1, SchedRequest DEF AtWork
<1>3. sreq'[r] = [pc |-> "done"]
  BY <1>1
<1>4. ASSUME NEW q \in SchedReqs \ {r}, sreq[q].pc = "read", sreq[q].id = id
      PROVE  /\ sreq'[q] \in [pc : {"stray"}, id : SchedIds, flag : Flags]
             /\ sreq'[q].pc = "stray" /\ sreq'[q].id = sreq[q].id
  <2>1. sreq'[q] = [sreq[q] EXCEPT !.pc = "stray"]
    BY <1>1, <1>4
  <2>2. sreq[q] \in [pc : {"read", "stray"}, id : SchedIds, flag : Flags]
    BY <1>4 DEF SchedTypeOK
  <2> HIDE DEF id
  <2> QED
    BY <2>1, <2>2
<1>5. ASSUME NEW q \in SchedReqs \ {r}, ~ (sreq[q].pc = "read" /\ sreq[q].id = id)
      PROVE  sreq'[q] = sreq[q]
  BY <1>1, <1>5
<1>6. SchedTypeOK'
  <2>1. ASSUME NEW q \in SchedReqs
        PROVE  sreq'[q] \in [pc : {"off", "new", "done"}]
                            \cup [pc : {"created", "unscheduled"}, id : SchedIds]
                            \cup [pc : {"read", "stray"}, id : SchedIds, flag : Flags]
    <3>1. CASE q = r
      BY <1>3, <3>1
    <3>2. CASE q # r /\ sreq[q].pc = "read" /\ sreq[q].id = id
      <4>1. sreq'[q] \in [pc : {"stray"}, id : SchedIds, flag : Flags]
        BY <1>4, <3>2
      <4> QED
        BY <4>1
    <3>3. CASE q # r /\ ~ (sreq[q].pc = "read" /\ sreq[q].id = id)
      BY <1>5, <3>3 DEF SchedTypeOK
    <3> QED
      BY <3>1, <3>2, <3>3
  <2>2. rows' \in [SchedIds -> Flags \cup {"free"}]
    BY <1>1 DEF SchedTypeOK
  <2>3. DOMAIN sreq' = SchedReqs /\ sreq' = [q \in SchedReqs |-> sreq'[q]]
    BY <1>1
  <2> QED
    BY <1>1, <2>1, <2>2, <2>3 DEF SchedTypeOK
<1>7. ReadTrue'
  <2> SUFFICES ASSUME NEW q \in SchedReqs, sreq'[q].pc = "read"
               PROVE  rows'[sreq'[q].id] = sreq'[q].flag
    BY DEF ReadTrue
  <2>1. q # r /\ ~ (sreq[q].pc = "read" /\ sreq[q].id = id)
    BY <1>3, <1>4
  <2>2. sreq'[q] = sreq[q] /\ sreq[q].id # id
    BY <1>5, <2>1
  <2>3. sreq[q].id \in SchedIds /\ rows[sreq[q].id] = sreq[q].flag
    BY <2>2, SchedRequest DEF ReadTrue, AtWork
  <2> QED
    BY <1>1, <2>2, <2>3 DEF SchedTypeOK
<1>8. ASSUME up', loaded', NEW i \in StoredIds'
      PROVE  Busy(i)' \/ i \in broken' \/ (i \in jobs' <=> rows'[i] = "on")
  <2>1. i \in SchedIds /\ i # id /\ rows'[i] = rows[i] /\ i \in StoredIds
    BY <1>1, <1>2, <1>8 DEF StoredIds, SchedTypeOK
  <2>2. \A q \in SchedReqs \ {r} : sreq[q].pc \in AtWork =>
          sreq'[q].pc \in AtWork /\ sreq'[q].id = sreq[q].id
    BY <1>4, <1>5 DEF AtWork
  <2>3. Busy(i) => Busy(i)'
    BY <2>1, <2>2, OthersStayBusy
  <2> QED
    BY <1>1, <1>8, <2>1, <2>3 DEF JobsMatch
<1> QED
  BY <1>6, <1>7, <1>8 DEF JobsMatch

(* A deletion that fails leaves its trace. *)
LEMMA DeleteFailsKeeps ==
  ASSUME SchedInv, NEW r \in SchedReqs, DeleteFails(r)
  PROVE  SchedInv'
<1> USE DEF SchedInv
<1> DEFINE id == sreq[r].id
<1>1. /\ UNCHANGED <<up, loaded, rows, jobs>> /\ sreq[r].pc = "unscheduled"
      /\ sreq' = [sreq EXCEPT ![r] = [pc |-> "done"]] /\ broken' = broken \cup {id}
  BY DEF DeleteFails
<1>2. id \in SchedIds
  BY <1>1, SchedRequest DEF AtWork
<1>3. sreq'[r] = [pc |-> "done"] /\ \A q \in SchedReqs \ {r} : sreq'[q] = sreq[q]
  BY <1>1, OthersStay
<1>4. SchedTypeOK'
  BY <1>1, <1>2 DEF SchedTypeOK
<1>5. ReadTrue'
  BY <1>1, <1>3 DEF ReadTrue
<1>6. ASSUME up', loaded', NEW i \in StoredIds'
      PROVE  Busy(i)' \/ i \in broken' \/ (i \in jobs' <=> rows'[i] = "on")
  <2>1. i \in SchedIds /\ i \in StoredIds
    BY <1>1, <1>6 DEF StoredIds
  <2>2. CASE i = id
    BY <1>1, <2>2
  <2>3. CASE i # id
    <3>1. Busy(i) => Busy(i)'
      BY <1>3, <2>1, <2>3, OthersStayBusy
    <3> QED
      BY <1>1, <1>6, <2>1, <3>1 DEF JobsMatch
  <2> QED
    BY <2>2, <2>3
<1> QED
  BY <1>4, <1>5, <1>6 DEF JobsMatch

(* A stopped server promises nothing, a started one has loaded its rows. *)
LEMMA RestartKeeps ==
  ASSUME SchedInv, Stop \/ Start
  PROVE  SchedInv'
<1> USE DEF SchedInv
<1>1. CASE Stop
  <2>1. SchedTypeOK'
    BY <1>1 DEF Stop, SchedTypeOK
  <2>2. ReadTrue'
    BY <1>1 DEF Stop, ReadTrue
  <2> QED
    BY <1>1, <2>1, <2>2 DEF Stop, JobsMatch
<1>2. CASE Start
  <2>1. up' = TRUE /\ UNCHANGED <<rows, sreq, broken>> /\ loaded' \in BOOLEAN
        /\ jobs' \subseteq SchedIds /\ (loaded' => jobs' = Loaded)
    BY <1>2 DEF Start, Loaded
  <2>2. SchedTypeOK' /\ ReadTrue'
    BY <2>1 DEF SchedTypeOK, ReadTrue
  <2>3. ASSUME loaded', NEW i \in StoredIds' PROVE i \in jobs' <=> rows'[i] = "on"
    BY <2>1, <2>3 DEF Loaded, StoredIds
  <2> QED
    BY <2>2, <2>3 DEF JobsMatch
<1> QED
  BY <1>1, <1>2

(* Every step keeps the invariant. *)
LEMMA SchedStep == SchedInv /\ [SchedNext]_schedVars => SchedInv'
<1> SUFFICES ASSUME SchedInv, [SchedNext]_schedVars PROVE SchedInv'
  OBVIOUS
<1>1. CASE Stop \/ Start
  BY <1>1, RestartKeeps
<1>2. CASE \E r \in SchedReqs : CommitSchedule(r)
  BY <1>2, CommitKeeps
<1>3. CASE \E r \in SchedReqs : RefreshSchedule(r) \/ AddJob(r)
  BY <1>3, RefreshKeeps, AddKeeps
<1>4. CASE \E r \in SchedReqs : Unschedule(r)
  BY <1>4, UnscheduleKeeps
<1>5. CASE \E r \in SchedReqs : DeleteSchedule(r) \/ DeleteFails(r)
  BY <1>5, DeleteKeeps, DeleteFailsKeeps
<1>6. CASE UNCHANGED schedVars
  BY <1>6 DEF schedVars, SchedInv, SchedTypeOK, ReadTrue, JobsMatch, StoredIds, Busy
<1> QED
  BY <1>1, <1>2, <1>3, <1>4, <1>5, <1>6 DEF SchedNext

(* Where the scheduler was started, a stored schedule that no request is   *)
(* at work on has its job exactly when it is enabled with a cron that      *)
(* APScheduler takes, unless a delete failed on it or a creator came too   *)
(* late: for any number of schedules and requests (scheduler.py,           *)
(* schedules.py).                                                          *)
THEOREM SchedulesMatchJobs == SchedSpec => []JobsMatch
<1>1. SchedInv => JobsMatch
  BY DEF SchedInv
<1> QED
  BY SchedInitInv, SchedStep, <1>1, PTL DEF SchedSpec

-----------------------------------------------------------------------------
(* Scope policy *)

Request == [url : Locations, method : Methods, after : {"start", "see", "same"}]

ScopeTypeOK ==
  /\ scopePc \in {"off", "ready", "sent", "answered", "refused"}
  /\ hop \in Request
  /\ chain \in Seq(Locations)
  /\ sent \in Seq(Request)

(* A request that changes something is in scope, or was kept changing by   *)
(* redirects from one that was.                                            *)
HopEarned(i) ==
  /\ InScope(sent[i].url, "GET")
  /\ ~InScope(sent[i].url, sent[i].method) =>
       i > 1 /\ sent[i].after = "same" /\ sent[1].method \in Mutating

(* HopsInScope with what it rests on: each redirect followed is one in the *)
(* chain, the request at hand is the last one sent, and it only changes    *)
(* something when the first one did.                                       *)
ScopeInv ==
  /\ ScopeTypeOK
  /\ Len(sent) <= MostRedirects + 1
  /\ scopePc = "ready" => sent = <<>> /\ chain = <<>>
  /\ scopePc = "sent" =>
       /\ Len(sent) = Len(chain) + 1
       /\ hop.method \in Mutating => sent[1].method \in Mutating
  /\ \A i \in DOMAIN sent : HopEarned(i)

(* Nothing was sent yet. *)
LEMMA ScopeInitInv == ScopeInit => ScopeInv
  BY ScopeAssumption DEF ScopeInit, ScopeInv, ScopeTypeOK, Request

(* The first URL of a chain was asked of the policy. *)
LEMMA SendKeeps ==
  ASSUME ScopeInv, SendChecked
  PROVE  ScopeInv'
<1> USE DEF ScopeInv, ScopeTypeOK
<1>1. scope' = scope /\ hop' = hop /\ chain' = chain /\ chain = <<>> /\ sent = <<>>
  BY DEF SendChecked
<1>2. CASE InScope(hop.url, hop.method)
  <2>1. scopePc' = "sent" /\ sent' = <<hop>>
    BY <1>2 DEF SendChecked
  <2>2. Len(sent') = 1 /\ DOMAIN sent' = {1} /\ sent'[1] = hop /\ sent' \in Seq(Request)
    BY <2>1
  <2>3. InScope(hop.url, "GET")' /\ InScope(hop.url, hop.method)'
    BY <1>1, <1>2 DEF InScope, PathAllowed, Mutating
  <2>4. ASSUME NEW i \in DOMAIN sent' PROVE HopEarned(i)'
    BY <1>1, <2>2, <2>3 DEF HopEarned
  <2> QED
    BY <1>1, <2>1, <2>2, <2>4, ScopeAssumption
<1>3. CASE ~InScope(hop.url, hop.method)
  BY <1>1, <1>3 DEF SendChecked
<1> QED
  BY <1>2, <1>3

(* So is each hop. *)
LEMMA RedirectKeeps ==
  ASSUME ScopeInv, Redirected
  PROVE  ScopeInv'
<1> USE DEF ScopeInv, ScopeTypeOK
<1>1. PICK url \in Locations, kind \in {"see", "same"} :
        LET hops == Append(chain, url)
            next == [url |-> url, after |-> kind,
                     method |-> IF kind = "see" THEN "GET" ELSE hop.method]
        IN IF Len(chain) < MostRedirects /\ ChainInScope(hop.url, hops)
           THEN /\ hop' = next /\ chain' = hops /\ sent' = Append(sent, next)
                /\ UNCHANGED scopePc
           ELSE scopePc' = "refused" /\ UNCHANGED <<hop, chain, sent>>
  BY DEF Redirected
<1> DEFINE hops == Append(chain, url)
           next == [url |-> url, after |-> kind,
                    method |-> IF kind = "see" THEN "GET" ELSE hop.method]
<1>2. scope' = scope /\ scopePc = "sent"
  BY DEF Redirected
<1>3. \A u, m : InScope(u, m)' <=> InScope(u, m)
  BY <1>2 DEF InScope, PathAllowed, Mutating
<1>4. next \in Request
  BY DEF Request, Methods
<1>5. CASE Len(chain) < MostRedirects /\ ChainInScope(hop.url, hops)
  <2>1. /\ hop' = next /\ chain' = hops /\ sent' = Append(sent, next)
        /\ scopePc' = scopePc
    BY <1>1, <1>5
  <2>2. hops \in Seq(Locations) /\ Len(hops) = Len(chain) + 1 /\ hops[Len(hops)] = url
    OBVIOUS
  <2>3. InScope(url, "GET")
    BY <1>5, <2>2 DEF ChainInScope
  <2>4. /\ sent' \in Seq(Request) /\ Len(sent') = Len(sent) + 1
        /\ sent'[Len(sent) + 1] = next
        /\ \A i \in DOMAIN sent : sent'[i] = sent[i]
        /\ DOMAIN sent' = DOMAIN sent \cup {Len(sent) + 1}
    BY <1>4, <2>1
  <2>5. Len(sent) \in Nat /\ Len(sent) = Len(chain) + 1 /\ Len(chain) \in Nat
    BY <1>2
  <2>6. 1 \in DOMAIN sent /\ sent'[1] = sent[1]
    BY <2>4, <2>5
  <2>7. ASSUME NEW i \in DOMAIN sent' PROVE HopEarned(i)'
    <3>1. CASE i \in DOMAIN sent
      BY <1>3, <2>4, <2>6, <3>1 DEF HopEarned
    <3>2. CASE i = Len(sent) + 1
      <4>1. sent'[i].url = url /\ sent'[i].after = kind /\ i > 1
            /\ sent'[i].method = IF kind = "see" THEN "GET" ELSE hop.method
        BY <2>4, <2>5, <3>2
      <4>2. InScope(url, "GET")'
        BY <1>3, <2>3
      <4>3. CASE kind = "see"
        BY <4>1, <4>2, <4>3 DEF HopEarned
      <4>4. CASE kind = "same"
        <5>1. hop.method \notin Mutating => InScope(url, hop.method)
          BY <2>3 DEF InScope
        <5>2. hop.method \notin Mutating => InScope(sent[i].url, sent[i].method)'
          BY <1>3, <4>1, <4>4, <5>1
        <5> QED
          BY <1>2, <2>6, <4>1, <4>2, <4>4, <5>2 DEF HopEarned, Mutating
      <4> QED
        BY <4>3, <4>4
    <3> QED
      BY <2>4, <3>1, <3>2
  <2>8. Len(sent') <= MostRedirects + 1
    BY <1>5, <2>4, <2>5, ScopeAssumption
  <2>9. hop'.method \in Mutating => sent'[1].method \in Mutating
    <3>1. hop'.method = IF kind = "see" THEN "GET" ELSE hop.method
      BY <2>1
    <3> QED
      BY <1>2, <2>6, <3>1 DEF Mutating
  <2> QED
    BY <1>2, <1>4, <2>1, <2>2, <2>4, <2>5, <2>7, <2>8, <2>9
<1>6. CASE ~(Len(chain) < MostRedirects /\ ChainInScope(hop.url, hops))
  <2>1. scopePc' = "refused" /\ hop' = hop /\ chain' = chain /\ sent' = sent
    BY <1>1, <1>6
  <2> QED
    BY <1>3, <2>1 DEF HopEarned
<1> QED
  BY <1>5, <1>6

(* Every step keeps the invariant. *)
LEMMA ScopeStep == ScopeInv /\ [ScopeNext]_scopeVars => ScopeInv'
<1> SUFFICES ASSUME ScopeInv, [ScopeNext]_scopeVars PROVE ScopeInv'
  OBVIOUS
<1>1. CASE SendChecked
  BY <1>1, SendKeeps
<1>2. CASE Redirected
  BY <1>2, RedirectKeeps
<1>3. CASE Answered \/ UNCHANGED scopeVars
  BY <1>3 DEF Answered, scopeVars, ScopeInv, ScopeTypeOK, HopEarned, InScope, PathAllowed,
             Mutating
<1> QED
  BY <1>1, <1>2, <1>3 DEF ScopeNext

(* For every scope, every limit of redirects and every chain the target    *)
(* answers with, nothing goes out that the scope does not hold (scope.py   *)
(* check, check_redirect_chain; client.py).                                *)
THEOREM RedirectsStayInScope == ScopeSpec => []HopsInScope
<1>1. ScopeInv => HopsInScope
  BY DEF ScopeInv, HopsInScope, HopEarned
<1> QED
  BY ScopeInitInv, ScopeStep, <1>1, PTL DEF ScopeSpec

-----------------------------------------------------------------------------
(* Replay *)

AnsweredBy(n) == {i \in 1..n : fates[i] = "answered"}

(* The largest and the least number of a set are among its members. *)
HasBounds(S) == \E lo, hi \in S : \A a \in S : lo <= a /\ a <= hi

(* ReplayTrue with what it rests on: the sends of a replay are as many as  *)
(* it asked for at most, each answer was kept, and the numbers the verdict *)
(* compares are finite sets with a largest and a least member.             *)
ReplayInv ==
  /\ replayPc \in {"check", "send", "done"}
  /\ request \in ReplayBodies
  /\ fates \in Seq({"raised", "answered"})
  /\ answers \in Seq(ReplayAnswers)
  /\ replayPc = "check" => fates = <<>> /\ answers = <<>>
  /\ replayPc # "done" => code = 0 /\ verdict = "none"
  /\ Len(fates) <= Samples(request)
  /\ code = 200 => Len(fates) >= Samples(request)
  /\ IsFiniteSet(AnsweredBy(Len(fates)))
  /\ Len(answers) = Cardinality(AnsweredBy(Len(fates)))
  /\ answers # <<>> =>
       HasBounds({a.length : a \in Kept}) /\ HasBounds({a.time : a \in Kept})
  /\ verdict = "Reproducible" => Consistent /\ Reliable /\ \E a \in Kept : Success(a)

(* A replay takes between one sample and the cap. *)
LEMMA SamplesRange ==
  ASSUME NEW r \in ReplayBodies
  PROVE  Samples(r) \in 1..ReplayCap
  BY ReplayAssumption DEF Samples

(* Appending to a sequence adds one to what it holds. *)
LEMMA KeptGrows ==
  ASSUME answers \in Seq(ReplayAnswers), NEW a \in ReplayAnswers,
         answers' = Append(answers, a)
  PROVE  Kept' = Kept \cup {a}
<1>1. /\ DOMAIN answers' = DOMAIN answers \cup {Len(answers) + 1}
      /\ \A i \in DOMAIN answers : answers'[i] = answers[i]
      /\ answers'[Len(answers) + 1] = a
  OBVIOUS
<1> QED
  BY <1>1 DEF Kept

(* With one sample more there is still a least and a largest. *)
LEMMA BoundsGrow ==
  ASSUME NEW S \in SUBSET Nat, NEW n \in Nat, S = {} \/ HasBounds(S)
  PROVE  HasBounds(S \cup {n})
<1>1. CASE S = {}
  BY <1>1 DEF HasBounds
<1>2. CASE HasBounds(S)
  <2>1. PICK lo \in S, hi \in S : \A a \in S : lo <= a /\ a <= hi
    BY <1>2 DEF HasBounds
  <2>2. CASE n < lo
    BY <2>1, <2>2 DEF HasBounds
  <2>3. CASE n > hi
    BY <2>1, <2>3 DEF HasBounds
  <2>4. CASE lo <= n /\ n <= hi
    BY <2>1, <2>4 DEF HasBounds
  <2> QED
    BY <2>1, <2>2, <2>3, <2>4
<1> QED
  BY <1>1, <1>2

(* The difference of two members is at most the spread of the set. *)
LEMMA SpreadBounds ==
  ASSUME NEW S \in SUBSET Nat, HasBounds(S), NEW a \in S, NEW b \in S
  PROVE  Spread(S) \in Int /\ a - b <= Spread(S)
<1> DEFINE hi == CHOOSE x \in S : \A y \in S : y <= x
           lo == CHOOSE x \in S : \A y \in S : x <= y
<1>1. hi \in S /\ \A y \in S : y <= hi
  BY DEF HasBounds
<1>2. lo \in S /\ \A y \in S : lo <= y
  BY DEF HasBounds
<1>3. Spread(S) = hi - lo
  BY DEF Spread
<1>4. a \in Nat /\ b \in Nat /\ hi \in Nat /\ lo \in Nat /\ a <= hi /\ lo <= b
  BY <1>1, <1>2
<1> HIDE DEF hi, lo
<1> QED
  BY <1>3, <1>4

(* No sample yet. *)
LEMMA ReplayInitInv == ReplayInit => ReplayInv
<1> SUFFICES ASSUME ReplayInit PROVE ReplayInv
  OBVIOUS
<1>1. AnsweredBy(Len(fates)) = {}
  BY DEF ReplayInit, AnsweredBy
<1>2. Samples(request) \in 1..ReplayCap
  BY SamplesRange DEF ReplayInit
<1>3. IsFiniteSet(AnsweredBy(Len(fates))) /\ Cardinality(AnsweredBy(Len(fates))) = 0
  BY <1>1, FS_EmptySet
<1>4. fates = <<>> /\ answers = <<>> /\ Len(fates) = 0 /\ Len(answers) = 0
  BY DEF ReplayInit
<1> QED
  BY <1>2, <1>3, <1>4, ReplayAssumption DEF ReplayInit, ReplayInv

(* A sample adds to the tallies what it shows. *)
LEMMA SampleKeeps ==
  ASSUME ReplayInv, SampleRaises \/ SampleAnswered
  PROVE  ReplayInv'
<1> USE DEF ReplayInv
<1> DEFINE n == Len(fates)
<1>1. /\ n \in Nat /\ n < Samples(request) /\ Samples(request) \in 1..ReplayCap
      /\ replayPc = "send" /\ code = 0 /\ verdict = "none"
  BY SamplesRange DEF SampleRaises, SampleAnswered, Sampling
<1>2. UNCHANGED <<replayPc, request, code, verdict>> /\ Samples(request)' = Samples(request)
  BY DEF SampleRaises, SampleAnswered, Samples
<1>3. PICK fate \in {"raised", "answered"} :
        /\ fates' = Append(fates, fate)
        /\ fate = "raised" => answers' = answers
        /\ fate = "answered" => \E a \in ReplayAnswers : answers' = Append(answers, a)
  BY DEF SampleRaises, SampleAnswered
<1>4. /\ fates' \in Seq({"raised", "answered"}) /\ Len(fates') = n + 1
      /\ fates'[n + 1] = fate /\ \A i \in 1..n : fates'[i] = fates[i]
  BY <1>3
<1>5. CASE fate = "raised"
  <2>1. AnsweredBy(Len(fates))' = AnsweredBy(n)
    BY <1>1, <1>4, <1>5 DEF AnsweredBy
  <2>2. answers' = answers /\ Kept' = Kept
    BY <1>3, <1>5 DEF Kept
  <2> QED
    BY <1>1, <1>2, <1>4, <2>1, <2>2
<1>6. CASE fate = "answered"
  <2>1. PICK a \in ReplayAnswers : answers' = Append(answers, a)
    BY <1>3, <1>6
  <2>2. AnsweredBy(Len(fates))' = AnsweredBy(n) \cup {n + 1} /\ n + 1 \notin AnsweredBy(n)
    BY <1>1, <1>4, <1>6 DEF AnsweredBy
  <2>3. /\ IsFiniteSet(AnsweredBy(Len(fates))')
        /\ Cardinality(AnsweredBy(Len(fates))') = Cardinality(AnsweredBy(n)) + 1
    BY <2>2, FS_AddElement
  <2>4. answers' \in Seq(ReplayAnswers) /\ Len(answers') = Len(answers) + 1
    BY <2>1
  <2>5. Kept' = Kept \cup {a} /\ Kept \subseteq ReplayAnswers
    BY <2>1, KeptGrows DEF Kept
  <2>6. HasBounds({b.length : b \in Kept'})
    <3> DEFINE S == {b.length : b \in Kept}
    <3>1. S \in SUBSET Nat /\ a.length \in Nat
      BY <2>5, ReplayAssumption
    <3>2. S = {} \/ HasBounds(S)
      BY DEF Kept
    <3>3. {b.length : b \in Kept'} = S \cup {a.length}
      BY <2>5
    <3> HIDE DEF S
    <3> QED
      BY <3>1, <3>2, <3>3, BoundsGrow
  <2>7. HasBounds({b.time : b \in Kept'})
    <3> DEFINE S == {b.time : b \in Kept}
    <3>1. S \in SUBSET Nat /\ a.time \in Nat
      BY <2>5, ReplayAssumption
    <3>2. S = {} \/ HasBounds(S)
      BY DEF Kept
    <3>3. {b.time : b \in Kept'} = S \cup {a.time}
      BY <2>5
    <3> HIDE DEF S
    <3> QED
      BY <3>1, <3>2, <3>3, BoundsGrow
  <2>8. Len(fates') <= Samples(request)' /\ code' # 200 /\ verdict' # "Reproducible"
        /\ replayPc' = "send"
    BY <1>1, <1>2, <1>4
  <2>9. HasBounds({b.length : b \in Kept})' /\ HasBounds({b.time : b \in Kept})'
    BY <2>6, <2>7 DEF HasBounds
  <2> QED
    BY <1>1, <1>2, <1>4, <2>3, <2>4, <2>8, <2>9
<1> QED
  BY <1>5, <1>6

(* Every step keeps the invariant. *)
LEMMA ReplayStep == ReplayInv /\ [ReplayNext]_replayVars => ReplayInv'
<1> SUFFICES ASSUME ReplayInv, [ReplayNext]_replayVars PROVE ReplayInv'
  OBVIOUS
<1> USE DEF ReplayInv
<1>1. CASE ReplayRefuse
  <2>1. Refused(request) # 200 /\ code' = Refused(request)
    BY <1>1 DEF ReplayRefuse
  <2> QED
    BY <1>1, <2>1 DEF ReplayRefuse, Samples, AnsweredBy, Kept, HasBounds
<1>2. CASE ReplayBegin
  BY <1>2 DEF ReplayBegin, Samples, AnsweredBy, Kept, HasBounds
<1>3. CASE SampleRaises \/ SampleAnswered
  BY <1>3, SampleKeeps
<1>4. CASE ReplayEnds
  <2>1. /\ ~Sampling /\ replayPc = "send" /\ replayPc' = "done" /\ code' = 200
        /\ verdict' = Verdict /\ UNCHANGED <<request, fates, answers>>
    BY <1>4 DEF ReplayEnds
  <2>2. Len(fates) >= Samples(request)
    <3>1. Samples(request) \in Nat
      BY SamplesRange
    <3> QED
      BY <2>1, <3>1 DEF Sampling
  <2>3. Kept' = Kept /\ Consistent' = Consistent /\ Reliable' = Reliable
        /\ \A a : Success(a)' = Success(a)
    BY <2>1 DEF Kept, Consistent, Reliable, Spread, Success
  <2>4. Verdict = "Reproducible" => Consistent /\ Reliable /\ \E a \in Kept : Success(a)
    BY DEF Verdict
  <2>5. (verdict = "Reproducible" => Consistent /\ Reliable /\ \E a \in Kept : Success(a))'
    BY <2>1, <2>3, <2>4
  <2> QED
    BY <2>1, <2>2, <2>3, <2>5 DEF Samples, AnsweredBy, HasBounds
<1>5. CASE UNCHANGED replayVars
  <2>1. Kept' = Kept /\ Consistent' = Consistent /\ Reliable' = Reliable
        /\ \A a : Success(a)' = Success(a)
    BY <1>5 DEF replayVars, Kept, Consistent, Reliable, Spread, Success
  <2> QED
    BY <1>5, <2>1 DEF replayVars, Samples, AnsweredBy, HasBounds
<1> QED
  BY <1>1, <1>2, <1>3, <1>4, <1>5 DEF ReplayNext

(* The answers kept are finitely many, and so is what is read of them. *)
LEMMA KeptFinite ==
  ASSUME ReplayInv
  PROVE  IsFiniteSet({a.status : a \in Kept}) /\ IsFiniteSet({a.head : a \in Kept})
<1>1. IsFiniteSet(1..Len(answers)) /\ DOMAIN answers = 1..Len(answers)
  <2>1. Len(answers) \in Int /\ 1 \in Int /\ DOMAIN answers = 1..Len(answers)
    BY DEF ReplayInv
  <2> QED
    BY <2>1, FS_Interval
<1>2. IsFiniteSet({a.status : a \in Kept})
  <2> DEFINE f == [i \in DOMAIN answers |-> answers[i].status]
  <2>1. f \in Surjection(DOMAIN answers, {a.status : a \in Kept})
    BY DEF Surjection, Kept
  <2> QED
    BY <1>1, <2>1, FS_Surjection
<1>3. IsFiniteSet({a.head : a \in Kept})
  <2> DEFINE f == [i \in DOMAIN answers |-> answers[i].head]
  <2>1. f \in Surjection(DOMAIN answers, {a.head : a \in Kept})
    BY DEF Surjection, Kept
  <2> QED
    BY <1>1, <2>1, FS_Surjection
<1> QED
  BY <1>2, <1>3

(* The tallies bear the verdict out. *)
LEMMA InvGivesVerdict == ReplayInv => VerdictEarned
<1> SUFFICES ASSUME ReplayInv, verdict = "Reproducible"
             PROVE  /\ \E i \in DOMAIN fates : fates[i] = "answered"
                    /\ \A a, b \in Kept :
                         /\ a.status = b.status /\ a.status \in 200..399 /\ a.head = b.head
                         /\ a.length - b.length < 50 /\ a.time - b.time < 1000
  BY DEF VerdictEarned
<1> USE DEF ReplayInv
<1>1. Consistent /\ Reliable /\ answers # <<>>
  BY DEF Consistent
<1>2. PICK good \in Kept : Success(good)
  OBVIOUS
<1>3. \E i \in DOMAIN fates : fates[i] = "answered"
  <2>1. Len(answers) > 0
    BY <1>1
  <2>2. AnsweredBy(Len(fates)) # {}
    BY <2>1, FS_EmptySet
  <2> QED
    BY <2>2 DEF AnsweredBy
<1>4. ASSUME NEW a \in Kept, NEW b \in Kept
      PROVE  /\ a.status = b.status /\ a.status \in 200..399 /\ a.head = b.head
             /\ a.length - b.length < 50 /\ a.time - b.time < 1000
  <2>1. PICK s : {x.status : x \in Kept} = {s}
    BY <1>1, KeptFinite, FS_Singleton DEF Consistent
  <2>2. PICK h : {x.head : x \in Kept} = {h}
    BY <1>1, KeptFinite, FS_Singleton DEF Consistent
  <2>3. a.status = b.status /\ a.status = good.status /\ a.head = b.head
    BY <2>1, <2>2
  <2>4. a \in ReplayAnswers /\ b \in ReplayAnswers /\ Kept \subseteq ReplayAnswers
    BY DEF Kept
  <2>5. Spread({x.length : x \in Kept}) \in Int
       /\ a.length - b.length <= Spread({x.length : x \in Kept})
    <3>1. {x.length : x \in Kept} \in SUBSET Nat /\ a.length \in {x.length : x \in Kept}
          /\ b.length \in {x.length : x \in Kept}
      BY <2>4, ReplayAssumption
    <3> QED
      BY <1>1, <3>1, SpreadBounds
  <2>6. Spread({x.time : x \in Kept}) \in Int
       /\ a.time - b.time <= Spread({x.time : x \in Kept})
    <3>1. {x.time : x \in Kept} \in SUBSET Nat /\ a.time \in {x.time : x \in Kept}
          /\ b.time \in {x.time : x \in Kept}
      BY <2>4, ReplayAssumption
    <3> QED
      BY <1>1, <3>1, SpreadBounds
  <2> QED
    BY <1>1, <1>2, <2>3, <2>4, <2>5, <2>6, ReplayAssumption DEF Reliable, Success
<1> QED
  BY <1>3, <1>4

(* Whatever the target answers and however often it is asked, "Reproducible" *)
(* is said only of answers that agree, and it is asked between once and the  *)
(* cap (replay.py replay_finding, replay_raw, _verdict).                     *)
THEOREM ReplaysAreTrue == ReplaySpec => []ReplayTrue
<1>1. ReplayInv => ReplayTrue
  <2> SUFFICES ASSUME ReplayInv PROVE VerdictEarned /\ ReplayBounded
    BY DEF ReplayTrue
  <2>1. Samples(request) \in 1..ReplayCap
    BY SamplesRange DEF ReplayInv
  <2>2. AnsweredBy(Len(fates)) = {i \in DOMAIN fates : fates[i] = "answered"}
    BY DEF AnsweredBy, ReplayInv
  <2>3. ReplayBounded
    BY <2>1, <2>2, ReplayAssumption DEF ReplayBounded, ReplayInv
  <2> QED
    BY <2>3, InvGivesVerdict
<1> QED
  BY ReplayInitInv, ReplayStep, <1>1, PTL DEF ReplaySpec

-----------------------------------------------------------------------------
(* The custom probe *)

Fate == {"scope", "budget", "answered", "redirect"}
ProbeRun == [requested : Nat, next : Nat, skipped : Nat, rejected : Nat, fates : Seq(Fate)]

(* ProbeTruthful with what it rests on: each payload looked at was skipped *)
(* or executed, the client counted no more requests than were executed,    *)
(* and nothing happens before the request passed its checks.               *)
ProbeInv ==
  /\ probePc \in {"check", "run", "store", "done"}
  /\ body \in ProbeBodies
  /\ budget \in Nat
  /\ run \in ProbeRun
  /\ run.next = Executed + run.skipped
  /\ run.next <= run.requested
  /\ run.rejected <= Executed
  /\ budget <= Executed
  /\ probePc = "check" => run = FreshRun
  /\ probePc \in {"run", "store"} => Refusal(body) = 200 /\ run.requested = Series(body)
  /\ probePc = "store" => run.next = run.requested
  /\ probePc # "done" => status = 0
  /\ Executed > 0 => Refusal(body) = 200
  /\ ProbeTruthful

(* A series has no more sends than the budget, unless it multiplies lists. *)
LEMMA SeriesFits ==
  ASSUME NEW b \in ProbeBodies
  PROVE  /\ Series(b) \in Nat /\ BudgetOf(b) \in Nat
         /\ b.mode # "cluster_bomb" => Series(b) <= BudgetOf(b)
<1>1. Taken(b) \in Nat /\ BudgetOf(b) \in Nat /\ Taken(b) <= BudgetOf(b)
  BY ProbeAssumption DEF Taken, BudgetOf, Least
<1>2. Taken(b) * b.payloads2 \in Nat
  BY <1>1, ProbeAssumption
<1> QED
  BY <1>1, <1>2, ProbeAssumption DEF Series, Least

(* The fields of a run have their types. *)
LEMMA RunFields ==
  ASSUME NEW r \in ProbeRun
  PROVE  /\ r.requested \in Nat /\ r.next \in Nat /\ r.skipped \in Nat /\ r.rejected \in Nat
         /\ r.fates \in Seq(Fate)
  BY DEF ProbeRun

(* Nothing was sent yet. *)
LEMMA ProbeInitInv == ProbeInit => ProbeInv
  BY DEF Fate, ProbeRun, ProbeInit, ProbeInv, FreshRun, NoRow, Executed, ProbeTruthful, ProbeAccounts,
         BudgetFits, ProbeRecorded

(* One more payload is looked at. *)
LEMMA SeriesKeeps ==
  ASSUME ProbeInv, SkipPayload \/ SendPayload
  PROVE  ProbeInv'
<1> USE DEF ProbeInv
<1>0. /\ run.requested \in Nat /\ run.next \in Nat /\ run.skipped \in Nat /\ run.rejected \in Nat
      /\ run.fates \in Seq(Fate)
  BY RunFields
<1>1. /\ probePc = "run" /\ run.next < run.requested /\ status = 0
      /\ UNCHANGED <<probePc, body, status, row>>
  BY DEF SkipPayload, SendPayload, Pending
<1>2. /\ Series(body) \in Nat /\ BudgetOf(body) \in Nat
      /\ body.mode # "cluster_bomb" => Series(body) <= BudgetOf(body)
  BY SeriesFits
<1>3. CASE SkipPayload
  <2>1. /\ run'.requested = run.requested /\ run'.next = run.next + 1
        /\ run'.skipped = run.skipped + 1 /\ run'.rejected = run.rejected
        /\ run'.fates = run.fates /\ budget' = budget
        /\ run' \in ProbeRun
    <3>1. run' = [run EXCEPT !.next = run.next + 1, !.skipped = run.skipped + 1]
          /\ budget' = budget
      BY <1>3 DEF SkipPayload
    <3>2. run' \in ProbeRun
      <4>1. run.next + 1 \in Nat /\ run.skipped + 1 \in Nat
        BY <1>0
      <4> QED
        BY <3>1, <4>1 DEF ProbeRun
    <3> QED
      BY <3>1, <3>2 DEF ProbeRun
  <2>2. Executed' = Executed /\ Series(body)' = Series(body) /\ Refusal(body)' = Refusal(body)
    BY <1>1, <2>1 DEF Executed, Series, Refusal
  <2>3. /\ run'.next = Executed' + run'.skipped /\ run'.next <= run'.requested
        /\ Executed \in Nat
    <3>1. Executed \in Nat
      BY <1>0 DEF Executed
    <3>2. run'.next <= run'.requested
      BY <1>0, <1>1, <2>1
    <3> HIDE DEF Executed
    <3> QED
      BY <1>0, <2>1, <2>2, <3>1, <3>2
  <2> HIDE DEF Executed
  <2>4. ProbeTruthful'
    <3>1. ProbeAccounts'
      BY <1>1 DEF ProbeAccounts
    <3>2. BudgetFits'
      BY <1>1, <2>1 DEF ProbeTruthful, BudgetFits
    <3>3. ProbeRecorded'
      BY <1>1, <2>1 DEF ProbeTruthful, ProbeRecorded
    <3> QED
      BY <3>1, <3>2, <3>3 DEF ProbeTruthful
  <2> QED
    BY <1>1, <2>1, <2>2, <2>3, <2>4
<1>4. CASE SendPayload
  <2>1. PICK fate \in Fate :
          /\ run'.fates = Append(run.fates, fate)
          /\ run'.next = run.next + 1 /\ run'.requested = run.requested
          /\ run'.skipped = run.skipped
          /\ run'.rejected = IF fate = "answered" THEN run.rejected ELSE run.rejected + 1
          /\ run' \in ProbeRun
          /\ budget' = IF fate \in {"scope", "budget"} THEN budget ELSE budget + 1
          /\ fate = "budget" => budget = BudgetOf(body)
    <3>1. ASSUME NEW fate \in Fate, run' = Rejected(fate)
          PROVE  /\ run'.fates = Append(run.fates, fate) /\ run'.next = run.next + 1
                 /\ run'.requested = run.requested /\ run'.skipped = run.skipped
                 /\ run'.rejected = run.rejected + 1
                 /\ run' \in ProbeRun
      <4>0. run.next + 1 \in Nat /\ run.rejected + 1 \in Nat /\ Append(run.fates, fate) \in Seq(Fate)
        BY <1>0
      <4>1. run' = [run EXCEPT !.next = run.next + 1, !.rejected = run.rejected + 1,
                               !.fates = Append(run.fates, fate)]
        BY <3>1 DEF Rejected
      <4>2. run' \in ProbeRun
        BY <4>0, <4>1 DEF ProbeRun
      <4> QED
        BY <4>1, <4>2 DEF ProbeRun
    <3>2. CASE Raises("scope")
      BY <3>1, <3>2 DEF Raises, Fate
    <3>3. CASE budget = BudgetOf(body) /\ Raises("budget")
      BY <3>1, <3>3 DEF Raises, Fate
    <3>4. CASE budget' = budget + 1 /\ run' = Rejected("redirect")
      BY <3>1, <3>4 DEF Fate
    <3>5. CASE budget' = budget + 1
               /\ run' = [run EXCEPT !.next = @ + 1, !.fates = Append(@, "answered")]
      <4>0. run.next + 1 \in Nat /\ "answered" \in Fate
            /\ Append(run.fates, "answered") \in Seq(Fate)
        BY <1>0 DEF Fate
      <4>1. run' = [run EXCEPT !.next = run.next + 1, !.fates = Append(run.fates, "answered")]
            /\ budget' = budget + 1 /\ "answered" \in Fate
        BY <3>5 DEF Fate
      <4>2. run' \in ProbeRun
        BY <4>0, <4>1 DEF ProbeRun
      <4>3. /\ run'.fates = Append(run.fates, "answered") /\ run'.next = run.next + 1
            /\ run'.requested = run.requested /\ run'.skipped = run.skipped
            /\ run'.rejected = run.rejected
        BY <4>1 DEF ProbeRun
      <4> QED
        BY <4>1, <4>2, <4>3
    <3> QED
      BY <1>4, <3>2, <3>3, <3>4, <3>5 DEF SendPayload
  <2>2. /\ Len(run'.fates) = Len(run.fates) + 1
        /\ DOMAIN run'.fates = DOMAIN run.fates \cup {Len(run.fates) + 1}
        /\ run'.fates[Len(run.fates) + 1] = fate
        /\ \A i \in DOMAIN run.fates : run'.fates[i] = run.fates[i]
    BY <2>1
  <2>3. Executed \in Nat /\ Executed' = Executed + 1
    BY <2>2 DEF Executed
  <2>4. BudgetFits'
    <3> SUFFICES ASSUME NEW i \in DOMAIN run'.fates, run'.fates[i] = "budget"
                 PROVE  body'.mode = "cluster_bomb"
      BY DEF BudgetFits
    <3>1. CASE i \in DOMAIN run.fates
      BY <1>1, <2>2, <3>1 DEF BudgetFits, ProbeTruthful
    <3>2. CASE i = Len(run.fates) + 1
      BY <1>0, <1>1, <1>2, <2>1, <2>2, <2>3, <3>2 DEF Executed
    <3> QED
      BY <2>2, <3>1, <3>2
  <2>5. ProbeAccounts' /\ ProbeRecorded'
    <3>1. Refusal(body) = 200 => body.dwyor /\ body.authenticated /\ body.target
      BY DEF Refusal
    <3> QED
      BY <1>1, <3>1 DEF ProbeAccounts, ProbeRecorded
  <2>6. Refusal(body)' = Refusal(body) /\ Series(body)' = Series(body)
    BY <1>1 DEF Series, Refusal, Taken, BudgetOf, Least
  <2> QED
    <3>1. run'.next = Executed' + run'.skipped /\ run'.next <= run'.requested
          /\ run'.rejected <= Executed' /\ budget' <= Executed' /\ budget' \in Nat
      BY <1>0, <1>1, <2>1, <2>3
    <3> QED
      BY <1>1, <2>1, <2>3, <2>4, <2>5, <2>6, <3>1 DEF ProbeTruthful
<1> QED
  BY <1>3, <1>4

(* Every step keeps the invariant. *)
LEMMA ProbeStep == ProbeInv /\ [ProbeNext]_probeVars => ProbeInv'
<1> SUFFICES ASSUME ProbeInv, [ProbeNext]_probeVars PROVE ProbeInv'
  OBVIOUS
<1> USE DEF ProbeInv
<1>1. CASE ProbeRefuse
  <2>1. /\ probePc = "check" /\ UNCHANGED <<body, budget, run, row>>
        /\ probePc' = "done" /\ status' # 200 /\ run = FreshRun
    BY <1>1 DEF ProbeRefuse, Answer
  <2>2. Executed = 0 /\ Executed' = 0 /\ budget = 0
    BY <2>1 DEF Executed, FreshRun
  <2> QED
    BY <2>1, <2>2 DEF ProbeTruthful, ProbeAccounts, BudgetFits, ProbeRecorded, Refusal
<1>2. CASE ProbeBegin
  <2>1. /\ probePc = "check" /\ UNCHANGED <<body, status, budget, row>>
        /\ probePc' = "run" /\ Refusal(body) = 200 /\ run = FreshRun /\ status = 0
        /\ run' = [run EXCEPT !.requested = Series(body)]
    BY <1>2 DEF ProbeBegin
  <2>2. Series(body) \in Nat
    BY SeriesFits
  <2>3. run' = [requested |-> Series(body), next |-> 0, skipped |-> 0, rejected |-> 0,
                fates |-> <<>>]
    BY <2>1 DEF FreshRun
  <2>4. Executed = 0 /\ Executed' = 0 /\ budget = 0
    BY <2>1, <2>3 DEF Executed, FreshRun
  <2>5. Refusal(body)' = 200 /\ Series(body)' = Series(body)
    BY <2>1 DEF Series, Refusal, Taken, BudgetOf, Least
  <2> QED
    <3>1. run' \in ProbeRun
      BY <2>2, <2>3 DEF ProbeRun
    <3>2. ProbeTruthful'
      BY <2>1, <2>3, <2>4 DEF ProbeTruthful, ProbeAccounts, BudgetFits, ProbeRecorded
    <3> QED
      BY <2>1, <2>2, <2>3, <2>4, <2>5, <3>1, <3>2
<1>3. CASE SkipPayload \/ SendPayload
  BY <1>3, SeriesKeeps
<1>4. CASE SeriesEnds
  <2>1. /\ probePc = "run" /\ probePc' = "store" /\ UNCHANGED <<body, status, budget, run, row>>
        /\ run.next >= run.requested
    BY <1>4, RunFields DEF SeriesEnds, Pending
  <2>2. run.next = run.requested
    BY <2>1, RunFields
  <2>3. Executed' = Executed /\ Refusal(body)' = Refusal(body) /\ Series(body)' = Series(body)
    BY <2>1 DEF Executed, Series, Refusal, Taken, BudgetOf, Least
  <2>4. ProbeTruthful'
    BY <2>1, <2>3 DEF ProbeTruthful, ProbeAccounts, BudgetFits, ProbeRecorded
  <2> QED
    BY <2>1, <2>2, <2>3, <2>4
<1>5. CASE PersistProbe
  <2>1. /\ probePc = "store" /\ UNCHANGED <<body, budget, run>> /\ probePc' = "done"
        /\ \/ status' = 200 /\ row' = StoredProbe
           \/ status' = 500 /\ UNCHANGED row
    BY <1>5 DEF PersistProbe, Answer
  <2>2. Executed \in Nat /\ Executed' = Executed /\ DOMAIN run.fates = 1..Executed
        /\ Refusal(body)' = Refusal(body)
    BY <2>1 DEF Executed, Refusal
  <2>3. StoredProbe.requests = Executed /\ StoredProbe.evidence = DOMAIN run.fates
    BY <2>2 DEF StoredProbe
  <2>4. ProbeAccounts'
    BY <2>1, <2>2, <2>3 DEF ProbeAccounts
  <2>5. BudgetFits'
    BY <2>1 DEF BudgetFits, ProbeTruthful
  <2>6. ProbeRecorded'
    BY <2>1, <2>2, <2>3 DEF ProbeRecorded, ProbeTruthful
  <2> QED
    BY <2>1, <2>2, <2>4, <2>5, <2>6 DEF ProbeTruthful
<1>6. CASE UNCHANGED probeVars
  BY <1>6 DEF probeVars, Executed, ProbeTruthful, ProbeAccounts, BudgetFits,
     ProbeRecorded, Series, Refusal, Taken, BudgetOf, Least
<1> QED
  BY <1>1, <1>2, <1>3, <1>4, <1>5, <1>6 DEF ProbeNext

(* For every request, every mode and wherever a send raises, what a probe  *)
(* was allowed, what it sent and what it stored agree (probes.py           *)
(* run_custom_probe, _build_limits, _persist_probe; runner.py run).        *)
THEOREM ProbesAreTruthful == ProbeSpec => []ProbeTruthful
<1>1. ProbeInv => ProbeTruthful
  BY DEF ProbeInv
<1> QED
  BY ProbeInitInv, ProbeStep, <1>1, PTL DEF ProbeSpec

-----------------------------------------------------------------------------
(* Access and the audit log *)

Cookie == [signer : Keys, issued : Nat]

Presented ==
  [by : {"nothing", "loopback"}]
  \cup [by : {"header"}, key : Keys]
  \cup [by : {"cookie"}, cookie : Cookie]

Actors == Keys \cup {"anonymous", "loopback"}
Deeds == [did : {"retired", "added", "removed"}, key : Keys]
Results == {"none", "denied", "not_found", "allowed"}

Served ==
  [pc : {"route", "audit", "written", "lost"}, presents : Presented, since : Nat,
   past : SUBSET Deeds, auth : BOOLEAN, actor : Actors, result : Results]

Logged == [of : Callers, actor : Actors, result : Results]

KeysTypeOK ==
  /\ env \subseteq minted /\ file \subseteq minted /\ single \subseteq minted
  /\ listed \subseteq minted /\ rotating \subseteq minted /\ minted \subseteq Keys
  /\ past \subseteq Deeds /\ \A deed \in past : deed.key \in minted

(* What a command has done to a key is not undone by the later ones: a key *)
(* that is made was never there before.                                    *)
KeysInv ==
  /\ KeysTypeOK
  /\ \A key \in file : Deed("retired", key) \notin past
  /\ \A key \in Raw : Deed("added", key) \notin past
  /\ \A key \in Hashed \cup rotating : Deed("removed", key) \notin past

CallersTypeOK ==
  /\ clock \in Nat /\ cookies \subseteq Cookie
  /\ audit \in Seq(Logged)
  /\ caller \in [Callers -> {Waiting} \cup Served]

(* A request that is honoured is so by a key that the commands before it   *)
(* have left it, and is named by such a key.                               *)
Earned(r) ==
  LET Did(what) == Deed(what, KeyOf(r.presents)) \in r.past IN
  r.auth /\ r.presents.by # "loopback" =>
    /\ r.presents.by = "cookie" =>
         /\ r.since <= r.presents.cookie.issued + Ttl
         /\ Did("retired") => r.presents.cookie.signer \in env
         /\ ~Did("added")
    /\ Did("retired") /\ Did("removed") => KeyOf(r.presents) \in env

CalledRight(r) ==
  /\ r.actor \in Keys \ env => Deed("retired", r.actor) \notin r.past
  /\ r.actor = "loopback" =>
       \/ r.presents.by = "loopback"
       \/ r.presents.by = "header" /\ r.presents.key \notin env

(* An entry of the log has its actor from the request it is of. *)
Signed ==
  \A i \in DOMAIN audit :
    caller[audit[i].of] \in Served /\ caller[audit[i].of].actor = audit[i].actor

AccessInv ==
  /\ KeysInv /\ CallersTypeOK /\ Signed
  /\ \A c \in Callers : caller[c] \in Served => Earned(caller[c]) /\ CalledRight(caller[c])

(* A request that has not arrived is not one that is served. *)
LEMMA WaitingNotServed == Waiting \notin Served /\ \A r \in Served : r.pc # "idle"
  BY DEF Waiting, Served

(* No request and no command yet. *)
LEMMA AccessInitInv == AccessInit => AccessInv
<1> SUFFICES ASSUME AccessInit PROVE AccessInv
  OBVIOUS
<1>1. KeysInv
  BY AccessAssumption DEF AccessInit, KeysInv, KeysTypeOK
<1>2. CallersTypeOK /\ Signed
  BY DEF AccessInit, CallersTypeOK, Signed
<1>3. \A c \in Callers : caller[c] = Waiting
  BY DEF AccessInit
<1> QED
  BY <1>1, <1>2, <1>3, WaitingNotServed DEF AccessInv

(* A deed is known by what it is and to which key. *)
LEMMA DeedsDiffer ==
  /\ \A w, v, k, l : Deed(w, k) = Deed(v, l) => w = v /\ k = l
  /\ \A w, k : Deed(w, k).key = k
  /\ \A w \in {"retired", "added", "removed"}, k \in Keys : Deed(w, k) \in Deeds
  BY DEF Deed, Deeds

(* A rotation retires the keys of the file and puts a new one there. *)
LEMMA RotateFileKeeps ==
  ASSUME KeysInv, RotateFile
  PROVE  KeysInv'
<1> USE DEF KeysInv, KeysTypeOK
<1>1. PICK key \in Keys \ minted :
        /\ file' = {key} /\ rotating' = {key} /\ minted' = minted \cup {key}
        /\ past' = past \cup {Deed("retired", old) : old \in file}
  BY DEF RotateFile, Rewritten
<1>2. env' = env /\ single' = single /\ listed' = listed
  BY DEF RotateFile
<1>3. \A deed \in past' : deed \in Deeds /\ deed.key \in minted
  BY <1>1, DeedsDiffer
<1>4. KeysTypeOK'
  BY <1>1, <1>2, <1>3
<1>5. \A w : Deed(w, key) \notin past'
  BY <1>1, <1>3, DeedsDiffer
<1>6. \A k : /\ Deed("added", k) \in past' <=> Deed("added", k) \in past
             /\ Deed("removed", k) \in past' <=> Deed("removed", k) \in past
  BY <1>1, DeedsDiffer
<1> QED
  BY <1>1, <1>2, <1>4, <1>5, <1>6 DEF Raw, Hashed

(* The other commands leave the raw keys alone. *)
LEMMA HashesKeep ==
  ASSUME KeysInv, RotateHash \/ AddKey \/ RemoveKey
  PROVE  KeysInv'
<1> USE DEF KeysInv, KeysTypeOK
<1>1. CASE RotateHash
  BY <1>1 DEF RotateHash, Raw, Hashed
<1>2. CASE AddKey
  <2>1. PICK key \in Keys \ minted :
          /\ listed' = listed \cup single \cup {key} /\ single' = {}
          /\ minted' = minted \cup {key} /\ past' = past \cup {Deed("added", key)}
    BY <1>2 DEF AddKey
  <2>2. env' = env /\ file' = file /\ rotating' = rotating
    BY <1>2 DEF AddKey
  <2>3. \A deed \in past' : deed \in Deeds /\ deed.key \in minted'
    BY <2>1, DeedsDiffer
  <2>4. KeysTypeOK'
    BY <2>1, <2>2, <2>3
  <2>5. \A k : /\ Deed("retired", k) \in past' <=> Deed("retired", k) \in past
               /\ Deed("removed", k) \in past' <=> Deed("removed", k) \in past
               /\ k # key => (Deed("added", k) \in past' <=> Deed("added", k) \in past)
    BY <2>1, DeedsDiffer
  <2>6. Deed("removed", key) \notin past /\ key \notin env \cup file
    BY <2>1, DeedsDiffer
  <2> QED
    BY <2>1, <2>2, <2>4, <2>5, <2>6 DEF Raw, Hashed
<1>3. CASE RemoveKey
  <2>1. PICK key \in Hashed :
          /\ single' = single \ {key} /\ listed' = listed \ {key}
          /\ past' = past \cup {Deed("removed", key)}
    BY <1>3 DEF RemoveKey
  <2>2. env' = env /\ file' = file /\ rotating' = rotating /\ minted' = minted /\ rotating = {}
    BY <1>3 DEF RemoveKey
  <2>3. \A deed \in past' : deed \in Deeds /\ deed.key \in minted'
    BY <2>1, <2>2, DeedsDiffer DEF Hashed
  <2>4. KeysTypeOK'
    BY <2>1, <2>2, <2>3
  <2>5. \A k : /\ Deed("retired", k) \in past' <=> Deed("retired", k) \in past
               /\ Deed("added", k) \in past' <=> Deed("added", k) \in past
               /\ k # key => (Deed("removed", k) \in past' <=> Deed("removed", k) \in past)
    BY <2>1, DeedsDiffer
  <2> QED
    BY <2>1, <2>2, <2>4, <2>5 DEF Raw, Hashed
<1> QED
  BY <1>1, <1>2, <1>3

(* The commands, the login and the clock leave the requests alone. *)
LEMMA KeysKeep ==
  ASSUME AccessInv,
         RotateFile \/ RotateHash \/ AddKey \/ RemoveKey \/ Login \/ Passes
           \/ UNCHANGED accessVars
  PROVE  AccessInv'
<1>1. UNCHANGED <<env, caller, audit>>
  BY DEF RotateFile, RotateHash, AddKey, RemoveKey, Login, Passes, accessVars, keyVars
<1>2. KeysInv'
  <2>1. CASE RotateFile
    BY <2>1, RotateFileKeeps DEF AccessInv
  <2>2. CASE RotateHash \/ AddKey \/ RemoveKey
    BY <2>2, HashesKeep DEF AccessInv
  <2>3. CASE Login \/ Passes \/ UNCHANGED accessVars
    BY <2>3 DEF Login, Passes, accessVars, keyVars, AccessInv, KeysInv, KeysTypeOK, Raw, Hashed
  <2> QED
    BY <2>1, <2>2, <2>3
<1>3. CallersTypeOK'
  <2>1. clock' \in Nat
    BY DEF RotateFile, RotateHash, AddKey, RemoveKey, Login, Passes, accessVars,
           AccessInv, CallersTypeOK
  <2>2. cookies' \subseteq Cookie
    <3>1. CASE Login
      <4>1. PICK key \in Raw \cup Hashed :
              cookies' = cookies \cup {[signer |-> key, issued |-> clock]}
        BY <3>1 DEF Login
      <4>2. key \in Keys
        BY DEF AccessInv, KeysInv, KeysTypeOK, Raw, Hashed
      <4> QED
        BY <4>1, <4>2 DEF AccessInv, CallersTypeOK, Cookie
    <3>2. CASE ~Login
      BY <3>2 DEF RotateFile, RotateHash, AddKey, RemoveKey, Passes, accessVars,
                  AccessInv, CallersTypeOK
    <3> QED
      BY <3>1, <3>2
  <2> QED
    BY <1>1, <2>1, <2>2 DEF AccessInv, CallersTypeOK
<1>4. /\ Signed'
      /\ \A c \in Callers : caller'[c] \in Served => Earned(caller[c])' /\ CalledRight(caller[c])'
  BY <1>1 DEF AccessInv, Signed, Earned, CalledRight
<1> QED
  BY <1>1, <1>2, <1>3, <1>4 DEF AccessInv

(* What a request presents decides what it is taken for. *)
LEMMA PresentedTyped ==
  ASSUME KeysInv, CallersTypeOK, NEW p \in Presents
  PROVE  /\ p \in Presented /\ Authenticated(p) \in BOOLEAN /\ Actor(p) \in Actors
         /\ p.by = "header" /\ Authenticated(p) => p.key \in Raw \cup Hashed
         /\ p.by = "cookie" /\ Authenticated(p) =>
              p.cookie.signer \in Raw /\ clock <= p.cookie.issued + Ttl
         /\ Authenticated(p) => p.by \in {"loopback", "header", "cookie"}
         /\ Actor(p) \in Keys => Actor(p) \in Raw
         /\ Actor(p) = "loopback" =>
              p.by = "loopback" \/ (p.by = "header" /\ p.key \notin Raw)
<1>1. Raw \subseteq Keys /\ Hashed \subseteq Keys /\ "loopback" \notin Keys
      /\ "anonymous" \notin Keys
  BY AccessAssumption DEF KeysInv, KeysTypeOK, Raw, Hashed
<1>2. CASE p \in [by : {"nothing", "loopback"}]
  <2>1. p.by \in {"nothing", "loopback"} /\ p \in Presented
    BY <1>2 DEF Presented
  <2>2. Authenticated(p) <=> p.by = "loopback"
    BY <2>1 DEF Authenticated
  <2>3. Authenticated(p) \in BOOLEAN
    BY <2>1 DEF Authenticated
  <2>4. Actor(p) = IF p.by = "loopback" THEN "loopback" ELSE "anonymous"
    BY <2>1, <2>2 DEF Actor
  <2> QED
    BY <1>1, <2>1, <2>2, <2>3, <2>4 DEF Actors
<1>3. CASE p \in [by : {"header"}, key : Keys]
  <2>1. p.by = "header" /\ p.key \in Keys /\ p \in Presented
    BY <1>3 DEF Presented
  <2>2. Authenticated(p) <=> p.key \in Raw \cup Hashed
    BY <2>1 DEF Authenticated
  <2>3. Authenticated(p) \in BOOLEAN
    BY <2>1 DEF Authenticated
  <2>4. Actor(p) = IF ~Authenticated(p) THEN "anonymous"
                   ELSE IF p.key \in Raw THEN p.key ELSE "loopback"
    BY <2>1 DEF Actor
  <2> QED
    BY <1>1, <2>1, <2>2, <2>3, <2>4 DEF Actors
<1>4. CASE p \in [by : {"cookie"}, cookie : cookies]
  <2>1. p.by = "cookie" /\ p.cookie \in Cookie /\ p \in Presented
    BY <1>4 DEF Presented, CallersTypeOK
  <2>2. p.cookie.signer \in Keys /\ p.cookie.issued \in Nat /\ clock \in Nat /\ Ttl \in Nat
    BY <2>1, AccessAssumption DEF Cookie, CallersTypeOK
  <2>3. Authenticated(p) <=> Valid(p.cookie)
    BY <2>1 DEF Authenticated
  <2>4. Valid(p.cookie) => p.cookie.signer \in Raw /\ clock <= p.cookie.issued + Ttl
    BY <2>2 DEF Valid
  <2>5. Authenticated(p) \in BOOLEAN
    BY <2>1 DEF Authenticated, Valid
  <2>6. Actor(p) = IF ~Authenticated(p) THEN "anonymous" ELSE p.cookie.signer
    BY <2>1 DEF Actor
  <2> QED
    BY <1>1, <2>1, <2>2, <2>3, <2>4, <2>5, <2>6 DEF Actors
<1> QED
  BY <1>2, <1>3, <1>4 DEF Presents

(* A request is let through by a credential of that moment. *)
LEMMA ArriveKeeps ==
  ASSUME AccessInv, NEW c \in Callers, Arrive(c)
  PROVE  AccessInv'
<1>1. PICK p \in Presents :
        caller' = [caller EXCEPT ![c] =
          [pc |-> "route", presents |-> p, since |-> clock, past |-> past,
           auth |-> Authenticated(p), actor |-> Actor(p), result |-> "none"]]
  BY DEF Arrive
<1> DEFINE new == [pc |-> "route", presents |-> p, since |-> clock, past |-> past,
                   auth |-> Authenticated(p), actor |-> Actor(p), result |-> "none"]
<1>2. /\ p \in Presented /\ Authenticated(p) \in BOOLEAN /\ Actor(p) \in Actors
      /\ p.by = "header" /\ Authenticated(p) => p.key \in Raw \cup Hashed
      /\ p.by = "cookie" /\ Authenticated(p) =>
           p.cookie.signer \in Raw /\ clock <= p.cookie.issued + Ttl
      /\ Authenticated(p) => p.by \in {"loopback", "header", "cookie"}
      /\ Actor(p) \in Keys => Actor(p) \in Raw
      /\ Actor(p) = "loopback" => p.by = "loopback" \/ (p.by = "header" /\ p.key \notin Raw)
  BY PresentedTyped DEF AccessInv
<1>3. caller[c].pc = "idle" /\ UNCHANGED <<keyVars, clock, cookies, audit>>
  BY DEF Arrive
<1>4. new \in Served
  BY <1>2 DEF AccessInv, KeysInv, KeysTypeOK, CallersTypeOK, Served, Results
<1>5. \A key \in Raw : /\ Deed("retired", key) \in past => key \in env
                       /\ Deed("added", key) \notin past
  BY DEF AccessInv, KeysInv, Raw
<1>6. \A key \in Hashed : Deed("removed", key) \notin past
  BY DEF AccessInv, KeysInv
<1>7. /\ new.presents = p /\ new.since = clock /\ new.past = past
      /\ new.auth = Authenticated(p) /\ new.actor = Actor(p)
  OBVIOUS
<1>8. Earned(new)
  <2>1. p.by = "header" => KeyOf(p) = p.key
    BY DEF KeyOf
  <2>2. p.by = "cookie" => KeyOf(p) = p.cookie.signer
    BY DEF KeyOf
  <2> HIDE DEF new
  <2> QED
    BY <1>2, <1>5, <1>6, <1>7, <2>1, <2>2 DEF Earned
<1>9. CalledRight(new)
  <2> HIDE DEF new
  <2> QED
    BY <1>2, <1>5, <1>7 DEF CalledRight, Raw
<1>10. caller' = [caller EXCEPT ![c] = new]
  BY <1>1
<1> HIDE DEF new
<1>11. CallersTypeOK'
  BY <1>3, <1>4, <1>10 DEF AccessInv, CallersTypeOK
<1>12. \A b \in Callers : caller'[b] = IF b = c THEN new ELSE caller[b]
  BY <1>10 DEF AccessInv, CallersTypeOK
<1>13. Signed'
  <2>1. ASSUME NEW i \in DOMAIN audit
        PROVE  audit[i].of \in Callers /\ audit[i].of # c
    <3>1. audit[i] \in Logged
      BY DEF AccessInv, CallersTypeOK
    <3> QED
      BY <1>3, <3>1, WaitingNotServed DEF AccessInv, Signed, Logged
  <2> QED
    BY <1>3, <1>12, <2>1 DEF AccessInv, Signed
<1>14. KeysInv' /\ env' = env
  BY <1>3 DEF keyVars, AccessInv, KeysInv, KeysTypeOK, Raw, Hashed
<1>15. ASSUME NEW b \in Callers, caller'[b] \in Served
       PROVE  Earned(caller'[b]) /\ CalledRight(caller'[b])
  BY <1>8, <1>9, <1>12, <1>15 DEF AccessInv
<1> QED
  BY <1>11, <1>13, <1>14, <1>15 DEF AccessInv, Earned, CalledRight

(* Who a request is taken for stays so while it moves on. *)
LEMMA ServedKeeps ==
  ASSUME AccessInv, NEW c \in Callers, NEW new \in Served, caller[c] \in Served,
         caller' = [caller EXCEPT ![c] = new],
         new.presents = caller[c].presents, new.since = caller[c].since,
         new.past = caller[c].past, new.auth = caller[c].auth, new.actor = caller[c].actor,
         UNCHANGED <<keyVars, clock, cookies>>,
         audit' \in Seq(Logged),
         \A i \in DOMAIN audit' :
           \/ i \in DOMAIN audit /\ audit'[i] = audit[i]
           \/ audit'[i].of = c /\ audit'[i].actor = caller[c].actor
  PROVE  AccessInv'
<1>1. CallersTypeOK'
  BY DEF AccessInv, CallersTypeOK
<1>2. \A b \in Callers : caller'[b] = IF b = c THEN new ELSE caller[b]
  BY DEF AccessInv, CallersTypeOK
<1>3. KeysInv' /\ env' = env
  BY DEF keyVars, AccessInv, KeysInv, KeysTypeOK, Raw, Hashed
<1>4. Earned(caller[c]) /\ CalledRight(caller[c])
  BY DEF AccessInv
<1>5. Earned(new) /\ CalledRight(new)
  BY <1>4 DEF Earned, CalledRight
<1>6. ASSUME NEW b \in Callers, caller'[b] \in Served
      PROVE  Earned(caller'[b]) /\ CalledRight(caller'[b])
  BY <1>2, <1>5, <1>6 DEF AccessInv
<1>7. Signed'
  <2> SUFFICES ASSUME NEW i \in DOMAIN audit'
               PROVE  caller'[audit'[i].of] \in Served
                      /\ caller'[audit'[i].of].actor = audit'[i].actor
    BY DEF Signed
  <2>1. CASE i \in DOMAIN audit /\ audit'[i] = audit[i]
    <3>1. audit[i].of \in Callers
      <4>1. audit[i] \in Logged
        BY <2>1 DEF AccessInv, CallersTypeOK
      <4> QED
        BY <4>1 DEF Logged
    <3>2. caller[audit[i].of] \in Served /\ caller[audit[i].of].actor = audit[i].actor
      BY <2>1 DEF AccessInv, Signed
    <3> QED
      BY <1>2, <2>1, <3>1, <3>2
  <2>2. CASE audit'[i].of = c /\ audit'[i].actor = caller[c].actor
    BY <1>2, <2>2
  <2> QED
    BY <2>1, <2>2
<1> QED
  BY <1>1, <1>3, <1>6, <1>7 DEF AccessInv, Earned, CalledRight

(* Its route answers. *)
LEMMA RouteKeeps ==
  ASSUME AccessInv, NEW c \in Callers, Route(c)
  PROVE  AccessInv'
<1>1. PICK answer \in Codes(caller[c]) :
        caller' = [caller EXCEPT ![c] = [@ EXCEPT !.pc = "audit", !.result = ResultOf(answer)]]
  BY DEF Route
<1>2. caller[c].pc = "route" /\ UNCHANGED <<keyVars, clock, cookies, audit>>
  BY DEF Route
<1> DEFINE old == caller[c]
           new == [old EXCEPT !.pc = "audit", !.result = ResultOf(answer)]
<1>3. old \in Served
  BY <1>2 DEF AccessInv, CallersTypeOK, Waiting
<1>4. ResultOf(answer) \in Results
  BY DEF ResultOf, Results
<1>5. new \in Served /\ new.presents = old.presents /\ new.since = old.since
      /\ new.past = old.past /\ new.auth = old.auth /\ new.actor = old.actor
  BY <1>3, <1>4 DEF Served
<1>6. caller' = [caller EXCEPT ![c] = new]
  BY <1>1
<1>7. audit' \in Seq(Logged) /\ \A i \in DOMAIN audit' : i \in DOMAIN audit /\ audit'[i] = audit[i]
  BY <1>2 DEF AccessInv, CallersTypeOK
<1> HIDE DEF new
<1> QED
  BY <1>2, <1>3, <1>5, <1>6, <1>7, ServedKeeps

(* The audit log gets what was done. *)
LEMMA WriteKeeps ==
  ASSUME AccessInv, NEW c \in Callers, WriteEntry(c)
  PROVE  AccessInv'
<1>1. PICK pos \in {"written", "lost"} :
        /\ caller' = [caller EXCEPT ![c].pc = pos]
        /\ audit' = IF pos = "written" THEN Append(audit, Entry(c)) ELSE audit
  BY DEF WriteEntry
<1>2. caller[c].pc = "audit" /\ UNCHANGED <<keyVars, clock, cookies>>
  BY DEF WriteEntry
<1> DEFINE old == caller[c]
           new == [old EXCEPT !.pc = pos]
<1>3. old \in Served
  BY <1>2 DEF AccessInv, CallersTypeOK, Waiting
<1>4. new \in Served /\ new.presents = old.presents /\ new.since = old.since
      /\ new.past = old.past /\ new.auth = old.auth /\ new.actor = old.actor
  BY <1>1, <1>3 DEF Served
<1>5. caller' = [caller EXCEPT ![c] = new]
  BY <1>1
<1>6. Entry(c) \in Logged /\ Entry(c).of = c /\ Entry(c).actor = old.actor
  BY <1>3 DEF Entry, Served, Logged
<1>7. audit \in Seq(Logged)
  BY DEF AccessInv, CallersTypeOK
<1> HIDE DEF new
<1>8. audit' \in Seq(Logged)
  BY <1>1, <1>6, <1>7
<1>9. ASSUME NEW i \in DOMAIN audit'
      PROVE  \/ i \in DOMAIN audit /\ audit'[i] = audit[i]
             \/ audit'[i].of = c /\ audit'[i].actor = caller[c].actor
  <2> DEFINE e == Entry(c)
  <2>1. e.of = c /\ e.actor = caller[c].actor /\ e \in Logged
    BY <1>6
  <2>2. audit' = Append(audit, e) \/ audit' = audit
    BY <1>1
  <2> HIDE DEF e
  <2> QED
    BY <1>7, <1>9, <2>1, <2>2
<1> QED
  BY <1>2, <1>3, <1>4, <1>5, <1>8, <1>9, ServedKeeps

(* Every step keeps the invariant. *)
LEMMA AccessStep == AccessInv /\ [AccessNext]_accessVars => AccessInv'
<1> SUFFICES ASSUME AccessInv, [AccessNext]_accessVars PROVE AccessInv'
  OBVIOUS
<1>1. CASE RotateFile \/ RotateHash \/ AddKey \/ RemoveKey \/ Login \/ Passes
             \/ UNCHANGED accessVars
  BY <1>1, KeysKeep
<1>2. CASE \E c \in Callers : Arrive(c)
  BY <1>2, ArriveKeeps
<1>3. CASE \E c \in Callers : Route(c)
  BY <1>3, RouteKeeps
<1>4. CASE \E c \in Callers : WriteEntry(c)
  BY <1>4, WriteKeeps
<1> QED
  BY <1>1, <1>2, <1>3, <1>4 DEF AccessNext

(* For any keys, sessions and requests, and any order of rotations, adds   *)
(* and removals: a rotation ends the sessions of the keys it replaces, a   *)
(* key rotated away and removed opens nothing, but for keys of the         *)
(* environment, and no key rotated away is named in the audit log for a    *)
(* later request (cli_auth.py, auth.py, middleware.py).                    *)
THEOREM AccessIsTruthful == AccessSpec => []AccessTruthful
<1>1. AccessInv => AccessTruthful
  <2> SUFFICES ASSUME AccessInv PROVE SessionsEnd /\ KeysEnd /\ ActorsKnown
    BY DEF AccessTruthful
  <2>1. ASSUME NEW c \in Callers, Honoured(c)
        PROVE  Earned(caller[c]) /\ caller[c].auth /\ caller[c].presents.by # "loopback"
    <3>1. caller[c] \in Served
      BY <2>1 DEF AccessInv, CallersTypeOK, Honoured, Waiting
    <3> QED
      BY <2>1, <3>1 DEF AccessInv, Honoured
  <2>2. SessionsEnd
    <3> SUFFICES ASSUME NEW c \in Callers, Honoured(c), caller[c].presents.by = "cookie"
                 PROVE  /\ caller[c].since <= caller[c].presents.cookie.issued + Ttl
                        /\ Had(c, "retired") => caller[c].presents.cookie.signer \in env
                        /\ ~Had(c, "added")
      BY DEF SessionsEnd
    <3> QED
      BY <2>1 DEF Earned, Had
  <2>3. KeysEnd
    BY <2>1 DEF KeysEnd, Earned, Had
  <2>4. ActorsKnown
    <3> SUFFICES ASSUME NEW i \in DOMAIN audit
                 PROVE  LET r == caller[audit[i].of] IN
                        /\ audit[i].actor \in Keys \ env => Deed("retired", audit[i].actor) \notin r.past
                        /\ audit[i].actor = "loopback" =>
                             \/ r.presents.by = "loopback"
                             \/ r.presents.by = "header" /\ r.presents.key \notin env
      BY DEF ActorsKnown
    <3>1. audit[i].of \in Callers
      <4>1. audit[i] \in Logged
        BY DEF AccessInv, CallersTypeOK
      <4> QED
        BY <4>1 DEF Logged
    <3>2. CalledRight(caller[audit[i].of]) /\ caller[audit[i].of].actor = audit[i].actor
      BY <3>1 DEF AccessInv, Signed
    <3> QED
      BY <3>2 DEF CalledRight
  <2> QED
    BY <2>2, <2>3, <2>4
<1> QED
  BY AccessInitInv, AccessStep, <1>1, PTL DEF AccessSpec

-----------------------------------------------------------------------------
(* The model of the target *)

Known(path) == Key("GET", path) \in DOMAIN endpoints
LinkedPaths == {link.path : link \in OwnLinks}

(* Every endpoint is a GET of a path some source has named, and the seeds  *)
(* count once they were added.                                             *)
EndpointsNamed ==
  \A key \in DOMAIN endpoints :
    /\ key = Key("GET", key[2])
    /\ \/ key[2] = "/" \/ key[2] \in LinkedPaths
       \/ surfPc \in {"spec", "done"} /\ key[2] \in ToSet(Seeds)

(* The seeds are in once they were added: an OpenAPI document never finds  *)
(* an empty model.  And the home page does not enter without its links.    *)
SurfInv ==
  /\ surfPc \in {"home", "headless", "seeds", "spec", "done"}
  /\ target \in [page : Pages, visits : Visits, spec : Specs]
  /\ EndpointsNamed
  /\ surfPc \in {"spec", "done"} => \A path \in ToSet(Seeds) : Known(path)
  /\ Known("/") /\ "/" \notin LinkedPaths =>
       \A link \in ToSet(target.page) : ~link.foreign => Known(link.path)

(* What is added is in the model, and nothing that was in it changes. *)
LEMMA AddedStay ==
  ASSUME NEW new, endpoints' = AddedAll(new)
  PROVE  /\ DOMAIN endpoints' = DOMAIN endpoints \cup NamedKeys(new)
         /\ \A key \in DOMAIN endpoints : endpoints'[key] = endpoints[key]
  BY DEF AddedAll, EndpointOf

(* The paths a source of links names are those of its own links. *)
LEMMA OwnKeys ==
  ASSUME NEW links, NEW key
  PROVE  key \in NamedKeys(OfOrigin(links)) <=>
           \E link \in ToSet(links) : ~link.foreign /\ key = Key("GET", link.path)
<1> DEFINE f == OfOrigin(links)
<1>1. DOMAIN f = Own(links) /\ \A i \in Own(links) : f[i].key = Key("GET", links[i].path)
  BY DEF OfOrigin, Linked
<1> HIDE DEF f
<1>2. key \in NamedKeys(f) <=> \E i \in Own(links) : key = Key("GET", links[i].path)
  BY <1>1 DEF NamedKeys
<1>3. \A i \in Own(links) : i \in DOMAIN links /\ ~links[i].foreign
  BY DEF Own
<1>4. \A i \in DOMAIN links : ~links[i].foreign => i \in Own(links)
  BY DEF Own
<1> QED
  BY <1>2, <1>3, <1>4 DEF f, ToSet

(* The home page names itself and its own links. *)
LEMMA HomeKeys ==
  ASSUME SurfInv, NEW key
  PROVE  key \in NamedKeys(HomePage) <=>
           \/ key = Key("GET", "/")
           \/ \E link \in ToSet(target.page) : ~link.foreign /\ key = Key("GET", link.path)
<1> DEFINE page == target.page
<1>0. DOMAIN page \subseteq Nat \ {0}
  BY SurfaceAssumption DEF SurfInv
<1>1. /\ DOMAIN HomePage = {0} \cup Own(page)
      /\ HomePage[0].key = Key("GET", "/")
      /\ \A i \in Own(page) : i # 0 => HomePage[i].key = Key("GET", page[i].path)
  BY DEF HomePage, Named, Linked
<1>2. \A i \in Own(page) : i # 0 /\ i \in DOMAIN page /\ ~page[i].foreign
  BY <1>0 DEF Own
<1>3. \A i \in DOMAIN page : ~page[i].foreign => i \in Own(page)
  BY DEF Own
<1>4. key \in NamedKeys(HomePage) <=>
        key = Key("GET", "/") \/ \E i \in Own(page) : key = Key("GET", page[i].path)
  BY <1>1, <1>2 DEF NamedKeys
<1> HIDE DEF page
<1>5. key \in NamedKeys(HomePage) <=>
        \/ key = Key("GET", "/")
        \/ \E link \in ToSet(page) : ~link.foreign /\ key = Key("GET", link.path)
  BY <1>2, <1>3, <1>4 DEF ToSet
<1> QED
  BY <1>5 DEF page

(* The seeds name their paths. *)
LEMMA SeedKeys ==
  ASSUME NEW key
  PROVE  key \in NamedKeys([i \in DOMAIN Seeds |-> Named(Seeds[i], "seed")]) <=>
           \E path \in ToSet(Seeds) : key = Key("GET", path)
  BY DEF NamedKeys, Named, ToSet

(* A mapper that starts has an empty model. *)
LEMMA SurfInitInv == SurfInit => SurfInv
  BY DEF SurfInit, SurfInv, EndpointsNamed, Known, NoEndpoints

(* Two paths with one key are one. *)
LEMMA KeyPath ==
  ASSUME NEW p, NEW q
  PROVE  /\ Key("GET", p)[2] = p
         /\ Key("GET", p) = Key("GET", q) => p = q
  BY DEF Key

(* Each source leaves the invariant and every endpoint that was known. *)
LEMMA SurfStep ==
  ASSUME SurfInv, SurfNext
  PROVE  /\ SurfInv'
         /\ \A key \in DOMAIN endpoints :
              key \in DOMAIN endpoints' /\ endpoints'[key] = endpoints[key]
<1>0. /\ target' = target /\ OwnLinks' = OwnLinks /\ LinkedPaths' = LinkedPaths
      /\ target \in [page : Pages, visits : Visits, spec : Specs]
  BY DEF SurfNext, MapHome, MapHeadless, MapSeeds, MapSpec, MapStep, OwnLinks, LinkedPaths, SurfInv
<1>1. ASSUME UNCHANGED endpoints, surfPc \in {"home", "headless"},
             surfPc' \in {"headless", "seeds"}
      PROVE  SurfInv'
  BY <1>0, <1>1 DEF SurfInv, EndpointsNamed, Known
<1>2. ASSUME NEW new, endpoints' = AddedAll(new), surfPc' \in {"headless", "seeds"},
             surfPc \in {"home", "headless"},
             \A key \in NamedKeys(new) :
               \E path \in LinkedPaths \cup {"/"} : key = Key("GET", path),
             \/ \A link \in ToSet(target.page) :
                  ~link.foreign => Key("GET", link.path) \in NamedKeys(new)
             \/ Key("GET", "/") \in NamedKeys(new) => "/" \in LinkedPaths
      PROVE  SurfInv'
  <2>1. DOMAIN endpoints' = DOMAIN endpoints \cup NamedKeys(new)
    BY <1>2, AddedStay
  <2>2. EndpointsNamed'
    BY <1>0, <1>2, <2>1, KeyPath DEF SurfInv, EndpointsNamed
  <2>3. Known("/")' /\ "/" \notin LinkedPaths =>
          \A link \in ToSet(target.page) : ~link.foreign => Known(link.path)'
    BY <1>2, <2>1 DEF SurfInv, Known
  <2> QED
    BY <1>0, <1>2, <2>2, <2>3 DEF SurfInv
<1>3. CASE MapHome
  <2>1. surfPc = "home" /\ surfPc' = "headless"
    BY <1>3 DEF MapHome, MapStep
  <2>2. CASE endpoints' = AddedAll(HomePage)
    <3>1. \A link \in ToSet(target.page) : ~link.foreign =>
            link.path \in LinkedPaths /\ Key("GET", link.path) \in NamedKeys(HomePage)
      BY HomeKeys DEF LinkedPaths, OwnLinks
    <3>2. \A key \in NamedKeys(HomePage) :
            \E path \in LinkedPaths \cup {"/"} : key = Key("GET", path)
      BY <3>1, HomeKeys
    <3> QED
      BY <1>2, <2>1, <2>2, <3>1, <3>2, AddedStay
  <2> QED
    BY <1>1, <1>3, <2>1, <2>2 DEF MapHome
<1>4. CASE MapHeadless
  <2>1. surfPc = "headless" /\ surfPc' = "seeds"
    BY <1>4 DEF MapHeadless, MapStep
  <2>2. CASE endpoints' = AddedAll(OfOrigin(target.visits))
    <3>1. \A key \in NamedKeys(OfOrigin(target.visits)) :
            \E path \in LinkedPaths : key = Key("GET", path)
      BY OwnKeys DEF LinkedPaths, OwnLinks
    <3>2. Key("GET", "/") \in NamedKeys(OfOrigin(target.visits)) => "/" \in LinkedPaths
      BY <3>1, KeyPath
    <3> QED
      BY <1>2, <2>1, <2>2, <3>1, <3>2, AddedStay
  <2> QED
    BY <1>1, <1>4, <2>1, <2>2 DEF MapHeadless
<1>5. CASE MapSeeds
  <2> DEFINE new == [i \in DOMAIN Seeds |-> Named(Seeds[i], "seed")]
  <2>1. surfPc = "seeds" /\ surfPc' = "spec" /\ endpoints' = AddedAll(new)
    BY <1>5 DEF MapSeeds, MapStep
  <2>2. \A key : key \in NamedKeys(new) <=> \E path \in ToSet(Seeds) : key = Key("GET", path)
    BY SeedKeys
  <2> HIDE DEF new
  <2>3. DOMAIN endpoints' = DOMAIN endpoints \cup NamedKeys(new)
    BY <2>1, AddedStay
  <2>4. EndpointsNamed'
    BY <1>0, <2>1, <2>2, <2>3, KeyPath DEF SurfInv, EndpointsNamed
  <2>5. \A path \in ToSet(Seeds) : Known(path)'
    BY <2>2, <2>3 DEF Known
  <2>6. Known("/")' => Known("/")
    BY <2>2, <2>3, KeyPath, SurfaceAssumption DEF Known
  <2>7. \A path : Known(path) => Known(path)'
    BY <2>3 DEF Known
  <2>8. SurfInv'
    BY <1>0, <2>1, <2>4, <2>5, <2>6, <2>7 DEF SurfInv
  <2> QED
    BY <2>1, <2>8, AddedStay
<1>6. CASE MapSpec
  <2>1. surfPc = "spec" /\ surfPc' = "done"
    BY <1>6 DEF MapSpec, MapStep
  <2>2. DOMAIN endpoints # {}
    <3>1. Seeds[1] \in ToSet(Seeds)
      BY SurfaceAssumption DEF ToSet
    <3> QED
      BY <2>1, <3>1 DEF SurfInv, Known
  <2>3. UNCHANGED endpoints
    BY <1>6, <2>2 DEF MapSpec
  <2> QED
    BY <1>0, <2>1, <2>3 DEF SurfInv, EndpointsNamed, Known
<1> QED
  BY <1>3, <1>4, <1>5, <1>6 DEF SurfNext

(* What the mapper hands over at the end is complete. *)
LEMMA SurfInvComplete == SurfInv => SurfaceComplete
<1> SUFFICES ASSUME SurfInv, surfPc = "done" PROVE SurfaceComplete
  BY DEF SurfaceComplete
<1> DEFINE gets == {key[2] : key \in {k \in DOMAIN endpoints : k[1] = "GET"}}
           own  == {link.path : link \in {l \in ToSet(target.page) : ~l.foreign}}
<1>1. \A path : path \in gets <=> Known(path)
  <2>1. \A path : Known(path) => path \in gets
    BY KeyPath DEF Known, Key
  <2>2. ASSUME NEW path \in gets PROVE Known(path)
    BY DEF SurfInv, EndpointsNamed, Known
  <2> QED
    BY <2>1, <2>2
<1>2. ToSet(Seeds) \subseteq gets
  BY <1>1 DEF SurfInv
<1>3. gets \subseteq ToSet(Seeds) \cup {"/"} \cup LinkedPaths
  <2>1. ASSUME NEW path, Known(path)
        PROVE  path \in ToSet(Seeds) \cup {"/"} \cup LinkedPaths
    BY <2>1, KeyPath DEF SurfInv, EndpointsNamed, Known
  <2> QED
    BY <1>1, <2>1
<1>4. "/" \in gets \ LinkedPaths => own \subseteq gets
  BY <1>1 DEF SurfInv
<1> QED
  BY <1>2, <1>3, <1>4 DEF SurfaceComplete, LinkedPaths

(* SurfaceFaithful holds in every run of the mapper. *)
THEOREM SurfacesAreFaithful == SurfSpec => SurfaceFaithful
<1>1. SurfInv /\ [SurfNext]_surfVars => SurfInv'
  <2>1. SurfInv /\ UNCHANGED surfVars => SurfInv'
    BY DEF SurfInv, surfVars, EndpointsNamed, Known, LinkedPaths, OwnLinks
  <2> QED
    BY <2>1, SurfStep
<1>2. SurfInv /\ [SurfNext]_surfVars =>
        [\A key \in DOMAIN endpoints :
           key \in DOMAIN endpoints' /\ endpoints'[key] = endpoints[key]]_surfVars
  BY SurfStep
<1> QED
  BY <1>1, <1>2, SurfInitInv, SurfInvComplete, PTL DEF SurfSpec, SurfaceFaithful, EndpointsStable

-----------------------------------------------------------------------------
(* The crawler *)

(* A set of numbers that is not empty has a least one. *)
LEMMA LeastNumber ==
  ASSUME NEW S \in SUBSET Nat, S # {}
  PROVE  \E m \in S : \A x \in S : m <= x
<1> DEFINE R == {ss \in Nat \X Nat : ss[1] < ss[2]}
<1>0. OpToRel(<, Nat) = R
  BY DEF OpToRel
<1>1. PICK m \in S : \A x \in S : ~ (<<x, m>> \in R)
  BY <1>0, NatLessThanWellFounded, WFMin
<1>2. \A x \in S : x \in Nat /\ m \in Nat /\ ~ (x < m)
  BY <1>1
<1> QED
  BY <1>2

(* What is within one link more than S. *)
Grown(S) ==
  S \cup UNION {site.links[page] \ (Closed \cup robots) : page \in parsed \cap S}

(* The first k + 1 values of Within. *)
ValuesTo(f, k) ==
  /\ f = [i \in 0..k |-> f[i]]
  /\ f[0] = {StartUrl} \ (Closed \cup robots)
  /\ \A i \in 0..k : i < k => f[i + 1] = Grown(f[i])

(* There is such a sequence of any length. *)
LEMMA ValuesExist == \A k \in Nat : \E f : ValuesTo(f, k)
<1> DEFINE Bad == {k \in Nat : ~ \E f : ValuesTo(f, k)}
<1> SUFFICES ASSUME Bad # {} PROVE FALSE
  OBVIOUS
<1>1. PICK m \in Bad : \A x \in Bad : m <= x
  BY LeastNumber
<1>2. m # 0
  <2> DEFINE f == [i \in 0..0 |-> {StartUrl} \ (Closed \cup robots)]
  <2>1. ValuesTo(f, 0)
    BY DEF ValuesTo
  <2> QED
    BY <1>1, <2>1
<1>3. m - 1 \in Nat /\ m - 1 \notin Bad
  BY <1>1, <1>2
<1>4. PICK f : ValuesTo(f, m - 1)
  BY <1>3
<1> DEFINE g == [i \in 0..m |-> IF i < m THEN f[i] ELSE Grown(f[m - 1])]
<1>5. ValuesTo(g, m)
  <2>1. g = [i \in 0..m |-> g[i]] /\ g[0] = f[0]
    BY <1>2, <1>3
  <2>2. ASSUME NEW i \in 0..m, i < m PROVE g[i + 1] = Grown(g[i])
    <3>1. CASE i < m - 1
      <4>1. g[i + 1] = f[i + 1] /\ g[i] = f[i] /\ i \in 0..(m - 1)
        BY <1>3, <2>2, <3>1
      <4> QED
        BY <1>4, <3>1, <4>1 DEF ValuesTo
    <3>2. CASE i = m - 1
      <4>1. g[i + 1] = Grown(f[m - 1]) /\ g[i] = f[m - 1]
        BY <1>3, <2>2, <3>2
      <4> QED
        BY <3>2, <4>1
    <3> QED
      BY <1>3, <2>2, <3>1, <3>2
  <2> QED
    BY <1>4, <2>1, <2>2 DEF ValuesTo
<1> QED
  BY <1>1, <1>5

(* Two such sequences agree as far as both go. *)
LEMMA ValuesAgree ==
  ASSUME NEW k \in Nat, NEW l \in Nat, k <= l, NEW f, NEW g, ValuesTo(f, k), ValuesTo(g, l)
  PROVE  \A i \in 0..k : f[i] = g[i]
<1> DEFINE Bad == {i \in 0..k : f[i] # g[i]}
<1> SUFFICES ASSUME Bad # {} PROVE FALSE
  OBVIOUS
<1>1. PICK m \in Bad : \A x \in Bad : m <= x
  <2>1. Bad \in SUBSET Nat
    OBVIOUS
  <2> HIDE DEF Bad
  <2> QED
    BY <2>1, LeastNumber
<1>2. m # 0
  BY <1>1 DEF ValuesTo
<1>3. m - 1 \in 0..k /\ m - 1 \in 0..l /\ m - 1 < k /\ m - 1 < l /\ m - 1 \notin Bad
  BY <1>1, <1>2
<1>4. f[(m - 1) + 1] = Grown(f[m - 1]) /\ g[(m - 1) + 1] = Grown(g[m - 1])
  BY <1>3 DEF ValuesTo
<1>5. (m - 1) + 1 = m
  BY <1>1
<1> QED
  BY <1>1, <1>3, <1>4, <1>5

(* Within is what its definition says: n links are one more than n - 1. *)
LEMMA WithinSteps ==
  /\ Within[0] = {StartUrl} \ (Closed \cup robots)
  /\ \A n \in Nat : Within[n + 1] = Grown(Within[n])
<1> DEFINE R(n) == CHOOSE f : ValuesTo(f, n)
           h == [n \in Nat |-> R(n)[n]]
<1>1. \A n \in Nat : ValuesTo(R(n), n)
  BY ValuesExist
<1>2. h[0] = {StartUrl} \ (Closed \cup robots)
  BY <1>1 DEF ValuesTo
<1>3. ASSUME NEW n \in Nat PROVE h[n + 1] = Grown(h[n])
  <2>1. R(n + 1)[n + 1] = Grown(R(n + 1)[n])
    BY <1>1 DEF ValuesTo
  <2>2. R(n)[n] = R(n + 1)[n]
    <3>1. ValuesTo(R(n), n) /\ ValuesTo(R(n + 1), n + 1) /\ n + 1 \in Nat /\ n <= n + 1
      BY <1>1
    <3> HIDE DEF R
    <3>2. \A i \in 0..n : R(n)[i] = R(n + 1)[i]
      BY <3>1, ValuesAgree
    <3> QED
      BY <3>2
  <2> QED
    BY <2>1, <2>2
<1> HIDE DEF h
<1> DEFINE D(w) == [n \in Nat |-> IF n = 0 THEN {StartUrl} \ (Closed \cup robots)
                                  ELSE w[n - 1] \cup
                                    UNION {site.links[page] \ (Closed \cup robots) :
                                             page \in parsed \cap w[n - 1]}]
<1>4. h = D(h)
  <2>1. \A n \in Nat : n # 0 => h[n] = Grown(h[n - 1])
    <3> TAKE n \in Nat
    <3> HAVE n # 0
    <3>1. n - 1 \in Nat /\ (n - 1) + 1 = n
      OBVIOUS
    <3> QED
      BY <1>3, <3>1
  <2>2. h = [n \in Nat |-> h[n]]
    BY DEF h
  <2> QED
    BY <1>2, <2>1, <2>2 DEF Grown
<1>5. Within = CHOOSE w : w = D(w)
  BY DEF Within
<1>6. Within = D(Within)
  BY <1>4, <1>5
<1>7. Within[0] = {StartUrl} \ (Closed \cup robots)
  BY <1>6
<1>8. ASSUME NEW n \in Nat PROVE Within[n + 1] = Grown(Within[n])
  <2>1. n + 1 \in Nat /\ n + 1 # 0 /\ (n + 1) - 1 = n
    OBVIOUS
  <2> QED
    BY <1>6, <2>1 DEF Grown
<1> QED
  BY <1>7, <1>8

QueueItem  == [url : Urls, depth : Nat]
StartItem == [url |-> StartUrl, depth |-> 0]

(* Admitted, with what is closed or disallowed as a parameter. *)
Fits(shut, url, depth) == depth <= MaxDepth /\ url \notin shut

(* The pages requested and those still queued are one line q, of which the *)
(* first k were requested: every page once, by depth, within two depths    *)
(* from the last one requested.                                            *)
InLine(q, k, shut) ==
  /\ q \in Seq(QueueItem) /\ k \in 0..Len(q) /\ q # <<>> /\ q[1] = StartItem
  /\ \A i \in 1..Len(q) : Fits(shut, q[i].url, q[i].depth)
  /\ \A i, j \in 1..Len(q) : q[i].url = q[j].url => i = j
  /\ \A i, j \in 1..Len(q) : i <= j => q[i].depth <= q[j].depth
  /\ \A i, j \in 1..Len(q) : k <= i => q[j].depth <= q[i].depth + 1

(* Every page but the start is one link below a page that was parsed.      *)
Parented(q, k, pages, links) ==
  \A i \in 1..Len(q) :
    i # 1 => \E p \in 1..k : /\ q[p].url \in pages /\ q[i].url \in links[q[p].url]
                             /\ q[i].depth = q[p].depth + 1

(* What was seen is in the line, but for robots.txt, and what was parsed   *)
(* was requested.                                                          *)
InSight(q, k, seen, pages) ==
  /\ \A i \in 1..Len(q) : q[i].url \in seen
  /\ \A u \in seen : u = RobotsUrl \/ \E i \in 1..Len(q) : q[i].url = u
  /\ \A u \in pages : \E p \in 1..k : q[p].url = u

(* The links of a parsed page are in the line, at most one deeper, unless  *)
(* robots.txt is linked, which was fetched before.                         *)
Placed(q, d, seen, u) ==
  \/ u = RobotsUrl /\ u \in seen /\ \A i \in 1..Len(q) : q[i].url # u
  \/ \E i \in 1..Len(q) : q[i].url = u /\ q[i].depth <= d
Followed(q, k, seen, pages, links, shut) ==
  \A p \in 1..k : q[p].url \in pages =>
    \A u \in links[q[p].url] :
      Fits(shut, u, q[p].depth + 1) => Placed(q, q[p].depth + 1, seen, u)

Chain(q, k, seen, pages, links, shut) ==
  /\ InLine(q, k, shut) /\ Parented(q, k, pages, links)
  /\ InSight(q, k, seen, pages) /\ Followed(q, k, seen, pages, links, shut)

(* A request that fails moves the cursor. *)
LEMMA ChainFails ==
  ASSUME NEW q, NEW k, NEW seen, NEW pages, NEW links, NEW shut,
         Chain(q, k, seen, pages, links, shut), k < Len(q)
  PROVE  Chain(q, k + 1, seen, pages, links, shut)
<1> DEFINE n == Len(q)
<1>0. q \in Seq(QueueItem) /\ n \in Nat /\ k \in 0..n /\ k + 1 \in 0..n
  BY DEF Chain, InLine
<1> HIDE DEF n
<1>1. InLine(q, k + 1, shut)
  <2>1. \A i, j \in 1..n : k + 1 <= i => q[j].depth <= q[i].depth + 1
    BY <1>0 DEF Chain, InLine, n
  <2> QED
    BY <1>0, <2>1 DEF Chain, InLine, n
<1>2. Parented(q, k + 1, pages, links)
  <2>1. 1..k \subseteq 1..(k + 1)
    BY <1>0
  <2> QED
    BY <2>1 DEF Chain, Parented
<1>3. InSight(q, k + 1, seen, pages)
  <2>1. 1..k \subseteq 1..(k + 1)
    BY <1>0
  <2> QED
    BY <2>1 DEF Chain, InSight
<1>4. Followed(q, k + 1, seen, pages, links, shut)
  <2>1. ASSUME NEW p \in 1..(k + 1), q[p].url \in pages PROVE p \in 1..k
    <3>1. PICK r \in 1..k : q[r].url = q[p].url
      BY <2>1 DEF Chain, InSight
    <3>2. r \in 1..n /\ p \in 1..n
      BY <1>0, <3>1
    <3>3. r = p
      BY <3>1, <3>2 DEF Chain, InLine, n
    <3> QED
      BY <3>1, <3>3
  <2> QED
    BY <2>1 DEF Chain, Followed
<1> QED
  BY <1>1, <1>2, <1>3, <1>4 DEF Chain

(* A line with more at its end: what was in it keeps its place. *)
LEMMA LineGrows ==
  ASSUME NEW q \in Seq(QueueItem), NEW new \in Seq(QueueItem)
  PROVE  /\ q \o new \in Seq(QueueItem) /\ Len(q \o new) = Len(q) + Len(new)
         /\ \A i \in 1..Len(q) : (q \o new)[i] = q[i]
         /\ \A i \in 1..Len(new) : (q \o new)[Len(q) + i] = new[i]
<1>1. q \o new \in Seq(QueueItem) /\ Len(q \o new) = Len(q) + Len(new)
  BY ConcatProperties
<1>2. \A i \in 1..Len(q) + Len(new) :
        (q \o new)[i] = IF i <= Len(q) THEN q[i] ELSE new[i - Len(q)]
  BY ConcatProperties
<1>3. ASSUME NEW i \in 1..Len(q) PROVE (q \o new)[i] = q[i]
  <2>1. i \in 1..Len(q) + Len(new) /\ i <= Len(q)
    OBVIOUS
  <2> QED
    BY <1>2, <2>1
<1>4. ASSUME NEW i \in 1..Len(new) PROVE (q \o new)[Len(q) + i] = new[i]
  <2>1. /\ Len(q) + i \in 1..Len(q) + Len(new) /\ ~ (Len(q) + i <= Len(q))
        /\ (Len(q) + i) - Len(q) = i
    OBVIOUS
  <2> QED
    BY <1>2, <2>1
<1> QED
  BY <1>1, <1>3, <1>4

(* At most at most is at most. *)
LEMMA LeqTrans == \A a, b, c \in Nat : a <= b /\ b <= c => a <= c
  OBVIOUS

(* The answer for the page at the cursor: r is q with the m new links of   *)
(* the page in some order, one deeper than it.                             *)
AnswerAt(q, k, seen, links, shut, item, d, new, m, order, r) ==
  /\ k < Len(q) /\ item = q[k + 1] /\ d = item.depth + 1
  /\ \A u : u \in new <=> u \in links[item.url] \ seen /\ Fits(shut, u, d)
  /\ m \in Nat
  /\ \A i \in 1..m : order[i] \in new
  /\ \A i, j \in 1..m : order[i] = order[j] => i = j
  /\ \A u \in new : \E i \in 1..m : order[i] = u
  /\ r \in Seq(QueueItem) /\ Len(r) = Len(q) + m
  /\ \A i \in 1..Len(q) : r[i] = q[i]
  /\ \A i \in 1..m : r[Len(q) + i].url = order[i] /\ r[Len(q) + i].depth = d

(* An answer parses the page at the cursor and appends its new links. *)
LEMMA ChainAnswers ==
  ASSUME NEW q, NEW k, NEW seen, NEW pages, NEW links, NEW shut, NEW item, NEW d, NEW new,
         NEW m, NEW order, NEW r,
         Chain(q, k, seen, pages, links, shut),
         AnswerAt(q, k, seen, links, shut, item, d, new, m, order, r)
  PROVE  Chain(r, k + 1, seen \cup new, pages \cup {item.url}, links, shut)
<1> DEFINE n == Len(q)
<1>1. k < n /\ item = q[k + 1] /\ d = item.depth + 1 /\ m \in Nat
  BY DEF AnswerAt
<1>order. /\ \A i \in 1..m : order[i] \in new
          /\ \A i, j \in 1..m : order[i] = order[j] => i = j
          /\ \A u \in new : \E i \in 1..m : order[i] = u
  BY DEF AnswerAt
<1>0. /\ q \in Seq(QueueItem) /\ n \in Nat /\ k \in 0..n /\ k + 1 \in 1..n /\ 1 \in 1..n
      /\ item \in QueueItem /\ d \in Nat \ {0} /\ item.url \in Urls /\ item.depth \in Nat
      /\ \A i \in 1..n : q[i].depth \in Nat /\ q[i].url \in Urls /\ q[i] \in QueueItem
  <2>1. q \in Seq(QueueItem) /\ n \in Nat /\ k \in 0..n /\ k + 1 \in 1..n /\ 1 \in 1..n
    BY <1>1 DEF Chain, InLine
  <2>2. \A i \in 1..n : q[i] \in QueueItem
    BY <2>1
  <2>3. \A i \in 1..n : q[i].depth \in Nat /\ q[i].url \in Urls
    BY <2>2 DEF QueueItem
  <2>4. item.depth \in Nat /\ item.url \in Urls /\ item \in QueueItem
    BY <1>1, <2>1, <2>2, <2>3
  <2>5. d \in Nat \ {0}
    BY <1>1, <2>4
  <2> QED
    BY <2>1, <2>2, <2>3, <2>4, <2>5
<1>2. /\ Len(r) = n + m
      /\ \A i \in 1..n : r[i] = q[i]
      /\ \A i \in 1..m : /\ n + i \in 1..(n + m)
                         /\ r[n + i].url = order[i] /\ r[n + i].depth = d
  <2>1. ASSUME NEW i \in 1..m PROVE n + i \in 1..(n + m)
    BY <1>0, <1>1
  <2>2. ASSUME NEW i \in 1..m PROVE r[n + i].url = order[i] /\ r[n + i].depth = d
    BY DEF AnswerAt
  <2>3. Len(r) = n + m /\ \A i \in 1..n : r[i] = q[i]
    BY DEF AnswerAt
  <2> QED
    BY <2>1, <2>2, <2>3
<1>3. ASSUME NEW i \in 1..(n + m)
      PROVE  \/ i \in 1..n /\ r[i] = q[i]
             \/ \E o \in 1..m : i = n + o /\ r[i].url = order[o] /\ r[i].depth = d
  <2>1. CASE i <= n
    <3>1. i \in 1..n
      BY <1>0, <1>1, <2>1
    <3> QED
      BY <1>2, <3>1
  <2>2. CASE i > n
    <3>1. PICK o \in 1..m : i = n + o
      <4>1. i - n \in 1..m /\ n + (i - n) = i
        BY <1>0, <1>1, <2>2
      <4> QED
        BY <4>1
    <3> QED
      BY <1>2, <3>1
  <2> QED
    BY <1>0, <1>1, <2>1, <2>2
<1>4. \A u \in new : /\ u \in links[item.url] /\ u \notin seen /\ Fits(shut, u, d)
                     /\ \A i \in 1..n : q[i].url # u
  BY DEF Chain, InSight, AnswerAt
<1>5. \A i \in 1..n : q[i].depth <= d
  BY <1>0, <1>1 DEF Chain, InLine
<1> HIDE DEF n
<1>6. InLine(r, k + 1, shut)
  <2>1. /\ r \in Seq(QueueItem) /\ k + 1 \in 0..Len(r) /\ r # <<>>
        /\ r[1] = StartItem
    <3>1. r \in Seq(QueueItem) /\ Len(r) = n + m /\ r[1] = q[1]
      BY <1>0, <1>2 DEF AnswerAt
    <3>2. k + 1 \in 0..(n + m) /\ n + m # 0
      BY <1>0, <1>1
    <3>3. q[1] = StartItem
      BY DEF Chain, InLine
    <3> QED
      BY <3>1, <3>2, <3>3
  <2>2. ASSUME NEW i \in 1..(n + m) PROVE Fits(shut, r[i].url, r[i].depth)
    <3>1. CASE i \in 1..n /\ r[i] = q[i]
      BY <3>1 DEF Chain, InLine, n
    <3>2. CASE \E o \in 1..m : r[i].url = order[o] /\ r[i].depth = d
      BY <1>order, <1>4, <3>2
    <3> QED
      BY <1>3, <3>1, <3>2
  <2>3. ASSUME NEW i \in 1..(n + m), NEW j \in 1..(n + m), r[i].url = r[j].url PROVE i = j
    <3>1. CASE i \in 1..n /\ r[i] = q[i] /\ j \in 1..n /\ r[j] = q[j]
      BY <2>3, <3>1 DEF Chain, InLine, n
    <3>2. \A o \in 1..m : \A p \in 1..n : q[p].url # order[o]
      BY <1>order, <1>4
    <3>3. CASE i \in 1..n /\ r[i] = q[i] /\ \E o \in 1..m : r[j].url = order[o]
      BY <2>3, <3>2, <3>3
    <3>4. CASE j \in 1..n /\ r[j] = q[j] /\ \E o \in 1..m : r[i].url = order[o]
      BY <2>3, <3>2, <3>4
    <3>5. CASE /\ \E o \in 1..m : i = n + o /\ r[i].url = order[o]
               /\ \E o \in 1..m : j = n + o /\ r[j].url = order[o]
      BY <1>order, <2>3, <3>5
    <3> QED
      BY <1>3, <3>1, <3>3, <3>4, <3>5
  <2>4. ASSUME NEW i \in 1..(n + m), NEW j \in 1..(n + m), i <= j PROVE r[i].depth <= r[j].depth
    <3>1. CASE i \in 1..n /\ r[i] = q[i] /\ j \in 1..n /\ r[j] = q[j]
      BY <2>4, <3>1 DEF Chain, InLine, n
    <3>2. CASE i \in 1..n /\ r[i] = q[i] /\ r[j].depth = d
      BY <1>5, <3>2
    <3>3. CASE r[i].depth = d /\ r[j].depth = d
      BY <1>0, <3>3
    <3>4. CASE j \in 1..n /\ r[j] = q[j] /\ \E o \in 1..m : i = n + o
      BY <1>0, <1>1, <2>4, <3>4
    <3> QED
      BY <1>3, <3>1, <3>2, <3>3, <3>4
  <2>5. ASSUME NEW i \in 1..(n + m), NEW j \in 1..(n + m), k + 1 <= i
        PROVE  r[j].depth <= r[i].depth + 1
    <3>1. r[j].depth \in Nat /\ r[j].depth <= d
      <4>1. CASE j \in 1..n /\ r[j] = q[j]
        BY <1>0, <1>5, <4>1
      <4>2. CASE r[j].depth = d
        BY <1>0, <4>2
      <4> QED
        BY <1>3, <4>1, <4>2
    <3>2. r[i].depth \in Nat /\ d <= r[i].depth + 1
      <4>1. CASE i \in 1..n /\ r[i] = q[i]
        <5>1. q[k + 1].depth <= q[i].depth
          BY <1>0, <2>5, <4>1 DEF Chain, InLine, n
        <5>2. q[i].depth \in Nat /\ r[i].depth = q[i].depth
          BY <1>0, <4>1
        <5>3. item.depth \in Nat /\ d = item.depth + 1 /\ item.depth <= q[i].depth
          BY <1>0, <1>1, <5>1
        <5> QED
          BY <5>2, <5>3
      <4>2. CASE r[i].depth = d
        BY <1>0, <4>2
      <4> QED
        BY <1>3, <4>1, <4>2
    <3>3. d \in Nat /\ r[i].depth + 1 \in Nat
      BY <1>0, <3>2
    <3> QED
      BY <3>1, <3>2, <3>3, LeqTrans
  <2> QED
    BY <1>2, <2>1, <2>2, <2>3, <2>4, <2>5 DEF InLine
<1>7. \A p \in 1..k : p \in 1..(k + 1) /\ p \in 1..n /\ r[p] = q[p]
  BY <1>0, <1>2
<1>8. k + 1 \in 1..(k + 1) /\ r[k + 1] = item
  BY <1>0, <1>1, <1>2
<1>9. Parented(r, k + 1, pages \cup {item.url}, links)
  <2>1. ASSUME NEW i \in 1..(n + m), i # 1
        PROVE  \E p \in 1..(k + 1) : /\ r[p].url \in pages \cup {item.url}
                                     /\ r[i].url \in links[r[p].url]
                                     /\ r[i].depth = r[p].depth + 1
    <3>1. CASE i \in 1..n /\ r[i] = q[i]
      <4>1. PICK p \in 1..k : /\ q[p].url \in pages /\ q[i].url \in links[q[p].url]
                              /\ q[i].depth = q[p].depth + 1
        BY <2>1, <3>1 DEF Chain, Parented, n
      <4>2. p \in 1..(k + 1) /\ r[p] = q[p]
        BY <1>7
      <4> QED
        BY <3>1, <4>1, <4>2
    <3>2. CASE \E o \in 1..m : r[i].url = order[o] /\ r[i].depth = d
      <4>1. r[i].url \in links[item.url] /\ r[i].depth = item.depth + 1
        BY <1>1, <1>order, <1>4, <3>2
      <4> QED
        BY <1>8, <4>1
    <3> QED
      BY <1>3, <3>1, <3>2
  <2> QED
    BY <1>2, <2>1 DEF Parented
<1>10. InSight(r, k + 1, seen \cup new, pages \cup {item.url})
  <2>1. ASSUME NEW i \in 1..(n + m) PROVE r[i].url \in seen \cup new
    BY <1>order, <1>3 DEF Chain, InSight, n
  <2>2. ASSUME NEW u \in seen \cup new
        PROVE  u = RobotsUrl \/ \E i \in 1..(n + m) : r[i].url = u
    <3>1. CASE u \in seen
      <4>1. \A i \in 1..n : i \in 1..(n + m)
        BY <1>0, <1>1
      <4> QED
        BY <1>2, <3>1, <4>1 DEF Chain, InSight, n
    <3>2. CASE u \in new
      <4>1. PICK i \in 1..m : order[i] = u
        BY <1>order, <3>2
      <4>2. n + i \in 1..(n + m)
        BY <1>0, <1>1
      <4> QED
        BY <1>2, <4>1, <4>2
    <3> QED
      BY <3>1, <3>2
  <2>3. ASSUME NEW u \in pages \cup {item.url} PROVE \E p \in 1..(k + 1) : r[p].url = u
    <3>1. CASE u \in pages
      BY <1>7, <3>1 DEF Chain, InSight
    <3> QED
      BY <1>8, <3>1
  <2> QED
    BY <1>2, <2>1, <2>2, <2>3 DEF InSight
<1>11. ASSUME NEW e, NEW u, Placed(q, e, seen, u) PROVE Placed(r, e, seen \cup new, u)
  <2>1. CASE u = RobotsUrl /\ u \in seen /\ \A i \in 1..n : q[i].url # u
    <3>1. \A i \in 1..(n + m) : r[i].url # u
      BY <1>order, <1>3, <1>4, <2>1
    <3> QED
      BY <1>2, <2>1, <3>1 DEF Placed
  <2>2. CASE \E i \in 1..n : q[i].url = u /\ q[i].depth <= e
    <3>1. \A i \in 1..n : i \in 1..(n + m)
      BY <1>0, <1>1
    <3> QED
      BY <1>2, <2>2, <3>1 DEF Placed
  <2> QED
    BY <1>11, <2>1, <2>2 DEF Placed, n
<1>12. Followed(r, k + 1, seen \cup new, pages \cup {item.url}, links, shut)
  <2>1. ASSUME NEW p \in 1..(k + 1), r[p].url \in pages \cup {item.url},
               NEW u \in links[r[p].url], Fits(shut, u, r[p].depth + 1)
        PROVE  Placed(r, r[p].depth + 1, seen \cup new, u)
    <3>1. p \in 1..n /\ r[p] = q[p]
      BY <1>0, <1>1, <1>2
    <3>2. CASE p = k + 1
      <4>1. r[p].depth + 1 = d /\ r[p] = item
        BY <1>1, <1>8, <3>2
      <4>2. CASE u \in seen
        <5>1. CASE \E i \in 1..n : q[i].url = u
          <6>1. Placed(q, d, seen, u)
            BY <1>5, <5>1 DEF Placed, n
          <6> QED
            BY <1>11, <4>1, <6>1
        <5>2. CASE \A i \in 1..n : q[i].url # u
          <6>1. Placed(q, d, seen, u)
            BY <4>2, <5>2 DEF Placed, n, Chain, InSight
          <6> QED
            BY <1>11, <4>1, <6>1
        <5> QED
          BY <5>1, <5>2
      <4>3. CASE u \notin seen
        <5>1. u \in new
          BY <2>1, <4>1, <4>3 DEF AnswerAt
        <5>2. PICK i \in 1..m : order[i] = u
          BY <1>order, <5>1
        <5>3. n + i \in 1..Len(r) /\ r[n + i].url = u /\ r[n + i].depth <= d
          <6>1. d <= d
            BY <1>0
          <6> QED
            BY <1>2, <5>2, <6>1
        <5> QED
          BY <4>1, <5>3 DEF Placed
      <4> QED
        BY <4>2, <4>3
    <3>3. CASE p \in 1..k
      <4>1. q[p].url \in pages
        <5>1. CASE q[p].url = item.url
          BY <1>0, <1>1, <3>1, <3>3, <5>1 DEF Chain, InLine, n
        <5> QED
          BY <2>1, <3>1, <5>1
      <4>2. Placed(q, q[p].depth + 1, seen, u)
        BY <2>1, <3>1, <3>3, <4>1 DEF Chain, Followed
      <4> QED
        BY <1>11, <3>1, <4>2
    <3> QED
      BY <1>0, <3>2, <3>3
  <2> QED
    BY <2>1 DEF Followed
<1> QED
  BY <1>6, <1>9, <1>10, <1>12 DEF Chain

(* Every page of the line is as many links away as its depth says. *)
LEMMA ChainReaches ==
  ASSUME NEW q, NEW k, NEW seen, NEW pages, NEW links, NEW shut,
         Chain(q, k, seen, pages, links, shut),
         pages = parsed, links = site.links, shut = Closed \cup robots
  PROVE  \A n \in Nat : \A i \in 1..Len(q) : q[i].depth = n => q[i].url \in Within[n]
<1> DEFINE P(n) == \A i \in 1..Len(q) : q[i].depth = n => q[i].url \in Within[n]
           Bad  == {n \in Nat : ~ P(n)}
<1> SUFFICES ASSUME Bad # {} PROVE FALSE
  OBVIOUS
<1>0. /\ q \in Seq(QueueItem) /\ k \in 0..Len(q) /\ Len(q) \in Nat
      /\ \A i \in 1..Len(q) : q[i].depth \in Nat
  <2>1. q \in Seq(QueueItem) /\ k \in 0..Len(q) /\ Len(q) \in Nat
    BY DEF Chain, InLine
  <2>2. \A i \in 1..Len(q) : q[i] \in QueueItem
    BY <2>1
  <2> QED
    BY <2>1, <2>2 DEF QueueItem
<1>1. PICK n \in Bad : \A x \in Bad : n <= x
  <2>1. Bad \in SUBSET Nat
    OBVIOUS
  <2> HIDE DEF Bad
  <2> QED
    BY <2>1, LeastNumber
<1>2. n \in Nat
  BY <1>1
<1>3. PICK i \in 1..Len(q) : q[i].depth = n /\ q[i].url \notin Within[n]
  BY <1>1
<1>4. Fits(shut, q[i].url, q[i].depth)
  BY DEF Chain, InLine
<1>5. CASE i = 1
  <2>1. q[i].url = StartUrl /\ n = 0
    BY <1>3, <1>5 DEF Chain, InLine, StartItem
  <2>2. q[i].url \in {StartUrl} \ (Closed \cup robots)
    BY <1>4, <2>1 DEF Fits
  <2> QED
    BY <1>3, <2>1, <2>2, WithinSteps
<1>6. CASE i # 1
  <2>1. PICK p \in 1..k : /\ q[p].url \in pages /\ q[i].url \in links[q[p].url]
                          /\ q[i].depth = q[p].depth + 1
    BY <1>6 DEF Chain, Parented
  <2> DEFINE m == q[p].depth
  <2>2. p \in 1..Len(q) /\ m \in Nat /\ n = m + 1 /\ ~ (n <= m)
    BY <1>0, <1>3, <2>1
  <2>3. m \notin Bad
    BY <1>1, <2>2
  <2>4. q[p].url \in Within[m]
    BY <2>2, <2>3
  <2>5. q[i].url \in Grown(Within[m])
    <3>1. q[p].url \in parsed \cap Within[m]
      BY <2>1, <2>4
    <3>2. q[i].url \in links[q[p].url] \ (Closed \cup robots)
      BY <1>4, <2>1 DEF Fits
    <3> QED
      BY <3>1, <3>2 DEF Grown
  <2>6. Within[m + 1] = Grown(Within[m])
    BY <2>2, WithinSteps
  <2> QED
    BY <1>3, <2>2, <2>5, <2>6
<1> QED
  BY <1>5, <1>6

(* What is n links away is in the line at depth n or less, but for a       *)
(* robots.txt that was fetched before.                                     *)
LEMMA ChainCovers ==
  ASSUME NEW q, NEW k, NEW seen, NEW pages, NEW links, NEW shut,
         Chain(q, k, seen, pages, links, shut),
         pages = parsed, links = site.links, shut = Closed \cup robots,
         MaxDepth \in Int
  PROVE  \A n \in Nat : n <= MaxDepth => \A u \in Within[n] : Placed(q, n, seen, u)
<1> DEFINE P(n) == n <= MaxDepth => \A u \in Within[n] : Placed(q, n, seen, u)
           Bad  == {n \in Nat : ~ P(n)}
<1> SUFFICES ASSUME Bad # {} PROVE FALSE
  OBVIOUS
<1>0. /\ q \in Seq(QueueItem) /\ k \in 0..Len(q) /\ Len(q) \in Nat /\ Len(q) # 0
      /\ \A i \in 1..Len(q) : q[i].depth \in Nat
  <2>1. q \in Seq(QueueItem) /\ k \in 0..Len(q) /\ Len(q) \in Nat /\ Len(q) # 0
    BY DEF Chain, InLine
  <2>2. \A i \in 1..Len(q) : q[i] \in QueueItem
    BY <2>1
  <2> QED
    BY <2>1, <2>2 DEF QueueItem
<1>1. PICK n \in Bad : \A x \in Bad : n <= x
  <2>1. Bad \in SUBSET Nat
    OBVIOUS
  <2> HIDE DEF Bad
  <2> QED
    BY <2>1, LeastNumber
<1>2. n \in Nat /\ n <= MaxDepth
  BY <1>1
<1>3. PICK u \in Within[n] : ~ Placed(q, n, seen, u)
  BY <1>1
<1>4. CASE n = 0
  <2>1. u = StartUrl
    BY <1>3, <1>4, WithinSteps
  <2>2. 1 \in 1..Len(q) /\ q[1].url = u /\ q[1].depth <= n
    BY <1>0, <1>4, <2>1 DEF Chain, InLine, StartItem
  <2> QED
    BY <1>3, <2>2 DEF Placed
<1>5. CASE n # 0
  <2> DEFINE m == n - 1
  <2>1. m \in Nat /\ n = m + 1 /\ ~ (n <= m) /\ m <= MaxDepth
    BY <1>2, <1>5
  <2> HIDE DEF m
  <2>2. \A v \in Within[m] : Placed(q, m, seen, v)
    BY <1>1, <2>1
  <2>3. Within[n] = Grown(Within[m])
    BY <2>1, WithinSteps
  <2>4. CASE u \in Within[m]
    <3>1. Placed(q, m, seen, u)
      BY <2>2, <2>4
    <3>2. CASE \E i \in 1..Len(q) : q[i].url = u /\ q[i].depth <= m
      <4>1. \E i \in 1..Len(q) : q[i].url = u /\ q[i].depth <= n
        BY <1>0, <2>1, <3>2
      <4> QED
        BY <1>3, <4>1 DEF Placed
    <3> QED
      BY <1>3, <3>1, <3>2 DEF Placed
  <2>5. CASE u \notin Within[m]
    <3>1. PICK v \in parsed \cap Within[m] : u \in links[v] \ (Closed \cup robots)
      BY <1>3, <2>3, <2>5 DEF Grown
    <3>2. PICK p \in 1..k : q[p].url = v
      BY <3>1 DEF Chain, InSight
    <3>3. p \in 1..Len(q)
      BY <1>0
    <3>4. q[p].depth <= m
      <4>1. PICK i \in 1..Len(q) : q[i].url = v /\ q[i].depth <= m
        BY <2>2, <3>1, <3>2, <3>3 DEF Placed
      <4>2. i = p
        BY <3>2, <3>3, <4>1 DEF Chain, InLine
      <4> QED
        BY <4>1, <4>2
    <3>5. q[p].depth + 1 <= n /\ q[p].depth \in Nat
      BY <1>0, <2>1, <3>3, <3>4
    <3>6. Fits(shut, u, q[p].depth + 1)
      BY <1>2, <3>1, <3>5 DEF Fits
    <3>7. Placed(q, q[p].depth + 1, seen, u)
      BY <3>1, <3>2, <3>6 DEF Chain, Followed
    <3>8. CASE \E i \in 1..Len(q) : q[i].url = u /\ q[i].depth <= q[p].depth + 1
      <4>1. \E i \in 1..Len(q) : q[i].url = u /\ q[i].depth <= n
        BY <1>0, <1>2, <3>5, <3>8
      <4> QED
        BY <1>3, <4>1 DEF Placed
    <3> QED
      BY <1>3, <3>7, <3>8 DEF Placed
  <2> QED
    BY <2>4, <2>5
<1> QED
  BY <1>4, <1>5

(* Without a start there is nothing within any number of links. *)
LEMMA NothingWithin ==
  ASSUME parsed = {}, StartUrl \in Closed \cup robots
  PROVE  \A n \in Nat : Within[n] = {}
<1> DEFINE Bad == {n \in Nat : Within[n] # {}}
<1> SUFFICES ASSUME Bad # {} PROVE FALSE
  OBVIOUS
<1>1. PICK n \in Bad : \A x \in Bad : n <= x
  <2>1. Bad \in SUBSET Nat
    OBVIOUS
  <2> HIDE DEF Bad
  <2> QED
    BY <2>1, LeastNumber
<1>2. n # 0
  BY <1>1, WithinSteps
<1> DEFINE m == n - 1
<1>3. m \in Nat /\ n = m + 1 /\ ~ (n <= m)
  BY <1>1, <1>2
<1> HIDE DEF m
<1>4. Within[m] = {}
  BY <1>1, <1>3
<1>5. Within[n] = Grown(Within[m])
  BY <1>3, WithinSteps
<1>6. Grown({}) = {}
  BY DEF Grown
<1> QED
  BY <1>1, <1>4, <1>5, <1>6

(* Before the first page: nothing but robots.txt was asked for. *)
Untouched ==
  /\ frontier = <<StartItem>> /\ asked = <<>> /\ parsed = {} /\ visited \subseteq {RobotsUrl}

(* The start is refused: nothing is ever requested. *)
StartRefused ==
  /\ ~ Admitted(StartUrl, 0)
  /\ frontier \in {<<StartItem>>, <<>>} /\ asked = <<>> /\ parsed = {}
  /\ visited \subseteq {RobotsUrl}

(* The start was admitted: there is one line from the first request to the *)
(* last queued page.                                                       *)
Chained ==
  /\ Chain(asked \o frontier, Len(asked), visited \cup {StartUrl}, parsed,
           site.links, Closed \cup robots)
  /\ asked # <<>> => StartUrl \in visited

CrawlTypeOK ==
  /\ crawlPc \in {"robots", "again", "crawl", "done"}
  /\ site \in [links : SiteLinks, rules : Rules, maxPages : PageCaps]
  /\ frontier \in Seq(QueueItem) /\ asked \in Seq(QueueItem)
  /\ crawled \in Nat /\ skipped \in Nat
  /\ IsFiniteSet(parsed)

(* With the counters this is inductive: a page is parsed once, the cap is  *)
(* looked at before each one, and the end counts what was still queued.    *)
CrawlInv ==
  /\ CrawlTypeOK
  /\ Cardinality(parsed) = crawled
  /\ site.maxPages > 0 => crawled <= site.maxPages
  /\ crawlPc \in {"robots", "again"} => Untouched
  /\ crawlPc \in {"crawl", "done"} => StartRefused \/ Chained
  /\ crawlPc = "done" => Len(frontier) <= skipped

(* Where nothing was requested yet, the start is in line or is refused. *)
LEMMA StartReady == Untouched => StartRefused \/ Chained
<1> SUFFICES ASSUME Untouched PROVE StartRefused \/ Chained
  OBVIOUS
<1> DEFINE q == asked \o frontier
           seen == visited \cup {StartUrl}
<1>1. StartItem \in QueueItem /\ StartItem.url = StartUrl /\ StartItem.depth = 0
  BY CrawlAssumption DEF StartItem, QueueItem
<1>2. q = <<StartItem>> /\ Len(asked) = 0
  BY DEF Untouched
<1>3. Len(q) = 1 /\ q[1] = StartItem /\ q \in Seq(QueueItem) /\ 1..Len(q) = {1} /\ q # <<>>
  BY <1>1, <1>2
<1> HIDE DEF q
<1>4. ASSUME Admitted(StartUrl, 0) PROVE Chain(q, 0, seen, {}, site.links, Closed \cup robots)
  <2>1. InLine(q, 0, Closed \cup robots)
    BY <1>1, <1>3, <1>4 DEF InLine, Fits, Admitted
  <2>2. Parented(q, 0, {}, site.links)
    BY <1>3 DEF Parented
  <2>3. InSight(q, 0, seen, {})
    BY <1>1, <1>3 DEF InSight, Untouched
  <2>4. Followed(q, 0, seen, {}, site.links, Closed \cup robots)
    BY DEF Followed
  <2> QED
    BY <2>1, <2>2, <2>3, <2>4 DEF Chain
<1> QED
  BY <1>2, <1>4 DEF StartRefused, Chained, Untouched, q

(* A crawl that starts satisfies the invariant. *)
LEMMA CrawlInitInv == CrawlInit => CrawlInv
<1> SUFFICES ASSUME CrawlInit PROVE CrawlInv
  OBVIOUS
<1>1. frontier = <<StartItem>> /\ StartItem \in QueueItem /\ frontier \in Seq(QueueItem)
  <2>1. StartItem \in QueueItem
    BY CrawlAssumption DEF StartItem, QueueItem
  <2> QED
    BY <2>1 DEF CrawlInit, StartItem
<1>2. /\ asked = <<>> /\ asked \in Seq(QueueItem) /\ parsed = {} /\ visited = {}
      /\ crawled = 0 /\ skipped = 0
  BY DEF CrawlInit
<1>3. Cardinality(parsed) = 0 /\ IsFiniteSet(parsed)
  BY <1>2, FS_EmptySet
<1>4. CrawlTypeOK
  BY <1>1, <1>2, <1>3 DEF CrawlInit, CrawlTypeOK
<1>5. Untouched
  BY <1>1, <1>2 DEF Untouched
<1>6. site.maxPages \in Nat
  BY <1>4, CrawlAssumption DEF CrawlTypeOK
<1>7. Chained \/ StartRefused
  BY <1>5, StartReady
<1> QED
  BY <1>2, <1>3, <1>4, <1>5, <1>6, <1>7 DEF CrawlInit, CrawlInv

(* Joining lists is associative. *)
LEMMA JoinsAssociate ==
  ASSUME NEW s \in Seq(QueueItem), NEW u \in Seq(QueueItem), NEW v \in Seq(QueueItem)
  PROVE  s \o (u \o v) = (s \o u) \o v
  BY ConcatAssociative

(* What was requested and what is queued stay one line when the head moves *)
(* from the queue to the requests.                                         *)
LEMMA HeadMoves ==
  ASSUME NEW a \in Seq(QueueItem), NEW f \in Seq(QueueItem), f # <<>>
  PROVE  /\ Append(a, f[1]) \o Tail(f) = a \o f
         /\ (a \o f)[Len(a) + 1] = f[1]
         /\ Len(a) < Len(a \o f) /\ Len(Append(a, f[1])) = Len(a) + 1
<1> DEFINE x == Append(a, f[1])
           y == Tail(f)
<1>1. /\ f[1] \in QueueItem /\ Len(f) \in Nat \ {0} /\ Len(a) \in Nat
      /\ x \in Seq(QueueItem) /\ Len(x) = Len(a) + 1
      /\ y \in Seq(QueueItem) /\ Len(y) = Len(f) - 1
  OBVIOUS
<1>2. /\ \A i \in 1..Len(a) : x[i] = a[i]
      /\ x[Len(a) + 1] = f[1]
      /\ \A i \in 1..(Len(f) - 1) : y[i] = f[i + 1]
  OBVIOUS
<1> HIDE DEF x, y
<1>3. x \o y = a \o f
  <2>1. x \o y \in Seq(QueueItem) /\ a \o f \in Seq(QueueItem) /\ Len(x \o y) = Len(a \o f)
        /\ Len(a \o f) = Len(a) + Len(f)
    <3>1. x \o y \in Seq(QueueItem) /\ Len(x \o y) = Len(x) + Len(y)
      BY <1>1, ConcatProperties
    <3>2. a \o f \in Seq(QueueItem) /\ Len(a \o f) = Len(a) + Len(f)
      BY ConcatProperties
    <3>3. Len(x) + Len(y) = Len(a) + Len(f)
      BY <1>1
    <3> QED
      BY <3>1, <3>2, <3>3
  <2>2. ASSUME NEW i \in 1..(Len(a) + Len(f)) PROVE (x \o y)[i] = (a \o f)[i]
    <3>1. CASE i <= Len(a)
      <4>1. (x \o y)[i] = x[i] /\ (a \o f)[i] = a[i] /\ i \in 1..Len(a)
        BY <1>1, <3>1
      <4> QED
        BY <1>2, <4>1
    <3>2. CASE i = Len(a) + 1
      <4>1. (x \o y)[i] = x[i] /\ (a \o f)[i] = f[i - Len(a)] /\ i - Len(a) = 1
        BY <1>1, <3>2
      <4> QED
        BY <1>2, <3>2, <4>1
    <3>3. CASE i > Len(a) + 1
      <4> DEFINE j == i - (Len(a) + 1)
      <4>1. (x \o y)[i] = y[j] /\ (a \o f)[i] = f[i - Len(a)]
        BY <1>1, <3>3
      <4>2. j \in 1..(Len(f) - 1) /\ j + 1 = i - Len(a)
        BY <1>1, <3>3
      <4> HIDE DEF j
      <4>3. y[j] = f[j + 1]
        BY <1>2, <4>2
      <4> QED
        BY <4>1, <4>2, <4>3
    <3> QED
      BY <1>1, <3>1, <3>2, <3>3
  <2> DEFINE u == x \o y
             v == a \o f
  <2>3. u \in Seq(QueueItem) /\ v \in Seq(QueueItem) /\ Len(u) = Len(v)
        /\ Len(v) = Len(a) + Len(f)
    BY <2>1
  <2>4. \A i \in 1..Len(v) : u[i] = v[i]
    BY <2>2, <2>3
  <2> HIDE DEF u, v
  <2>5. u = v
    BY <2>3, <2>4
  <2> QED
    BY <2>5 DEF u, v
<1>4. (a \o f)[Len(a) + 1] = f[1] /\ Len(a) < Len(a \o f)
  BY <1>1
<1> QED
  BY <1>1, <1>3, <1>4 DEF x, y

(* The same for what is appended behind the line. *)
LEMMA HeadJoins ==
  ASSUME NEW a \in Seq(QueueItem), NEW f \in Seq(QueueItem), f # <<>>, NEW rest \in Seq(QueueItem)
  PROVE  Append(a, f[1]) \o (Tail(f) \o rest) = (a \o f) \o rest
<1> DEFINE x == Append(a, f[1])
           y == Tail(f)
<1>1. x \in Seq(QueueItem) /\ y \in Seq(QueueItem)
  OBVIOUS
<1>2. x \o y = a \o f
  BY HeadMoves
<1> HIDE DEF x, y
<1>3. x \o (y \o rest) = (x \o y) \o rest
  BY <1>1, JoinsAssociate
<1>4. x \o (y \o rest) = (a \o f) \o rest
  BY <1>2, <1>3, Zenon
<1> QED
  BY <1>4 DEF x, y

(* The head of the queue is the first page of the line not yet requested: *)
(* it was seen (the start counts as seen) and never parsed.               *)
LEMMA HeadOfLine ==
  ASSUME CrawlTypeOK, Chained, frontier # <<>>
  PROVE  /\ frontier[1] \in QueueItem
         /\ Len(asked) < Len(asked \o frontier)
         /\ (asked \o frontier)[Len(asked) + 1] = frontier[1]
         /\ visited \cup {frontier[1].url} = visited \cup {StartUrl}
         /\ frontier[1].url \notin parsed
         /\ Admitted(frontier[1].url, frontier[1].depth)
<1> DEFINE q == asked \o frontier
           k == Len(asked)
           item == frontier[1]
           shut == Closed \cup robots
<1>1. /\ item \in QueueItem /\ k < Len(q) /\ q[k + 1] = item /\ k \in Nat /\ Len(q) \in Nat
      /\ (asked = <<>> => k = 0)
  BY HeadMoves DEF CrawlTypeOK
<1>2. Chain(q, k, visited \cup {StartUrl}, parsed, site.links, shut)
  BY DEF Chained
<1> HIDE DEF q, k, item, shut
<1>3. k + 1 \in 1..Len(q)
  BY <1>1
<1>4. item.url \in visited \cup {StartUrl} /\ Fits(shut, item.url, item.depth)
  BY <1>1, <1>2, <1>3 DEF Chain, InLine, InSight
<1>5. visited \cup {item.url} = visited \cup {StartUrl}
  <2>1. CASE asked = <<>>
    <3>1. item.url = StartUrl
      BY <1>1, <1>2, <2>1 DEF Chain, InLine, StartItem
    <3> QED
      BY <3>1
  <2>2. CASE asked # <<>>
    BY <1>4, <2>2 DEF Chained
  <2> QED
    BY <2>1, <2>2
<1>6. item.url \notin parsed
  <2>1. ASSUME item.url \in parsed PROVE FALSE
    <3>1. PICK p \in 1..k : q[p].url = item.url
      BY <1>2, <2>1 DEF Chain, InSight
    <3>2. p \in 1..Len(q) /\ p # k + 1
      BY <1>1, <1>3
    <3> QED
      BY <1>1, <1>2, <1>3, <3>1, <3>2 DEF Chain, InLine
  <2> QED
    BY <2>1
<1> QED
  BY <1>1, <1>4, <1>5, <1>6 DEF q, k, item, shut, Fits, Admitted

(* A set laid out in order: each member at one place. *)
LEMMA InSomeOrder ==
  ASSUME NEW S, IsFiniteSet(S), NEW order \in SetToSeqs(S)
  PROVE  /\ Cardinality(S) \in Nat
         /\ order \in [1..Cardinality(S) -> S]
         /\ \A i, j \in 1..Cardinality(S) : order[i] = order[j] => i = j
         /\ \A u \in S : \E i \in 1..Cardinality(S) : order[i] = u
<1> DEFINE m == Cardinality(S)
<1>1. m \in Nat
  BY FS_CardinalityType
<1>2. order \in [1..m -> S] /\ \A i, j \in 1..m : i # j => order[i] # order[j]
  BY DEF SetToSeqs
<1>3. IsFiniteSet(1..m) /\ Cardinality(1..m) = m
  BY <1>1, FS_Interval
<1> HIDE DEF m
<1>4. order \in Injection(1..m, S)
  BY <1>2 DEF Injection, IsInjective
<1>5. order \in Surjection(1..m, S)
  <2>1. Cardinality(1..m) = Cardinality(S) <=> order \in Surjection(1..m, S)
    BY <1>4, FS_Injection
  <2> QED
    BY <1>3, <2>1 DEF m
<1>6. \A u \in S : \E i \in 1..m : order[i] = u
  BY <1>5 DEF Surjection
<1> QED
  BY <1>1, <1>2, <1>6 DEF m

(* The head is requested, and with it the line goes on. *)
LEMMA FailsStep == ASSUME CrawlInv, PopFails PROVE CrawlInv'
<1> DEFINE item == frontier[1]
           q == asked \o frontier
<1>1. /\ CrawlTypeOK /\ crawlPc = "crawl" /\ frontier # <<>> /\ Admitted(item.url, item.depth)
      /\ asked' = Append(asked, item) /\ frontier' = Tail(frontier)
      /\ visited' = visited \cup {item.url}
      /\ UNCHANGED <<crawlPc, site, robots, crawled, skipped, parsed>>
  BY DEF CrawlInv, PopFails, Pops, Requests
<1>2. Chained
  BY <1>1 DEF CrawlInv, StartRefused, StartItem
<1>3. /\ item \in QueueItem /\ Len(asked) < Len(q)
      /\ visited' = visited \cup {StartUrl} /\ visited' \cup {StartUrl} = visited'
  BY <1>1, <1>2, HeadOfLine
<1>4. /\ asked' \o frontier' = q /\ Len(asked') = Len(asked) + 1 /\ asked' # <<>>
      /\ frontier' \in Seq(QueueItem) /\ asked' \in Seq(QueueItem)
  <2>1. asked' \o frontier' = q /\ Len(asked') = Len(asked) + 1
    BY <1>1, HeadMoves DEF CrawlTypeOK
  <2>2. frontier' \in Seq(QueueItem) /\ asked' \in Seq(QueueItem)
    BY <1>1, <1>3 DEF CrawlTypeOK
  <2>3. asked' # <<>>
    BY <1>1, <1>3 DEF CrawlTypeOK
  <2> QED
    BY <2>1, <2>2, <2>3
<1> HIDE DEF item, q
<1>5. Chain(q, Len(asked) + 1, visited \cup {StartUrl}, parsed, site.links, Closed \cup robots)
  BY <1>2, <1>3, ChainFails DEF Chained, q
<1>6. Chained'
  BY <1>1, <1>3, <1>4, <1>5 DEF Chained
<1> QED
  BY <1>1, <1>4, <1>6 DEF CrawlInv, CrawlTypeOK

(* The head is answered, and its new links enter the line. *)
LEMMA AnswersStep == ASSUME CrawlInv, PopAnswered PROVE CrawlInv'
<1> DEFINE item == frontier[1]
           q == asked \o frontier
           seen == visited \cup {item.url}
           links == Unseen(site.links[item.url], seen)
           d == item.depth + 1
           new == {url \in links : Admitted(url, d)}
<1>1. /\ CrawlTypeOK /\ crawlPc = "crawl" /\ frontier # <<>> /\ Admitted(item.url, item.depth)
      /\ ~CapReached /\ asked' = Append(asked, item) /\ visited' = seen \cup new
      /\ parsed' = parsed \cup {item.url} /\ crawled' = crawled + 1
      /\ skipped' = skipped + Cardinality(links \ new)
      /\ UNCHANGED <<crawlPc, site, robots>>
  BY DEF CrawlInv, PopAnswered, Pops, Requests
<1>2. PICK order \in SetToSeqs(new) :
        frontier' = Tail(frontier) \o [i \in DOMAIN order |-> [url |-> order[i], depth |-> d]]
  BY DEF PopAnswered, Queued
<1>3. Chained
  BY <1>1 DEF CrawlInv, StartRefused, StartItem
<1>4. /\ item \in QueueItem /\ Len(asked) < Len(q) /\ q[Len(asked) + 1] = item
      /\ seen = visited \cup {StartUrl} /\ item.url \notin parsed
  BY <1>1, <1>3, HeadOfLine
<1>5. item.url \in Urls /\ d \in Nat
  BY <1>4 DEF QueueItem
<1>6. /\ site.links \in [Urls -> SUBSET Urls] /\ IsFiniteSet(site.links[item.url])
  BY <1>1, <1>5, CrawlAssumption DEF CrawlTypeOK
<1>7. IsFiniteSet(new) /\ IsFiniteSet(links \ new) /\ new \subseteq Urls
  <2>1. new \subseteq site.links[item.url] /\ links \ new \subseteq site.links[item.url]
    BY DEF Unseen
  <2> HIDE DEF new, links
  <2>2. new \subseteq Urls
    BY <1>5, <1>6, <2>1
  <2> QED
    BY <1>6, <2>1, <2>2, FS_Subset
<1> DEFINE m == Cardinality(new)
           f == [i \in 1..m |-> [url |-> order[i], depth |-> d]]
<1>8. /\ m \in Nat /\ order \in [1..m -> new]
      /\ \A i, j \in 1..m : order[i] = order[j] => i = j
      /\ \A u \in new : \E i \in 1..m : order[i] = u
  <2> HIDE DEF new
  <2> QED
    BY <1>2, <1>7, InSomeOrder
<1>9. Cardinality(links \ new) \in Nat
  BY <1>7, FS_CardinalityType
<1>10. frontier' = Tail(frontier) \o f
  BY <1>2, <1>8
<1>11. \A u : u \in new <=> u \in site.links[item.url] \ seen /\ Fits(Closed \cup robots, u, d)
  BY DEF Unseen, Fits, Admitted
<1> HIDE DEF new, links, m
<1>12. order \in [1..m -> Urls]
  BY <1>7, <1>8
<1>13. f \in Seq(QueueItem)
  BY <1>5, <1>8, <1>12 DEF QueueItem
<1> HIDE DEF d
<1>14. /\ asked \in Seq(QueueItem) /\ frontier \in Seq(QueueItem) /\ q \in Seq(QueueItem)
       /\ Tail(frontier) \in Seq(QueueItem)
  <2>1. asked \in Seq(QueueItem) /\ frontier \in Seq(QueueItem)
    BY <1>1 DEF CrawlTypeOK
  <2> QED
    BY <1>1, <2>1, ConcatProperties
<1>15. asked' \in Seq(QueueItem) /\ asked' # <<>>
  <2> HIDE DEF item
  <2> QED
    BY <1>1, <1>4, <1>14
<1>16. frontier' \in Seq(QueueItem)
  <2> HIDE DEF f
  <2> QED
    BY <1>10, <1>13, <1>14, ConcatProperties
<1>17. asked' \o frontier' = q \o f /\ Len(asked') = Len(asked) + 1
  <2> HIDE DEF f
  <2>1. frontier # <<>> /\ asked' = Append(asked, item)
    BY <1>1
  <2>2. /\ asked \in Seq(QueueItem) /\ frontier \in Seq(QueueItem) /\ f \in Seq(QueueItem)
        /\ frontier # <<>>
    BY <1>13, <1>14, <2>1
  <2>3. Append(asked, frontier[1]) \o (Tail(frontier) \o f) = (asked \o frontier) \o f
    BY <2>2, HeadJoins
  <2>4. Len(Append(asked, frontier[1])) = Len(asked) + 1
    BY <2>2, HeadMoves, Zenon
  <2> QED
    BY <1>10, <2>1, <2>3, <2>4, Zenon
<1>18. Len(f) = m /\ \A i \in 1..m : f[i].url = order[i] /\ f[i].depth = d
  BY <1>8
<1> DEFINE r == q \o f
<1> HIDE DEF f
<1>19. /\ r \in Seq(QueueItem) /\ Len(r) = Len(q) + m
       /\ \A i \in 1..Len(q) : r[i] = q[i]
       /\ \A i \in 1..m : r[Len(q) + i].url = order[i] /\ r[Len(q) + i].depth = d
  <2> HIDE DEF q
  <2>1. /\ r \in Seq(QueueItem) /\ Len(r) = Len(q) + Len(f)
        /\ \A i \in 1..Len(q) : r[i] = q[i]
        /\ \A i \in 1..Len(f) : r[Len(q) + i] = f[i]
    BY <1>13, <1>14, LineGrows
  <2> HIDE DEF r
  <2> QED
    BY <1>18, <2>1
<1> HIDE DEF r
<1>20. Chain(q, Len(asked), seen, parsed, site.links, Closed \cup robots)
  BY <1>3, <1>4 DEF Chained
<1>21. d = item.depth + 1
  BY DEF d
<1> HIDE DEF q, item, seen
<1>22. Chain(r, Len(asked) + 1, seen \cup new, parsed \cup {item.url},
             site.links, Closed \cup robots)
  <2>1. \A i \in 1..m : order[i] \in new
    BY <1>8
  <2>2. AnswerAt(q, Len(asked), seen, site.links, Closed \cup robots, item, d, new, m, order, r)
    BY <1>4, <1>8, <1>11, <1>19, <1>21, <2>1 DEF AnswerAt
  <2> QED
    BY <1>20, <2>2, ChainAnswers
<1>23. visited' \cup {StartUrl} = seen \cup new /\ StartUrl \in visited'
  BY <1>1, <1>4
<1>24. Chained'
  BY <1>1, <1>15, <1>17, <1>22, <1>23 DEF Chained, r
<1>25. IsFiniteSet(parsed') /\ Cardinality(parsed') = crawled' /\ crawled' \in Nat
  <2>1. IsFiniteSet(parsed) /\ Cardinality(parsed) = crawled /\ crawled \in Nat
    BY DEF CrawlInv, CrawlTypeOK
  <2>2. /\ IsFiniteSet(parsed \cup {item.url})
        /\ Cardinality(parsed \cup {item.url}) = crawled + 1
    BY <1>4, <2>1, FS_AddElement
  <2> QED
    BY <1>1, <2>1, <2>2
<1>26. site.maxPages > 0 => crawled' <= site.maxPages
  <2>1. site.maxPages \in Nat /\ crawled \in Nat
    BY <1>1, CrawlAssumption DEF CrawlTypeOK
  <2> QED
    BY <1>1, <2>1 DEF CapReached
<1>27. skipped' \in Nat
  BY <1>1, <1>9 DEF CrawlTypeOK
<1>28. CrawlTypeOK'
  BY <1>1, <1>15, <1>16, <1>25, <1>27 DEF CrawlTypeOK
<1> QED
  BY <1>1, <1>24, <1>25, <1>26, <1>28 DEF CrawlInv

(* What requests no page leaves the line as it is. *)
LEMMA OtherSteps ==
  ASSUME CrawlInv, FetchRobots \/ Finish \/ PopRefused \/ UNCHANGED crawlVars PROVE CrawlInv'
<1>1. CASE FetchRobots
  <2>1. /\ UNCHANGED <<site, frontier, crawled, skipped, asked, parsed>>
        /\ visited' \subseteq visited \cup {RobotsUrl} /\ crawlPc' \in {"again", "crawl"}
    BY <1>1 DEF FetchRobots
  <2>2. Untouched'
    BY <1>1, <2>1 DEF FetchRobots, CrawlInv, Untouched
  <2>3. StartRefused' \/ Chained'
    BY <2>2, StartReady, PTL
  <2> QED
    BY <2>1, <2>2, <2>3 DEF CrawlInv, CrawlTypeOK
<1>2. CASE Finish
  <2>1. /\ UNCHANGED <<site, robots, frontier, visited, crawled, asked, parsed>>
        /\ crawlPc = "crawl" /\ crawlPc' = "done" /\ skipped' = skipped + Len(frontier)
    BY <1>2 DEF Finish
  <2>2. Len(frontier) \in Nat /\ skipped \in Nat
    BY DEF CrawlInv, CrawlTypeOK
  <2>3. skipped' \in Nat /\ Len(frontier) <= skipped'
    BY <2>1, <2>2
  <2>4. StartRefused' \/ Chained'
    BY <2>1 DEF CrawlInv, StartRefused, Chained, Admitted
  <2> QED
    BY <2>1, <2>3, <2>4 DEF CrawlInv, CrawlTypeOK
<1>3. CASE PopRefused
  <2>1. /\ crawlPc = "crawl" /\ frontier # <<>> /\ frontier' = Tail(frontier)
        /\ ~ Admitted(frontier[1].url, frontier[1].depth) /\ skipped' = skipped + 1
        /\ UNCHANGED <<crawlPc, site, robots, visited, crawled, asked, parsed>>
    BY <1>3 DEF PopRefused, Pops
  <2>2. StartRefused
    BY <2>1, HeadOfLine DEF CrawlInv
  <2>3. frontier = <<StartItem>> /\ frontier' = <<>>
    BY <2>1, <2>2 DEF StartRefused
  <2>4. StartRefused'
    BY <2>1, <2>2, <2>3 DEF StartRefused, Admitted
  <2>5. frontier' \in Seq(QueueItem) /\ skipped' \in Nat
    BY <2>1, <2>3 DEF CrawlInv, CrawlTypeOK
  <2> QED
    BY <2>1, <2>4, <2>5 DEF CrawlInv, CrawlTypeOK
<1>4. CASE UNCHANGED crawlVars
  <2>1. Untouched' = Untouched /\ (StartRefused \/ Chained => StartRefused' \/ Chained')
    BY <1>4 DEF crawlVars, Untouched, StartRefused, Chained, Admitted
  <2> QED
    BY <1>4, <2>1 DEF crawlVars, CrawlInv, CrawlTypeOK
<1> QED
  BY <1>1, <1>2, <1>3, <1>4

(* Every step keeps the invariant. *)
LEMMA CrawlStep == CrawlInv /\ [CrawlNext]_crawlVars => CrawlInv'
  BY FailsStep, AnswersStep, OtherSteps DEF CrawlNext

(* The pages requested are the line up to the cursor. *)
LEMMA AskedInLine ==
  ASSUME CrawlTypeOK
  PROVE  /\ Len(asked \o frontier) = Len(asked) + Len(frontier)
         /\ DOMAIN asked = 1..Len(asked) /\ Len(asked) \in Nat /\ Len(frontier) \in Nat
         /\ \A i \in DOMAIN asked :
              i \in 1..Len(asked \o frontier) /\ (asked \o frontier)[i] = asked[i]
         /\ frontier = <<>> => asked \o frontier = asked
<1>1. asked \in Seq(QueueItem) /\ frontier \in Seq(QueueItem)
  BY DEF CrawlTypeOK
<1>2. /\ Len(asked \o frontier) = Len(asked) + Len(frontier)
      /\ \A i \in 1..Len(asked) : (asked \o frontier)[i] = asked[i]
  BY <1>1, LineGrows
<1>3. frontier = <<>> => asked \o frontier = asked
  BY <1>1, ConcatEmptySeq
<1> QED
  BY <1>1, <1>2, <1>3

(* DepthTrue, from the line. *)
LEMMA InvDepthTrue == CrawlInv => DepthTrue
<1> SUFFICES ASSUME CrawlInv PROVE DepthTrue
  OBVIOUS
<1>1. CASE asked = <<>>
  BY <1>1 DEF DepthTrue
<1>2. CASE asked # <<>>
  <2> DEFINE q == asked \o frontier
             seen == visited \cup {StartUrl}
             shut == Closed \cup robots
  <2>1. Chain(q, Len(asked), seen, parsed, site.links, shut)
    BY <1>2 DEF CrawlInv, CrawlTypeOK, Untouched, StartRefused, Chained
  <2>2. \A i \in DOMAIN asked : i \in 1..Len(q) /\ q[i] = asked[i]
    BY AskedInLine DEF CrawlInv
  <2> HIDE DEF q, seen
  <2>3. MaxDepth \in Int
    BY CrawlAssumption
  <2> SUFFICES ASSUME NEW i \in DOMAIN asked
               PROVE  /\ asked[i].depth \in 0..MaxDepth
                      /\ asked[i].url \in Within[asked[i].depth]
                      /\ asked[i].depth > 0 => asked[i].url \notin Within[asked[i].depth - 1]
    BY DEF DepthTrue
  <2> DEFINE n == asked[i].depth
             u == asked[i].url
  <2>4. i \in 1..Len(q) /\ q[i].depth = n /\ q[i].url = u
    BY <2>2
  <2>5. \A j \in 1..Len(q) : q[j].depth \in Nat
    <3>1. q \in Seq(QueueItem)
      BY <2>1 DEF Chain, InLine
    <3>2. \A j \in 1..Len(q) : q[j] \in QueueItem
      BY <3>1
    <3> QED
      BY <3>2 DEF QueueItem
  <2>6. n \in Nat /\ n <= MaxDepth
    <3>1. Fits(shut, q[i].url, q[i].depth)
      BY <2>1, <2>4 DEF Chain, InLine
    <3> QED
      BY <2>4, <2>5, <3>1 DEF Fits
  <2> HIDE DEF n, u
  <2>7. u \in Within[n]
    BY <2>1, <2>4, <2>6, ChainReaches DEF shut
  <2>8. ASSUME n > 0, u \in Within[n - 1] PROVE FALSE
    <3> DEFINE m == n - 1
    <3>1. m \in Nat /\ m <= MaxDepth /\ ~ (n <= m)
      BY <2>3, <2>6, <2>8
    <3>2. Placed(q, m, seen, u)
      <4> HIDE DEF m
      <4>1. u \in Within[m]
        BY <2>8 DEF m
      <4> QED
        BY <2>1, <2>3, <3>1, <4>1, ChainCovers DEF shut
    <3> HIDE DEF m
    <3>3. PICK j \in 1..Len(q) : q[j].url = u /\ q[j].depth <= m
      BY <2>4, <3>2 DEF Placed
    <3>4. j = i
      BY <2>1, <2>4, <3>3 DEF Chain, InLine
    <3> QED
      BY <2>4, <3>1, <3>3, <3>4
  <2> QED
    BY <2>3, <2>6, <2>7, <2>8 DEF n, u
<1> QED
  BY <1>1, <1>2

(* CrawlComplete, from the line. *)
LEMMA InvComplete == CrawlInv => CrawlComplete
<1> SUFFICES ASSUME CrawlInv PROVE CrawlComplete
  OBVIOUS
<1> DEFINE q == asked \o frontier
           seen == visited \cup {StartUrl}
           shut == Closed \cup robots
<1>1. CASE asked = <<>> /\ ~ Chained
  <2>1. ASSUME crawlPc = "done", MaxDepth >= 0
        PROVE  Within[MaxDepth] = {}
    <3>1. StartRefused
      BY <1>1, <2>1 DEF CrawlInv
    <3>2. MaxDepth \in Nat
      BY <2>1, CrawlAssumption
    <3>3. parsed = {} /\ StartUrl \in Closed \cup robots
      BY <2>1, <3>1 DEF StartRefused, Admitted
    <3> QED
      BY <3>2, <3>3, NothingWithin
  <2> QED
    BY <1>1, <2>1 DEF CrawlComplete
<1>2. CASE Chained
  <2>1. Chain(q, Len(asked), seen, parsed, site.links, shut)
    BY <1>2 DEF Chained
  <2>2. /\ \A i \in DOMAIN asked : i \in 1..Len(q) /\ q[i] = asked[i]
        /\ frontier = <<>> => q = asked
        /\ DOMAIN asked = 1..Len(asked)
    BY AskedInLine DEF CrawlInv
  <2> HIDE DEF q, seen
  <2>3. \A i, j \in DOMAIN asked : asked[i].url = asked[j].url => i = j
    <3>1. \A i, j \in 1..Len(q) : q[i].url = q[j].url => i = j
      BY <2>1 DEF Chain, InLine
    <3> QED
      BY <2>2, <3>1
  <2>4. ASSUME frontier = <<>>, MaxDepth >= 0, NEW u \in Within[MaxDepth]
        PROVE  u \in {item.url : item \in ToSet(asked)} \cup {RobotsUrl}
    <3>1. MaxDepth \in Nat /\ MaxDepth <= MaxDepth /\ MaxDepth \in Int
      BY <2>4, CrawlAssumption
    <3>2. Placed(q, MaxDepth, seen, u)
      BY <2>1, <2>4, <3>1, ChainCovers DEF shut
    <3>3. CASE u = RobotsUrl
      BY <3>3
    <3>4. CASE \E i \in 1..Len(q) : q[i].url = u
      <4>1. PICK i \in 1..Len(asked) : asked[i].url = u
        BY <2>2, <2>4, <3>4
      <4> QED
        BY <2>2, <4>1 DEF ToSet
    <3> QED
      BY <3>2, <3>3, <3>4 DEF Placed
  <2> QED
    BY <2>3, <2>4 DEF CrawlComplete
<1>3. asked = <<>> \/ Chained
  BY DEF CrawlInv, CrawlTypeOK, Untouched, StartRefused
<1> QED
  BY <1>1, <1>2, <1>3

(* CrawlAccounts, from the line and the counters. *)
LEMMA InvAccounts == CrawlInv => CrawlAccounts
<1> SUFFICES ASSUME CrawlInv PROVE CrawlAccounts
  OBVIOUS
<1>1. site.maxPages > 0 => Cardinality(parsed) <= site.maxPages
  BY DEF CrawlInv
<1>2. ASSUME crawlPc = "done" PROVE Cardinality(visited \ {RobotsUrl}) <= Len(asked) + skipped
  <2>1. Len(asked) \in Nat /\ Len(frontier) \in Nat /\ skipped \in Nat /\ Len(frontier) <= skipped
    BY <1>2, AskedInLine DEF CrawlInv, CrawlTypeOK
  <2>2. CASE StartRefused
    <3>1. visited \ {RobotsUrl} = {}
      BY <2>2 DEF StartRefused
    <3>2. Cardinality(visited \ {RobotsUrl}) = 0
      BY <3>1, FS_EmptySet
    <3> QED
      BY <2>1, <3>2
  <2>3. CASE Chained
    <3> DEFINE q == asked \o frontier
               N == Len(q)
               S == {q[i].url : i \in 1..N}
               f == [i \in 1..N |-> q[i].url]
    <3>1. Chain(q, Len(asked), visited \cup {StartUrl}, parsed, site.links, Closed \cup robots)
      BY <2>3 DEF Chained
    <3>2. N = Len(asked) + Len(frontier)
      BY AskedInLine DEF CrawlInv
    <3> HIDE DEF q
    <3>3. visited \ {RobotsUrl} \subseteq S
      BY <3>1 DEF Chain, InSight
    <3> HIDE DEF N
    <3>4. N \in Nat
      BY <2>1, <3>2
    <3>5. IsFiniteSet(1..N) /\ Cardinality(1..N) = N
      BY <3>4, FS_Interval
    <3>6. f \in Surjection(1..N, S)
      BY DEF Surjection
    <3> HIDE DEF f, S
    <3>7. IsFiniteSet(S) /\ Cardinality(S) <= N /\ Cardinality(S) \in Nat
      BY <3>5, <3>6, FS_Surjection, FS_CardinalityType
    <3>8. /\ Cardinality(visited \ {RobotsUrl}) <= Cardinality(S)
          /\ Cardinality(visited \ {RobotsUrl}) \in Nat
      BY <3>3, <3>7, FS_Subset, FS_CardinalityType
    <3> QED
      BY <2>1, <3>2, <3>7, <3>8
  <2> QED
    BY <1>2, <2>2, <2>3 DEF CrawlInv
<1> QED
  BY <1>1, <1>2 DEF CrawlAccounts

(* CrawlFaithful holds in every run of the crawler. *)
THEOREM CrawlsAreFaithful == CrawlSpec => []CrawlFaithful
<1>1. CrawlInv => CrawlFaithful
  BY InvDepthTrue, InvComplete, InvAccounts DEF CrawlFaithful
<1> QED
  BY <1>1, CrawlInitInv, CrawlStep, PTL DEF CrawlSpec
=============================================================================
