----------------------------- MODULE HttpClient -----------------------------
(***************************************************************************)
(* The HTTP client all checks of a scan send through: the request budget,  *)
(* the token buckets, the concurrency semaphore, redirects, and the        *)
(* session rules, which send requests of their own (send_raw) while the    *)
(* request they prepare, or retry, holds its permit.                       *)
(*                                                                         *)
(* The tasks are coroutines.  A task that does not suspend keeps the event *)
(* loop: "running" is the task that has not suspended since it resumed,    *)
(* and nobody else moves meanwhile.  So what the code does between two     *)
(* awaits is atomic although it is several actions here.                   *)
(*                                                                         *)
(* One session rule stands for the list of rules.  A token is the number   *)
(* of logins that had been made when it was asked for.  The retry after a  *)
(* login copies the headers of the refused request, its token included.    *)
(***************************************************************************)
EXTENDS TokenBucket, Sequences, FiniteSets

CONSTANTS
  Tasks,          \* the tasks that send requests
  MaxSends,       \* bound on the sends of a task
  MaxRequests,    \* limits.max_requests
  MaxConcurrent,  \* limits.max_concurrent_requests
  MaxRedirects,   \* scope.max_redirects
  Windows,        \* times at which a window of observation is opened
  Setups,         \* whether there are session rules, and which tasks send
  None            \* no task, no token

ASSUME ClientAssumption ==
  /\ IsFiniteSet(Tasks)
  /\ MaxSends \in Nat /\ MaxRequests \in Nat /\ MaxRedirects \in Nat
  /\ MaxConcurrent \in Nat \ {0}
  /\ Capacity = MaxConcurrent
  /\ Setups \subseteq [engine : BOOLEAN, users : SUBSET Tasks]
  /\ None \notin Tasks /\ None \notin Nat

VARIABLES
  task,      \* the task: where its send, or the nested send_raw, is
  running,   \* the task that has not suspended yet
  free,      \* permits of the semaphore
  waiters,   \* tasks waiting for a permit, first come first served
  count,     \* _request_count
  wire,      \* history: requests given to the transport
  cache,     \* the session engine's token
  era,       \* history: logins made so far
  open,      \* _client is not None
  engine,    \* session rules are configured
  users      \* the tasks that send in this behaviour

sessionVars == <<cache, era>>
config      == <<engine, users>>
clientVars  == <<task, running, free, waiters, count, wire, sessionVars, open>>
httpVars    == <<bucketVars, clientVars, config>>

(***************************************************************************)
(* Where a send is: waiting for the bucket of its host, then for the       *)
(* global one, then for the semaphore; "prepare" and "ready" are passed    *)
(* without suspending; "net" is the transport.  With raw # "none" this is  *)
(* the place of the nested send, whose sender waits in prepare_request     *)
(* ("rule") or handle_401 ("login") and holds its permit.  token is what   *)
(* the headers of the request carry, got what the nested fetch was handed  *)
(* out; missed: the fetch made to prepare this attempt gave no token.      *)
(***************************************************************************)
Stage == {"idle", "host", "global", "sem", "prepare", "ready", "net"}
Raw   == {"none", "rule", "login"}
Token == {None} \cup Nat
Task  ==
  [pc : Stage, raw : Raw, host : Hosts \cup {None}, hops : 0..MaxRedirects,
   retried : BOOLEAN, wake : Nat, token : Token, got : Token, missed : BOOLEAN,
   mine : Nat, todo : 0..MaxSends]

Turn(t)      == running \in {None, t}
Stays(t)     == running' = t
Suspends     == running' = None
Inside(t)    == task[t].pc \in {"prepare", "ready", "net"}

(* Permits a task holds: one per send_raw or send past the semaphore. *)
Holds(t) ==
  IF task[t].raw # "none" THEN IF Inside(t) THEN 2 ELSE 1
                          ELSE IF Inside(t) THEN 1 ELSE 0

(* Faulty forms of the operators below. *)
AdmittedAlways       == open
ReleasedOnRaise(t)   == 1
KeepsToken           == cache
NextInLineOnly(t)    == waiters # <<>> /\ Head(waiters) = t

(* The check send and send_raw make before their first await. *)
Admitted == open /\ count < MaxRequests

(* _do_send needs the transport. *)
Transmits == open

(* len(follow_chain) < max_redirects *)
Follows(t) == task[t].hops < MaxRedirects

(* Semaphore: free, and nobody came before. *)
NextInLine(t) == IF waiters = <<>> THEN TRUE ELSE Head(waiters) = t

(* Permits given back when the sends of t unwind. *)
Released(t) == Holds(t)

(* handle_401 clears the cache. *)
AfterLogin == None

Fresh(todo) ==
  [pc |-> "idle", raw |-> "none", host |-> None, hops |-> 0, retried |-> FALSE,
   wake |-> 0, token |-> None, got |-> None, missed |-> FALSE, mine |-> 0, todo |-> todo]

HttpInit ==
  /\ BucketInit
  /\ \E setup \in Setups : engine = setup.engine /\ users = setup.users
  /\ task = [t \in Tasks |-> Fresh(IF t \in users THEN MaxSends ELSE 0)]
  /\ running = None
  /\ free = MaxConcurrent
  /\ waiters = <<>>
  /\ count = 0
  /\ wire = 0
  /\ cache = None
  /\ era = 0
  /\ open = TRUE

-----------------------------------------------------------------------------
(* Entering a send *)

(* The scope and the budget are checked; a refusal raises. *)
Send(t) ==
  /\ running = None
  /\ task[t].pc = "idle" /\ task[t].todo > 0
  /\ \/ /\ Admitted
        /\ \E h \in Hosts :
             task' = [task EXCEPT ![t] = [Fresh(@.todo - 1) EXCEPT !.pc = "host", !.host = h, !.wake = now]]
        /\ Stays(t)
     \/ /\ task' = [task EXCEPT ![t].todo = @ - 1]
        /\ Suspends
  /\ UNCHANGED <<bucketVars, free, waiters, count, wire, sessionVars, open, config>>

(* A bucket has a token, or tells how long to sleep. *)
Acquire(t, b, next) ==
  /\ Turn(t) /\ now >= task[t].wake
  /\ \/ /\ TakeToken(b)
        /\ task' = [task EXCEPT ![t].pc = next]
        /\ Stays(t)
     \/ /\ MissToken(b)
        /\ task' = [task EXCEPT ![t].wake = now + Delay(b)]
        /\ Suspends
  /\ UNCHANGED <<free, waiters, count, wire, sessionVars, open, config>>

AcquireHost(t)   == task[t].pc = "host" /\ Acquire(t, task[t].host, "global")
AcquireGlobal(t) == task[t].pc = "global" /\ Acquire(t, Global, "sem")

(* The permit is there and the request is counted. *)
Permit(t) ==
  /\ Turn(t) /\ task[t].pc = "sem"
  /\ free > 0 /\ NextInLine(t)
  /\ free' = free - 1
  /\ waiters' = IF waiters = <<>> THEN <<>> ELSE Tail(waiters)
  /\ count' = count + 1
  /\ task' = [task EXCEPT ![t].pc = IF task[t].raw = "none" THEN "prepare" ELSE "ready"]
  /\ Stays(t)
  /\ UNCHANGED <<bucketVars, wire, sessionVars, open, config>>

Queue(t) ==
  /\ running = t /\ task[t].pc = "sem"
  /\ free = 0 \/ waiters # <<>>
  /\ waiters' = Append(waiters, t)
  /\ Suspends
  /\ UNCHANGED <<bucketVars, task, free, count, wire, sessionVars, open, config>>

-----------------------------------------------------------------------------
(* Session rules and the transport *)

(* prepare_request: no rule applies to the URL, the token is cached, or it *)
(* is fetched by a nested send, which may be refused.                      *)
Prepare(t) ==
  /\ Turn(t) /\ task[t].pc = "prepare"
  /\ \/ /\ task[t].token = None
        /\ task' = [task EXCEPT ![t].pc = "ready"]
     \/ /\ engine /\ cache # None
        /\ task' = [task EXCEPT ![t].pc = "ready", ![t].token = cache]
     \/ /\ engine /\ cache = None
        /\ task' = [task EXCEPT ![t].pc = "ready", ![t].missed = TRUE]
     \/ /\ engine /\ cache = None /\ Admitted
        /\ \E h \in Hosts :
             task' = [task EXCEPT ![t].pc = "host", ![t].raw = "rule", ![t].host = h, ![t].wake = now]
  /\ Stays(t)
  /\ UNCHANGED <<bucketVars, free, waiters, count, wire, sessionVars, open, config>>

(* One request goes out.  A token is what the server hands out now. *)
Transmit(t) ==
  /\ Turn(t) /\ task[t].pc = "ready"
  /\ Transmits
  /\ wire' = wire + 1
  /\ task' = [task EXCEPT ![t].pc = "net", ![t].got = IF task[t].raw = "rule" THEN era ELSE @]
  /\ Suspends
  /\ UNCHANGED <<bucketVars, free, waiters, count, sessionVars, open, config>>

(* A redirect in scope is followed without a new token, permit or count. *)
Redirected(t) ==
  /\ running = None /\ task[t].pc = "net"
  /\ Follows(t)
  /\ task' = [task EXCEPT ![t].pc = "ready", ![t].hops = @ + 1]
  /\ Stays(t)
  /\ UNCHANGED <<bucketVars, free, waiters, count, wire, sessionVars, open, config>>

(* The whole send is over, with a response or an exception. *)
End(t) ==
  /\ free' = free + Released(t)
  /\ task' = [task EXCEPT ![t] = Fresh(@.todo)]
  /\ UNCHANGED sessionVars

(* The nested fetch is over and its sender goes on to send its request,    *)
(* with the token it got; without one the headers stay as they are.        *)
Unnest(t, token, missed) ==
  /\ free' = free + 1
  /\ task' = [task EXCEPT ![t].pc = "ready", ![t].raw = "none", ![t].hops = 0,
                          ![t].token = token, ![t].got = None, ![t].missed = missed]

NoToken(t) == Unnest(t, task[t].token, TRUE)

(* The token is extracted, or the response has none. *)
TokenFetched(t) ==
  /\ task[t].raw = "rule"
  /\ \/ Unnest(t, task[t].got, FALSE) /\ cache' = task[t].got
     \/ NoToken(t) /\ UNCHANGED cache
  /\ UNCHANGED era

(* Whatever the login was answered, the cache is cleared and the request   *)
(* is prepared again, on a copy of its headers.                            *)
LoggedIn(t) ==
  /\ task[t].raw = "login"
  /\ free' = free + 1
  /\ era' = era + 1
  /\ cache' = AfterLogin
  /\ task' = [task EXCEPT ![t].pc = "prepare", ![t].raw = "none", ![t].hops = 0,
                          ![t].retried = TRUE, ![t].missed = FALSE, ![t].mine = era + 1]

(* A 401 or 403 to the request itself: one login, unless it is refused. *)
Denied(t) ==
  /\ task[t].raw = "none" /\ engine /\ ~task[t].retried /\ Admitted
  /\ \E h \in Hosts :
       task' = [task EXCEPT ![t].pc = "host", ![t].raw = "login", ![t].host = h,
                            ![t].hops = 0, ![t].wake = now]
  /\ UNCHANGED <<free, sessionVars>>

Respond(t) ==
  /\ running = None /\ task[t].pc = "net"
  /\ \/ TokenFetched(t) \/ LoggedIn(t) \/ Denied(t)
     \/ task[t].raw = "none" /\ End(t)
  /\ running' = IF task'[t].pc = "idle" THEN None ELSE t
  /\ UNCHANGED <<bucketVars, waiters, count, wire, open, config>>

(* Too many redirects, a hop out of scope, no transport, or an exception   *)
(* that is not an httpx error.  _fetch_token goes on without a token,      *)
(* handle_401 gives the first response back, and a send raises.            *)
Raise(t) ==
  /\ Turn(t)
  /\ task[t].pc = "net" \/ (task[t].pc = "ready" /\ ~Transmits)
  /\ IF task[t].raw = "rule"
     THEN NoToken(t) /\ Stays(t) /\ UNCHANGED sessionVars
     ELSE End(t) /\ Suspends
  /\ UNCHANGED <<bucketVars, waiters, count, wire, open, config>>

-----------------------------------------------------------------------------
(* The surroundings *)

(* The task is cancelled at the await it waits at, and gives up its place  *)
(* in the line when that is the semaphore's.                               *)
Cancel(t) ==
  /\ running = None /\ task[t].pc # "idle"
  /\ free' = free + Holds(t)
  /\ \/ (\A i \in DOMAIN waiters : waiters[i] # t) /\ UNCHANGED waiters
     \/ \E i \in DOMAIN waiters :
          /\ waiters[i] = t
          /\ waiters' = SubSeq(waiters, 1, i - 1) \o SubSeq(waiters, i + 1, Len(waiters))
  /\ task' = [task EXCEPT ![t] = Fresh(0)]
  /\ UNCHANGED <<bucketVars, running, count, wire, sessionVars, open, config>>

(* __aexit__, maybe while tasks of a failed phase are still there. *)
Close ==
  /\ running = None /\ open
  /\ open' = FALSE
  /\ UNCHANGED <<bucketVars, task, running, free, waiters, count, wire, sessionVars, config>>

TokenExpires ==
  /\ running = None /\ cache # None
  /\ cache' = None
  /\ UNCHANGED <<bucketVars, task, running, free, waiters, count, wire, era, open, config>>

Clock ==
  /\ running = None
  /\ Tick
  /\ UNCHANGED <<clientVars, config>>

(* A window of observation is opened. *)
Observe ==
  /\ running = None /\ since # now /\ now \in Windows
  /\ Watch
  /\ UNCHANGED <<clientVars, config>>

-----------------------------------------------------------------------------

TaskStep(t) ==
  \/ AcquireHost(t) \/ AcquireGlobal(t) \/ Permit(t) \/ Queue(t)
  \/ Prepare(t) \/ Transmit(t) \/ Redirected(t) \/ Respond(t) \/ Raise(t)

HttpNext ==
  \/ \E t \in Tasks : Send(t) \/ TaskStep(t) \/ Cancel(t)
  \/ Close \/ TokenExpires \/ Clock \/ Observe

HttpSpec == HttpInit /\ [][HttpNext]_httpVars

(* The event loop runs what is ready, requests have time-outs, and the     *)
(* clock goes on.  No task has to send, and nothing has to be cancelled.   *)
FairHttpSpec ==
  /\ HttpSpec
  /\ \A t \in Tasks : WF_httpVars(TaskStep(t))
  /\ WF_httpVars(Clock)

-----------------------------------------------------------------------------
(* Properties *)

HttpTypeOK ==
  /\ task \in [Tasks -> Task]
  /\ running \in Tasks \cup {None}
  /\ free \in 0..MaxConcurrent
  /\ waiters \in Seq(Tasks)
  /\ count \in Nat /\ wire \in Nat /\ era \in Nat
  /\ cache \in Token
  /\ open \in BOOLEAN /\ engine \in BOOLEAN
  /\ users \in SUBSET Tasks

(* Every permit is free or held by a send that is past the semaphore,      *)
(* whatever was raised, nested or cancelled; so no more than               *)
(* MaxConcurrent sends are under way.                                      *)
PermitsConserved ==
  free + Cardinality({t \in Tasks : Holds(t) > 0}) + Cardinality({t \in Tasks : Holds(t) > 1})
    = MaxConcurrent

(* Tasks that passed the budget check and have not been counted yet may    *)
(* overshoot the budget, each by one request.                              *)
OvershootBound == count > MaxRequests => count < MaxRequests + Cardinality(users)

(* What leaves for the network is bounded by what is counted: a counted    *)
(* request is sent at most twice, each time with at most MaxRedirects      *)
(* redirects.                                                              *)
WireBound == wire <= 2 * (MaxRedirects + 1) * count

(* max_requests bounds what is sent only this far: the count by as many as *)
(* were let in together, the wire by the hops and the one retry each of    *)
(* them may take without being counted (client.py:139, 333, 184).          *)
WithinBudget == OvershootBound /\ WireBound

(* A request that is retried after a login carries no token older than     *)
(* that login, although other tasks fetch, cache and clear meanwhile,      *)
(* unless the fetch made for the retry itself gave none: then the refused  *)
(* request's token is in the copied headers still (client.py:174-182).     *)
FreshRetry ==
  \A t \in Tasks :
    task[t].retried /\ task[t].raw = "none" /\ task[t].pc = "net" =>
      task[t].token = None \/ task[t].token >= task[t].mine \/ task[t].missed

OutOfTime == now = MaxTime /\ \E t \in Tasks : task[t].wake > now

(* Every send comes to an end, when session rules leave a permit for the   *)
(* sends they nest: with as many senders as permits, each may hold one     *)
(* and wait for another for ever.                                          *)
SendsEnd ==
  ~engine \/ Cardinality(users) < MaxConcurrent =>
    \A t \in Tasks : task[t].pc # "idle" ~> (task[t].pc = "idle" \/ OutOfTime)
=============================================================================
