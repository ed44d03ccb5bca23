-------------------------- MODULE HttpClientProofs --------------------------
(***************************************************************************)
(* Proofs about the HTTP client.                                           *)
(*                                                                         *)
(* HttpInv says of every task where its send can be (Sender), and accounts *)
(* for the permits, the budget and the wire: a permit is free or held, a   *)
(* task that passed the budget check is counted or Pending, and a counted  *)
(* request has sends left (Reserve) until it has used them.  Sums over the *)
(* tasks are cardinalities of sets of pairs, so that a step of one task    *)
(* changes a sum by what it changes of that task.                          *)
(***************************************************************************)
EXTENDS HttpClient, TokenBucketProofs, FiniteSetTheorems

(* Sends a chain of redirects makes at most, and those left to one that is *)
(* at its hops-th redirect.                                                *)
Chain == MaxRedirects + 1

ChainLeft(u) ==
  CASE u.pc = "ready" -> Chain - u.hops
    [] u.pc = "net"   -> MaxRedirects - u.hops
    [] OTHER          -> 0

(* The second chain, after a login. *)
RetryLeft(u) == IF u.retried THEN 0 ELSE Chain

(* Sends that the counted requests of a task may still make. *)
Reserve(u) ==
  CASE u.raw = "rule"  -> ChainLeft(u) + Chain + RetryLeft(u)
    [] u.raw = "login" -> ChainLeft(u) + Chain
    [] u.raw = "none" /\ u.pc = "prepare" -> Chain + RetryLeft(u)
    [] u.raw = "none" /\ u.pc \in {"ready", "net"} -> ChainLeft(u) + RetryLeft(u)
    [] OTHER -> 0

Pairs    == Tasks \X (1..(3 * Chain))
Reserved == {p \in Pairs : p[2] <= Reserve(task[p[1]])}

(* Let in by the budget check, and not counted yet. *)
Waiting == {"host", "global", "sem"}
Pending == {t \in Tasks : task[t].pc \in Waiting}

Sender(t) ==
  /\ task[t].pc = "idle" => task[t].raw = "none"
  /\ task[t].pc # "idle" \/ task[t].todo > 0 => t \in users
  /\ task[t].pc = "host" => task[t].host \in Hosts
  /\ task[t].pc = "prepare" =>
       /\ task[t].raw = "none" /\ task[t].hops = 0 /\ running = t
       /\ task[t].retried => cache = None
  /\ task[t].pc \in Waiting =>
       task[t].hops = 0 /\ (task[t].raw = "none" => ~task[t].retried)
  /\ task[t].raw = "login" => ~task[t].retried
  /\ task[t].mine <= era
  /\ task[t].retried /\ task[t].raw = "none" /\ task[t].pc \in {"ready", "net"} =>
       task[t].token = None \/ task[t].token >= task[t].mine \/ task[t].missed
  /\ task[t].retried /\ task[t].raw = "rule" /\ task[t].pc = "net" =>
       task[t].got \in Nat /\ task[t].got >= task[t].mine

AllSend == \A t \in Tasks : Sender(t)

Budgeted ==
  \/ count = 0 /\ Pending = {}
  \/ count + Cardinality(Pending) < MaxRequests + Cardinality(users)

WireAccounted == wire + Cardinality(Reserved) <= (2 * Chain) * count

HttpInv ==
  /\ BucketInv
  /\ HttpTypeOK
  /\ AllSend
  /\ PermitsConserved
  /\ Budgeted
  /\ WireAccounted

-----------------------------------------------------------------------------
(* Counting *)

(* Two sets that differ at most in t differ in size by what they say of t. *)
LEMMA OneMoves ==
  ASSUME NEW S, NEW T, NEW t, IsFiniteSet(S), S \ {t} = T \ {t}
  PROVE  /\ IsFiniteSet(T)
         /\ Cardinality(S) \in Nat /\ Cardinality(T) \in Nat
         /\ t \in S /\ t \in T => Cardinality(T) = Cardinality(S)
         /\ t \notin S /\ t \notin T => Cardinality(T) = Cardinality(S)
         /\ t \in S /\ t \notin T => Cardinality(S) = Cardinality(T) + 1
         /\ t \notin S /\ t \in T => Cardinality(T) = Cardinality(S) + 1
<1> DEFINE R == S \ {t}
<1>1. IsFiniteSet(R) BY FS_RemoveElement
<1>2. IsFiniteSet(R \cup {t}) /\ Cardinality(R \cup {t}) = Cardinality(R) + 1
  <2>1. t \notin R OBVIOUS
  <2> QED BY <1>1, <2>1, FS_AddElement
<1>3. S = R \/ S = R \cup {t} OBVIOUS
<1>4. T = R \/ T = R \cup {t} OBVIOUS
<1>5. t \in S <=> S = R \cup {t} OBVIOUS
<1>6. t \in T <=> T = R \cup {t} OBVIOUS
<1>7. IsFiniteSet(T) BY <1>1, <1>2, <1>4
<1>8. Cardinality(S) \in Nat /\ Cardinality(T) \in Nat BY <1>7, FS_CardinalityType
<1> HIDE DEF R
<1> QED BY <1>2, <1>3, <1>4, <1>5, <1>6, <1>7, <1>8

(* The pairs a single task contributes to Reserved. *)
LEMMA PairsOfTask ==
  ASSUME NEW t, NEW k \in Nat
  PROVE  IsFiniteSet({t} \X (1..k)) /\ Cardinality({t} \X (1..k)) = k
<1>1. IsFiniteSet(1..k) /\ Cardinality(1..k) = k
  BY FS_Interval
<1> DEFINE f == [i \in 1..k |-> <<t, i>>]
<1>2. f \in Bijection(1..k, {t} \X (1..k))
  <2>1. f \in [1..k -> {t} \X (1..k)] OBVIOUS
  <2>2. \A i, j \in 1..k : f[i] = f[j] => i = j OBVIOUS
  <2>3. \A p \in {t} \X (1..k) : \E i \in 1..k : f[i] = p
    <3> TAKE p \in {t} \X (1..k)
    <3>1. p[2] \in 1..k /\ p = <<t, p[2]>> OBVIOUS
    <3>2. f[p[2]] = p BY <3>1
    <3> QED BY <3>1, <3>2
  <2> HIDE DEF f
  <2> QED BY <2>1, <2>2, <2>3 DEF Bijection, Injection, Surjection, IsInjective
<1>3. ExistsBijection(1..k, {t} \X (1..k)) BY <1>2 DEF ExistsBijection
<1> QED BY <1>1, <1>3, FS_Bijection

(* The constants are numbers of the ranges assumed. *)
LEMMA ConstantsFact ==
  /\ MaxRequests \in Nat /\ MaxRedirects \in Nat /\ Chain \in Nat \ {0} /\ 3 * Chain \in Nat
  /\ MaxConcurrent \in Nat \ {0} /\ MaxSends \in Nat
  /\ IsFiniteSet(Tasks) /\ None \notin Tasks /\ None \notin Nat
  BY ClientAssumption DEF Chain

(* A step of task t changes what is reserved by what it changes of t.      *)
LEMMA ReservedMoves ==
  ASSUME NEW t \in Tasks, NEW a \in 0..(3 * Chain), NEW b \in 0..(3 * Chain),
         \A q \in Tasks : q # t => task'[q] = task[q],
         Reserve(task[t]) = a, Reserve(task'[t]) = b
  PROVE  /\ Cardinality(Reserved) \in Nat /\ Cardinality(Reserved') \in Nat
         /\ Cardinality(Reserved') + a = Cardinality(Reserved) + b
<1> DEFINE Rest == {p \in Reserved : p[1] # t}
           Of(k) == {t} \X (1..k)
<1>1. 3 * Chain \in Nat BY ConstantsFact
<1>2. a \in Nat /\ b \in Nat OBVIOUS
<1>3. Reserved = Rest \cup Of(a)
  <2>1. \A p \in Of(a) : p \in Pairs /\ p[2] <= Reserve(task[p[1]]) BY <1>1 DEF Pairs
  <2>2. \A p \in Reserved : p[1] = t => p \in Of(a) BY <1>1, <1>2 DEF Pairs, Reserved
  <2> QED BY <2>1, <2>2 DEF Reserved
<1>4. Reserved' = Rest \cup Of(b)
  <2>1. \A p \in Of(b) : p \in Pairs /\ p[2] <= Reserve(task'[p[1]]) BY <1>1 DEF Pairs
  <2>2. \A p \in Pairs : p[1] # t => (p \in Reserved <=> p[2] <= Reserve(task'[p[1]]))
    BY DEF Pairs, Reserved
  <2>3. \A p \in Pairs : p[1] = t /\ p[2] <= Reserve(task'[p[1]]) => p \in Of(b)
    BY <1>1, <1>2 DEF Pairs
  <2>4. Reserved' = {p \in Pairs : p[2] <= Reserve(task'[p[1]])} BY DEF Reserved, Pairs
  <2>5. Rest \subseteq Pairs BY DEF Reserved
  <2>6. \A p \in Rest : p[1] # t /\ p \in Reserved OBVIOUS
  <2> HIDE DEF Rest, Of
  <2> QED BY <2>1, <2>2, <2>3, <2>4, <2>5, <2>6 DEF Rest
<1>5. IsFiniteSet(Rest)
  <2>1. IsFiniteSet(Pairs)
    <3>1. IsFiniteSet(1..(3 * Chain)) BY <1>1, FS_Interval
    <3> QED BY <3>1, ConstantsFact, FS_Product DEF Pairs
  <2>2. Rest \subseteq Pairs BY DEF Reserved
  <2> QED BY <2>1, <2>2, FS_Subset
<1>6. ASSUME NEW k \in Nat
      PROVE Cardinality(Rest \cup Of(k)) = Cardinality(Rest) + k
  <2>1. IsFiniteSet(Of(k)) /\ Cardinality(Of(k)) = k BY <1>6, PairsOfTask
  <2>2. Rest \cap Of(k) = {} OBVIOUS
  <2> HIDE DEF Rest, Of
  <2>3. Cardinality(Rest \cup Of(k)) = Cardinality(Rest) + Cardinality(Of(k)) - Cardinality(Rest \cap Of(k))
    BY <1>5, <2>1, FS_Union
  <2>4. Cardinality(Rest) \in Nat BY <1>5, FS_CardinalityType
  <2> QED BY <2>1, <2>2, <2>3, <2>4, FS_EmptySet
<1>7. Cardinality(Rest) \in Nat BY <1>5, FS_CardinalityType
<1> HIDE DEF Rest, Of
<1>8. Cardinality(Reserved) = Cardinality(Rest) + a BY <1>2, <1>3, <1>6
<1>9. Cardinality(Reserved') = Cardinality(Rest) + b BY <1>2, <1>4, <1>6
<1> QED BY <1>2, <1>7, <1>8, <1>9

(* A task holds two permits at most, that of send_raw and that of send. *)
LEMMA HoldsFact ==
  ASSUME NEW t \in Tasks
  PROVE  Holds(t) \in 0..2 /\ Holds(t)' \in 0..2
  BY DEF Holds

(* A step that gives task t as many permits as it takes from free.         *)
LEMMA PermitsMove ==
  ASSUME PermitsConserved, NEW t \in Tasks, free \in Nat, free' \in Nat,
         \A q \in Tasks : q # t => task'[q] = task[q],
         free' + Holds(t)' = free + Holds(t)
  PROVE  PermitsConserved' /\ free' \in 0..MaxConcurrent
<1> DEFINE One == {q \in Tasks : Holds(q) > 0}
           Two == {q \in Tasks : Holds(q) > 1}
<1>1. IsFiniteSet(One) /\ IsFiniteSet(Two) BY ConstantsFact, FS_Subset
<1>2. \A q \in Tasks : q # t => Holds(q)' = Holds(q) BY DEF Holds, Inside
<1>3. One \ {t} = One' \ {t} /\ Two \ {t} = Two' \ {t} BY <1>2
<1>4. (t \in One <=> Holds(t) > 0) /\ (t \in One' <=> Holds(t)' > 0)
  BY DEF Holds
<1>5. (t \in Two <=> Holds(t) > 1) /\ (t \in Two' <=> Holds(t)' > 1)
  BY DEF Holds
<1>6. free + Cardinality(One) + Cardinality(Two) = MaxConcurrent BY DEF PermitsConserved
<1> DEFINE g == Holds(t)
           h == Holds(t)'
           T == One'
           U == Two'
<1>7. PermitsConserved' <=> free' + Cardinality(T) + Cardinality(U) = MaxConcurrent
  BY DEF PermitsConserved
<1>8. g \in 0..2 /\ h \in 0..2 /\ free' + h = free + g BY HoldsFact
<1>9. /\ (t \in One <=> g > 0) /\ (t \in T <=> h > 0)
      /\ (t \in Two <=> g > 1) /\ (t \in U <=> h > 1)
  BY <1>4, <1>5
<1>10. One \ {t} = T \ {t} /\ Two \ {t} = U \ {t} BY <1>3
<1> HIDE DEF One, Two, g, h, T, U
<1>11. /\ Cardinality(One) \in Nat /\ Cardinality(T) \in Nat
       /\ g > 0 /\ h > 0 => Cardinality(T) = Cardinality(One)
       /\ ~(g > 0) /\ ~(h > 0) => Cardinality(T) = Cardinality(One)
       /\ g > 0 /\ ~(h > 0) => Cardinality(One) = Cardinality(T) + 1
       /\ ~(g > 0) /\ h > 0 => Cardinality(T) = Cardinality(One) + 1
  BY <1>1, <1>9, <1>10, OneMoves
<1>12. /\ Cardinality(Two) \in Nat /\ Cardinality(U) \in Nat
       /\ g > 1 /\ h > 1 => Cardinality(U) = Cardinality(Two)
       /\ ~(g > 1) /\ ~(h > 1) => Cardinality(U) = Cardinality(Two)
       /\ g > 1 /\ ~(h > 1) => Cardinality(Two) = Cardinality(U) + 1
       /\ ~(g > 1) /\ h > 1 => Cardinality(U) = Cardinality(Two) + 1
  BY <1>1, <1>9, <1>10, OneMoves
<1>13. Cardinality(T) + Cardinality(U) + g = Cardinality(One) + Cardinality(Two) + h
  BY <1>8, <1>11, <1>12
<1>14. free' + Cardinality(T) + Cardinality(U) = MaxConcurrent
  <2> DEFINE x == Cardinality(One)
             y == Cardinality(Two)
             v == Cardinality(T)
             w == Cardinality(U)
             f == free
             k == free'
  <2>1. x \in Nat /\ y \in Nat /\ v \in Nat /\ w \in Nat BY <1>11, <1>12
  <2>2. g \in Nat /\ h \in Nat /\ f \in Nat /\ k \in Nat BY <1>8
  <2>3. f + x + y = MaxConcurrent BY <1>6
  <2>4. k + h = f + g BY <1>8
  <2>5. v + w + g = x + y + h BY <1>13
  <2> HIDE DEF x, y, v, w, f, k
  <2>6. k + v + w = MaxConcurrent BY ONLY <2>1, <2>2, <2>3, <2>4, <2>5
  <2> QED BY <2>6 DEF k, v, w
<1>15. free' \in 0..MaxConcurrent BY <1>11, <1>12, <1>14, ConstantsFact
<1> QED BY <1>7, <1>14, <1>15

(* The requests under way can be counted. *)
LEMMA PendingFinite == IsFiniteSet(Pending) /\ Cardinality(Pending) \in Nat
  BY ConstantsFact, FS_Subset, FS_CardinalityType DEF Pending

(* The budget: a task is let in while the count is below it, is counted    *)
(* when it leaves Pending, or leaves it without being counted.             *)
LEMMA BudgetMoves ==
  ASSUME Budgeted, NEW t \in Tasks, count \in Nat, users \subseteq Tasks, users' = users,
         \A q \in Tasks : q # t => task'[q] = task[q],
         \/ t \in Pending' => t \in Pending
         \/ count < MaxRequests /\ \A q \in Tasks : task'[q].pc # "idle" => q \in users,
         \/ count' = count
         \/ count' = count + 1 /\ t \in Pending /\ t \notin Pending'
  PROVE  Budgeted'
<1> DEFINE P == Pending
           Q == Pending'
<1>1. P \ {t} = Q \ {t} BY DEF Pending
<1>2. IsFiniteSet(P) /\ Cardinality(P) \in Nat BY PendingFinite
<1>3. IsFiniteSet(users) /\ Cardinality(users) \in Nat
  BY ConstantsFact, FS_Subset, FS_CardinalityType
<1>4. Budgeted' <=> \/ count' = 0 /\ Q = {}
                    \/ count' + Cardinality(Q) < MaxRequests + Cardinality(users)
  BY DEF Budgeted
<1>5. \/ count = 0 /\ P = {}
      \/ count + Cardinality(P) < MaxRequests + Cardinality(users)
  BY DEF Budgeted
<1>6. MaxRequests \in Nat BY ConstantsFact
<1>7. /\ IsFiniteSet(Q) /\ Cardinality(Q) \in Nat
      /\ t \in P /\ t \in Q => Cardinality(Q) = Cardinality(P)
      /\ t \notin P /\ t \notin Q => Cardinality(Q) = Cardinality(P)
      /\ t \in P /\ t \notin Q => Cardinality(P) = Cardinality(Q) + 1
  BY <1>1, <1>2, OneMoves
<1>8. CASE t \in Q => t \in P
  <2>1. CASE P = {} BY <1>1, <1>4, <1>5, <1>7, <1>8, <2>1
  <2>2. CASE P # {} BY <1>2, <1>3, <1>4, <1>5, <1>6, <1>7, <1>8, <2>2
  <2> QED BY <2>1, <2>2
<1>9. CASE /\ count < MaxRequests /\ \A q \in Tasks : task'[q].pc # "idle" => q \in users
           /\ t \in Q /\ t \notin P
  <2>1. Q \subseteq users BY <1>9 DEF Pending, Waiting
  <2>2. Cardinality(Q) <= Cardinality(users) BY <1>3, <2>1, FS_Subset
  <2>3. count' = count BY <1>9
  <2> QED BY <1>3, <1>4, <1>6, <1>7, <1>9, <2>2, <2>3
<1> QED BY <1>8, <1>9

(* The wire: what is sent is taken from what was reserved, and a request   *)
(* that is counted reserves two chains.                                    *)
LEMMA WireMoves ==
  ASSUME WireAccounted, NEW t \in Tasks, count \in Nat, wire \in Nat,
         NEW a \in 0..(3 * Chain), NEW b \in 0..(3 * Chain),
         \A q \in Tasks : q # t => task'[q] = task[q],
         Reserve(task[t]) = a, Reserve(task'[t]) = b,
         \/ count' = count /\ wire' = wire /\ b <= a
         \/ count' = count /\ wire' = wire + 1 /\ b + 1 <= a
         \/ count' = count + 1 /\ wire' = wire /\ b <= a + 2 * Chain
  PROVE  WireAccounted'
<1>1. /\ Cardinality(Reserved) \in Nat /\ Cardinality(Reserved') \in Nat
      /\ Cardinality(Reserved') + a = Cardinality(Reserved) + b
  BY ReservedMoves
<1> DEFINE W == 2 * Chain
           R == Cardinality(Reserved)
           S == Cardinality(Reserved')
<1>2. W \in Nat /\ 3 * Chain \in Nat BY ConstantsFact
<1>3. W * (count + 1) = W * count + W /\ W * count \in Nat BY <1>2
<1>4. wire + R <= W * count BY DEF WireAccounted
<1>5. WireAccounted' <=> wire' + S <= W * count' BY DEF WireAccounted, Chain
<1>6. R \in Nat /\ S \in Nat /\ S + a = R + b BY <1>1
<1>7. a \in Nat /\ b \in Nat BY <1>2
<1>8. \/ count' = count /\ wire' = wire /\ b <= a
      \/ count' = count /\ wire' = wire + 1 /\ b + 1 <= a
      \/ count' = count + 1 /\ wire' = wire /\ b <= a + W
  OBVIOUS
<1> HIDE DEF W, R, S
<1>9. wire' + S <= W * count'
  <2> DEFINE v == W * count
  <2>1. v \in Nat /\ wire + R <= v /\ W * (count + 1) = v + W BY <1>3, <1>4
  <2> HIDE DEF v
  <2>2. CASE count' = count
    <3>1. W * count' = v BY <2>2 DEF v
    <3>2. wire' + S <= v BY <1>6, <1>7, <1>8, <2>1, <2>2
    <3> QED BY <3>1, <3>2
  <2>3. CASE count' = count + 1 /\ count' # count
    <3>1. W * count' = v + W BY <2>1, <2>3
    <3>2. wire' + S <= v + W BY <1>2, <1>6, <1>7, <1>8, <2>1, <2>3
    <3> QED BY <3>1, <3>2
  <2> QED BY <1>8, <2>2, <2>3
<1> QED BY <1>5, <1>9

-----------------------------------------------------------------------------
(* A step of one task *)

(* What is reserved for a task is bounded. *)
LEMMA ReserveRange ==
  ASSUME NEW u \in Task
  PROVE  /\ Reserve(u) \in 0..(3 * Chain)
         /\ ChainLeft(u) \in 0..Chain /\ RetryLeft(u) \in 0..Chain
<1>1. u.hops \in 0..MaxRedirects BY DEF Task
<1>2. Chain \in Nat /\ MaxRedirects \in Nat /\ Chain = MaxRedirects + 1
  BY ConstantsFact DEF Chain
<1>3. ChainLeft(u) \in 0..Chain BY <1>1, <1>2 DEF ChainLeft
<1>4. RetryLeft(u) \in 0..Chain BY <1>2 DEF RetryLeft
<1> QED BY <1>2, <1>3, <1>4 DEF Reserve

(* Everything a step of task t has to show, when it makes its record u.    *)
LEMMA TaskMoves ==
  ASSUME HttpInv, NEW t \in Tasks, NEW u \in Task,
         task' = [task EXCEPT ![t] = u],
         running \in {None, t}, running' \in {None, t},
         BucketInv',
         free' \in Nat, free' + Holds(t)' = free + Holds(t),
         waiters' \in Seq(Tasks),
         cache' \in Token, era' \in Nat, era' >= era,
         UNCHANGED <<open, config>>,
         Sender(t)',
         \/ t \in Pending' => t \in Pending
         \/ count < MaxRequests,
         \/ count' = count
         \/ count' = count + 1 /\ t \in Pending /\ t \notin Pending',
         \/ count' = count /\ wire' = wire /\ Reserve(u) <= Reserve(task[t])
         \/ count' = count /\ wire' = wire + 1 /\ Reserve(u) + 1 <= Reserve(task[t])
         \/ count' = count + 1 /\ wire' = wire /\ Reserve(u) <= Reserve(task[t]) + 2 * Chain
  PROVE  HttpInv'
<1> USE DEF HttpInv
<1>1. /\ task \in [Tasks -> Task] /\ task' \in [Tasks -> Task] /\ task'[t] = u
      /\ \A q \in Tasks : q # t => task'[q] = task[q]
  BY DEF HttpTypeOK
<1>2. /\ free \in Nat /\ count \in Nat /\ wire \in Nat /\ era \in Nat
      /\ users \subseteq Tasks /\ users' = users /\ engine' = engine
  BY ConstantsFact DEF HttpTypeOK, config
<1>3. AllSend'
  <2> SUFFICES ASSUME NEW q \in Tasks, q # t PROVE Sender(q)' BY DEF AllSend
  <2>1. Sender(q) /\ task'[q] = task[q] /\ task[q] \in Task BY <1>1 DEF AllSend
  <2>2. task[q].pc # "prepare" BY <2>1, ConstantsFact DEF Sender
  <2>3. task[q].mine <= era' BY <1>2, <2>1 DEF Sender, Task
  <2> QED BY <1>2, <2>1, <2>2, <2>3 DEF Sender
<1>4. PermitsConserved' /\ free' \in 0..MaxConcurrent BY <1>1, <1>2, PermitsMove
<1>5. Budgeted'
  <2>1. \A q \in Tasks : task'[q].pc # "idle" => q \in users
    BY <1>2, <1>3 DEF AllSend, Sender
  <2> QED BY <1>1, <1>2, <2>1, BudgetMoves
<1>6. WireAccounted'
  <2>1. task[t] \in Task BY <1>1
  <2>2. Reserve(task[t]) \in 0..(3 * Chain) /\ Reserve(u) \in 0..(3 * Chain)
    BY <2>1, ReserveRange
  <2>3. PICK a \in 0..(3 * Chain), b \in 0..(3 * Chain) : a = Reserve(task[t]) /\ b = Reserve(u)
    BY <2>2
  <2>4. Reserve(task'[t]) = b BY <1>1, <2>3
  <2> QED BY <1>1, <1>2, <2>3, <2>4, WireMoves
<1>7. HttpTypeOK'
  BY <1>1, <1>2, <1>4 DEF HttpTypeOK, config
<1> QED BY <1>3, <1>4, <1>5, <1>6, <1>7

(* A task has these fields. *)
LEMMA FieldsFact ==
  ASSUME NEW u \in Task
  PROVE  /\ u.pc \in Stage /\ u.raw \in Raw /\ u.host \in Hosts \cup {None}
         /\ u.hops \in 0..MaxRedirects /\ u.retried \in BOOLEAN /\ u.wake \in Nat
         /\ u.token \in Token /\ u.got \in Token /\ u.missed \in BOOLEAN
         /\ u.mine \in Nat /\ u.todo \in 0..MaxSends
  BY DEF Task

(* A new request has nothing reserved. *)
LEMMA FreshFact ==
  ASSUME NEW k \in 0..MaxSends
  PROVE  Fresh(k) \in Task /\ Reserve(Fresh(k)) = 0
  BY ConstantsFact DEF Fresh, Task, Stage, Raw, Token, Reserve

(* No request yet. *)
LEMMA HttpInitInv == HttpInit => HttpInv
<1> SUFFICES ASSUME HttpInit PROVE HttpInv OBVIOUS
<1> USE DEF HttpInit
<1>1. BucketInv BY BucketInitInv
<1>2. users \subseteq Tasks /\ engine \in BOOLEAN BY ClientAssumption
<1>3. \A t \in Tasks : task[t] \in {Fresh(0), Fresh(MaxSends)} BY <1>2
<1>4. 0 \in 0..MaxSends /\ MaxSends \in 0..MaxSends BY ConstantsFact
<1>5. \A t \in Tasks : task[t] \in Task /\ Reserve(task[t]) = 0 BY <1>3, <1>4, FreshFact
<1>6. HttpTypeOK
  <2>1. task \in [Tasks -> Task] BY <1>5
  <2> QED BY <1>2, <2>1, ConstantsFact DEF HttpTypeOK, Token
<1>7. AllSend
  <2> SUFFICES ASSUME NEW t \in Tasks PROVE Sender(t) BY DEF AllSend
  <2>1. task[t] = Fresh(IF t \in users THEN MaxSends ELSE 0) OBVIOUS
  <2> QED BY <2>1, ConstantsFact DEF Sender, Fresh, Waiting
<1>8. \A t \in Tasks : task[t].pc = "idle" /\ task[t].raw = "none" BY <1>3 DEF Fresh
<1>9. PermitsConserved
  <2>1. /\ {t \in Tasks : Holds(t) > 0} = {}
        /\ {t \in Tasks : Holds(t) > 1} = {}
    BY <1>8 DEF Holds, Inside
  <2>2. /\ Cardinality({t \in Tasks : Holds(t) > 0}) = 0
        /\ Cardinality({t \in Tasks : Holds(t) > 1}) = 0
    BY <2>1, FS_EmptySet
  <2> QED BY <2>2, ConstantsFact DEF PermitsConserved
<1>10. Budgeted BY <1>8 DEF Budgeted, Pending, Waiting
<1>11. WireAccounted
  <2>1. Reserved = {} BY <1>5 DEF Reserved, Pairs
  <2> QED BY <2>1, FS_EmptySet, ConstantsFact DEF WireAccounted
<1> QED BY <1>1, <1>6, <1>7, <1>9, <1>10, <1>11 DEF HttpInv

(* What is known of the variables and of task t before a step. *)
TypesAt(t) ==
  /\ task \in [Tasks -> Task] /\ task[t] \in Task
  /\ free \in Nat /\ era \in Nat /\ cache \in Token /\ count \in Nat /\ wire \in Nat
  /\ waiters \in Seq(Tasks) /\ now \in Nat
  /\ Sender(t)

(* The types, of one task. *)
LEMMA TypesFact == ASSUME HttpInv, NEW t \in Tasks PROVE TypesAt(t)
<1>1. /\ task \in [Tasks -> Task] /\ free \in 0..MaxConcurrent /\ era \in Nat /\ cache \in Token
      /\ count \in Nat /\ wire \in Nat /\ waiters \in Seq(Tasks)
  BY DEF HttpInv, HttpTypeOK
<1>2. now \in Nat BY DEF HttpInv, BucketInv, BucketTypeOK
<1>3. Sender(t) BY DEF HttpInv, AllSend
<1> QED BY <1>1, <1>2, <1>3, ConstantsFact DEF TypesAt

(* The wait for a token is a number. *)
LEMMA DelayFact ==
  ASSUME BucketInv, NEW b \in Buckets, ~HasToken(b)
  PROVE  Delay(b) \in Nat
<1>1. Refilled(b) \in 0..Full BY RefilledRange DEF BucketInv
<1>2. Unit - Refilled(b) + Rate - 1 \in Nat
  BY <1>1, FullFact DEF HasToken
<1> QED BY <1>2, BucketAssumption DEF Delay

(* A task at rest holds nothing, reserves nothing and is not pending.      *)
LEMMA SendInv ==
  ASSUME HttpInv, NEW t \in Tasks, Send(t)
  PROVE  HttpInv'
<1> DEFINE k == task[t].todo - 1
<1>0. TypesAt(t) BY TypesFact
<1>1. /\ task \in [Tasks -> Task] /\ task[t] \in Task /\ task[t].pc = "idle" /\ task[t].todo > 0
      /\ task[t].raw = "none" /\ t \in users
      /\ free \in Nat /\ era \in Nat /\ cache \in Token /\ waiters \in Seq(Tasks) /\ now \in Nat
  BY <1>0 DEF TypesAt, Sender, Send
<1>2. k \in 0..MaxSends BY <1>1, FieldsFact, ConstantsFact
<1>3. Fresh(k) \in Task BY <1>2, FreshFact
<1>4. Reserve(task[t]) = 0 /\ Holds(t) = 0 BY <1>1 DEF Reserve, Holds, Inside
<1>5. BucketInv' BY DEF Send, HttpInv, bucketVars, BucketInv, BucketTypeOK, Credit, Refilled
<1>6. running = None /\ running' \in {None, t} BY DEF Send, Stays, Suspends
<1>7. UNCHANGED <<free, waiters, count, wire, cache, era, open, config>>
  BY DEF Send, sessionVars
<1>8. CASE /\ Admitted
           /\ \E h \in Hosts :
                task' = [task EXCEPT ![t] = [Fresh(@.todo - 1) EXCEPT !.pc = "host", !.host = h, !.wake = now]]
  <2>1. PICK h \in Hosts :
          task' = [task EXCEPT ![t] = [Fresh(k) EXCEPT !.pc = "host", !.host = h, !.wake = now]]
    BY <1>8
  <2> DEFINE u == [Fresh(k) EXCEPT !.pc = "host", !.host = h, !.wake = now]
  <2>2. /\ u.pc = "host" /\ u.raw = "none" /\ u.host = h /\ u.hops = 0 /\ u.retried = FALSE
        /\ u.mine = 0 /\ u.todo = k
    BY DEF Fresh
  <2>3. u \in Task
    BY <1>1, <1>2, <1>3, ConstantsFact DEF Task, Stage, Raw, Token, Fresh
  <2>4. task' = [task EXCEPT ![t] = u] /\ task'[t] = u BY <1>1, <2>1
  <2> HIDE DEF u, k
  <2>5. Sender(t)'
    BY <1>1, <1>7, <2>2, <2>4, ConstantsFact DEF Sender, Waiting, config
  <2>6. Holds(t)' = 0 /\ Reserve(u) = 0 BY <2>2, <2>4 DEF Holds, Inside, Reserve
  <2>7. count < MaxRequests BY <1>8 DEF Admitted
  <2>8. free' + Holds(t)' = free + Holds(t) BY <1>4, <1>7, <2>6
  <2>9. era' >= era /\ Reserve(u) <= Reserve(task[t]) BY <1>1, <1>4, <1>7, <2>6
  <2> QED BY <1>1, <1>5, <1>6, <1>7, <2>3, <2>4, <2>5, <2>7, <2>8, <2>9, TaskMoves
<1>9. CASE task' = [task EXCEPT ![t].todo = @ - 1]
  <2> DEFINE u == [task[t] EXCEPT !.todo = k]
  <2>1. u \in Task BY <1>1, <1>2 DEF Task
  <2>2. task' = [task EXCEPT ![t] = u] /\ task'[t] = u BY <1>1, <1>9
  <2>3. /\ u.pc = "idle" /\ u.raw = "none" /\ u.mine = task[t].mine
        /\ u.retried = task[t].retried
    BY <1>1 DEF Task
  <2> HIDE DEF u, k
  <2>4. Sender(t)'
    BY <1>1, <1>7, <2>2, <2>3 DEF Sender, Waiting, config, HttpInv, AllSend
  <2>5. Holds(t)' = 0 /\ Reserve(u) = 0 /\ t \notin Pending'
    BY <2>2, <2>3 DEF Holds, Inside, Reserve, Pending, Waiting
  <2>6. free' + Holds(t)' = free + Holds(t) BY <1>4, <1>7, <2>5
  <2>7. era' >= era /\ Reserve(u) <= Reserve(task[t]) BY <1>1, <1>4, <1>7, <2>5
  <2> QED BY <1>1, <1>5, <1>6, <1>7, <2>1, <2>2, <2>4, <2>5, <2>6, <2>7, TaskMoves
<1> QED BY <1>8, <1>9 DEF Send

(* A step that does not touch the buckets keeps what holds of them. *)
LEMMA BucketsKept ==
  ASSUME HttpInv, UNCHANGED bucketVars
  PROVE  BucketInv'
  BY BucketStep DEF HttpInv

(* One turn of the loop of a bucket: the task stays pending. *)
LEMMA AcquireInv ==
  ASSUME HttpInv, NEW t \in Tasks, NEW b \in Buckets, NEW next \in {"global", "sem"},
         task[t].pc \in {"host", "global"}, Acquire(t, b, next)
  PROVE  HttpInv'
<1>0. TypesAt(t) BY TypesFact
<1>1. /\ task \in [Tasks -> Task] /\ task[t] \in Task
      /\ free \in Nat /\ era \in Nat /\ cache \in Token /\ waiters \in Seq(Tasks) /\ now \in Nat
  BY <1>0 DEF TypesAt
<1>2. UNCHANGED <<free, waiters, count, wire, cache, era, open, config>>
  BY DEF Acquire, sessionVars
<1>3. running \in {None, t} /\ running' \in {None, t} BY DEF Acquire, Turn, Stays, Suspends
<1>4. BucketInv'
  <2>1. TakeToken(b) \/ MissToken(b) BY DEF Acquire
  <2> QED BY <2>1, BucketStep DEF HttpInv, BucketNext
<1>5. ASSUME NEW u \in Task, task' = [task EXCEPT ![t] = u],
             u.pc \in Waiting, u.raw = task[t].raw, u.hops = task[t].hops,
             u.retried = task[t].retried, u.mine = task[t].mine,
             u.pc = "host" => u.host = task[t].host
      PROVE HttpInv'
  <2>1. task'[t] = u BY <1>1, <1>5
  <2>2. task[t].pc \in Waiting /\ u.pc \notin {"idle", "prepare", "ready", "net"}
        /\ task[t].pc \notin {"idle", "prepare", "ready", "net"}
    BY <1>5 DEF Waiting
  <2>3. Sender(t)'
    <3>1. t \in users' BY <1>0, <1>2, <2>2 DEF TypesAt, Sender, config
    <3>2. task'[t].pc = "host" => task'[t].host \in Hosts
      <4>1. ASSUME u.pc = "host" PROVE task[t].pc = "host"
        <5>1. CASE task[t].pc = "host" BY <5>1
        <5>2. CASE task[t].pc = "global"
          BY <1>1, <1>5, <4>1, <5>2 DEF Acquire, MissToken, TakeToken, Task
        <5> QED BY <5>1, <5>2
      <4> QED BY <1>0, <1>5, <2>1, <4>1 DEF TypesAt, Sender
    <3> QED BY <1>0, <1>2, <1>5, <2>1, <2>2, <3>1, <3>2 DEF TypesAt, Sender
  <2>4. Holds(t)' = Holds(t) BY <1>5, <2>1, <2>2 DEF Holds, Inside
  <2>5. Reserve(u) = Reserve(task[t]) /\ Reserve(u) \in 0..(3 * Chain)
    BY <1>1, <1>5, <2>2, ReserveRange DEF Reserve, ChainLeft, RetryLeft
  <2>6. free' + Holds(t)' = free + Holds(t) BY <1>2, <2>4
  <2>7. era' >= era /\ Reserve(u) <= Reserve(task[t]) BY <1>1, <1>2, <2>5, ConstantsFact
  <2>8. t \in Pending' => t \in Pending BY <2>2 DEF Pending
  <2> QED BY <1>1, <1>2, <1>3, <1>4, <1>5, <2>3, <2>6, <2>7, <2>8, TaskMoves
<1>6. CASE TakeToken(b) /\ task' = [task EXCEPT ![t].pc = next]
  <2> DEFINE u == [task[t] EXCEPT !.pc = next]
  <2>1. u \in Task BY <1>1 DEF Task, Stage
  <2>2. task' = [task EXCEPT ![t] = u] BY <1>1, <1>6
  <2>3. u.pc \in Waiting /\ u.pc # "host" BY <1>1 DEF Task, Waiting
  <2>4. /\ u.raw = task[t].raw /\ u.hops = task[t].hops /\ u.retried = task[t].retried
        /\ u.mine = task[t].mine
    BY <1>1 DEF Task
  <2> HIDE DEF u
  <2> QED BY <1>5, <2>1, <2>2, <2>3, <2>4
<1>7. CASE MissToken(b) /\ task' = [task EXCEPT ![t].wake = now + Delay(b)]
  <2> DEFINE d == now + Delay(b)
             u == [task[t] EXCEPT !.wake = d]
  <2>1. d \in Nat BY <1>1, <1>7, DelayFact DEF HttpInv, MissToken
  <2>2. task' = [task EXCEPT ![t] = u] BY <1>1, <1>7
  <2> HIDE DEF d
  <2>3. u \in Task BY <1>1, <2>1 DEF Task
  <2>4. /\ u.raw = task[t].raw /\ u.hops = task[t].hops /\ u.retried = task[t].retried
        /\ u.mine = task[t].mine /\ u.host = task[t].host /\ u.pc = task[t].pc
    BY <1>1 DEF Task
  <2> HIDE DEF u
  <2>5. u.pc \in Waiting BY <2>4 DEF Waiting
  <2> QED BY <1>5, <2>2, <2>3, <2>4, <2>5
<1> QED BY <1>6, <1>7 DEF Acquire

(* A token of the host is taken, then one of the whole client. *)
LEMMA AcquiresInv ==
  ASSUME HttpInv, NEW t \in Tasks, AcquireHost(t) \/ AcquireGlobal(t)
  PROVE  HttpInv'
<1>1. CASE AcquireHost(t)
  <2>1. task[t].host \in Buckets BY <1>1, TypesFact DEF TypesAt, Sender, AcquireHost, Buckets
  <2> QED BY <1>1, <2>1, AcquireInv DEF AcquireHost
<1>2. CASE AcquireGlobal(t)
  BY <1>2, AcquireInv DEF AcquireGlobal, Buckets
<1> QED BY <1>1, <1>2

(* The permit is taken and the request counted: two chains are reserved.   *)
LEMMA PermitInv ==
  ASSUME HttpInv, NEW t \in Tasks, Permit(t)
  PROVE  HttpInv'
<1>0. TypesAt(t) BY TypesFact
<1>1. /\ task \in [Tasks -> Task] /\ task[t] \in Task /\ task[t].pc = "sem"
      /\ free \in Nat /\ era \in Nat /\ cache \in Token /\ waiters \in Seq(Tasks)
      /\ count \in Nat /\ task[t].hops = 0 /\ t \in users
  BY <1>0 DEF TypesAt, Permit, Sender, Waiting
<1>2. UNCHANGED <<wire, cache, era, open, config>> /\ count' = count + 1 /\ free' = free - 1 /\ free > 0
  BY DEF Permit, sessionVars
<1>3. running \in {None, t} /\ running' \in {None, t} /\ running' = t BY DEF Permit, Turn, Stays
<1>4. BucketInv' BY BucketsKept DEF Permit
<1>5. waiters' \in Seq(Tasks) /\ free' \in Nat BY <1>1, <1>2 DEF Permit
<1> DEFINE pc == IF task[t].raw = "none" THEN "prepare" ELSE "ready"
           u == [task[t] EXCEPT !.pc = pc]
<1>6. /\ u \in Task /\ u.pc = pc /\ u.raw = task[t].raw /\ u.hops = 0 /\ u.retried = task[t].retried
      /\ u.mine = task[t].mine
  BY <1>1 DEF Task, Stage
<1>7. task' = [task EXCEPT ![t] = u] /\ task'[t] = u BY <1>1 DEF Permit
<1> HIDE DEF u
<1>8. Sender(t)'
  BY <1>0, <1>1, <1>2, <1>3, <1>6, <1>7 DEF TypesAt, Sender, Waiting, config
<1>9. free' + Holds(t)' = free + Holds(t)
  <2>1. CASE task[t].raw = "none"
    <3>1. Holds(t) = 0 /\ Holds(t)' = 1 BY <1>1, <1>6, <1>7, <2>1 DEF Holds, Inside
    <3> QED BY <1>1, <1>2, <3>1
  <2>2. CASE task[t].raw # "none"
    <3>1. Holds(t) = 1 /\ Holds(t)' = 2 BY <1>1, <1>6, <1>7, <2>2 DEF Holds, Inside
    <3> QED BY <1>1, <1>2, <3>1
  <2> QED BY <2>1, <2>2
<1>10. t \in Pending /\ t \notin Pending' BY <1>1, <1>6, <1>7 DEF Pending, Waiting
<1>11. Reserve(u) <= Reserve(task[t]) + 2 * Chain
  <2>1. /\ Chain \in Nat /\ RetryLeft(u) \in 0..Chain /\ RetryLeft(u) = RetryLeft(task[t])
        /\ ChainLeft(u) \in 0..Chain
    BY <1>1, <1>6, ReserveRange, ConstantsFact DEF RetryLeft
  <2>2. ChainLeft(task[t]) = 0 BY <1>1 DEF ChainLeft
  <2>3. task[t].raw \in Raw BY <1>1, FieldsFact
  <2>4. CASE task[t].raw = "none"
    <3>1. Reserve(u) = Chain + RetryLeft(u) BY <1>6, <2>4 DEF Reserve
    <3>2. Reserve(task[t]) = 0 BY <1>1, <2>4 DEF Reserve
    <3> QED BY <2>1, <3>1, <3>2
  <2>5. CASE task[t].raw = "rule"
    <3>1. Reserve(u) = ChainLeft(u) + Chain + RetryLeft(u) BY <1>6, <2>5 DEF Reserve
    <3>2. Reserve(task[t]) = 0 + Chain + RetryLeft(u) BY <2>1, <2>2, <2>5 DEF Reserve
    <3> QED BY <2>1, <3>1, <3>2
  <2>6. CASE task[t].raw = "login"
    <3>1. Reserve(u) = ChainLeft(u) + Chain BY <1>6, <2>6 DEF Reserve
    <3>2. Reserve(task[t]) = 0 + Chain BY <2>1, <2>2, <2>6 DEF Reserve
    <3> QED BY <2>1, <3>1, <3>2
  <2> QED BY <2>3, <2>4, <2>5, <2>6 DEF Raw
<1>12. era' >= era BY <1>1, <1>2
<1> QED BY <1>1, <1>2, <1>3, <1>4, <1>5, <1>6, <1>7, <1>8, <1>9, <1>10, <1>11, <1>12, TaskMoves

(* A request waits for a permit of its host. *)
LEMMA QueueInv ==
  ASSUME HttpInv, NEW t \in Tasks, Queue(t)
  PROVE  HttpInv'
<1>0. TypesAt(t) BY TypesFact
<1>1. /\ task \in [Tasks -> Task] /\ task[t] \in Task /\ task[t].pc = "sem"
      /\ free \in Nat /\ era \in Nat /\ cache \in Token /\ waiters \in Seq(Tasks)
  BY <1>0 DEF TypesAt, Queue
<1>2. UNCHANGED <<task, free, count, wire, cache, era, open, config>> BY DEF Queue, sessionVars
<1>3. running \in {None, t} /\ running' \in {None, t} BY DEF Queue, Suspends
<1>4. BucketInv' BY BucketsKept DEF Queue
<1>5. waiters' \in Seq(Tasks) BY <1>1 DEF Queue
<1> DEFINE u == task[t]
<1>6. task' = [task EXCEPT ![t] = u] BY <1>1, <1>2
<1>7. Sender(t)' BY <1>0, <1>1, <1>2 DEF TypesAt, Sender, config
<1>8. free' + Holds(t)' = free + Holds(t) BY <1>2 DEF Holds, Inside
<1>9. t \in Pending' => t \in Pending BY <1>2 DEF Pending
<1>10. era' >= era /\ Reserve(u) <= Reserve(task[t])
  BY <1>1, <1>2, ReserveRange, ConstantsFact
<1> QED BY <1>1, <1>2, <1>3, <1>4, <1>5, <1>6, <1>7, <1>8, <1>9, <1>10, TaskMoves

(* Past the semaphore only the chain under way changes what is reserved.   *)
LEMMA ChainMoves ==
  ASSUME NEW u \in Task, NEW v \in Task,
         u.pc \in {"ready", "net"}, v.pc \in {"ready", "net"},
         u.raw = v.raw, u.retried = v.retried
  PROVE  Reserve(u) - ChainLeft(u) = Reserve(v) - ChainLeft(v)
<1>1. /\ ChainLeft(u) \in 0..Chain /\ ChainLeft(v) \in 0..Chain /\ RetryLeft(u) = RetryLeft(v)
      /\ RetryLeft(u) \in 0..Chain /\ Chain \in Nat /\ u.raw \in Raw
  BY ReserveRange, FieldsFact, ConstantsFact DEF RetryLeft
<1>2. CASE u.raw = "none"
  <2>1. Reserve(u) = ChainLeft(u) + RetryLeft(u) /\ Reserve(v) = ChainLeft(v) + RetryLeft(v)
    BY <1>2 DEF Reserve
  <2> QED BY <1>1, <2>1
<1>3. CASE u.raw = "rule"
  <2>1. /\ Reserve(u) = ChainLeft(u) + Chain + RetryLeft(u)
        /\ Reserve(v) = ChainLeft(v) + Chain + RetryLeft(v)
    BY <1>3 DEF Reserve
  <2> QED BY <1>1, <2>1
<1>4. CASE u.raw = "login"
  <2>1. Reserve(u) = ChainLeft(u) + Chain /\ Reserve(v) = ChainLeft(v) + Chain
    BY <1>4 DEF Reserve
  <2> QED BY <1>1, <2>1
<1> QED BY <1>1, <1>2, <1>3, <1>4 DEF Raw

(* The request is prepared with the cached token, without one, or by a     *)
(* nested send that has to pass the budget check itself.                   *)
LEMMA PrepareInv ==
  ASSUME HttpInv, NEW t \in Tasks, Prepare(t)
  PROVE  HttpInv'
<1>0. TypesAt(t) BY TypesFact
<1>1. /\ task \in [Tasks -> Task] /\ task[t] \in Task /\ task[t].pc = "prepare"
      /\ task[t].raw = "none" /\ task[t].hops = 0 /\ t \in users
      /\ task[t].retried => cache = None
      /\ free \in Nat /\ era \in Nat /\ cache \in Token /\ waiters \in Seq(Tasks)
      /\ count \in Nat /\ now \in Nat /\ task[t].mine <= era
  BY <1>0 DEF TypesAt, Prepare, Sender
<1>2. UNCHANGED <<free, waiters, wire, count, cache, era, open, config>>
  BY DEF Prepare, sessionVars
<1>3. running \in {None, t} /\ running' \in {None, t} BY DEF Prepare, Turn, Stays
<1>4. BucketInv' BY BucketsKept DEF Prepare
<1>5. Chain \in Nat /\ Chain = MaxRedirects + 1 /\ MaxRedirects \in Nat
  BY ConstantsFact DEF Chain
<1>6. RetryLeft(task[t]) \in 0..Chain /\ Reserve(task[t]) = Chain + RetryLeft(task[t])
  BY <1>1, ReserveRange DEF Reserve
<1>7. Holds(t) = 1 BY <1>1 DEF Holds, Inside
<1>8. ASSUME NEW u \in Task, task' = [task EXCEPT ![t] = u],
             u.hops = 0, u.retried = task[t].retried, u.mine = task[t].mine,
             \/ u.pc = "ready" /\ u.raw = "none" /\ (u.retried => u.token = None \/ u.missed)
             \/ u.pc = "host" /\ u.raw = "rule" /\ u.host \in Hosts /\ Admitted
      PROVE HttpInv'
  <2>1. task'[t] = u BY <1>1, <1>8
  <2>2. Sender(t)' BY <1>1, <1>2, <1>8, <2>1 DEF Sender, Waiting, config
  <2>3. Holds(t)' = 1 BY <1>8, <2>1 DEF Holds, Inside
  <2>4. free' + Holds(t)' = free + Holds(t) BY <1>2, <1>7, <2>3
  <2>5. \/ t \in Pending' => t \in Pending
        \/ count < MaxRequests
    BY <1>8, <2>1 DEF Pending, Waiting, Admitted
  <2>6. Reserve(u) <= Reserve(task[t])
    <3>1. RetryLeft(u) = RetryLeft(task[t]) BY <1>8 DEF RetryLeft
    <3>2. CASE u.pc = "ready"
      <4>1. ChainLeft(u) = Chain BY <1>5, <1>8, <3>2 DEF ChainLeft
      <4>2. Reserve(u) = ChainLeft(u) + RetryLeft(u) BY <1>8, <3>2 DEF Reserve
      <4> QED BY <1>5, <1>6, <3>1, <4>1, <4>2
    <3>3. CASE u.pc = "host"
      <4>1. ChainLeft(u) = 0 BY <3>3 DEF ChainLeft
      <4>2. Reserve(u) = ChainLeft(u) + Chain + RetryLeft(u) BY <1>8, <3>3 DEF Reserve
      <4> QED BY <1>5, <1>6, <3>1, <4>1, <4>2
    <3> QED BY <1>8, <3>2, <3>3
  <2>7. era' >= era BY <1>1, <1>2
  <2> QED BY <1>1, <1>2, <1>3, <1>4, <1>8, <2>2, <2>4, <2>5, <2>6, <2>7, TaskMoves
<1>9. ASSUME NEW k \in Token, NEW m \in BOOLEAN, task[t].retried => k = None \/ m,
             task' = [task EXCEPT ![t] = [@ EXCEPT !.pc = "ready", !.token = k, !.missed = m]]
      PROVE HttpInv'
  <2> DEFINE u == [task[t] EXCEPT !.pc = "ready", !.token = k, !.missed = m]
  <2>1. u \in Task BY <1>1, <1>9 DEF Task, Stage
  <2>2. task' = [task EXCEPT ![t] = u] BY <1>1, <1>9
  <2>3. /\ u.pc = "ready" /\ u.raw = "none" /\ u.hops = 0 /\ u.token = k /\ u.missed = m
        /\ u.retried = task[t].retried /\ u.mine = task[t].mine
    BY <1>1 DEF Task
  <2> HIDE DEF u
  <2> QED BY <1>8, <1>9, <2>1, <2>2, <2>3
<1>10. ASSUME Admitted, NEW h \in Hosts,
              task' = [task EXCEPT ![t].pc = "host", ![t].raw = "rule", ![t].host = h, ![t].wake = now]
       PROVE HttpInv'
  <2> DEFINE u == [task[t] EXCEPT !.pc = "host", !.raw = "rule", !.host = h, !.wake = now]
  <2>1. u \in Task BY <1>1, <1>10 DEF Task, Stage, Raw
  <2>2. task' = [task EXCEPT ![t] = u] BY <1>1, <1>10
  <2>3. /\ u.pc = "host" /\ u.raw = "rule" /\ u.hops = 0 /\ u.host = h
        /\ u.retried = task[t].retried /\ u.mine = task[t].mine
    BY <1>1 DEF Task
  <2> HIDE DEF u
  <2> QED BY <1>8, <1>10, <2>1, <2>2, <2>3
<1> DEFINE k == task[t].token
           m == task[t].missed
<1>11. k \in Token /\ m \in BOOLEAN BY <1>1, FieldsFact
<1>12. CASE k = None /\ task' = [task EXCEPT ![t].pc = "ready"]
  <2>1. task' = [task EXCEPT ![t] = [@ EXCEPT !.pc = "ready", !.token = k, !.missed = m]]
    BY <1>1, <1>12 DEF Task
  <2> HIDE DEF k, m
  <2> QED BY <1>9, <1>11, <1>12, <2>1
<1>13. CASE cache # None /\ task' = [task EXCEPT ![t].pc = "ready", ![t].token = cache]
  <2>1. task' = [task EXCEPT ![t] = [@ EXCEPT !.pc = "ready", !.token = cache, !.missed = m]]
    BY <1>1, <1>13 DEF Task
  <2> HIDE DEF m
  <2> QED BY <1>1, <1>9, <1>11, <1>13, <2>1
<1>14. CASE task' = [task EXCEPT ![t].pc = "ready", ![t].missed = TRUE]
  <2>1. task' = [task EXCEPT ![t] = [@ EXCEPT !.pc = "ready", !.token = k, !.missed = TRUE]]
    BY <1>1, <1>14 DEF Task
  <2> HIDE DEF k
  <2> QED BY <1>9, <1>11, <2>1
<1> QED BY <1>10, <1>12, <1>13, <1>14 DEF Prepare

(* A request that goes out is taken from what is reserved for its task. *)
LEMMA TransmitInv ==
  ASSUME HttpInv, NEW t \in Tasks, Transmit(t)
  PROVE  HttpInv'
<1>0. TypesAt(t) BY TypesFact
<1>1. /\ task \in [Tasks -> Task] /\ task[t] \in Task /\ task[t].pc = "ready" /\ t \in users
      /\ free \in Nat /\ era \in Nat /\ cache \in Token /\ waiters \in Seq(Tasks)
      /\ count \in Nat /\ wire \in Nat
  BY <1>0 DEF TypesAt, Transmit, Sender
<1>2. UNCHANGED <<free, waiters, count, cache, era, open, config>> /\ wire' = wire + 1
  BY DEF Transmit, sessionVars
<1>3. running \in {None, t} /\ running' \in {None, t} BY DEF Transmit, Turn, Suspends
<1>4. BucketInv' BY BucketsKept DEF Transmit
<1> DEFINE k == IF task[t].raw = "rule" THEN era ELSE task[t].got
           u == [task[t] EXCEPT !.pc = "net", !.got = k]
<1>5. k \in Token BY <1>1, FieldsFact DEF Token
<1>6. task' = [task EXCEPT ![t] = u] /\ task'[t] = u BY <1>1 DEF Transmit
<1>7. task[t].raw = "rule" => k = era OBVIOUS
<1> HIDE DEF k
<1>9. /\ u \in Task /\ u.pc = "net" /\ u.raw = task[t].raw /\ u.hops = task[t].hops
      /\ u.retried = task[t].retried /\ u.mine = task[t].mine /\ u.token = task[t].token
      /\ u.missed = task[t].missed /\ u.got = k
  BY <1>1, <1>5 DEF Task, Stage
<1> HIDE DEF u
<1>10. Sender(t)'
  BY <1>0, <1>1, <1>2, <1>6, <1>7, <1>9 DEF TypesAt, Sender, Waiting, config
<1>11. Holds(t)' = Holds(t) BY <1>1, <1>6, <1>9 DEF Holds, Inside
<1>12. free' + Holds(t)' = free + Holds(t) /\ era' >= era BY <1>1, <1>2, <1>11
<1>13. t \notin Pending' BY <1>6, <1>9 DEF Pending, Waiting
<1>14. Reserve(u) + 1 <= Reserve(task[t])
  <2>1. Reserve(u) - ChainLeft(u) = Reserve(task[t]) - ChainLeft(task[t])
    BY <1>1, <1>9, ChainMoves
  <2>2. task[t].hops \in 0..MaxRedirects BY <1>1, FieldsFact
  <2>3. ChainLeft(u) = MaxRedirects - task[t].hops /\ ChainLeft(task[t]) = Chain - task[t].hops
    BY <1>1, <1>9 DEF ChainLeft
  <2>4. Chain = MaxRedirects + 1 /\ MaxRedirects \in Nat /\ 3 * Chain \in Nat
    BY ConstantsFact DEF Chain
  <2>5. Reserve(u) \in 0..(3 * Chain) /\ Reserve(task[t]) \in 0..(3 * Chain)
    BY <1>1, <1>9, ReserveRange
  <2> QED BY <2>1, <2>2, <2>3, <2>4, <2>5
<1> QED BY <1>1, <1>2, <1>3, <1>4, <1>6, <1>9, <1>10, <1>12, <1>13, <1>14, TaskMoves

(* A redirect is followed within the chain. *)
LEMMA RedirectedInv ==
  ASSUME HttpInv, NEW t \in Tasks, Redirected(t)
  PROVE  HttpInv'
<1>0. TypesAt(t) BY TypesFact
<1>1. /\ task \in [Tasks -> Task] /\ task[t] \in Task /\ task[t].pc = "net" /\ t \in users
      /\ free \in Nat /\ era \in Nat /\ cache \in Token /\ waiters \in Seq(Tasks)
      /\ count \in Nat /\ task[t].hops \in 0..MaxRedirects /\ task[t].hops < MaxRedirects
  BY <1>0, FieldsFact DEF TypesAt, Redirected, Sender, Follows
<1>2. UNCHANGED <<free, waiters, wire, count, cache, era, open, config>>
  BY DEF Redirected, sessionVars
<1>3. running \in {None, t} /\ running' \in {None, t} BY DEF Redirected, Stays
<1>4. BucketInv' BY BucketsKept DEF Redirected
<1> DEFINE k == task[t].hops + 1
           u == [task[t] EXCEPT !.pc = "ready", !.hops = k]
<1>5. k \in 0..MaxRedirects BY <1>1, ConstantsFact
<1>6. task' = [task EXCEPT ![t] = u] /\ task'[t] = u BY <1>1 DEF Redirected
<1> HIDE DEF k
<1>7. /\ u \in Task /\ u.pc = "ready" /\ u.raw = task[t].raw /\ u.hops = k
      /\ u.retried = task[t].retried /\ u.mine = task[t].mine /\ u.token = task[t].token
      /\ u.missed = task[t].missed
  BY <1>1, <1>5 DEF Task, Stage
<1> HIDE DEF u
<1>8. Sender(t)'
  BY <1>0, <1>1, <1>2, <1>6, <1>7 DEF TypesAt, Sender, Waiting, config
<1>9. Holds(t)' = Holds(t) BY <1>1, <1>6, <1>7 DEF Holds, Inside
<1>10. free' + Holds(t)' = free + Holds(t) /\ era' >= era BY <1>1, <1>2, <1>9
<1>11. t \notin Pending' BY <1>6, <1>7 DEF Pending, Waiting
<1>12. Reserve(u) <= Reserve(task[t])
  <2>1. Reserve(u) - ChainLeft(u) = Reserve(task[t]) - ChainLeft(task[t])
    BY <1>1, <1>7, ChainMoves
  <2>2. ChainLeft(u) = Chain - (task[t].hops + 1) /\ ChainLeft(task[t]) = MaxRedirects - task[t].hops
    BY <1>1, <1>7 DEF ChainLeft, k
  <2>3. Chain = MaxRedirects + 1 /\ MaxRedirects \in Nat /\ 3 * Chain \in Nat
    BY ConstantsFact DEF Chain
  <2>4. Reserve(u) \in 0..(3 * Chain) /\ Reserve(task[t]) \in 0..(3 * Chain)
    BY <1>1, <1>7, ReserveRange
  <2> QED BY <1>1, <2>1, <2>2, <2>3, <2>4
<1> QED BY <1>1, <1>2, <1>3, <1>4, <1>6, <1>7, <1>8, <1>10, <1>11, <1>12, TaskMoves

(* The sends of a task unwind: its permits come back, nothing stays        *)
(* reserved for it.                                                        *)
LEMMA RestInv ==
  ASSUME HttpInv, NEW t \in Tasks, task[t].pc # "idle",
         NEW k \in {task[t].todo, 0},
         task' = [task EXCEPT ![t] = Fresh(k)], free' = free + Holds(t),
         running \in {None, t}, running' \in {None, t}, waiters' \in Seq(Tasks),
         UNCHANGED <<bucketVars, count, wire, sessionVars, open, config>>
  PROVE  HttpInv'
<1>0. TypesAt(t) BY TypesFact
<1>1. /\ task \in [Tasks -> Task] /\ task[t] \in Task /\ t \in users
      /\ free \in Nat /\ era \in Nat /\ cache \in Token
  BY <1>0 DEF TypesAt, Sender
<1>2. UNCHANGED <<cache, era>> BY DEF sessionVars
<1>3. k \in 0..MaxSends BY <1>1, FieldsFact, ConstantsFact
<1> DEFINE u == Fresh(k)
<1>4. u \in Task /\ Reserve(u) = 0 /\ task'[t] = u BY <1>1, <1>3, FreshFact
<1>5. /\ u.pc = "idle" /\ u.raw = "none" /\ u.mine = 0 /\ u.retried = FALSE
  BY DEF Fresh
<1>6. BucketInv' BY BucketsKept
<1> HIDE DEF u
<1>7. Sender(t)' BY <1>1, <1>2, <1>4, <1>5 DEF Sender, Waiting, config
<1>8. Holds(t)' = 0 /\ Holds(t) \in 0..2 BY <1>4, <1>5, HoldsFact DEF Holds, Inside
<1>9. free' + Holds(t)' = free + Holds(t) /\ free' \in Nat /\ era' >= era
  BY <1>1, <1>2, <1>8
<1>10. t \notin Pending' BY <1>4, <1>5 DEF Pending, Waiting
<1>11. Reserve(u) <= Reserve(task[t])
  BY <1>1, <1>4, ReserveRange, ConstantsFact
<1> QED BY <1>1, <1>2, <1>4, <1>6, <1>7, <1>9, <1>10, <1>11, TaskMoves DEF u

(* The nested fetch of a token is over, and its permit comes back: with a  *)
(* token it got, or with none.                                             *)
LEMMA UnnestInv ==
  ASSUME HttpInv, NEW t \in Tasks, task[t].raw = "rule", task[t].pc \in {"ready", "net"},
         NEW k \in Token, NEW m \in BOOLEAN, Unnest(t, k, m),
         m \/ (k = task[t].got /\ task[t].pc = "net"),
         cache' \in Token, era' = era,
         running \in {None, t}, running' \in {None, t},
         UNCHANGED <<bucketVars, waiters, count, wire, open, config>>
  PROVE  HttpInv'
<1>0. TypesAt(t) BY TypesFact
<1>1. /\ task \in [Tasks -> Task] /\ task[t] \in Task /\ t \in users
      /\ free \in Nat /\ era \in Nat /\ waiters \in Seq(Tasks)
      /\ None \in Token /\ 0 \in 0..MaxRedirects
  BY <1>0, FieldsFact, ConstantsFact DEF TypesAt, Sender, Token
<1>2. BucketInv' BY BucketsKept
<1> DEFINE u == [task[t] EXCEPT !.pc = "ready", !.raw = "none", !.hops = 0, !.token = k,
                                !.got = None, !.missed = m]
<1>3. task' = [task EXCEPT ![t] = u] /\ task'[t] = u BY <1>1 DEF Unnest
<1>4. /\ u \in Task /\ u.pc = "ready" /\ u.raw = "none" /\ u.hops = 0
      /\ u.retried = task[t].retried /\ u.mine = task[t].mine /\ u.token = k /\ u.missed = m
  BY <1>1 DEF Task, Stage, Raw
<1> HIDE DEF u
<1>5. Sender(t)'
  BY <1>0, <1>1, <1>3, <1>4 DEF TypesAt, Sender, Waiting, config
<1>6. Holds(t) = 2 /\ Holds(t)' = 1 BY <1>3, <1>4 DEF Holds, Inside
<1>7. /\ free' + Holds(t)' = free + Holds(t) /\ free' \in Nat /\ era' >= era
      /\ waiters' \in Seq(Tasks)
  BY <1>1, <1>6 DEF Unnest
<1>8. t \notin Pending' BY <1>3, <1>4 DEF Pending, Waiting
<1>9. Reserve(u) <= Reserve(task[t])
  <2>1. /\ ChainLeft(task[t]) \in 0..Chain /\ RetryLeft(u) = RetryLeft(task[t])
        /\ RetryLeft(u) \in 0..Chain /\ Chain \in Nat
    BY <1>1, <1>4, ReserveRange, ConstantsFact DEF RetryLeft
  <2>2. Reserve(task[t]) = ChainLeft(task[t]) + Chain + RetryLeft(task[t]) BY DEF Reserve
  <2>3. ChainLeft(u) = Chain BY <1>4, <2>1 DEF ChainLeft
  <2>4. Reserve(u) = ChainLeft(u) + RetryLeft(u) BY <1>4 DEF Reserve
  <2> QED BY <2>1, <2>2, <2>3, <2>4
<1> QED BY <1>1, <1>2, <1>3, <1>4, <1>5, <1>7, <1>8, <1>9, TaskMoves

(* After a login the cache is empty, and the request is prepared again by  *)
(* a task that nobody overtakes.                                           *)
LEMMA LoggedInInv ==
  ASSUME HttpInv, NEW t \in Tasks, LoggedIn(t), task[t].pc = "net",
         running = None, running' = t,
         UNCHANGED <<bucketVars, waiters, count, wire, open, config>>
  PROVE  HttpInv'
<1>0. TypesAt(t) BY TypesFact
<1>1. /\ task \in [Tasks -> Task] /\ task[t] \in Task /\ t \in users /\ task[t].raw = "login"
      /\ free \in Nat /\ era \in Nat /\ waiters \in Seq(Tasks) /\ 0 \in 0..MaxRedirects
  BY <1>0, ConstantsFact DEF TypesAt, Sender, LoggedIn
<1>2. BucketInv' BY BucketsKept
<1> DEFINE e == era + 1
           u == [task[t] EXCEPT !.pc = "prepare", !.raw = "none", !.hops = 0, !.retried = TRUE,
                                !.missed = FALSE, !.mine = e]
<1>3. e \in Nat /\ era' = e /\ e >= era /\ cache' = None /\ cache' \in Token
  BY <1>1 DEF LoggedIn, AfterLogin, Token
<1>4. task' = [task EXCEPT ![t] = u] /\ task'[t] = u BY <1>1 DEF LoggedIn
<1> HIDE DEF e
<1>5. /\ u \in Task /\ u.pc = "prepare" /\ u.raw = "none" /\ u.hops = 0
      /\ u.retried = TRUE /\ u.mine = e
  BY <1>1, <1>3 DEF Task, Stage, Raw
<1> HIDE DEF u
<1>6. Sender(t)'
  BY <1>1, <1>3, <1>4, <1>5 DEF Sender, Waiting, config
<1>7. Holds(t) = 2 /\ Holds(t)' = 1 BY <1>1, <1>4, <1>5 DEF Holds, Inside
<1>8. free' + Holds(t)' = free + Holds(t) /\ free' \in Nat
  BY <1>1, <1>7 DEF LoggedIn
<1>9. t \notin Pending' BY <1>4, <1>5 DEF Pending, Waiting
<1>10. Reserve(u) <= Reserve(task[t])
  <2>1. ChainLeft(task[t]) \in 0..Chain /\ Chain \in Nat BY <1>1, ReserveRange, ConstantsFact
  <2>2. Reserve(task[t]) = ChainLeft(task[t]) + Chain BY <1>1 DEF Reserve
  <2>3. Reserve(u) = Chain + 0 BY <1>5 DEF Reserve, RetryLeft
  <2> QED BY <2>1, <2>2, <2>3
<1> QED BY <1>1, <1>2, <1>3, <1>4, <1>5, <1>6, <1>8, <1>9, <1>10, TaskMoves

(* A request that was denied gives its second chain to the login before.   *)
LEMMA DeniedInv ==
  ASSUME HttpInv, NEW t \in Tasks, Denied(t), task[t].pc = "net",
         running = None, running' \in {None, t},
         UNCHANGED <<bucketVars, waiters, count, wire, open, config>>
  PROVE  HttpInv'
<1>0. TypesAt(t) BY TypesFact
<1>1. /\ task \in [Tasks -> Task] /\ task[t] \in Task /\ t \in users
      /\ task[t].raw = "none" /\ ~task[t].retried /\ task[t].mine <= era
      /\ free \in Nat /\ era \in Nat /\ cache \in Token /\ waiters \in Seq(Tasks)
      /\ 0 \in 0..MaxRedirects /\ now \in Nat
  BY <1>0, ConstantsFact DEF TypesAt, Sender, Denied
<1>2. BucketInv' BY BucketsKept
<1>3. UNCHANGED <<free, cache, era>> /\ count < MaxRequests BY DEF Denied, sessionVars, Admitted
<1>4. PICK h \in Hosts :
        task' = [task EXCEPT ![t].pc = "host", ![t].raw = "login", ![t].host = h,
                             ![t].hops = 0, ![t].wake = now]
  BY DEF Denied
<1> DEFINE u == [task[t] EXCEPT !.pc = "host", !.raw = "login", !.host = h, !.hops = 0, !.wake = now]
<1>5. task' = [task EXCEPT ![t] = u] /\ task'[t] = u BY <1>1, <1>4
<1>6. /\ u \in Task /\ u.pc = "host" /\ u.raw = "login" /\ u.hops = 0 /\ u.host = h
      /\ u.retried = task[t].retried /\ u.mine = task[t].mine
  BY <1>1 DEF Task, Stage, Raw
<1> HIDE DEF u
<1>7. Sender(t)' BY <1>1, <1>3, <1>5, <1>6 DEF Sender, Waiting, config
<1>8. Holds(t) = 1 /\ Holds(t)' = 1 BY <1>1, <1>5, <1>6 DEF Holds, Inside
<1>9. free' + Holds(t)' = free + Holds(t) /\ era' >= era BY <1>1, <1>3, <1>8
<1>10. Reserve(u) <= Reserve(task[t])
  <2>1. ChainLeft(task[t]) \in 0..Chain /\ Chain \in Nat BY <1>1, ReserveRange, ConstantsFact
  <2>2. Reserve(task[t]) = ChainLeft(task[t]) + Chain BY <1>1 DEF Reserve, RetryLeft
  <2>3. Reserve(u) = 0 + Chain BY <1>6 DEF Reserve, ChainLeft
  <2> QED BY <2>1, <2>2, <2>3
<1> QED BY <1>1, <1>2, <1>3, <1>5, <1>6, <1>7, <1>9, <1>10, TaskMoves

(* A request that ends gives its permit back. *)
LEMMA EndInv ==
  ASSUME HttpInv, NEW t \in Tasks, task[t].pc # "idle", End(t),
         running \in {None, t}, running' \in {None, t},
         UNCHANGED <<bucketVars, waiters, count, wire, open, config>>
  PROVE  HttpInv'
<1>1. task' = [task EXCEPT ![t] = Fresh(task[t].todo)]
  BY TypesFact DEF TypesAt, End
<1>2. free' = free + Holds(t) /\ UNCHANGED sessionVars BY DEF End, Released
<1>3. waiters' \in Seq(Tasks) BY TypesFact DEF TypesAt
<1> QED BY <1>1, <1>2, <1>3, RestInv

(* An answer ends the attempt. *)
LEMMA RespondInv ==
  ASSUME HttpInv, NEW t \in Tasks, Respond(t)
  PROVE  HttpInv'
<1>1. /\ task[t].pc = "net" /\ running = None /\ running' \in {None, t}
      /\ UNCHANGED <<bucketVars, waiters, count, wire, open, config>>
  BY DEF Respond
<1>2. CASE TokenFetched(t)
  <2>1. task[t].raw = "rule" /\ era' = era BY <1>2 DEF TokenFetched
  <2>2. task[t].token \in Token /\ task[t].got \in Token /\ cache \in Token
    BY TypesFact, FieldsFact DEF TypesAt
  <2>3. CASE Unnest(t, task[t].got, FALSE) /\ cache' = task[t].got
    BY <1>1, <2>1, <2>2, <2>3, UnnestInv
  <2>4. CASE NoToken(t) /\ UNCHANGED cache
    BY <1>1, <2>1, <2>2, <2>4, UnnestInv DEF NoToken
  <2> QED BY <1>2, <2>3, <2>4 DEF TokenFetched
<1>3. CASE LoggedIn(t)
  <2>1. task[t] \in Task /\ task \in [Tasks -> Task] BY TypesFact DEF TypesAt
  <2>2. task'[t].pc = "prepare"
    BY <1>3, <2>1 DEF LoggedIn, Task
  <2>3. running' = t BY <2>2 DEF Respond
  <2> QED BY <1>1, <1>3, <2>3, LoggedInInv
<1>4. CASE Denied(t) BY <1>1, <1>4, DeniedInv
<1>5. CASE task[t].raw = "none" /\ End(t) BY <1>1, <1>5, EndInv
<1> QED BY <1>2, <1>3, <1>4, <1>5 DEF Respond

(* So does an error of the transport. *)
LEMMA RaiseInv ==
  ASSUME HttpInv, NEW t \in Tasks, Raise(t)
  PROVE  HttpInv'
<1>1. /\ task[t].pc \in {"ready", "net"} /\ running \in {None, t} /\ running' \in {None, t}
      /\ UNCHANGED <<bucketVars, waiters, count, wire, open, config>>
  BY DEF Raise, Turn, Stays, Suspends
<1>2. CASE task[t].raw = "rule"
  <2>1. Unnest(t, task[t].token, TRUE) /\ cache' = cache /\ era' = era
    BY <1>2 DEF Raise, NoToken, sessionVars
  <2>2. task[t].token \in Token /\ cache \in Token BY TypesFact, FieldsFact DEF TypesAt
  <2> QED BY <1>1, <1>2, <2>1, <2>2, UnnestInv
<1>3. CASE task[t].raw # "rule"
  BY <1>1, <1>3, EndInv DEF Raise
<1> QED BY <1>2, <1>3

(* A cancelled task gives up its place in the line and its permits. *)
LEMMA CancelInv ==
  ASSUME HttpInv, NEW t \in Tasks, Cancel(t)
  PROVE  HttpInv'
<1>1. waiters \in Seq(Tasks) BY TypesFact DEF TypesAt
<1>2. waiters' \in Seq(Tasks)
  <2>1. CASE UNCHANGED waiters BY <1>1, <2>1
  <2>2. ASSUME NEW i \in DOMAIN waiters,
               waiters' = SubSeq(waiters, 1, i - 1) \o SubSeq(waiters, i + 1, Len(waiters))
        PROVE waiters' \in Seq(Tasks)
    <3>1. i \in 1..Len(waiters) /\ Len(waiters) \in Nat BY <1>1
    <3>2. SubSeq(waiters, 1, i - 1) \in Seq(Tasks) BY <1>1, <3>1
    <3>3. SubSeq(waiters, i + 1, Len(waiters)) \in Seq(Tasks) BY <1>1, <3>1
    <3> QED BY <2>2, <3>2, <3>3
  <2> QED BY <2>1, <2>2 DEF Cancel
<1>3. /\ task[t].pc # "idle" /\ task' = [task EXCEPT ![t] = Fresh(0)] /\ free' = free + Holds(t)
      /\ running = None /\ running' \in {None, t}
      /\ UNCHANGED <<bucketVars, count, wire, sessionVars, open, config>>
  BY DEF Cancel
<1> QED BY <1>2, <1>3, RestInv

(* The surroundings touch no task: what Sender says of the cache is about  *)
(* a cache that is empty, and they can only empty it.                      *)
LEMMA AroundInv ==
  ASSUME HttpInv, [BucketNext]_bucketVars, open' \in BOOLEAN, cache' \in {cache, None},
         UNCHANGED <<task, running, free, waiters, count, wire, era, config>>
  PROVE  HttpInv'
<1>1. BucketInv' BY BucketStep DEF HttpInv
<1>2. HttpTypeOK' BY DEF HttpInv, HttpTypeOK, Token, config
<1>3. AllSend'
  <2> SUFFICES ASSUME NEW t \in Tasks PROVE Sender(t)' BY DEF AllSend
  <2> QED BY DEF HttpInv, AllSend, Sender, config
<1>4. PermitsConserved' BY DEF HttpInv, PermitsConserved, Holds, Inside
<1>5. Budgeted' BY DEF HttpInv, Budgeted, Pending, config
<1>6. WireAccounted' BY DEF HttpInv, WireAccounted, Reserved, Pairs, Chain
<1> QED BY <1>1, <1>2, <1>3, <1>4, <1>5, <1>6 DEF HttpInv

(* Every step keeps the invariant. *)
LEMMA NextHttpInv == HttpInv /\ [HttpNext]_httpVars => HttpInv'
<1> SUFFICES ASSUME HttpInv, [HttpNext]_httpVars PROVE HttpInv' OBVIOUS
<1>1. ASSUME NEW t \in Tasks, Send(t) \/ TaskStep(t) \/ Cancel(t) PROVE HttpInv'
  BY <1>1, SendInv, AcquiresInv, PermitInv, QueueInv, PrepareInv, TransmitInv, RedirectedInv,
     RespondInv, RaiseInv, CancelInv DEF TaskStep
<1>2. CASE Close \/ TokenExpires \/ Clock \/ Observe \/ UNCHANGED httpVars
  <2>1. [BucketNext]_bucketVars
    BY <1>2 DEF Close, TokenExpires, Clock, Observe, httpVars, BucketNext
  <2>2. open' \in BOOLEAN /\ cache' \in {cache, None}
    BY <1>2 DEF Close, TokenExpires, Clock, Observe, httpVars, clientVars, sessionVars,
                HttpInv, HttpTypeOK
  <2>3. UNCHANGED <<task, running, free, waiters, count, wire, era, config>>
    BY <1>2 DEF Close, TokenExpires, Clock, Observe, httpVars, clientVars, sessionVars
  <2> QED BY <2>1, <2>2, <2>3, AroundInv
<1> QED BY <1>1, <1>2 DEF HttpNext

(* So it holds throughout. *)
LEMMA SpecHttpInv == HttpSpec => []HttpInv
  BY HttpInitInv, NextHttpInv, PTL DEF HttpSpec

-----------------------------------------------------------------------------
(* Theorems *)

(* Every variable of the client keeps its type, whatever is raised, nested *)
(* or cancelled: the semaphore is never above its size (client.py send).   *)
THEOREM HttpTypes == HttpSpec => []HttpTypeOK
<1>1. HttpInv => HttpTypeOK BY DEF HttpInv
<1> QED BY <1>1, SpecHttpInv, PTL

(* No permit is lost and none is given back twice (client.py:154, 204).    *)
THEOREM PermitsAreConserved == HttpSpec => []PermitsConserved
<1>1. HttpInv => PermitsConserved BY DEF HttpInv
<1> QED BY <1>1, SpecHttpInv, PTL

(* max_requests is overshot by less than the number of senders, and the    *)
(* wire carries at most two chains of redirects per counted request        *)
(* (client.py:139, 333, 184).                                              *)
THEOREM BudgetHolds == HttpSpec => []WithinBudget
<1>1. ASSUME HttpInv PROVE WithinBudget
  <2>1. /\ count \in Nat /\ wire \in Nat /\ users \subseteq Tasks /\ MaxRequests \in Nat
    BY <1>1, ConstantsFact DEF HttpInv, HttpTypeOK
  <2>2. OvershootBound
    <3>1. Cardinality(Pending) \in Nat BY PendingFinite
    <3>2. Cardinality(users) \in Nat BY <2>1, ConstantsFact, FS_Subset, FS_CardinalityType
    <3> QED BY <1>1, <2>1, <3>1, <3>2 DEF HttpInv, Budgeted, OvershootBound
  <2>3. WireBound
    <3> DEFINE R == Cardinality(Reserved)
               v == (2 * Chain) * count
    <3>1. R \in Nat
      <4>1. IsFiniteSet(Pairs)
        <5>1. IsFiniteSet(1..(3 * Chain)) BY ConstantsFact, FS_Interval
        <5> QED BY <5>1, ConstantsFact, FS_Product DEF Pairs
      <4> QED BY <4>1, FS_Subset, FS_CardinalityType DEF Reserved
    <3>2. v \in Nat BY <2>1, ConstantsFact
    <3>3. wire + R <= v BY <1>1 DEF HttpInv, WireAccounted
    <3>4. v = 2 * (MaxRedirects + 1) * count BY DEF Chain
    <3> HIDE DEF R, v
    <3>5. wire <= v BY <2>1, <3>1, <3>2, <3>3
    <3> QED BY <3>4, <3>5 DEF WireBound
  <2> QED BY <2>2, <2>3 DEF WithinBudget
<1> QED BY <1>1, SpecHttpInv, PTL

(* A request repeated after a login carries no older token, whatever other *)
(* tasks do to the cache meanwhile, unless the fetch made for this attempt *)
(* gave none (client.py:174-182, session_rules.py handle_401).             *)
THEOREM RetriesAreFresh == HttpSpec => []FreshRetry
<1>1. HttpInv => FreshRetry BY DEF HttpInv, AllSend, Sender, FreshRetry
<1> QED BY <1>1, SpecHttpInv, PTL

(* The client uses its buckets as the buckets allow.                       *)
THEOREM ClientUsesBuckets == HttpSpec => BucketSpec
<1>1. HttpInit => BucketInit BY DEF HttpInit
<1>2. HttpInv /\ [HttpNext]_httpVars => [BucketNext]_bucketVars
  <2> SUFFICES ASSUME HttpInv, [HttpNext]_httpVars PROVE [BucketNext]_bucketVars OBVIOUS
  <2>1. ASSUME NEW t \in Tasks, AcquireHost(t) \/ AcquireGlobal(t) PROVE [BucketNext]_bucketVars
    <3>1. task[t].pc = "host" => task[t].host \in Buckets
      BY TypesFact DEF TypesAt, Sender, Buckets
    <3> QED BY <2>1, <3>1 DEF AcquireHost, AcquireGlobal, Acquire, BucketNext, Buckets
  <2>2. ASSUME NEW t \in Tasks, Send(t) \/ Cancel(t) \/ Permit(t) \/ Queue(t) \/ Prepare(t)
                 \/ Transmit(t) \/ Redirected(t) \/ Respond(t) \/ Raise(t)
        PROVE UNCHANGED bucketVars
    BY <2>2 DEF Send, Cancel, Permit, Queue, Prepare, Transmit, Redirected, Respond, Raise
  <2>3. CASE Close \/ TokenExpires \/ Clock \/ Observe \/ UNCHANGED httpVars
    BY <2>3 DEF Close, TokenExpires, Clock, Observe, httpVars, BucketNext
  <2> QED BY <2>1, <2>2, <2>3 DEF HttpNext, TaskStep
<1> QED BY <1>1, <1>2, SpecHttpInv, PTL DEF HttpSpec, BucketSpec

(* So in every window the client sends at most a bucketful and what the    *)
(* rate adds, for every number of tasks and hosts (rate_limit.py).         *)
THEOREM ClientIsRateLimited == HttpSpec => []RateBound
  BY ClientUsesBuckets, RateLimited, PTL

=============================================================================
