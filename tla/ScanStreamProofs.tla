-------------------------- MODULE ScanStreamProofs --------------------------
(***************************************************************************)
(* Proofs about ScanStream for every number of scans, tasks, requests and  *)
(* clients, every set of routes and every bound on the queues.             *)
(***************************************************************************)
EXTENDS ScanStream, ScanLifecycleProofs

-----------------------------------------------------------------------------
(* Arithmetic of the event numbers *)

(* A multiple of the modulus does not change a remainder. *)
LEMMA ModMultiple ==
  ASSUME NEW W \in Nat \ {0}, NEW a \in Nat, NEW q \in Nat
  PROVE  (a + W * q) % W = a % W
  <1> DEFINE p == a \div W
             r == a % W
  <1>1. p \in Nat /\ r \in 0..(W - 1) /\ a = W * p + r
    OBVIOUS
  <1> HIDE DEF p, r
  <1>2. p + q \in Nat /\ a + W * q = W * (p + q) + r
    BY <1>1
  <1>3. (W * (p + q) + r) % W = r
    BY <1>1, <1>2
  <1>4. (a + W * q) % W = r
    BY <1>2, <1>3
  <1>5. QED
    BY <1>4 DEF r

(* Adding to a remainder is adding to the number. *)
LEMMA ModAdd ==
  ASSUME NEW W \in Nat \ {0}, NEW a \in Nat, NEW b \in Nat
  PROVE  ((a % W) + b) % W = (a + b) % W
  <1> DEFINE q == a \div W
             r == a % W
  <1>1. q \in Nat /\ r \in Nat /\ a = W * q + r
    OBVIOUS
  <1> HIDE DEF q, r
  <1>2. (r + b) + W * q = a + b /\ r + b \in Nat
    BY <1>1
  <1>3. ((r + b) + W * q) % W = (r + b) % W
    BY <1>1, <1>2, ModMultiple
  <1>4. QED
    BY <1>2, <1>3 DEF r

(* Numbers. *)
LEMMA WrapIsNat == Wrap \in Nat \ {0} /\ Number \subseteq Nat /\ None \notin Number
  BY StreamAssumption DEF Wrap, Number

(* Every remainder is the number of an event. *)
LEMMA FollowNumber ==
  ASSUME NEW n \in Nat
  PROVE  n % Wrap \in Number
  BY WrapIsNat DEF Number


-----------------------------------------------------------------------------
(* Queues *)

Items == Number \cup {None}

(* The first n items of q are the numbers that follow last. *)
Numbered(q, last, n) == \A i \in 1..n : q[i] = (last + i) % Wrap

(* A published event extends the run. *)
LEMMA RunGrows ==
  ASSUME NEW q \in Seq(Items), NEW last \in Number, Numbered(q, last, Len(q)),
         NEW n, n = (((last + Len(q)) % Wrap) + 1) % Wrap
  PROVE  /\ n \in Number
         /\ q \o <<n>> \in Seq(Items)
         /\ Numbered(q \o <<n>>, last, Len(q \o <<n>>))
         /\ (last + Len(q \o <<n>>)) % Wrap = n
  <1>1. last \in Nat /\ Len(q) \in Nat
    BY WrapIsNat
  <1>2. last + Len(q) \in Nat /\ (last + Len(q)) + 1 = last + (Len(q) + 1)
    BY <1>1
  <1>3. n = ((last + Len(q)) + 1) % Wrap
    BY <1>2, WrapIsNat, ModAdd
  <1>4. n = (last + (Len(q) + 1)) % Wrap
    BY <1>2, <1>3
  <1>5. n \in Number
    BY <1>1, <1>4, FollowNumber
  <1>6. q \o <<n>> \in Seq(Items) /\ Len(q \o <<n>>) = Len(q) + 1
    BY <1>5 DEF Items
  <1>7. /\ \A i \in 1..Len(q) : (q \o <<n>>)[i] = q[i]
        /\ (q \o <<n>>)[Len(q) + 1] = n
    BY <1>5 DEF Items
  <1>8. ASSUME NEW i \in 1..(Len(q) + 1)
        PROVE  (q \o <<n>>)[i] = (last + i) % Wrap
    <2>1. CASE i = Len(q) + 1
      BY <1>4, <1>7, <2>1
    <2>2. CASE i # Len(q) + 1
      <3>1. i \in 1..Len(q)
        BY <1>1, <2>2
      <3>2. QED
        BY <1>7, <3>1 DEF Numbered
    <2>3. QED
      BY <2>1, <2>2
  <1>9. QED
    BY <1>4, <1>5, <1>6, <1>8 DEF Numbered

(* The sentinel ends the run. *)
LEMMA RunEnded ==
  ASSUME NEW q \in Seq(Items), NEW last \in Number, Numbered(q, last, Len(q))
  PROVE  LET p == q \o <<None>>
         IN /\ Len(p) >= 1 /\ p[Len(p)] = None
            /\ Numbered(p, last, Len(p) - 1)
  <1> DEFINE p == q \o <<None>>
  <1>1. p \in Seq(Items) /\ Len(p) = Len(q) + 1 /\ Len(q) \in Nat
    BY DEF Items
  <1>2. p[Len(q) + 1] = None /\ \A i \in 1..Len(q) : p[i] = q[i]
    BY DEF Items
  <1>3. Len(p) - 1 = Len(q)
    BY <1>1
  <1> HIDE DEF p
  <1>4. QED
    BY <1>1, <1>2, <1>3 DEF Numbered, p

(* A last event and the sentinel. *)
LEMMA RunEndedAfter ==
  ASSUME NEW q \in Seq(Items), NEW last \in Number, Numbered(q, last, Len(q)),
         NEW n, n = (((last + Len(q)) % Wrap) + 1) % Wrap
  PROVE  LET p == q \o <<n, None>>
         IN /\ Len(p) >= 1 /\ p[Len(p)] = None
            /\ Numbered(p, last, Len(p) - 1)
  <1> DEFINE p == q \o <<n, None>>
             r == q \o <<n>>
  <1>1. n \in Items /\ None \in Items
    BY RunGrows DEF Items
  <1>2. <<n, None>> \in Seq(Items) /\ Len(q) \in Nat
    BY <1>1
  <1>3. Len(p) = Len(q) + 2 /\ p[Len(q) + 2] = None /\ p[Len(q) + 1] = n
    BY <1>1, <1>2
  <1>4. Len(r) = Len(q) + 1 /\ r[Len(q) + 1] = n
    BY <1>1, <1>2
  <1>5. \A i \in 1..Len(q) : p[i] = q[i] /\ r[i] = q[i]
    BY <1>1, <1>2
  <1>6. Numbered(r, last, Len(r))
    BY RunGrows
  <1> HIDE DEF p, r
  <1>7. ASSUME NEW i \in 1..(Len(q) + 1)
        PROVE  p[i] = r[i]
    <2>1. CASE i = Len(q) + 1
      BY <1>3, <1>4, <2>1
    <2>2. CASE i # Len(q) + 1
      <3>1. i \in 1..Len(q)
        BY <1>2, <2>2
      <3>2. QED
        BY <1>5, <3>1
    <2>3. QED
      BY <2>1, <2>2
  <1>8. Len(p) - 1 = Len(q) + 1 /\ Len(p) >= 1
    BY <1>2, <1>3
  <1>9. Numbered(p, last, Len(p) - 1)
    BY <1>4, <1>6, <1>7, <1>8 DEF Numbered
  <1>10. QED
    BY <1>3, <1>8, <1>9 DEF p

(* Delivering the head of a run leaves the run that follows it. *)
LEMMA RunDelivered ==
  ASSUME NEW q \in Seq(Items), q # <<>>, NEW last \in Number, NEW n \in Nat, n >= 1,
         n <= Len(q), Numbered(q, last, n)
  PROVE  /\ Head(q) \in Number
         /\ Tail(q) \in Seq(Items)
         /\ Len(Tail(q)) = Len(q) - 1
         /\ \A i \in 1..(Len(q) - 1) : Tail(q)[i] = q[i + 1]
         /\ Numbered(Tail(q), Head(q), n - 1)
         /\ \A k \in Nat : k >= 1 => (Head(q) + (k - 1)) % Wrap = (last + k) % Wrap
  <1>1. last \in Nat /\ 1 \in 1..n /\ last + 1 \in Nat
    BY WrapIsNat
  <1>2. Head(q) = q[1] /\ q[1] = (last + 1) % Wrap
    BY <1>1 DEF Numbered
  <1>3. Head(q) \in Number
    BY <1>1, <1>2, FollowNumber
  <1>4. /\ Tail(q) \in Seq(Items)
        /\ Len(Tail(q)) = Len(q) - 1
        /\ \A i \in 1..(Len(q) - 1) : Tail(q)[i] = q[i + 1]
    OBVIOUS
  <1>5. ASSUME NEW k \in Nat, k >= 1
        PROVE  (Head(q) + (k - 1)) % Wrap = (last + k) % Wrap
    <2>1. k - 1 \in Nat /\ (last + 1) + (k - 1) = last + k
      BY <1>1, <1>5
    <2>2. (((last + 1) % Wrap) + (k - 1)) % Wrap = ((last + 1) + (k - 1)) % Wrap
      BY <1>1, <2>1, WrapIsNat, ModAdd
    <2>3. QED
      BY <1>2, <2>1, <2>2
  <1>6. ASSUME NEW i \in 1..(n - 1)
        PROVE  Tail(q)[i] = (Head(q) + i) % Wrap
    <2>1. i + 1 \in 1..n /\ i \in 1..(Len(q) - 1) /\ i + 1 \in Nat /\ i + 1 >= 1 /\ (i + 1) - 1 = i
      OBVIOUS
    <2>2. (Head(q) + i) % Wrap = (last + (i + 1)) % Wrap
      BY <1>5, <2>1
    <2>3. QED
      BY <1>4, <2>1, <2>2 DEF Numbered
  <1>7. QED
    BY <1>3, <1>4, <1>5, <1>6 DEF Numbered

-----------------------------------------------------------------------------
(* The channel and the queues it feeds *)

(* What a live client holds. *)
LEMMA LiveFields ==
  ASSUME StreamTypeOK, NEW c \in Clients, cli[c].st = "live"
  PROVE  /\ cli[c] \in [st : {"live"}, scan : Scans, last : Number, queue : Seq(Items)]
         /\ cli[c].scan \in Scans /\ cli[c].last \in Number /\ cli[c].queue \in Seq(Items)
  BY DEF StreamTypeOK, Client, Gone, Items

(* The queue continues what was delivered; while its channel is open it    *)
(* reaches the last event published, and afterwards it ends in a sentinel. *)
QueueFits(c) ==
  LET q    == cli[c].queue
      last == cli[c].last
  IN cli[c].st = "live" =>
       IF Subscribed(c)
       THEN Numbered(q, last, Len(q)) /\ (last + Len(q)) % Wrap = published[cli[c].scan]
       ELSE Len(q) >= 1 /\ q[Len(q)] = None /\ Numbered(q, last, Len(q) - 1)

StreamInv == StreamTypeOK /\ \A c \in Clients : QueueFits(c)

(* A client's entry that nobody touches fits as before. *)
LEMMA FitsAsBefore ==
  ASSUME NEW c \in Clients, QueueFits(c), cli'[c] = cli[c],
         cli[c].st = "live" =>
           /\ Subscribed(c)' <=> Subscribed(c)
           /\ Subscribed(c) => published'[cli[c].scan] = published[cli[c].scan]
  PROVE  QueueFits(c)'
  BY DEF QueueFits

Fed(c, s) == chan[s] # None /\ c \in chan[s] /\ LiveOn(c, s)

(* A channel feeds its live subscribers. *)
LEMMA FedSubscribed ==
  ASSUME NEW c \in Clients, NEW s \in Scans
  PROVE  Fed(c, s) <=> LiveOn(c, s) /\ Subscribed(c)
  BY DEF Fed, LiveOn, Subscribed

(* What is sent reaches the clients the channel feeds, and nobody else. *)
LEMMA SentMoves ==
  ASSUME StreamTypeOK, NEW s \in Scans, NEW items \in Seq(Items), cli' = Sent(s, items)
  PROVE  /\ cli' \in [Clients -> {Gone} \cup Client]
         /\ \A c \in Clients : ~Fed(c, s) => cli'[c] = cli[c]
         /\ \A c \in Clients : Fed(c, s) =>
              cli'[c].st = "live" /\ cli'[c].scan = s /\ cli'[c].last = cli[c].last
                /\ cli'[c].queue = cli[c].queue \o items
  <1>1. ASSUME NEW c \in Clients, Fed(c, s)
        PROVE  [cli[c] EXCEPT !.queue = @ \o items] \in Client
    <2>1. cli[c].st = "live"
      BY <1>1 DEF Fed, LiveOn
    <2>2. cli[c].queue \o items \in Seq(Items)
      BY <2>1, LiveFields
    <2>3. QED
      BY <2>1, <2>2, LiveFields DEF Client, Items
  <1>2. \A c \in Clients :
          cli'[c] = IF Fed(c, s) THEN [cli[c] EXCEPT !.queue = @ \o items] ELSE cli[c]
    BY DEF Sent, Fanout, Fed
  <1>3. ASSUME NEW c \in Clients, Fed(c, s)
        PROVE  cli'[c].st = "live" /\ cli'[c].scan = s /\ cli'[c].last = cli[c].last
                 /\ cli'[c].queue = cli[c].queue \o items
    BY <1>2, <1>3, LiveFields DEF Fed, LiveOn
  <1>4. \A c \in Clients : cli'[c] \in {Gone} \cup Client
    BY <1>1, <1>2 DEF StreamTypeOK
  <1>5. cli' \in [Clients -> {Gone} \cup Client]
    BY <1>4 DEF Sent, Fanout
  <1>6. QED
    BY <1>2, <1>3, <1>5

(* The number of the next event. *)
LEMMA FollowsNumber ==
  ASSUME StreamTypeOK, NEW s \in Scans
  PROVE  /\ published[s] \in Nat
         /\ Follows(s) = (published[s] + 1) % Wrap
         /\ Follows(s) \in Number
  <1>1. published[s] \in Nat
    BY WrapIsNat DEF StreamTypeOK
  <1>2. published[s] + 1 \in Nat
    BY <1>1
  <1>3. QED
    BY <1>1, <1>2, FollowNumber DEF Follows

(* A published event reaches every queue the channel feeds. *)
LEMMA PublishKeeps ==
  ASSUME StreamInv, NEW s \in Scans, Publish(s)
  PROVE  StreamInv'
  <1> DEFINE n == Follows(s)
  <1>1. published[s] \in Nat /\ n = (published[s] + 1) % Wrap /\ n \in Number
    BY FollowsNumber DEF StreamInv
  <1>2. /\ \A t \in Scans : published'[t] = IF t = s THEN n ELSE published[t]
        /\ published' \in [Scans -> Number]
        /\ chan' = chan
    BY <1>1 DEF StreamInv, StreamTypeOK, Publish
  <1>3. <<n>> \in Seq(Items) /\ cli' = Sent(s, <<n>>)
    BY <1>1 DEF Publish, Items
  <1> HIDE DEF n
  <1>4. StreamTypeOK'
    BY <1>2, <1>3, SentMoves DEF StreamInv, StreamTypeOK
  <1>5. ASSUME NEW c \in Clients
        PROVE  QueueFits(c)'
    <2>1. CASE Fed(c, s)
      <3> DEFINE q == cli[c].queue
                 last == cli[c].last
      <3>1. cli[c].st = "live" /\ cli[c].scan = s /\ Subscribed(c)
        BY <2>1, FedSubscribed DEF LiveOn
      <3>2. q \in Seq(Items) /\ last \in Number
        BY <3>1, LiveFields DEF StreamInv
      <3>3. Numbered(q, last, Len(q)) /\ (last + Len(q)) % Wrap = published[s]
        BY <3>1 DEF StreamInv, QueueFits
      <3>4. /\ Numbered(q \o <<n>>, last, Len(q \o <<n>>))
            /\ (last + Len(q \o <<n>>)) % Wrap = n
        BY <1>1, <3>2, <3>3, RunGrows
      <3>5. /\ cli'[c].scan = s /\ cli'[c].last = last /\ cli'[c].queue = q \o <<n>>
        BY <1>3, <2>1, SentMoves DEF StreamInv
      <3>6. Subscribed(c)'
        BY <1>2, <3>1, <3>5 DEF Subscribed
      <3> HIDE DEF q, last
      <3>7. QED
        BY <1>2, <3>4, <3>5, <3>6 DEF QueueFits, Numbered
    <2>2. CASE ~Fed(c, s)
      <3>1. cli'[c] = cli[c]
        BY <1>3, <2>2, SentMoves DEF StreamInv
      <3>2. cli[c].st = "live" /\ Subscribed(c) => cli[c].scan \in Scans /\ cli[c].scan # s
        BY <2>2, FedSubscribed, LiveFields DEF LiveOn, StreamInv
      <3>3. Subscribed(c)' <=> Subscribed(c)
        BY <1>2, <3>1 DEF Subscribed
      <3>4. QED
        BY <1>2, <3>1, <3>2, <3>3, FitsAsBefore DEF StreamInv
    <2>3. QED
      BY <2>1, <2>2
  <1>6. QED
    BY <1>4, <1>5 DEF StreamInv

(* A closed channel leaves a sentinel on every queue it fed; an event that *)
(* is published just before comes first.                                   *)
LEMMA CloseKeeps ==
  ASSUME StreamInv, NEW s \in Scans, Close(s) \/ PublishAndClose(s)
  PROVE  StreamInv'
  <1>1. published[s] \in Nat /\ Follows(s) = (published[s] + 1) % Wrap /\ Follows(s) \in Number
    BY FollowsNumber DEF StreamInv
  <1>2. /\ \A t \in Scans : t # s => published'[t] = published[t]
        /\ published' \in [Scans -> Number]
    BY <1>1 DEF StreamInv, StreamTypeOK, Close, PublishAndClose
  <1>3. /\ chan'[s] = None /\ \A t \in Scans : t # s => chan'[t] = chan[t]
        /\ chan' \in [Scans -> {None} \cup SUBSET Clients]
    BY DEF StreamInv, StreamTypeOK, Close, PublishAndClose
  <1>4. PICK items \in {<<None>>, <<Follows(s), None>>} : cli' = Sent(s, items)
    BY DEF Close, PublishAndClose
  <1>5. items \in Seq(Items)
    <2>1. Follows(s) \in Items /\ None \in Items
      BY <1>1 DEF Items
    <2>2. <<None>> \in Seq(Items) /\ <<Follows(s), None>> \in Seq(Items)
      BY <2>1
    <2>3. QED
      BY <1>4, <2>2
  <1>6. StreamTypeOK'
    BY <1>2, <1>3, <1>4, <1>5, SentMoves DEF StreamInv, StreamTypeOK
  <1>7. ASSUME NEW c \in Clients
        PROVE  QueueFits(c)'
    <2>1. CASE Fed(c, s)
      <3> DEFINE q == cli[c].queue
                 last == cli[c].last
                 n == Follows(s)
      <3>1. cli[c].st = "live" /\ cli[c].scan = s /\ Subscribed(c)
        BY <2>1, FedSubscribed DEF LiveOn
      <3>2. q \in Seq(Items) /\ last \in Number
        BY <3>1, LiveFields DEF StreamInv
      <3>3. Numbered(q, last, Len(q)) /\ (last + Len(q)) % Wrap = published[s]
        BY <3>1 DEF StreamInv, QueueFits
      <3>4. /\ cli'[c].scan = s /\ cli'[c].last = last /\ cli'[c].queue = q \o items
        BY <1>4, <1>5, <2>1, SentMoves DEF StreamInv
      <3>5. /\ Len(q \o items) >= 1 /\ (q \o items)[Len(q \o items)] = None
            /\ Numbered(q \o items, last, Len(q \o items) - 1)
        <4>1. CASE items = <<None>>
          BY <3>2, <3>3, <4>1, RunEnded
        <4>2. CASE items = <<n, None>>
          BY <1>1, <3>2, <3>3, <4>2, RunEndedAfter
        <4>3. QED
          BY <1>4, <4>1, <4>2
      <3>8. ~Subscribed(c)'
        BY <1>3, <3>4 DEF Subscribed
      <3> HIDE DEF q, last, n
      <3>9. QED
        BY <3>4, <3>5, <3>8 DEF QueueFits, Numbered
    <2>2. CASE ~Fed(c, s)
      <3>1. cli'[c] = cli[c]
        BY <1>4, <1>5, <2>2, SentMoves DEF StreamInv
      <3>2. cli[c].st = "live" => cli[c].scan \in Scans
        BY LiveFields DEF StreamInv
      <3>3. cli[c].st = "live" /\ Subscribed(c) => cli[c].scan # s
        BY <2>2, FedSubscribed DEF LiveOn
      <3>4. cli[c].st = "live" => (Subscribed(c)' <=> Subscribed(c))
        BY <1>3, <3>1, <3>2, <3>3 DEF Subscribed
      <3>5. QED
        BY <1>2, <3>1, <3>2, <3>3, <3>4, FitsAsBefore DEF StreamInv
    <2>3. QED
      BY <2>1, <2>2
  <1>8. QED
    BY <1>6, <1>7 DEF StreamInv

(* A client that reads the row waits on no queue yet. *)
LEMMA ReadKeeps ==
  ASSUME StreamInv, TypeOK, NEW c \in Clients, NEW s \in Scans, StreamRead(c, s)
  PROVE  StreamInv'
  <1>1. /\ chan' = chan /\ published' = published
        /\ cli'[c] = [st |-> "read", scan |-> s, seen |-> row[s]]
        /\ \A e \in Clients : e # c => cli'[e] = cli[e]
        /\ row[s] \in Status
    BY DEF StreamRead, StreamInv, StreamTypeOK, TypeOK
  <1>2. cli'[c] \in Client
    BY <1>1 DEF Client
  <1>3. StreamTypeOK'
    BY <1>1, <1>2 DEF StreamInv, StreamTypeOK, StreamRead
  <1>4. ASSUME NEW e \in Clients
        PROVE  QueueFits(e)'
    <2>1. CASE e = c
      BY <1>1, <2>1 DEF QueueFits
    <2>2. CASE e # c
      BY <1>1, <2>2, FitsAsBefore DEF StreamInv, Subscribed
    <2>3. QED
      BY <2>1, <2>2
  <1>5. QED
    BY <1>3, <1>4 DEF StreamInv

(* A subscriber starts with an empty queue and the channel that feeds it,  *)
(* or with the snapshot.                                                   *)
LEMMA SubscribeKeeps ==
  ASSUME StreamInv, NEW c \in Clients, StreamSubscribe(c)
  PROVE  StreamInv'
  <1> DEFINE s == cli[c].scan
  <1>1. s \in Scans /\ cli[c].st = "read"
    BY DEF StreamSubscribe, StreamInv, StreamTypeOK, Client, Gone
  <1>2. published' = published /\ chan' = Subscribe(c, s)
    BY DEF StreamSubscribe
  <1>3. /\ chan' \in [Scans -> {None} \cup SUBSET Clients]
        /\ chan'[s] # None /\ c \in chan'[s]
        /\ \A t \in Scans : t # s => chan'[t] = chan[t]
        /\ \A e \in Clients : e # c => ((chan'[s] # None /\ e \in chan'[s]) <=>
                                        (chan[s] # None /\ e \in chan[s]))
    BY <1>1, <1>2, StreamAssumption DEF Subscribe, StreamInv, StreamTypeOK
  <1>4. /\ \/ cli'[c] = [st |-> "snapshot", scan |-> s]
           \/ cli'[c] = [st |-> "live", scan |-> s, last |-> published[s], queue |-> <<>>]
        /\ \A e \in Clients : e # c => cli'[e] = cli[e]
    BY DEF StreamSubscribe, StreamInv, StreamTypeOK
  <1>5. published[s] \in Number
    BY <1>1 DEF StreamInv, StreamTypeOK
  <1>6. cli'[c] \in Client
    <2>1. [st |-> "snapshot", scan |-> s] \in Client
      BY <1>1 DEF Client
    <2>2. <<>> \in Seq(Number \cup {None})
      OBVIOUS
    <2>3. [st |-> "live", scan |-> s, last |-> published[s], queue |-> <<>>] \in Client
      BY <1>1, <1>5, <2>2 DEF Client
    <2>4. QED
      BY <1>4, <2>1, <2>3
  <1>7. StreamTypeOK'
    BY <1>2, <1>3, <1>4, <1>6 DEF StreamInv, StreamTypeOK, StreamSubscribe
  <1>8. ASSUME NEW e \in Clients
        PROVE  QueueFits(e)'
    <2>1. CASE e = c
      <3>1. CASE cli'[c] = [st |-> "snapshot", scan |-> s]
        BY <2>1, <3>1 DEF QueueFits
      <3>2. CASE cli'[c] = [st |-> "live", scan |-> s, last |-> published[s], queue |-> <<>>]
        <4>1. cli'[c].scan = s /\ cli'[c].last = published[s] /\ cli'[c].queue = <<>>
          BY <3>2
        <4>2. Subscribed(c)'
          BY <1>3, <4>1 DEF Subscribed
        <4>3. (published[s] + 0) % Wrap = published[s]
          BY <1>5, StreamAssumption DEF Number, Wrap
        <4>4. Numbered(<<>>, published[s], 0)
          BY DEF Numbered
        <4> HIDE DEF s
        <4>5. QED
          BY <1>2, <2>1, <4>1, <4>2, <4>3, <4>4 DEF QueueFits, Numbered
      <3>3. QED
        BY <1>4, <3>1, <3>2
    <2>2. CASE e # c
      <3>1. cli[e].st = "live" => (Subscribed(e)' <=> Subscribed(e))
        BY <1>3, <1>4, <2>2, LiveFields DEF Subscribed, StreamInv
      <3>2. QED
        BY <1>2, <1>4, <2>2, <3>1, FitsAsBefore DEF StreamInv
    <2>3. QED
      BY <2>1, <2>2
  <1>9. QED
    BY <1>7, <1>8 DEF StreamInv

(* A client that leaves takes only itself out of the channel. *)
LEMMA UnsubscribeKeeps ==
  ASSUME StreamInv, NEW c \in Clients, Unsubscribes(c)
  PROVE  StreamInv'
  <1> DEFINE s == cli[c].scan
  <1>1. published' = published /\ chan' = Unsubscribe(c, s)
    BY DEF Unsubscribes
  <1>2. /\ chan' \in [Scans -> {None} \cup SUBSET Clients]
        /\ \A t \in Scans : \A e \in Clients : e # c =>
             ((chan'[t] # None /\ e \in chan'[t]) <=> (chan[t] # None /\ e \in chan[t]))
    BY <1>1, StreamAssumption DEF Unsubscribe, StreamInv, StreamTypeOK
  <1>3. cli'[c] = Gone /\ \A e \in Clients : e # c => cli'[e] = cli[e]
    BY DEF Unsubscribes, StreamInv, StreamTypeOK
  <1>4. StreamTypeOK'
    BY <1>1, <1>2 DEF StreamInv, StreamTypeOK, Unsubscribes
  <1>5. ASSUME NEW e \in Clients
        PROVE  QueueFits(e)'
    <2>1. CASE e = c
      BY <1>3, <2>1 DEF QueueFits, Gone
    <2>2. CASE e # c
      <3>1. cli[e].st = "live" => (Subscribed(e)' <=> Subscribed(e))
        BY <1>2, <1>3, <2>2, LiveFields DEF Subscribed, StreamInv
      <3>2. QED
        BY <1>1, <1>3, <2>2, <3>1, FitsAsBefore DEF StreamInv
    <2>3. QED
      BY <2>1, <2>2
  <1>6. QED
    BY <1>4, <1>5 DEF StreamInv

(* The head of a queue is delivered. *)
LEMMA DeliverKeeps ==
  ASSUME StreamInv, NEW c \in Clients, Deliver(c)
  PROVE  StreamInv'
  <1> DEFINE q == cli[c].queue
             last == cli[c].last
  <1>1. cli[c].st = "live" /\ q # <<>>
    BY DEF Deliver
  <1>2. CASE Head(q) = None
    BY <1>2, UnsubscribeKeeps DEF Deliver
  <1>3. CASE Head(q) # None
    <2>1. chan' = chan /\ published' = published
      BY <1>3 DEF Deliver
    <2>2. /\ cli'[c] = [cli[c] EXCEPT !.last = Head(q), !.queue = Tail(q)]
          /\ \A e \in Clients : e # c => cli'[e] = cli[e]
          /\ cli' = [cli EXCEPT ![c] = cli'[c]]
      BY <1>1, <1>3 DEF Deliver, StreamInv, StreamTypeOK
    <2>3. q \in Seq(Items) /\ last \in Number /\ Len(q) \in Nat /\ Len(q) >= 1
      BY <1>1, LiveFields DEF StreamInv
    <2>4. /\ cli'[c].st = "live" /\ cli'[c].scan = cli[c].scan
          /\ cli'[c].last = Head(q) /\ cli'[c].queue = Tail(q)
      BY <1>1, <2>2, LiveFields DEF StreamInv
    <2>5. QueueFits(c)' /\ Head(q) \in Number /\ Tail(q) \in Seq(Items)
      <3>1. Subscribed(c)' <=> Subscribed(c)
        BY <2>1, <2>4 DEF Subscribed
      <3>2. CASE Subscribed(c)
        <4>1. Numbered(q, last, Len(q)) /\ (last + Len(q)) % Wrap = published[cli[c].scan]
          BY <1>1, <3>2 DEF StreamInv, QueueFits
        <4>2. /\ Head(q) \in Number /\ Tail(q) \in Seq(Items) /\ Len(Tail(q)) = Len(q) - 1
              /\ Numbered(Tail(q), Head(q), Len(q) - 1)
              /\ (Head(q) + (Len(q) - 1)) % Wrap = (last + Len(q)) % Wrap
          BY <1>1, <2>3, <4>1, RunDelivered
        <4> HIDE DEF q, last
        <4>3. QED
          BY <2>1, <2>4, <3>1, <3>2, <4>1, <4>2 DEF QueueFits, Numbered
      <3>3. CASE ~Subscribed(c)
        <4>1. q[Len(q)] = None /\ Numbered(q, last, Len(q) - 1)
          BY <1>1, <3>3 DEF StreamInv, QueueFits
        <4>2. Len(q) # 1
          BY <1>1, <1>3, <2>3, <4>1
        <4>3. Len(q) - 1 \in Nat /\ Len(q) - 1 >= 1 /\ Len(q) - 1 <= Len(q)
          <5> DEFINE n == Len(q)
          <5>1. n \in Nat /\ n >= 1 /\ n # 1
            BY <2>3, <4>2
          <5> HIDE DEF n
          <5>2. n - 1 \in Nat /\ n - 1 >= 1 /\ n - 1 <= n
            BY <5>1
          <5>3. QED
            BY <5>2 DEF n
        <4>4. /\ Head(q) \in Number /\ Tail(q) \in Seq(Items) /\ Len(Tail(q)) = Len(q) - 1
              /\ \A i \in 1..(Len(q) - 1) : Tail(q)[i] = q[i + 1]
              /\ Numbered(Tail(q), Head(q), (Len(q) - 1) - 1)
          BY <1>1, <2>3, <4>1, <4>3, RunDelivered
        <4>5. Len(q) - 1 \in 1..(Len(q) - 1) /\ (Len(q) - 1) + 1 = Len(q)
          BY <2>3, <4>3
        <4>6. Tail(q)[Len(Tail(q))] = None
          BY <4>1, <4>4, <4>5
        <4> HIDE DEF q, last
        <4>7. QED
          BY <2>4, <3>1, <3>3, <4>3, <4>4, <4>6 DEF QueueFits, Numbered
      <3>4. QED
        BY <3>2, <3>3
    <2>6. cli'[c] \in Client
      <3>1. cli[c] \in [st : {"live"}, scan : Scans, last : Number, queue : Seq(Items)]
        BY <1>1, LiveFields DEF StreamInv
      <3> HIDE DEF q, last
      <3>2. cli'[c] \in [st : {"live"}, scan : Scans, last : Number, queue : Seq(Items)]
        BY <2>2, <2>5, <3>1
      <3>3. QED
        BY <3>2 DEF Client, Items
    <2>7. StreamTypeOK'
      BY <2>1, <2>2, <2>6 DEF StreamInv, StreamTypeOK
    <2>8. ASSUME NEW e \in Clients, e # c
          PROVE  QueueFits(e)'
      BY <2>1, <2>2, <2>8, FitsAsBefore DEF StreamInv, Subscribed
    <2>9. QED
      BY <2>5, <2>7, <2>8 DEF StreamInv
  <1>4. QED
    BY <1>2, <1>3

(* A crash leaves no stream. *)
LEMMA CrashKeeps ==
  ASSUME StreamCrash
  PROVE  StreamInv'
  <1>1. 0 \in Number
    BY StreamAssumption DEF Number, Wrap
  <1>2. QED
    BY <1>1 DEF StreamCrash, StreamInv, StreamTypeOK, QueueFits, Gone

(* At the start nobody listens. *)
LEMMA StartKeeps ==
  ASSUME StreamInit
  PROVE  StreamInv
  <1>1. 0 \in Number
    BY StreamAssumption DEF Number, Wrap
  <1>2. QED
    BY <1>1 DEF StreamInit, StreamInv, StreamTypeOK, QueueFits, Gone

(* Nothing happens to the bus. *)
LEMMA QuietKeeps ==
  ASSUME StreamInv, UNCHANGED busVars
  PROVE  StreamInv'
  <1>1. chan' = chan /\ cli' = cli /\ published' = published
    BY DEF busVars
  <1>2. ASSUME NEW c \in Clients
        PROVE  QueueFits(c)'
    BY <1>1, FitsAsBefore DEF StreamInv, Subscribed
  <1>3. QED
    BY <1>1, <1>2 DEF StreamInv, StreamTypeOK

-----------------------------------------------------------------------------
(* The composition *)

(* A step of the composition is a step of the lifecycle, or leaves it.     *)
LEMMA StreamMaps ==
  ASSUME [StreamNext]_streamVars
  PROVE  [Next]_vars
  <1>1. CASE Server /\ UNCHANGED busVars
    BY <1>1 DEF Server, Next, Environment
  <1>2. ASSUME NEW d \in Drivers, BusDriverStep(d) \/ StreamRunEnds(d) \/ PublishEvent(d)
        PROVE  [Next]_vars
    BY <1>2 DEF BusDriverStep, StreamRunEnds, PublishEvent, StreamHandlerRead, StreamCommit,
                Next, DriverStep, Environment
  <1>3. ASSUME NEW c \in Clients,
               ClientStep(c) \/ Disconnect(c) \/ \E s \in Scans : StreamRead(c, s)
        PROVE  UNCHANGED vars
    BY <1>3 DEF ClientStep, Disconnect, StreamRead, StreamSubscribe, SnapshotSent, Deliver,
                Unsubscribes
  <1>4. CASE StreamCrash
    BY <1>4 DEF StreamCrash, Next, Environment
  <1>5. CASE UNCHANGED streamVars
    BY <1>5 DEF streamVars
  <1>6. QED
    BY <1>1, <1>2, <1>3, <1>4, <1>5 DEF StreamNext

(* A task of s whose run is over in this step. *)
ClosedBy(s) == \E d \in Drivers : Works(d, s) /\ Works(d, s)' /\ Past(d)'

(* What a step can do to the bus; a channel is closed by a task whose run  *)
(* is over.                                                                *)
LEMMA BusMoves ==
  ASSUME TypeOK, [StreamNext]_streamVars
  PROVE  \/ UNCHANGED busVars
         \/ \E s \in Scans : Publish(s) \/ ((Close(s) \/ PublishAndClose(s)) /\ ClosedBy(s))
         \/ \E c \in Clients :
              \/ \E s \in Scans : StreamRead(c, s)
              \/ StreamSubscribe(c) \/ Unsubscribes(c) \/ Deliver(c)
         \/ StreamCrash
  <1> DEFINE Bus == \/ UNCHANGED busVars
                    \/ \E s \in Scans :
                         Publish(s) \/ ((Close(s) \/ PublishAndClose(s)) /\ ClosedBy(s))
  <1>a. \A d \in Drivers : drv[d].pc # "free" => drv[d].scan \in Scans
    BY BusyDriver
  <1>b. ASSUME NEW d \in Drivers, drv[d].pc # "free", drv'[d].scan = drv[d].scan,
               drv'[d].pc \in {"final", "ended"}
        PROVE  ClosedBy(drv[d].scan)
    BY <1>b DEF ClosedBy, Works, Past
  <1>1. ASSUME NEW d \in Drivers, PublishEvent(d)
        PROVE  Bus
    BY <1>1, <1>a DEF PublishEvent
  <1>2. ASSUME NEW d \in Drivers, StreamRunEnds(d)
        PROVE  Bus
    <2>1. drv[d].pc = "run" /\ drv'[d].scan = drv[d].scan /\ drv'[d].pc = "final"
      BY <1>2 DEF StreamRunEnds, RunEnds, Move, At, TypeOK
    <2>2. QED
      BY <1>2, <1>a, <1>b, <2>1 DEF StreamRunEnds
  <1>3. ASSUME NEW d \in Drivers, StreamHandlerRead(d)
        PROVE  Bus
    <2>1. drv[d].pc = "handler" /\ drv'[d].scan = drv[d].scan
      BY <1>3 DEF StreamHandlerRead, HandlerRead, End, Move, At, TypeOK
    <2>2. QED
      BY <1>3, <1>a, <1>b, <2>1 DEF StreamHandlerRead
  <1>4. ASSUME NEW d \in Drivers, StreamCommit(d)
        PROVE  Bus
    <2>1. CASE ClosesAfter(d)
      <3>1. drv[d].pc = "commit" /\ drv[d].goal = "cancelled"
        BY <2>1 DEF ClosesAfter
      <3>2. drv'[d].scan = drv[d].scan /\ drv'[d].pc = "ended"
        BY <1>4, <3>1 DEF StreamCommit, Commit, CommitFails, End, Move, At, TypeOK
      <3>3. QED
        BY <1>4, <1>a, <1>b, <2>1, <3>1, <3>2 DEF StreamCommit
    <2>2. QED
      BY <1>4, <2>1 DEF StreamCommit
  <1>5. QED
    BY <1>1, <1>2, <1>3, <1>4
    DEF StreamNext, BusDriverStep, ClientStep, SnapshotSent, Disconnect, streamVars

(* The queues fit after every step. *)
LEMMA StreamStep ==
  ASSUME TypeOK, StreamInv, [StreamNext]_streamVars
  PROVE  StreamInv'
  BY BusMoves, QuietKeeps, PublishKeeps, CloseKeeps, ReadKeeps, SubscribeKeeps,
     UnsubscribeKeeps, DeliverKeeps, CrashKeeps

(* The composition implements the lifecycle: the bus and the clients of    *)
(* the stream route never make a scan, a task or a request do anything it  *)
(* could not do without them.                                              *)
THEOREM StreamsDriveScans == StreamSpec => Spec
  <1>1. StreamInit => Init
    BY DEF StreamInit
  <1>2. [StreamNext]_streamVars => [Next]_vars
    BY StreamMaps
  <1>3. QED
    BY <1>1, <1>2, PTL DEF StreamSpec, Spec

(* The queues fit throughout. *)
LEMMA StreamInvariance == StreamSpec => []StreamInv
  <1>1. StreamInit => StreamInv
    BY StartKeeps
  <1>2. TypeOK /\ StreamInv /\ [StreamNext]_streamVars => StreamInv'
    BY StreamStep
  <1>3. StreamSpec => []TypeOK
    BY StreamsDriveScans, TypeCorrect, PTL
  <1>4. QED
    BY <1>1, <1>2, <1>3, PTL DEF StreamSpec

(* Types of the channels, the clients and the event numbers. *)
THEOREM StreamTypes == StreamSpec => []StreamTypeOK
  <1>1. StreamInv => StreamTypeOK
    BY DEF StreamInv
  <1>2. QED
    BY <1>1, StreamInvariance, PTL

(* Where the sentinel is. *)
LEMMA SentinelPlace ==
  ASSUME StreamInv, NEW c \in Clients, cli[c].st = "live"
  PROVE  LET q == cli[c].queue
         IN /\ q \in Seq(Items) /\ Len(q) \in Nat
            /\ Subscribed(c) => \A i \in 1..Len(q) : q[i] # None
            /\ ~Subscribed(c) => /\ Len(q) >= 1 /\ q[Len(q)] = None
                                 /\ \A i \in 1..(Len(q) - 1) : q[i] # None
  <1> DEFINE q == cli[c].queue
             last == cli[c].last
  <1>1. q \in Seq(Items) /\ last \in Number /\ Len(q) \in Nat
    BY LiveFields DEF StreamInv
  <1>2. ASSUME NEW i \in Nat
        PROVE  (last + i) % Wrap # None
    <2>1. last + i \in Nat
      <3>1. last \in Nat
        BY <1>1, WrapIsNat
      <3> HIDE DEF last
      <3>2. QED
        BY <1>2, <3>1
    <2>2. (last + i) % Wrap \in Number
      BY <2>1, FollowNumber
    <2>3. QED
      BY <2>2, WrapIsNat
  <1>3. QueueFits(c)
    BY DEF StreamInv
  <1>4. CASE Subscribed(c)
    BY <1>1, <1>2, <1>3, <1>4 DEF QueueFits, Numbered
  <1>5. CASE ~Subscribed(c)
    BY <1>1, <1>2, <1>3, <1>5 DEF QueueFits, Numbered
  <1>6. QED
    BY <1>1, <1>4, <1>5

(* A stream that no channel feeds has its sentinel, last, and one that is  *)
(* fed has none (bus.py close).                                            *)
THEOREM SentinelComesLast == StreamSpec => []SentinelLast
  <1>1. StreamInv => SentinelLast
    <2> SUFFICES ASSUME StreamInv, NEW c \in Clients, cli[c].st = "live"
                 PROVE  IF Subscribed(c) THEN ~Contains(cli[c].queue, None)
                        ELSE /\ cli[c].queue # <<>>
                             /\ Last(cli[c].queue) = None
                             /\ ~Contains(Front(cli[c].queue), None)
      BY DEF SentinelLast
    <2> DEFINE q == cli[c].queue
    <2>1. CASE Subscribed(c)
      BY <2>1, SentinelPlace DEF Contains
    <2>2. CASE ~Subscribed(c)
      <3>1. /\ q \in Seq(Items) /\ Len(q) \in Nat /\ Len(q) >= 1 /\ q[Len(q)] = None
            /\ \A i \in 1..(Len(q) - 1) : q[i] # None
        BY <2>2, SentinelPlace
      <3>2. /\ Len(Front(q)) = Len(q) - 1
            /\ \A i \in 1..(Len(q) - 1) : Front(q)[i] = q[i]
        BY <3>1 DEF Front
      <3>3. QED
        BY <2>2, <3>1, <3>2 DEF Contains, Last
    <2>3. QED
      BY <2>1, <2>2
  <1>2. QED
    BY <1>1, StreamInvariance, PTL

(* What a client is delivered and will be delivered are the events         *)
(* published since it subscribed, without a gap and in order, up to the    *)
(* last one while its channel is open.                                     *)
THEOREM StreamsAreFaithful == StreamSpec => []StreamFaithful
  <1>1. StreamInv => StreamFaithful
    <2> SUFFICES ASSUME StreamInv, NEW c \in Clients, cli[c].st = "live"
                 PROVE  /\ \A i \in DOMAIN Events(c) :
                             Events(c)[i] = (cli[c].last + i) % Wrap
                        /\ Subscribed(c) =>
                             (cli[c].last + Len(Events(c))) % Wrap = published[cli[c].scan]
      BY DEF StreamFaithful
    <2> DEFINE q == cli[c].queue
    <2>1. q \in Seq(Items) /\ Len(q) \in Nat /\ QueueFits(c)
      BY SentinelPlace DEF StreamInv
    <2>2. CASE Subscribed(c)
      <3>1. Events(c) = q
        BY <2>2, SentinelPlace DEF Events, Contains
      <3>2. Numbered(q, cli[c].last, Len(q))
            /\ (cli[c].last + Len(q)) % Wrap = published[cli[c].scan]
        BY <2>1, <2>2 DEF QueueFits
      <3>3. DOMAIN q = 1..Len(q)
        BY <2>1
      <3>4. QED
        BY <3>1, <3>2, <3>3 DEF Numbered
    <2>3. CASE ~Subscribed(c)
      <3>1. Len(q) >= 1 /\ q[Len(q)] = None /\ Len(q) \in 1..Len(q)
        BY <2>1, <2>3, SentinelPlace
      <3>2. Events(c) = Front(q)
        BY <3>1 DEF Events, Contains
      <3>3. /\ DOMAIN Front(q) = 1..(Len(q) - 1)
            /\ \A i \in 1..(Len(q) - 1) : Front(q)[i] = q[i]
        BY <2>1, <3>1 DEF Front
      <3>4. Numbered(q, cli[c].last, Len(q) - 1)
        BY <2>1, <2>3 DEF QueueFits
      <3>5. QED
        BY <2>3, <3>2, <3>3, <3>4 DEF Numbered
    <2>4. QED
      BY <2>2, <2>3
  <1>2. QED
    BY <1>1, StreamInvariance, PTL

-----------------------------------------------------------------------------
(* The contract of a stream.  Its listeners are the live clients; what one *)
(* is owed is its queue without the sentinel.                              *)

Due(c) == IF Subscribed(c) THEN Len(cli[c].queue) ELSE Len(cli[c].queue) - 1

Listener(c) ==
  [scan |-> cli[c].scan, heard |-> cli[c].last, due |-> Due(c), open |-> Subscribed(c)]

(* How many events are ahead of the sentinel. *)
LEMMA EventsDue ==
  ASSUME StreamInv, NEW c \in Clients, cli[c].st = "live"
  PROVE  Len(Events(c)) = Due(c) /\ Due(c) \in Nat
  <1> DEFINE q == cli[c].queue
  <1>1. /\ q \in Seq(Items) /\ Len(q) \in Nat
        /\ Subscribed(c) => \A i \in 1..Len(q) : q[i] # None
        /\ ~Subscribed(c) => Len(q) >= 1 /\ q[Len(q)] = None
    BY SentinelPlace
  <1>2. CASE Subscribed(c)
    <2>1. Events(c) = q
      BY <1>1, <1>2 DEF Events, Contains
    <2>2. QED
      BY <1>1, <1>2, <2>1 DEF Due
  <1>3. CASE ~Subscribed(c)
    <2>1. Events(c) = Front(q)
      <3>1. Len(q) \in 1..Len(q)
        BY <1>1, <1>3
      <3>2. QED
        BY <1>1, <1>3, <3>1 DEF Events, Contains
    <2>2. Len(q) - 1 \in Nat
      <3> DEFINE n == Len(q)
      <3>1. n \in Nat /\ n >= 1
        BY <1>1, <1>3
      <3> HIDE DEF n
      <3>2. n - 1 \in Nat
        BY <3>1
      <3>3. QED
        BY <3>2 DEF n
    <2>3. Len(Front(q)) = Len(q) - 1
      BY <1>1, <2>2 DEF Front
    <2>4. QED
      BY <1>3, <2>1, <2>2, <2>3 DEF Due
  <1>4. QED
    BY <1>2, <1>3

(* The place of a client in the contract. *)
Placed(c) ==
  /\ cli[c].st # "live" => Listening(c) = Gone
  /\ cli[c].st = "live" => Listening(c) = Listener(c) /\ Due(c) \in Nat
  /\ Listening(c) # Gone <=> cli[c].st = "live"

AllPlaced == \A c \in Clients : Placed(c)

LEMMA Places == StreamInv => AllPlaced
  <1> SUFFICES ASSUME StreamInv, NEW c \in Clients
               PROVE  Placed(c)
    BY DEF AllPlaced
  <1>1. CASE cli[c].st # "live"
    BY <1>1 DEF Placed, Listening
  <1>2. CASE cli[c].st = "live"
    <2>1. Listening(c) = Listener(c) /\ Due(c) \in Nat
      BY <1>2, EventsDue DEF Listening, Listener
    <2>2. Listener(c) # Gone
      BY DEF Listener, Gone
    <2>3. QED
      BY <1>2, <2>1, <2>2 DEF Placed
  <1>3. QED
    BY <1>1, <1>2

(* ... and after a step. *)
LEMMA PlacesNext == StreamInv' => AllPlaced'
  BY Places, PTL

(* An entry that nobody touches, of a channel that goes on or went away.   *)
LEMMA StaysPut ==
  ASSUME AllPlaced, AllPlaced', NEW c \in Clients, cli'[c] = cli[c],
         cli[c].st = "live" => (Subscribed(c)' <=> Subscribed(c))
  PROVE  Listening(c)' = Listening(c)
  <1>1. CASE cli[c].st # "live"
    BY <1>1 DEF AllPlaced, Placed
  <1>2. CASE cli[c].st = "live"
    <2>1. Listening(c) = Listener(c) /\ Listening(c)' = Listener(c)'
      BY <1>2 DEF AllPlaced, Placed
    <2>2. Subscribed(c)' = Subscribed(c)
      BY <1>2 DEF Subscribed
    <2>3. Listener(c)' = Listener(c)
      BY <2>2 DEF Listener, Due
    <2>4. QED
      BY <2>1, <2>3
  <1>3. QED
    BY <1>1, <1>2

(* Who is fed is owed more. *)
LEMMA OweStep ==
  ASSUME AllPlaced, NEW s \in Scans, NEW n \in Nat, NEW more \in BOOLEAN,
         \A c \in Clients : ~Fed(c, s) => Listening(c)' = Listening(c),
         \A c \in Clients : Fed(c, s) =>
           Listening(c)' = Promise!Place(s, cli[c].last, Due(c) + n, more)
  PROVE  Promise!Owe(s, n, more)
  <1> DEFINE here == [c \in Clients |-> Listening(c)]
             then(c) == IF here[c] # Gone /\ here[c].scan = s /\ here[c].open
                        THEN Promise!Place(s, here[c].heard, here[c].due + n, more) ELSE here[c]
  <1>1. ASSUME NEW c \in Clients
        PROVE  Listening(c)' = then(c)
    <2>1. here[c] = Listening(c)
      OBVIOUS
    <2>2. CASE Fed(c, s)
      <3>1. cli[c].st = "live" /\ cli[c].scan = s /\ Subscribed(c)
        BY <2>2, FedSubscribed DEF LiveOn
      <3>2. here[c] = Listener(c) /\ here[c] # Gone
        BY <2>1, <3>1 DEF AllPlaced, Placed
      <3>3. /\ Listener(c).scan = s /\ Listener(c).open
            /\ Listener(c).heard = cli[c].last /\ Listener(c).due = Due(c)
        BY <3>1 DEF Listener
      <3>4. QED
        BY <2>2, <3>2, <3>3
    <2>3. CASE ~Fed(c, s)
      <3>1. ~(here[c] # Gone /\ here[c].scan = s /\ here[c].open)
        <4>1. SUFFICES ASSUME here[c] # Gone, here[c].scan = s, here[c].open
                       PROVE  FALSE
          OBVIOUS
        <4>2. cli[c].st = "live" /\ here[c] = Listener(c)
          BY <2>1, <4>1 DEF AllPlaced, Placed
        <4>3. Listener(c).scan = cli[c].scan /\ Listener(c).open = Subscribed(c)
          BY DEF Listener
        <4> HIDE DEF here
        <4>4. Listener(c).scan = s /\ Listener(c).open
          BY <4>1, <4>2, Zenon
        <4>5. cli[c].scan = s /\ Subscribed(c)
          BY <4>3, <4>4, Zenon
        <4>6. QED
          BY <2>3, <4>2, <4>5, FedSubscribed DEF LiveOn
      <3>2. QED
        BY <2>1, <2>3, <3>1
    <2>4. QED
      BY <2>2, <2>3
  <1>2. QED
    BY <1>1 DEF Promise!Owe

(* What is sent on a channel is what its listeners are owed: all of it     *)
(* while the channel goes on, all but the sentinel when it goes away.      *)
LEMMA SentIsOwed ==
  ASSUME StreamInv, AllPlaced, AllPlaced', NEW s \in Scans, NEW items \in Seq(Items),
         cli' = Sent(s, items), NEW n \in Nat, NEW more \in BOOLEAN,
         \A t \in Scans : t # s => chan'[t] = chan[t],
         more => chan'[s] = chan[s] /\ Len(items) = n,
         ~more => chan'[s] = None /\ Len(items) = n + 1
  PROVE  Promise!Owe(s, n, more)
  <1>1. ASSUME NEW c \in Clients, ~Fed(c, s)
        PROVE  Listening(c)' = Listening(c)
    <2>1. cli'[c] = cli[c]
      BY <1>1, SentMoves DEF StreamInv
    <2>2. cli[c].st = "live" => (Subscribed(c)' <=> Subscribed(c))
      <3> SUFFICES ASSUME cli[c].st = "live"
                   PROVE  Subscribed(c)' <=> Subscribed(c)
        OBVIOUS
      <3>1. cli[c].scan \in Scans
        BY LiveFields DEF StreamInv
      <3>2. cli[c].scan = s => ~Subscribed(c)
        BY <1>1, FedSubscribed DEF LiveOn
      <3>3. QED
        BY <2>1, <3>1, <3>2 DEF Subscribed
    <2>3. QED
      BY <2>1, <2>2, StaysPut
  <1>2. ASSUME NEW c \in Clients, Fed(c, s)
        PROVE  Listening(c)' = Promise!Place(s, cli[c].last, Due(c) + n, more)
    <2> DEFINE q == cli[c].queue
    <2>1. /\ cli'[c].st = "live" /\ cli'[c].scan = s /\ cli'[c].last = cli[c].last
          /\ cli'[c].queue = q \o items
      BY <1>2, SentMoves DEF StreamInv
    <2>2. cli[c].st = "live" /\ cli[c].scan = s /\ Subscribed(c)
      BY <1>2, FedSubscribed DEF LiveOn
    <2>3. q \in Seq(Items) /\ Len(q) \in Nat
      BY <2>2, LiveFields DEF StreamInv
    <2>4. Len(cli'[c].queue) = Len(q) + Len(items)
      BY <2>1, <2>3
    <2>5. Subscribed(c)' = more
      BY <2>1, <2>2 DEF Subscribed
    <2>6. Due(c)' = Due(c) + n
      <3>1. Due(c) = Len(q)
        BY <2>2 DEF Due
      <3> HIDE DEF q
      <3>2. Due(c)' = IF more THEN Len(q) + Len(items) ELSE (Len(q) + Len(items)) - 1
        BY <2>4, <2>5 DEF Due
      <3>3. QED
        BY <2>3, <3>1, <3>2
    <2>7. Listening(c)' = Listener(c)'
      BY <2>1 DEF AllPlaced, Placed
    <2>8. Listener(c)' = [scan |-> cli'[c].scan, heard |-> cli'[c].last, due |-> Due(c)',
                          open |-> Subscribed(c)']
      BY DEF Listener
    <2>9. Listener(c)' = Promise!Place(s, cli[c].last, Due(c) + n, more)
      BY <2>1, <2>5, <2>6, <2>8, Zenon DEF Promise!Place
    <2>10. QED
      BY <2>7, <2>9, Zenon
  <1>3. QED
    BY <1>1, <1>2, OweStep

(* The number that follows, here and in the contract. *)
LEMMA SaysNext ==
  ASSUME StreamTypeOK, NEW s \in Scans, published' = [published EXCEPT ![s] = Follows(s)]
  PROVE  Promise!Say(s)
  BY DEF Promise!Say, Promise!Follower, Follows, StreamTypeOK

(* A driver that publishes or closes announces, closes, or both. *)
LEMMA BusAnnounces ==
  ASSUME StreamInv, AllPlaced, AllPlaced', NEW s \in Scans,
         Publish(s) \/ Close(s) \/ PublishAndClose(s)
  PROVE  Promise!Announce(s) \/ Promise!Close(s) \/ Promise!AnnounceLast(s)
  <1> DEFINE n == Follows(s)
  <1>1. n \in Items /\ None \in Items
    BY FollowsNumber DEF StreamInv, Items
  <1>2. <<n>> \in Seq(Items) /\ <<None>> \in Seq(Items) /\ <<n, None>> \in Seq(Items)
    BY <1>1
  <1>3. Len(<<n>>) = 1 /\ Len(<<None>>) = 0 + 1 /\ Len(<<n, None>>) = 1 + 1
    BY <1>2
  <1> HIDE DEF n
  <1>4. CASE Publish(s)
    <2>1. cli' = Sent(s, <<n>>) /\ chan' = chan
      BY <1>4 DEF Publish, n
    <2>2. Promise!Owe(s, 1, TRUE)
      BY <1>2, <1>3, <2>1, SentIsOwed
    <2>3. Promise!Say(s)
      BY <1>4, SaysNext DEF Publish, StreamInv
    <2>4. QED
      BY <2>2, <2>3 DEF Promise!Announce
  <1>5. chan' = [chan EXCEPT ![s] = None]
          => chan'[s] = None /\ \A t \in Scans : t # s => chan'[t] = chan[t]
    BY DEF StreamInv, StreamTypeOK
  <1>6. CASE Close(s)
    <2>1. cli' = Sent(s, <<None>>) /\ chan' = [chan EXCEPT ![s] = None]
      BY <1>6 DEF Close
    <2>2. Promise!Owe(s, 0, FALSE)
      BY <1>2, <1>3, <1>5, <2>1, SentIsOwed
    <2>3. QED
      BY <1>6, <2>2 DEF Close, Promise!Close
  <1>7. CASE PublishAndClose(s)
    <2>1. cli' = Sent(s, <<n, None>>) /\ chan' = [chan EXCEPT ![s] = None]
      BY <1>7 DEF PublishAndClose, n
    <2>2. Promise!Owe(s, 1, FALSE)
      BY <1>2, <1>3, <1>5, <2>1, SentIsOwed
    <2>3. Promise!Say(s)
      BY <1>7, SaysNext DEF PublishAndClose, StreamInv
    <2>4. QED
      BY <2>2, <2>3 DEF Promise!AnnounceLast
  <1>8. QED
    BY <1>4, <1>6, <1>7

(* A step that touches one client moves that client only.                  *)
LEMMA OnlyMoves ==
  ASSUME NEW c \in Clients, \A e \in Clients : e # c => Listening(e)' = Listening(e)
  PROVE  [e \in Clients |-> Listening(e)]'
           = [[e \in Clients |-> Listening(e)] EXCEPT ![c] = Listening(c)']
  OBVIOUS

(* Delivering an event is hearing the one that follows the last.           *)
LEMMA DeliverHears ==
  ASSUME StreamInv, AllPlaced, AllPlaced', NEW c \in Clients, Deliver(c),
         Head(cli[c].queue) # None
  PROVE  Promise!Hear(c)
  <1> DEFINE q == cli[c].queue
             last == cli[c].last
  <1>1. cli[c].st = "live" /\ q # <<>> /\ chan' = chan /\ published' = published
    BY DEF Deliver
  <1>2. /\ cli'[c] = [cli[c] EXCEPT !.last = Head(q), !.queue = Tail(q)]
        /\ \A e \in Clients : e # c => cli'[e] = cli[e]
    BY <1>1 DEF Deliver, StreamInv, StreamTypeOK
  <1>3. q \in Seq(Items) /\ last \in Number /\ Len(q) \in Nat /\ Len(q) >= 1
    BY <1>1, LiveFields DEF StreamInv
  <1>4. /\ cli'[c].st = "live" /\ cli'[c].scan = cli[c].scan
        /\ cli'[c].last = Head(q) /\ cli'[c].queue = Tail(q)
    BY <1>1, <1>2, LiveFields DEF StreamInv
  <1>5. Subscribed(c)' = Subscribed(c)
    BY <1>1, <1>4 DEF Subscribed
  <1>6. Due(c) \in Nat /\ Due(c) <= Len(q) /\ Due(c) >= 1 /\ Numbered(q, last, Due(c))
    <2>1. Due(c) \in Nat
      BY <1>1 DEF AllPlaced, Placed
    <2>2. CASE Subscribed(c)
      BY <1>1, <1>3, <2>2 DEF Due, StreamInv, QueueFits
    <2>3. CASE ~Subscribed(c)
      <3>1. q[Len(q)] = None /\ Numbered(q, last, Len(q) - 1)
        BY <1>1, <2>3 DEF StreamInv, QueueFits
      <3>2. Len(q) # 1
        BY <1>1, <1>3, <3>1
      <3>3. Due(c) = Len(q) - 1
        BY <2>3 DEF Due
      <3> DEFINE n == Len(q)
      <3>4. n \in Nat /\ n >= 1 /\ n # 1 /\ Due(c) = n - 1
        BY <1>3, <3>2, <3>3
      <3> HIDE DEF n
      <3>5. Due(c) <= n /\ Due(c) >= 1
        BY <3>4
      <3>6. QED
        BY <2>1, <3>1, <3>3, <3>5 DEF n
    <2>4. QED
      BY <2>2, <2>3
  <1>7. Head(q) = (last + 1) % Wrap /\ Len(Tail(q)) = Len(q) - 1
    <2>1. Head(q) = q[1] /\ Len(Tail(q)) = Len(q) - 1
      BY <1>1, <1>3
    <2>2. 1 \in 1..Due(c)
      BY <1>6
    <2>3. QED
      BY <1>6, <2>1, <2>2 DEF Numbered
  <1>8. Due(c)' = Due(c) - 1
    <2>1. Len(cli'[c].queue) = Len(q) - 1
      BY <1>4, <1>7
    <2>2. Due(c)' = IF Subscribed(c) THEN Len(q) - 1 ELSE (Len(q) - 1) - 1
      BY <1>5, <2>1 DEF Due
    <2>3. QED
      BY <1>3, <2>2 DEF Due
  <1>9. Listening(c)' = Promise!Place(cli[c].scan, Promise!Follower(last), Due(c) - 1,
                                      Subscribed(c))
    <2>1. Listening(c)' = Listener(c)'
      BY <1>4 DEF AllPlaced, Placed
    <2>2. Listener(c)' = [scan |-> cli'[c].scan, heard |-> cli'[c].last, due |-> Due(c)',
                          open |-> Subscribed(c)']
      BY DEF Listener
    <2>3. cli'[c].last = (last + 1) % Wrap
      BY <1>4, <1>7
    <2>4. QED
      BY <1>4, <1>5, <1>8, <2>1, <2>2, <2>3, Zenon DEF Promise!Place, Promise!Follower
  <1> HIDE DEF q, last
  <1>10. \A e \in Clients : e # c => Listening(e)' = Listening(e)
    BY <1>1, <1>2, StaysPut DEF Subscribed
  <1> DEFINE here == [e \in Clients |-> Listening(e)]
  <1>11. here[c] = Listener(c) /\ here[c] # Gone
    BY <1>1 DEF AllPlaced, Placed
  <1>12. /\ Listener(c).scan = cli[c].scan /\ Listener(c).heard = last
         /\ Listener(c).due = Due(c) /\ Listener(c).open = Subscribed(c)
    BY DEF Listener, last
  <1>13. here' = [here EXCEPT ![c] = Listening(c)']
    BY <1>10, OnlyMoves
  <1>14. here[c].due > 0
    BY <1>6, <1>11, <1>12
  <1> HIDE DEF here
  <1>15. Listening(c)' = Promise!Place(here[c].scan, Promise!Follower(here[c].heard),
                                       here[c].due - 1, here[c].open)
    BY <1>9, <1>11, <1>12, Zenon
  <1>16. here' = [here EXCEPT ![c] = Promise!Place(here[c].scan,
                    Promise!Follower(here[c].heard), here[c].due - 1, here[c].open)]
    BY <1>13, <1>15, Zenon
  <1>17. QED
    BY <1>1, <1>11, <1>14, <1>16 DEF Promise!Hear, here

(* Leaving, in whatever way, is leaving; who only had the snapshot never   *)
(* joined.                                                                 *)
LEMMA UnsubscribeLeaves ==
  ASSUME StreamInv, AllPlaced, AllPlaced', NEW c \in Clients, Unsubscribes(c)
  PROVE  Promise!Leave(c) \/ UNCHANGED Promise!contractVars
  <1> DEFINE s == cli[c].scan
             here == [e \in Clients |-> Listening(e)]
  <1>1. published' = published /\ chan' = Unsubscribe(c, s)
    BY DEF Unsubscribes
  <1>2. \A t \in Scans : \A e \in Clients : e # c =>
          ((chan'[t] # None /\ e \in chan'[t]) <=> (chan[t] # None /\ e \in chan[t]))
    BY <1>1, StreamAssumption DEF Unsubscribe, StreamInv, StreamTypeOK
  <1>3. cli'[c] = Gone /\ \A e \in Clients : e # c => cli'[e] = cli[e]
    BY DEF Unsubscribes, StreamInv, StreamTypeOK
  <1>4. ASSUME NEW e \in Clients, e # c
        PROVE  Listening(e)' = Listening(e)
    <2>1. cli[e].st = "live" => (Subscribed(e)' <=> Subscribed(e))
      BY <1>2, <1>3, <1>4, LiveFields DEF Subscribed, StreamInv
    <2>2. QED
      BY <1>3, <1>4, <2>1, StaysPut
  <1>5. Listening(c)' = Gone
    BY <1>3 DEF AllPlaced, Placed, Gone
  <1>6. here' = [here EXCEPT ![c] = Gone]
    BY <1>4, <1>5, OnlyMoves
  <1>7. CASE here[c] = Gone
    <2>1. here' = here
      BY <1>6, <1>7
    <2>2. QED
      BY <1>1, <2>1 DEF Promise!contractVars
  <1>8. CASE here[c] # Gone
    BY <1>1, <1>6, <1>8 DEF Promise!Leave
  <1>9. QED
    BY <1>7, <1>8

(* Subscribing is joining, unless the scan was over when its row was read. *)
LEMMA SubscribeJoins ==
  ASSUME StreamInv, AllPlaced, AllPlaced', NEW c \in Clients, StreamSubscribe(c)
  PROVE  (\E s \in Scans : Promise!Join(c, s)) \/ UNCHANGED Promise!contractVars
  <1> DEFINE s == cli[c].scan
             here == [e \in Clients |-> Listening(e)]
  <1>1. s \in Scans /\ cli[c].st = "read" /\ published' = published /\ chan' = Subscribe(c, s)
    BY DEF StreamSubscribe, StreamInv, StreamTypeOK, Client, Gone
  <1>2. /\ chan'[s] # None /\ c \in chan'[s]
        /\ \A t \in Scans : \A e \in Clients : e # c =>
             ((chan'[t] # None /\ e \in chan'[t]) <=> (chan[t] # None /\ e \in chan[t]))
    BY <1>1, StreamAssumption DEF Subscribe, StreamInv, StreamTypeOK
  <1>3. /\ \/ cli'[c] = [st |-> "snapshot", scan |-> s]
           \/ cli'[c] = [st |-> "live", scan |-> s, last |-> published[s], queue |-> <<>>]
        /\ \A e \in Clients : e # c => cli'[e] = cli[e]
    BY DEF StreamSubscribe, StreamInv, StreamTypeOK
  <1>4. ASSUME NEW e \in Clients, e # c
        PROVE  Listening(e)' = Listening(e)
    <2>1. cli[e].st = "live" => (Subscribed(e)' <=> Subscribed(e))
      BY <1>2, <1>3, <1>4, LiveFields DEF Subscribed, StreamInv
    <2>2. QED
      BY <1>3, <1>4, <2>1, StaysPut
  <1>5. here[c] = Gone
    BY <1>1 DEF AllPlaced, Placed
  <1>6. here' = [here EXCEPT ![c] = Listening(c)']
    BY <1>4, OnlyMoves
  <1>7. CASE cli'[c] = [st |-> "snapshot", scan |-> s]
    <2>1. cli'[c].st # "live"
      BY <1>7
    <2>2. Listening(c)' = Gone
      BY <2>1 DEF AllPlaced, Placed
    <2>3. here' = here
      BY <1>5, <1>6, <2>2
    <2>4. QED
      BY <1>1, <2>3 DEF Promise!contractVars
  <1>8. CASE cli'[c] = [st |-> "live", scan |-> s, last |-> published[s], queue |-> <<>>]
    <2>1. cli'[c].st = "live" /\ cli'[c].scan = s /\ cli'[c].last = published[s]
          /\ cli'[c].queue = <<>>
      BY <1>8
    <2>2. Subscribed(c)' = TRUE
      BY <1>2, <2>1 DEF Subscribed
    <2>3. Due(c)' = 0
      BY <2>1, <2>2 DEF Due
    <2>4. Listening(c)' = Listener(c)'
      BY <2>1 DEF AllPlaced, Placed
    <2>5. Listener(c)' = [scan |-> cli'[c].scan, heard |-> cli'[c].last, due |-> Due(c)',
                          open |-> Subscribed(c)']
      BY DEF Listener
    <2>6. Listening(c)' = Promise!Place(s, published[s], 0, TRUE)
      BY <2>1, <2>2, <2>3, <2>4, <2>5, Zenon DEF Promise!Place
    <2> HIDE DEF here, s
    <2>7. here' = [here EXCEPT ![c] = Promise!Place(s, published[s], 0, TRUE)]
      BY <1>6, <2>6, Zenon
    <2>8. Promise!Join(c, s)
      BY <1>1, <1>5, <2>7 DEF Promise!Join, here
    <2>9. QED
      BY <1>1, <2>8
  <1>9. QED
    BY <1>3, <1>7, <1>8

(* Every step of the composition is a step of the contract, or leaves it.  *)
LEMMA PromiseStep ==
  ASSUME TypeOK, StreamInv, AllPlaced, AllPlaced', [StreamNext]_streamVars
  PROVE  [Promise!Next]_Promise!contractVars
  <1> DEFINE here == [e \in Clients |-> Listening(e)]
  <1>1. CASE UNCHANGED busVars
    <2>1. chan' = chan /\ cli' = cli /\ published' = published
      BY <1>1 DEF busVars
    <2>2. \A e \in Clients : Listening(e)' = Listening(e)
      BY <2>1, StaysPut DEF Subscribed
    <2>3. QED
      BY <2>1, <2>2 DEF Promise!contractVars
  <1>2. ASSUME NEW s \in Scans, Publish(s) \/ Close(s) \/ PublishAndClose(s)
        PROVE  Promise!Next
    BY <1>2, BusAnnounces DEF Promise!Next
  <1>3. ASSUME NEW c \in Clients, NEW s \in Scans, StreamRead(c, s)
        PROVE  UNCHANGED Promise!contractVars
    <2>1. chan' = chan /\ published' = published
          /\ cli[c].st # "live" /\ cli'[c].st # "live"
          /\ \A e \in Clients : e # c => cli'[e] = cli[e]
      BY <1>3 DEF StreamRead, StreamInv, StreamTypeOK, Gone
    <2>2. Listening(c)' = Listening(c)
      BY <2>1 DEF AllPlaced, Placed
    <2>3. \A e \in Clients : e # c => Listening(e)' = Listening(e)
      BY <2>1, StaysPut DEF Subscribed
    <2>4. QED
      BY <2>1, <2>2, <2>3 DEF Promise!contractVars
  <1>4. ASSUME NEW c \in Clients, StreamSubscribe(c)
        PROVE  [Promise!Next]_Promise!contractVars
    BY <1>4, SubscribeJoins DEF Promise!Next
  <1>5. ASSUME NEW c \in Clients, Unsubscribes(c)
        PROVE  [Promise!Next]_Promise!contractVars
    BY <1>5, UnsubscribeLeaves DEF Promise!Next
  <1>6. ASSUME NEW c \in Clients, Deliver(c)
        PROVE  [Promise!Next]_Promise!contractVars
    <2>1. CASE Head(cli[c].queue) = None
      BY <1>5, <1>6, <2>1 DEF Deliver
    <2>2. CASE Head(cli[c].queue) # None
      BY <1>6, <2>2, DeliverHears DEF Promise!Next
    <2>3. QED
      BY <2>1, <2>2
  <1>7. CASE StreamCrash
    <2>1. published' = [s \in Scans |-> 0] /\ \A c \in Clients : cli'[c].st # "live"
      BY <1>7 DEF StreamCrash, Gone
    <2>2. \A c \in Clients : Listening(c)' = Gone
      BY <2>1 DEF AllPlaced, Placed
    <2>3. QED
      BY <2>1, <2>2 DEF Promise!Next, Promise!Lost
  <1>8. QED
    BY <1>1, <1>2, <1>3, <1>4, <1>5, <1>6, <1>7, BusMoves

(* Every stream keeps its contract: each event announced for the scan once *)
(* and in order, and the end after the last of them, whatever the drivers, *)
(* the other clients and the crashes do (the safety part of KeepsPromise). *)
THEOREM StreamsKeepPromise == StreamSpec => Promise!Safe
  <1>1. StreamInit => Promise!Init
    <2> SUFFICES ASSUME StreamInit
                 PROVE  Promise!Init
      OBVIOUS
    <2>1. published = [s \in Scans |-> 0] /\ \A c \in Clients : cli[c].st # "live"
      BY DEF StreamInit, Gone
    <2>2. \A c \in Clients : Listening(c) = Gone
      BY <2>1 DEF Listening
    <2>3. QED
      BY <2>1, <2>2 DEF Promise!Init
  <1>2. TypeOK /\ StreamInv /\ StreamInv' /\ [StreamNext]_streamVars
          => [Promise!Next]_Promise!contractVars
    BY PromiseStep, Places, PlacesNext
  <1>3. StreamSpec => []TypeOK
    BY StreamsDriveScans, TypeCorrect, PTL
  <1>4. QED
    BY <1>1, <1>2, <1>3, StreamInvariance, PTL DEF StreamSpec, Promise!Safe

-----------------------------------------------------------------------------
(* The end of a stream.  Where an id is given to one task only, a closed   *)
(* channel means that nobody will publish for the scan again.              *)

(* The scan had its run. *)
Finished(s) ==
  /\ row[s] # "absent"
  /\ \A r \in Requests : ~Hands(r, s)
  /\ \A d \in Drivers : Works(d, s) => Past(d)

Ended(c) == cli[c].st = "live" /\ Contains(cli[c].queue, None)

EndInv == \A c \in Clients : Ended(c) => Finished(cli[c].scan)

(* A scan that had its run does not get another. *)
LEMMA FinishedStays ==
  ASSUME LifecycleAssumption, IInv, OneRun, StartedOnce, [Next]_vars,
         NEW s \in Scans, Finished(s)
  PROVE  Finished(s)'
  <1>1. /\ RowsStay
        /\ \/ \E r \in Requests, t \in Scans : Takes(r, t)
           \/ \E r \in Requests, d \in Drivers, t \in Scans : Gives(r, d, t)
           \/ Calm
    BY StartedOnceOrderly, OrderlyMoves DEF StartedOnce, IInv
  <1>2. row'[s] # "absent"
    BY <1>1 DEF RowsStay, Finished
  <1>3. ASSUME NEW r \in Requests, NEW t \in Scans, Takes(r, t)
        PROVE  Finished(s)'
    <2>1. t # s
      BY <1>3 DEF Takes, Finished, StartedOnce
    <2>2. QED
      BY <1>2, <1>3, <2>1 DEF Takes, Finished, Works, Past
  <1>4. ASSUME NEW r \in Requests, NEW d \in Drivers, NEW t \in Scans, Gives(r, d, t)
        PROVE  Finished(s)'
    <2>1. t # s
      BY <1>4 DEF Gives, Finished
    <2>2. QED
      BY <1>2, <1>4, <2>1 DEF Gives, NoNewHands, Finished, Works, Past
  <1>5. CASE Calm
    BY <1>2, <1>5 DEF Calm, NoNewHands, NoNewWork, Finished
  <1>6. QED
    BY <1>1, <1>3, <1>4, <1>5

(* A stream that ends in this step has its channel closed in this step.    *)
LEMMA EndArrives ==
  ASSUME TypeOK, StreamInv, [StreamNext]_streamVars, NEW c \in Clients, Ended(c)'
  PROVE  \E t \in Scans :
           cli'[c].scan = t /\ ((Ended(c) /\ cli[c].scan = t) \/ ClosedBy(t))
  <1>0. cli'[c].scan \in Scans
    <2>1. StreamInv'
      BY StreamStep
    <2>2. QED
      BY <2>1 DEF StreamInv, StreamTypeOK, Client, Gone, Ended
  <1>1. CASE UNCHANGED busVars
    BY <1>0, <1>1 DEF busVars, Ended
  <1>2. ASSUME NEW s \in Scans, Publish(s)
        PROVE  Ended(c) /\ cli'[c].scan = cli[c].scan
    <2>1. Follows(s) \in Number
      BY FollowsNumber DEF StreamInv
    <2>2. Follows(s) \in Items /\ Follows(s) # None
      BY <2>1, WrapIsNat DEF Items
    <2>3. <<Follows(s)>> \in Seq(Items) /\ cli' = Sent(s, <<Follows(s)>>)
      BY <1>2, <2>2 DEF Publish
    <2>4. CASE ~Fed(c, s)
      BY <2>3, <2>4, SentMoves DEF Ended, StreamInv
    <2>5. CASE Fed(c, s)
      <3> DEFINE q == cli[c].queue
                 n == Follows(s)
      <3>1. cli[c].st = "live" /\ cli[c].scan = s
        BY <2>5 DEF Fed, LiveOn
      <3>2. q \in Seq(Items)
        BY <3>1, LiveFields DEF StreamInv
      <3>3. cli'[c].scan = s /\ cli'[c].queue = q \o <<n>>
        BY <2>3, <2>5, SentMoves DEF StreamInv
      <3> HIDE DEF q, n
      <3>4. PICK i \in 1..Len(q \o <<n>>) : (q \o <<n>>)[i] = None
        BY <3>3 DEF Ended, Contains
      <3>5. n \in Items /\ n # None
        BY <2>2 DEF n
      <3>6. Len(q \o <<n>>) = Len(q) + 1 /\ Len(q) \in Nat /\ (q \o <<n>>)[Len(q) + 1] = n
        BY <3>2, <3>5
      <3>7. i \in 1..Len(q)
        BY <3>4, <3>5, <3>6
      <3>8. (q \o <<n>>)[i] = q[i]
        BY <3>2, <3>5, <3>7
      <3>9. Contains(q, None)
        BY <3>4, <3>7, <3>8 DEF Contains
      <3>10. QED
        BY <3>1, <3>3, <3>9 DEF Ended, q
    <2>6. QED
      BY <2>4, <2>5
  <1>3. ASSUME NEW s \in Scans, Close(s) \/ PublishAndClose(s), ClosedBy(s)
        PROVE  (Ended(c) /\ cli'[c].scan = cli[c].scan) \/ cli'[c].scan = s
    <2>1. Follows(s) \in Items /\ None \in Items
      BY FollowsNumber DEF StreamInv, Items
    <2>2. <<None>> \in Seq(Items) /\ <<Follows(s), None>> \in Seq(Items)
      BY <2>1
    <2>3. PICK items \in Seq(Items) : cli' = Sent(s, items)
      BY <1>3, <2>2 DEF Close, PublishAndClose
    <2>4. CASE ~Fed(c, s)
      BY <2>3, <2>4, SentMoves DEF Ended, StreamInv
    <2>5. CASE Fed(c, s)
      BY <1>3, <2>3, <2>5, SentMoves DEF StreamInv
    <2>6. QED
      BY <2>4, <2>5
  <1>4. ASSUME NEW e \in Clients, NEW s \in Scans, StreamRead(e, s)
        PROVE  Ended(c) /\ cli'[c].scan = cli[c].scan
    BY <1>4 DEF StreamRead, StreamInv, StreamTypeOK, Ended
  <1>5. ASSUME NEW e \in Clients, StreamSubscribe(e)
        PROVE  Ended(c) /\ cli'[c].scan = cli[c].scan
    <2>1. CASE e # c
      <3>1. cli'[c] = cli[c]
        BY <1>5, <2>1 DEF StreamSubscribe, StreamInv, StreamTypeOK
      <3>2. QED
        BY <3>1 DEF Ended
    <2>2. CASE e = c
      <3>1. cli'[c].st = "snapshot" \/ cli'[c].queue = <<>>
        BY <1>5, <2>2 DEF StreamSubscribe, StreamInv, StreamTypeOK
      <3>2. QED
        BY <3>1 DEF Ended, Contains
    <2>3. QED
      BY <2>1, <2>2
  <1>6. ASSUME NEW e \in Clients, Unsubscribes(e)
        PROVE  Ended(c) /\ cli'[c].scan = cli[c].scan
    BY <1>6 DEF Unsubscribes, Gone, StreamInv, StreamTypeOK, Ended
  <1>7. ASSUME NEW e \in Clients, Deliver(e)
        PROVE  Ended(c) /\ cli'[c].scan = cli[c].scan
    <2> DEFINE q == cli[e].queue
    <2>1. CASE Head(q) = None
      BY <1>6, <1>7, <2>1 DEF Deliver
    <2>2. CASE Head(q) # None
      <3>1. cli' = [cli EXCEPT ![e].last = Head(q), ![e].queue = Tail(q)]
        BY <1>7, <2>2 DEF Deliver
      <3>2. cli[e].st = "live" /\ q # <<>>
        BY <1>7 DEF Deliver
      <3>3. CASE e # c
        <4>1. cli'[c] = cli[c]
          BY <3>1, <3>3 DEF StreamInv, StreamTypeOK
        <4>2. QED
          BY <4>1 DEF Ended
      <3>4. CASE e = c
        <4>1. q \in Seq(Items) /\ Len(q) \in Nat /\ Len(q) >= 1
          BY <3>2, LiveFields DEF StreamInv
        <4>2. /\ cli'[c].scan = cli[c].scan
              /\ cli'[c].queue = Tail(q)
          BY <3>1, <3>2, <3>4, LiveFields DEF StreamInv, StreamTypeOK
        <4>3. PICK i \in 1..Len(Tail(q)) : Tail(q)[i] = None
          BY <4>2 DEF Ended, Contains
        <4>4. Len(Tail(q)) = Len(q) - 1 /\ \A k \in 1..(Len(q) - 1) : Tail(q)[k] = q[k + 1]
          BY <3>2, <4>1
        <4>5. i + 1 \in 1..Len(q) /\ q[i + 1] = None
          <5> DEFINE n == Len(q)
          <5>1. i \in 1..(n - 1) /\ n \in Nat
            BY <4>1, <4>3, <4>4
          <5>2. q[i + 1] = None
            BY <4>3, <4>4, <5>1
          <5> HIDE DEF n
          <5>3. i + 1 \in 1..n
            BY <5>1
          <5>4. QED
            BY <5>2, <5>3 DEF n
        <4>6. Contains(q, None)
          BY <4>5 DEF Contains
        <4>7. QED
          BY <3>2, <3>4, <4>2, <4>6 DEF Ended
      <3>5. QED
        BY <3>3, <3>4
    <2>3. QED
      BY <2>1, <2>2
  <1>8. CASE StreamCrash
    BY <1>8 DEF StreamCrash, Gone, Ended
  <1>9. QED
    BY <1>0, <1>1, <1>2, <1>3, <1>4, <1>5, <1>6, <1>7, <1>8, BusMoves

(* Every step keeps it so that a stream ends only after the run. *)
LEMMA EndStep ==
  ASSUME LifecycleAssumption, StartedOnce, IInv, OneRun, StreamInv, EndInv,
         [StreamNext]_streamVars
  PROVE  OneRun' /\ EndInv'
  <1>1. [Next]_vars
    BY StreamMaps
  <1>2. OneRun'
    BY <1>1, StartedOnceOrderly, OneRunStep DEF StartedOnce, IInv
  <1>3. ASSUME NEW c \in Clients, Ended(c)'
        PROVE  Finished(cli[c].scan)'
    <2>1. PICK t \in Scans :
            cli'[c].scan = t /\ ((Ended(c) /\ cli[c].scan = t) \/ ClosedBy(t))
      BY <1>3, EndArrives DEF IInv
    <2>2. CASE Ended(c) /\ cli[c].scan = t
      <3>1. Finished(t)
        BY <2>2 DEF EndInv
      <3>2. Finished(t)'
        BY <1>1, <3>1, FinishedStays
      <3>3. QED
        BY <2>1, <3>2 DEF Finished
    <2>3. CASE ClosedBy(t)
      <3>1. PICK d \in Drivers : Works(d, t) /\ Works(d, t)' /\ Past(d)'
        BY <2>3 DEF ClosedBy
      <3>2. Finished(t)'
        BY <1>2, <3>1 DEF OneRun, Alone, Finished
      <3>3. QED
        BY <2>1, <3>2 DEF Finished
    <2>4. QED
      BY <2>1, <2>2, <2>3
  <1>4. QED
    BY <1>2, <1>3 DEF EndInv

(* Where each scan is started once, the end of a stream means that the     *)
(* scan's run is over: no task will publish for it again (scans.py         *)
(* _drive_scan closes the bus after its last event).                       *)
THEOREM EndsMeanOver ==
  ASSUME StartedOnce
  PROVE  StreamSpec => []EndMeansOver
  <1> DEFINE Inv == OneRun /\ EndInv
  <1>1. StreamInit => Inv
    BY OneRunInit, LifecycleAssumption DEF StreamInit, EndInv, Ended, Gone
  <1>2. IInv /\ StreamInv /\ Inv /\ [StreamNext]_streamVars => Inv'
    BY EndStep, LifecycleAssumption
  <1>3. Inv => EndMeansOver
    BY DEF EndMeansOver, EndInv, Ended, Finished, Past
  <1>4. StreamSpec => []IInv
    BY StreamsDriveScans, Invariance, PTL
  <1>5. QED
    BY <1>1, <1>2, <1>3, <1>4, StreamInvariance, PTL DEF StreamSpec
=============================================================================
