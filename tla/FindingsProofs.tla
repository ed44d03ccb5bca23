-------------------------- MODULE FindingsProofs --------------------------
(* What the deduplicator keeps, for any findings in any order. *)
EXTENDS Findings, FiniteSetTheorems, TLAPS

(* A finding held anywhere is one that was registered: merging may change  *)
(* its evidence and its cluster, never what it is.                         *)
Same(a, g)  == a.id = g.id /\ a.fp = g.fp /\ a.rc = g.rc /\ a.ep = g.ep
Known(g)    == \E a \in added : Same(a, g)
NumbersFresh ==
  /\ IsFiniteSet(added)
  /\ \A a \in added : a.id \in 1..Cardinality(added)
  /\ \A a, b \in added : a.id = b.id => a = b
AllKnown ==
  /\ \A k \in DOMAIN byFp : Known(byFp[k])
  /\ \A r \in DOMAIN byRc : Known(byRc[r])
  /\ \A g \in ctx \cup noKey : Known(g)

(* A cluster has a head once it has a member, and the head a fingerprint.  *)
HeadsKeyed ==
  /\ \A r \in DOMAIN byRc : byRc[r].fp # None
  /\ \A r \in Causes \ DOMAIN byRc : members[r] = {}

(* What the head h of a cluster says of its members M: ClusterFaithful,    *)
(* SizeBound and EndpointsComplete for one cluster, with the endpoint of   *)
(* the head counted in, so that it also describes a cluster of one.        *)
Leads(h, M) ==
  /\ h.evid = Ids(M)
  /\ h.id \in Ids(M)
  /\ \A n \in M : /\ Weight(n) <= Weight(h)
                  /\ n.id < h.id => Weight(n) < Weight(h)
  /\ h.size <= Cardinality(M)
  /\ (\A n \in M : h.id <= n.id) => h.size = Cardinality(M)
  /\ h.affected \cup {h.ep} = {n.ep : n \in M}
  /\ Cardinality(M) > 1 => h.ep \in h.affected

FindingsInv ==
  /\ FindingsTypeOK
  /\ NumbersFresh
  /\ AllKnown
  /\ HeadsKeyed
  /\ NothingLost
  /\ \A r \in DOMAIN byRc : Leads(byRc[r], members[r])

(* What New gives a finding. *)
Fresh(f) ==
  /\ f \in Finding
  /\ f.id = Cardinality(added) + 1
  /\ f.evid = {f.id}
  /\ f.size = 1
  /\ f.affected = {}

-----------------------------------------------------------------------------
(* The order in which findings lead a cluster is that of their weights. *)
LEMMA OutranksByWeight ==
  ASSUME NEW f \in Finding, NEW g \in Finding
  PROVE  /\ Weight(f) \in Nat
         /\ Weight(g) \in Nat
         /\ Outranks(f, g) <=> Weight(f) > Weight(g)
<1>1. ASSUME NEW s \in Severity PROVE SevRank[s] \in 0..4
  BY DEF Severity, SevRank
<1>2. ASSUME NEW c \in Confidence PROVE ConfRank[c] \in 0..4
  BY DEF Confidence, ConfRank
<1>3. /\ f.sev \in Severity /\ g.sev \in Severity
      /\ f.conf \in Confidence /\ g.conf \in Confidence
  BY DEF Finding
<1>4. /\ SevRank[f.sev] \in 0..4 /\ SevRank[g.sev] \in 0..4
      /\ ConfRank[f.conf] \in 0..4 /\ ConfRank[g.conf] \in 0..4
  BY <1>1, <1>2, <1>3
<1>5. ASSUME NEW i \in 0..4, NEW j \in 0..4, NEW k \in 0..4, NEW l \in 0..4
      PROVE  /\ 5 * i + k \in Nat
             /\ (i > j \/ (i = j /\ k > l)) <=> 5 * i + k > 5 * j + l
  OBVIOUS
<1> QED
  BY <1>4, <1>5 DEF Weight, Outranks

(* A merge yields a finding that is one of the two in what identifies it. *)
LEMMA MergeTwoType ==
  ASSUME NEW a \in Finding, NEW b \in Finding
  PROVE  /\ MergeTwo(a, b) \in Finding
         /\ MergeTwo(a, b).evid = a.evid \cup b.evid
         /\ Same(a, MergeTwo(a, b)) \/ Same(b, MergeTwo(a, b))
<1> DEFINE head == IF Alphabetical[a.sev] >= Alphabetical[b.sev] THEN a ELSE b
<1>1. head \in Finding /\ (head = a \/ head = b)
  OBVIOUS
<1>2. MergeTwo(a, b) = [head EXCEPT !.evid = a.evid \cup b.evid]
  BY DEF MergeTwo
<1>3. a.evid \cup b.evid \in SUBSET Nat
  BY DEF Finding
<1> HIDE DEF head
<1> QED
  BY <1>1, <1>2, <1>3 DEF Finding, Same

(* So does a merge into a cluster. *)
LEMMA MergeClusterType ==
  ASSUME NEW h \in Finding, NEW n \in Finding
  PROVE  LET m == MergeCluster(h, n)
         IN  /\ m \in Finding
             /\ m.evid = h.evid \cup n.evid
             /\ m.size = Grown(h, n)
             /\ m.affected = h.affected \cup {h.ep, n.ep}
             /\ Outranks(n, h) => Same(n, m) /\ m.sev = n.sev /\ m.conf = n.conf
             /\ ~Outranks(n, h) => Same(h, m) /\ m.sev = h.sev /\ m.conf = h.conf
<1> DEFINE head == IF Outranks(n, h) THEN n ELSE h
<1>1. head \in Finding
  OBVIOUS
<1>2. MergeCluster(h, n) = [head EXCEPT !.evid = h.evid \cup n.evid, !.size = Grown(h, n),
                                        !.affected = Affected(h, n)]
  BY DEF MergeCluster
<1>3. h.evid \cup n.evid \in SUBSET Nat
  BY DEF Finding
<1>4. Grown(h, n) \in Nat
  BY DEF Finding, Grown
<1>5. Affected(h, n) \in SUBSET Endpoints
  BY DEF Finding, Affected
<1>6. /\ Outranks(n, h) => head = n
      /\ ~Outranks(n, h) => head = h
  OBVIOUS
<1> HIDE DEF head
<1>7. MergeCluster(h, n) = [id |-> head.id, fp |-> head.fp, rc |-> head.rc, ep |-> head.ep,
                            sev |-> head.sev, conf |-> head.conf, evid |-> h.evid \cup n.evid,
                            size |-> Grown(h, n), affected |-> Affected(h, n)]
  BY <1>1, <1>2 DEF Finding
<1>8. MergeCluster(h, n) \in Finding
  <2>1. /\ head.id \in Nat /\ head.fp \in Fingerprints \cup {None} /\ head.rc \in Causes \cup {None}
        /\ head.ep \in Endpoints /\ head.sev \in Severity /\ head.conf \in Confidence
    BY <1>1 DEF Finding
  <2> QED
    BY <1>3, <1>4, <1>5, <1>7, <2>1 DEF Finding
<1> DEFINE m == MergeCluster(h, n)
<1>9. /\ m.evid = h.evid \cup n.evid /\ m.size = Grown(h, n) /\ m.affected = Affected(h, n)
      /\ m.id = head.id /\ m.fp = head.fp /\ m.rc = head.rc /\ m.ep = head.ep
      /\ m.sev = head.sev /\ m.conf = head.conf
  BY <1>7
<1> HIDE DEF m
<1>10. Same(head, m) /\ m.affected = h.affected \cup {h.ep, n.ep}
  BY <1>9 DEF Same, Affected
<1>11. /\ Outranks(n, h) => Same(n, m) /\ m.sev = n.sev /\ m.conf = n.conf
       /\ ~Outranks(n, h) => Same(h, m) /\ m.sev = h.sev /\ m.conf = h.conf
  BY <1>6, <1>9, <1>10
<1>12. m \in Finding
  BY <1>8 DEF m
<1> QED
  BY <1>9, <1>10, <1>11, <1>12 DEF m

(* What a check hands over has an identity of its own. *)
LEMMA NewIsFresh ==
  ASSUME FindingsInv, NEW c \in Pool
  PROVE  Fresh(New(c))
<1>1. Cardinality(added) \in Nat
  BY FS_CardinalityType DEF FindingsInv, NumbersFresh
<1>2. c \in Content
  BY FindingsAssumption
<1> QED
  BY <1>1, <1>2 DEF Fresh, New, Content, Finding

(* Its identity is the highest so far. *)
LEMMA AddedGrows ==
  ASSUME FindingsInv, NEW f, Fresh(f), added' = added \cup {f}
  PROVE  /\ NumbersFresh'
         /\ f \notin added
         /\ \A a \in added : a.id < f.id
         /\ Known(f)'
         /\ \A g : Known(g) => Known(g)'
<1>1. /\ IsFiniteSet(added) /\ Cardinality(added) \in Nat
      /\ \A a \in added : a.id \in 1..Cardinality(added)
      /\ \A a, b \in added : a.id = b.id => a = b
  BY FS_CardinalityType DEF FindingsInv, NumbersFresh
<1>2. \A a \in added : a.id < f.id
  BY <1>1 DEF Fresh
<1>3. f \notin added
  BY <1>2, <1>1 DEF Fresh
<1>4. IsFiniteSet(added') /\ Cardinality(added') = Cardinality(added) + 1
  BY <1>1, <1>3, FS_AddElement
<1>5. \A a \in added' : a.id \in 1..Cardinality(added')
  BY <1>1, <1>4 DEF Fresh
<1>6. \A a, b \in added' : a.id = b.id => a = b
  BY <1>1, <1>2 DEF Fresh
<1> QED
  BY <1>2, <1>3, <1>4, <1>5, <1>6 DEF NumbersFresh, Known, Same

(* Registering leaves one with the identity of the merged finding in       *)
(* ctx.findings, which carries the same keys.                              *)
LEMMA Registered ==
  ASSUME FindingsInv, NEW f, Fresh(f), added' = added \cup {f},
         NEW m \in Finding, Known(m)', Register(f, m)
  PROVE  /\ ctx \subseteq ctx' /\ ctx' \subseteq Finding
         /\ \A g \in ctx' : Known(g)'
         /\ \E g \in ctx' : g.id = m.id /\ g.fp = m.fp /\ g.rc = m.rc
<1>1. ctx \subseteq ctx' /\ ctx' \subseteq ctx \cup {m}
  BY DEF Register
<1>2. \A g \in ctx' : Known(g)'
  BY <1>1, AddedGrows DEF FindingsInv, AllKnown
<1>3. PICK g \in ctx' : g.id = m.id
  BY DEF Register, Ids
<1>4. g.fp = m.fp /\ g.rc = m.rc
  <2>1. PICK a \in added' : Same(a, g)
    BY <1>2 DEF Known
  <2>2. PICK b \in added' : Same(b, m)
    BY DEF Known
  <2>3. a.id = b.id
    BY <2>1, <2>2, <1>3 DEF Same
  <2>4. NumbersFresh'
    BY AddedGrows
  <2>5. a = b
    BY <2>3, <2>4 DEF NumbersFresh
  <2> QED
    BY <2>1, <2>2, <2>5 DEF Same
<1>5. ctx' \subseteq Finding
  BY <1>1 DEF FindingsInv, FindingsTypeOK
<1> QED
  BY <1>1, <1>2, <1>3, <1>4, <1>5

(* When the merged finding has a key of the new one, and nothing else is   *)
(* stored that was not, nothing is lost.                                   *)
LEMMA StillThere ==
  ASSUME FindingsInv, NEW f, Fresh(f), added' = added \cup {f},
         NEW m \in Finding, Known(m)', Register(f, m),
         Ids(All') \subseteq Ids(All) \cup {m.id},
         \/ m.id = f.id
         \/ f.fp # None /\ m.fp = f.fp
         \/ f.rc # None /\ m.rc = f.rc
  PROVE  NothingLost'
<1>1. /\ ctx \subseteq ctx'
      /\ \E g \in ctx' : g.id = m.id /\ g.fp = m.fp /\ g.rc = m.rc
  BY Registered, Zenon
<1>2. Ids(All') \subseteq Ids(ctx')
  <2>1. Ids(All) \subseteq Ids(ctx)
    BY DEF FindingsInv, NothingLost
  <2>2. Ids(ctx) \subseteq Ids(ctx') /\ m.id \in Ids(ctx')
    BY <1>1 DEF Ids
  <2> QED
    BY <2>1, <2>2
<1>3. \A a \in added' : \E g \in ctx' : \/ g.id = a.id
                                        \/ a.fp # None /\ g.fp = a.fp
                                        \/ a.rc # None /\ g.rc = a.rc
  BY <1>1 DEF FindingsInv, NothingLost
<1> QED
  BY <1>2, <1>3 DEF NothingLost

-----------------------------------------------------------------------------
(* A finding that starts a cluster leads it. *)
LEMMA LeadsAlone ==
  ASSUME NEW f, Fresh(f)
  PROVE  Leads(f, {f})
<1>1. Cardinality({f}) = 1
  BY FS_Singleton
<1>2. f.id \in Nat
  BY DEF Fresh, Finding
<1>3. Weight(f) \in Nat
  BY OutranksByWeight DEF Fresh
<1> QED
  BY <1>1, <1>2, <1>3 DEF Fresh, Leads, Ids

(* A merged head leads its cluster and the newcomer. *)
LEMMA LeadsMerged ==
  ASSUME NEW M, IsFiniteSet(M), M \subseteq Finding,
         NEW h \in Finding, Leads(h, M),
         NEW f, Fresh(f), f \notin M, \A n \in M : n.id < f.id
  PROVE  Leads(MergeCluster(h, f), M \cup {f})
<1> DEFINE m == MergeCluster(h, f)
           N == M \cup {f}
<1>1. f \in Finding /\ f.id \in Nat /\ f.evid = {f.id} /\ h.size \in Nat /\ h.id \in Nat
  BY DEF Fresh, Finding
<1>2. /\ m.evid = h.evid \cup f.evid
      /\ m.size = Grown(h, f)
      /\ m.affected = h.affected \cup {h.ep, f.ep}
      /\ Outranks(f, h) => m.id = f.id /\ m.ep = f.ep /\ Weight(m) = Weight(f)
      /\ ~Outranks(f, h) => m.id = h.id /\ m.ep = h.ep /\ Weight(m) = Weight(h)
  BY <1>1, MergeClusterType DEF Same, Weight
<1>3. Cardinality(N) = Cardinality(M) + 1 /\ Cardinality(M) \in Nat
  BY FS_AddElement, FS_CardinalityType
<1>4. /\ Weight(h) \in Nat /\ Weight(f) \in Nat
      /\ Outranks(f, h) <=> Weight(f) > Weight(h)
      /\ \A n \in M : Weight(n) \in Nat
  BY <1>1, OutranksByWeight
<1>5. PICK first \in M : first.id = h.id
  BY DEF Leads, Ids
<1> HIDE DEF m
<1>6. m.evid = Ids(N) /\ m.id \in Ids(N)
  BY <1>1, <1>2, <1>5 DEF Leads, Ids
<1>7. \A n \in N : Weight(n) <= Weight(m) /\ (n.id < m.id => Weight(n) < Weight(m))
  <2>1. \A n \in M : Weight(n) <= Weight(h) /\ (n.id < h.id => Weight(n) < Weight(h))
    BY DEF Leads
  <2>2. CASE Outranks(f, h)
    BY <1>1, <1>2, <1>4, <2>1, <2>2
  <2>3. CASE ~Outranks(f, h)
    <3>1. ~(f.id < h.id)
      BY <1>1, <1>5
    <3> QED
      BY <1>2, <1>4, <2>1, <2>3, <3>1
  <2> QED
    BY <2>2, <2>3
<1>8. m.size <= Cardinality(N) /\ ((\A n \in N : m.id <= n.id) => m.size = Cardinality(N))
  <2>1. h.size <= Cardinality(M) /\ ((\A n \in M : h.id <= n.id) => h.size = Cardinality(M))
    BY DEF Leads
  <2>2. Cardinality(M) > 0
    BY <1>3, <1>5, FS_EmptySet
  <2>3. CASE Outranks(f, h)
    <3>1. ~(m.id <= first.id) /\ first \in N
      BY <1>1, <1>2, <1>5, <2>3
    <3>2. m.size = 2
      BY <1>2, <2>3 DEF Grown
    <3> QED
      BY <1>3, <2>2, <3>1, <3>2
  <2>4. CASE ~Outranks(f, h)
    BY <1>1, <1>2, <1>3, <2>1, <2>4 DEF Grown
  <2> QED
    BY <2>3, <2>4
<1>9. m.affected \cup {m.ep} = {n.ep : n \in N} /\ m.ep \in m.affected
  <2>1. h.affected \cup {h.ep} = {n.ep : n \in M}
    BY DEF Leads
  <2>2. m.ep \in {h.ep, f.ep}
    BY <1>2
  <2>3. {n.ep : n \in N} = {n.ep : n \in M} \cup {f.ep}
    OBVIOUS
  <2> QED
    BY <1>2, <2>1, <2>2, <2>3
<1> QED
  BY <1>6, <1>7, <1>8, <1>9 DEF Leads, m

-----------------------------------------------------------------------------
(* The four ways add() ends. *)
LEMMA WithoutKeyKeeps ==
  ASSUME FindingsInv, NEW f, Fresh(f), added' = added \cup {f}, AddWithoutKey(f)
  PROVE  FindingsInv'
<1>1. /\ f \in Finding /\ Known(f)' /\ NumbersFresh'
      /\ \A g : Known(g) => Known(g)'
  BY AddedGrows DEF Fresh
<1>2. Register(f, f) /\ noKey' = noKey \cup {f} /\ UNCHANGED <<byFp, byRc, members>>
  BY DEF AddWithoutKey
<1>3. /\ ctx' \subseteq Finding
      /\ \A g \in ctx' : Known(g)'
  BY <1>1, <1>2, Registered
<1>4. FindingsTypeOK'
  BY <1>1, <1>2, <1>3 DEF FindingsInv, FindingsTypeOK
<1>5. AllKnown' /\ HeadsKeyed'
  BY <1>1, <1>2, <1>3 DEF FindingsInv, AllKnown, HeadsKeyed
<1>6. NothingLost'
  <2>1. Ids(All') \subseteq Ids(All) \cup {f.id}
    BY <1>2 DEF All, Ids, Range
  <2> QED
    BY <1>1, <1>2, <2>1, StillThere
<1>7. \A r \in DOMAIN byRc' : Leads(byRc'[r], members'[r])
  BY <1>2 DEF FindingsInv
<1> QED
  BY <1>1, <1>4, <1>5, <1>6, <1>7 DEF FindingsInv

(* A finding seen before joins its own record. *)
LEMMA SameFingerprintKeeps ==
  ASSUME FindingsInv, NEW f, Fresh(f), added' = added \cup {f}, AddSameFingerprint(f)
  PROVE  FindingsInv'
<1>1. /\ f \in Finding /\ Known(f)' /\ NumbersFresh'
      /\ \A g : Known(g) => Known(g)'
  BY AddedGrows DEF Fresh
<1>2. PICK old : old = byFp[f.fp]
  OBVIOUS
<1>3. PICK m : m = MergeTwo(old, f)
  OBVIOUS
<1>4. /\ f.fp \in DOMAIN byFp /\ byFp' = Put(byFp, f.fp, m)
      /\ Register(f, m) /\ UNCHANGED <<byRc, noKey, members>>
  BY <1>2, <1>3 DEF AddSameFingerprint
<1>5. old \in Finding /\ old.fp = f.fp /\ f.fp # None /\ Known(old)
  BY <1>2, <1>4, FindingsAssumption DEF FindingsInv, FindingsTypeOK, AllKnown
<1>6. m \in Finding /\ m.fp = f.fp /\ Known(m)'
  <2>1. m \in Finding /\ (Same(old, m) \/ Same(f, m))
    BY <1>1, <1>3, <1>5, MergeTwoType
  <2> QED
    BY <1>1, <1>5, <2>1 DEF Known, Same
<1>7. /\ ctx' \subseteq Finding
      /\ \A g \in ctx' : Known(g)'
  BY <1>4, <1>6, Registered
<1>8. /\ DOMAIN byFp' = DOMAIN byFp
      /\ \A k \in DOMAIN byFp : byFp'[k] = IF k = f.fp THEN m ELSE byFp[k]
  BY <1>4 DEF Put
<1>9. FindingsTypeOK'
  BY <1>1, <1>4, <1>6, <1>7, <1>8 DEF FindingsInv, FindingsTypeOK
<1>10. AllKnown' /\ HeadsKeyed'
  BY <1>1, <1>4, <1>6, <1>7, <1>8 DEF FindingsInv, AllKnown, HeadsKeyed
<1>11. NothingLost'
  <2>1. Ids(All') \subseteq Ids(All) \cup {m.id}
    BY <1>4, <1>8 DEF All, Ids, Range
  <2> QED
    BY <1>4, <1>5, <1>6, <2>1, StillThere
<1>12. \A r \in DOMAIN byRc' : Leads(byRc'[r], members'[r])
  BY <1>4 DEF FindingsInv
<1> QED
  BY <1>1, <1>9, <1>10, <1>11, <1>12 DEF FindingsInv

(* A finding like another one joins the cluster. *)
LEMMA ToClusterKeeps ==
  ASSUME FindingsInv, NEW f, Fresh(f), added' = added \cup {f}, AddToCluster(f)
  PROVE  FindingsInv'
<1>1. /\ f \in Finding /\ f \notin added /\ Known(f)' /\ NumbersFresh'
      /\ \A a \in added : a.id < f.id
      /\ \A g : Known(g) => Known(g)'
  BY AddedGrows DEF Fresh
<1>2. PICK h : h = byRc[f.rc]
  OBVIOUS
<1>3. PICK m : m = MergeCluster(h, f)
  OBVIOUS
<1>4. /\ f.fp # None /\ f.rc \in DOMAIN byRc /\ byRc' = Put(byRc, f.rc, m)
      /\ byFp' = Put(byFp, m.fp, m) /\ Register(f, m)
      /\ members' = [members EXCEPT ![f.rc] = @ \cup {f}] /\ noKey' = noKey
  BY <1>2, <1>3 DEF AddToCluster, ClusterKey
<1>5. /\ h \in Finding /\ h.rc = f.rc /\ h.fp # None /\ Known(h)
      /\ f.rc \in Causes /\ f.rc # None
      /\ members[f.rc] \subseteq added /\ Leads(h, members[f.rc])
  BY <1>2, <1>4, FindingsAssumption DEF FindingsInv, FindingsTypeOK, AllKnown, HeadsKeyed
<1>6. m \in Finding /\ m.rc = f.rc /\ m.fp # None /\ Known(m)'
  <2>1. m \in Finding /\ (Same(h, m) \/ Same(f, m))
    BY <1>1, <1>3, <1>5, MergeClusterType
  <2> QED
    BY <1>1, <1>4, <1>5, <2>1 DEF Known, Same
<1>7. Leads(m, members[f.rc] \cup {f})
  <2>1. IsFiniteSet(members[f.rc]) /\ members[f.rc] \subseteq Finding
    BY <1>5, FS_Subset DEF FindingsInv, NumbersFresh, FindingsTypeOK
  <2> QED
    BY <1>1, <1>3, <1>5, <2>1, LeadsMerged
<1>8. /\ ctx' \subseteq Finding
      /\ \A g \in ctx' : Known(g)'
  BY <1>4, <1>6, Registered
<1>9. /\ DOMAIN byFp' = DOMAIN byFp \cup {m.fp}
      /\ \A k \in DOMAIN byFp' : byFp'[k] = IF k = m.fp THEN m ELSE byFp[k]
      /\ DOMAIN byRc' = DOMAIN byRc
      /\ \A r \in DOMAIN byRc : byRc'[r] = IF r = f.rc THEN m ELSE byRc[r]
      /\ \A r \in Causes :
            members'[r] = IF r = f.rc THEN members[r] \cup {f} ELSE members[r]
  BY <1>4 DEF Put, FindingsInv, FindingsTypeOK
<1>10. FindingsTypeOK'
  <2>1. m.fp \in Fingerprints
    BY <1>6 DEF Finding
  <2>2. members' \in [Causes -> SUBSET added']
    BY <1>4, <1>5 DEF FindingsInv, FindingsTypeOK
  <2> QED
    BY <1>1, <1>4, <1>6, <1>8, <1>9, <2>1, <2>2 DEF FindingsInv, FindingsTypeOK
<1>11. AllKnown' /\ HeadsKeyed'
  BY <1>1, <1>4, <1>6, <1>8, <1>9 DEF FindingsInv, AllKnown, HeadsKeyed
<1>12. NothingLost'
  <2>1. Ids(All') \subseteq Ids(All) \cup {m.id}
    BY <1>4, <1>9 DEF All, Ids, Range
  <2> QED
    BY <1>4, <1>5, <1>6, <2>1, StillThere
<1>13. \A r \in DOMAIN byRc' : Leads(byRc'[r], members'[r])
  BY <1>5, <1>7, <1>9 DEF FindingsInv, FindingsTypeOK
<1> QED
  BY <1>1, <1>10, <1>11, <1>12, <1>13 DEF FindingsInv

(* A finding like none starts a record of its own. *)
LEMMA FirstKeeps ==
  ASSUME FindingsInv, NEW f, Fresh(f), added' = added \cup {f}, AddFirst(f)
  PROVE  FindingsInv'
<1>1. /\ f \in Finding /\ f \notin added /\ Known(f)' /\ NumbersFresh'
      /\ \A g : Known(g) => Known(g)'
  BY AddedGrows DEF Fresh
<1>2. /\ f.fp # None /\ byFp' = Put(byFp, f.fp, f) /\ Register(f, f) /\ noKey' = noKey
  BY DEF AddFirst
<1>3. /\ ctx' \subseteq Finding
      /\ \A g \in ctx' : Known(g)'
  BY <1>1, <1>2, Registered
<1>4. /\ DOMAIN byFp' = DOMAIN byFp \cup {f.fp} /\ f.fp \in Fingerprints
      /\ \A k \in DOMAIN byFp' : byFp'[k] = IF k = f.fp THEN f ELSE byFp[k]
  BY <1>1, <1>2 DEF Put, Finding
<1>5. NothingLost'
  <2>1. Ids(All') \subseteq Ids(All) \cup {f.id}
    BY <1>2, <1>4 DEF All, Ids, Range
  <2> QED
    BY <1>1, <1>2, <2>1, StillThere
<1>6. CASE f.rc = None
  <2>1. UNCHANGED <<byRc, members>>
    BY <1>6 DEF AddFirst
  <2>2. FindingsTypeOK'
    BY <1>1, <1>2, <1>3, <1>4, <2>1 DEF FindingsInv, FindingsTypeOK
  <2>3. AllKnown' /\ HeadsKeyed'
    BY <1>1, <1>2, <1>3, <1>4, <2>1 DEF FindingsInv, AllKnown, HeadsKeyed
  <2>4. \A r \in DOMAIN byRc' : Leads(byRc'[r], members'[r])
    BY <2>1 DEF FindingsInv
  <2> QED
    BY <1>1, <1>5, <2>2, <2>3, <2>4 DEF FindingsInv
<1>7. CASE f.rc # None
  <2>1. /\ f.rc \in Causes \ DOMAIN byRc
        /\ byRc' = Put(byRc, f.rc, f)
        /\ members' = [members EXCEPT ![f.rc] = @ \cup {f}]
    BY <1>1, <1>7 DEF AddFirst, Finding
  <2>2. members[f.rc] = {}
    BY <2>1 DEF FindingsInv, HeadsKeyed
  <2>3. /\ DOMAIN byRc' = DOMAIN byRc \cup {f.rc}
        /\ \A r \in DOMAIN byRc' : byRc'[r] = IF r = f.rc THEN f ELSE byRc[r]
        /\ \A r \in Causes :
              members'[r] = IF r = f.rc THEN {f} ELSE members[r]
    BY <2>1, <2>2 DEF Put, FindingsInv, FindingsTypeOK
  <2>4. FindingsTypeOK'
    <3>1. members' \in [Causes -> SUBSET added']
      BY <2>1 DEF FindingsInv, FindingsTypeOK
    <3> QED
      BY <1>1, <1>2, <1>3, <1>4, <2>1, <2>3, <3>1 DEF FindingsInv, FindingsTypeOK
  <2>5. AllKnown' /\ HeadsKeyed'
    BY <1>1, <1>2, <1>3, <1>4, <2>1, <2>3 DEF FindingsInv, AllKnown, HeadsKeyed
  <2>6. \A r \in DOMAIN byRc' : Leads(byRc'[r], members'[r])
    <3>1. Leads(f, {f})
      BY LeadsAlone
    <3>2. \A r \in DOMAIN byRc : r \in Causes /\ Leads(byRc[r], members[r])
      BY DEF FindingsInv, FindingsTypeOK
    <3> QED
      BY <2>1, <2>3, <3>1, <3>2
  <2> QED
    BY <1>1, <1>5, <2>4, <2>5, <2>6 DEF FindingsInv
<1> QED
  BY <1>6, <1>7

-----------------------------------------------------------------------------
(* At the start nothing is stored ... *)
LEMMA FindingsInit == Init => FindingsInv
<1> SUFFICES ASSUME Init PROVE FindingsInv
  OBVIOUS
<1>1. DOMAIN byFp = {} /\ DOMAIN byRc = {}
  BY DEF Init
<1>2. IsFiniteSet(added)
  BY FS_EmptySet DEF Init
<1> QED
  BY <1>1, <1>2 DEF Init, FindingsInv, FindingsTypeOK, NumbersFresh, AllKnown, HeadsKeyed,
                    NothingLost, All, Ids, Range

(* ... each finding keeps the invariant ... *)
LEMMA FindingsStep == FindingsInv /\ [Next]_vars => FindingsInv'
<1> SUFFICES ASSUME FindingsInv, [Next]_vars PROVE FindingsInv'
  OBVIOUS
<1>1. CASE Next
  <2>1. PICK c \in Pool : Add(New(c))
    BY <1>1 DEF Next
  <2>2. PICK f : f = New(c)
    OBVIOUS
  <2>3. Fresh(f) /\ Add(f)
    BY <2>1, <2>2, NewIsFresh
  <2> QED
    BY <2>3, WithoutKeyKeeps, SameFingerprintKeeps, ToClusterKeeps, FirstKeeps DEF Add
<1>2. CASE UNCHANGED vars
  BY <1>2 DEF vars, FindingsInv, FindingsTypeOK, NumbersFresh, AllKnown, HeadsKeyed,
              NothingLost, Known, All
<1> QED
  BY <1>1, <1>2

(* ... and so it holds throughout. *)
LEMMA FindingsInvariant == Spec => []FindingsInv
  BY FindingsInit, FindingsStep, PTL DEF Spec

(* What the deduplicator and the run hold has its types and its keys.      *)
THEOREM FindingsTypeCorrect == Spec => []FindingsTypeOK
<1>1. FindingsInv => FindingsTypeOK
  BY DEF FindingsInv
<1> QED
  BY <1>1, FindingsInvariant, PTL

(* However the checks of a run interleave, no finding is lost on the way   *)
(* from a check to the findings of the run.                                *)
THEOREM EveryFindingReported == Spec => []NothingLost
<1>1. FindingsInv => NothingLost
  BY DEF FindingsInv
<1> QED
  BY <1>1, FindingsInvariant, PTL

(* A cluster holds the evidence of all it took in, led by the worst and    *)
(* surest of them, whatever the order they came in.                        *)
THEOREM ClustersFaithful == Spec => []ClusterFaithful
<1>1. FindingsInv => ClusterFaithful
  BY DEF FindingsInv, ClusterFaithful, Leads
<1> QED
  BY <1>1, FindingsInvariant, PTL

(* A cluster names the endpoints of its members, all of them.              *)
THEOREM ClustersNameEndpoints == Spec => []EndpointsComplete
<1>1. FindingsInv => EndpointsComplete
  BY DEF FindingsInv, EndpointsComplete, Leads
<1> QED
  BY <1>1, FindingsInvariant, PTL

(* A cluster never counts more members than it has, and counts them        *)
(* rightly while its first member leads it.                                *)
THEOREM ClusterSizesBounded == Spec => []SizeBound
<1>1. FindingsInv => SizeBound
  BY DEF FindingsInv, SizeBound, Leads
<1> QED
  BY <1>1, FindingsInvariant, PTL

-----------------------------------------------------------------------------
(* Evidence under a fingerprint *)

(* A finding that has no root cause is stored under its fingerprint.       *)
PlainStored == \A f \in added : f.fp # None /\ f.rc = None => f.fp \in DOMAIN byFp

Of(k) == {f \in added : f.fp = k}

(* Evidence stays together when a step leaves what is stored under a key   *)
(* alone or adds a finding's evidence along with it.                       *)
LEMMA EvidenceGrows ==
  ASSUME FindingsInv, EvidenceKept, NEW f, Fresh(f), added' = added \cup {f},
         \A k \in DOMAIN byFp' :
           \/ k # f.fp /\ k \in DOMAIN byFp /\ byFp'[k] = byFp[k]
           \/ k = f.fp /\ k \in DOMAIN byFp /\ byFp'[k].evid = byFp[k].evid \cup {f.id}
           \/ \E g \in added' : g.fp = k /\ g.rc # None
           \/ k = f.fp /\ Of(k) = {} /\ byFp'[k].evid = {f.id}
  PROVE  EvidenceKept'
<1> SUFFICES ASSUME NEW k \in DOMAIN byFp', \A g \in Of(k)' : g.rc = None
             PROVE  byFp'[k].evid = Ids(Of(k))'
  BY DEF EvidenceKept, Of
<1>1. \A g \in Of(k) : g.rc = None
  BY DEF Of
<1>2. k \in DOMAIN byFp => byFp[k].evid = Ids(Of(k))
  BY <1>1 DEF EvidenceKept, Of
<1>3. CASE k # f.fp
  <2>1. Of(k)' = Of(k)
    BY <1>3 DEF Of
  <2>2. Ids(Of(k))' = Ids(Of(k))
    BY <2>1 DEF Ids
  <2>3. k \in DOMAIN byFp /\ byFp'[k] = byFp[k]
    BY <1>3 DEF Of
  <2> QED
    BY <1>2, <2>2, <2>3
<1>4. CASE k = f.fp
  <2>1. Of(k)' = Of(k) \cup {f}
    BY <1>4 DEF Of
  <2>2. Ids(Of(k))' = Ids(Of(k)) \cup {f.id}
    BY <2>1 DEF Ids
  <2>3. Of(k) = {} => Ids(Of(k)) = {}
    BY DEF Ids
  <2>4. \/ k \in DOMAIN byFp /\ byFp'[k].evid = byFp[k].evid \cup {f.id}
        \/ Of(k) = {} /\ byFp'[k].evid = {f.id}
    BY <1>4 DEF Of
  <2> QED
    BY <1>2, <2>2, <2>3, <2>4
<1> QED
  BY <1>3, <1>4

(* Each of the four ways to register a finding keeps evidence together.    *)
LEMMA EvidenceStep ==
  ASSUME FindingsInv, EvidenceKept, PlainStored, NEW f, Fresh(f), Add(f)
  PROVE  EvidenceKept' /\ PlainStored'
<1>1. added' = added \cup {f} /\ f.evid = {f.id} /\ f \in Finding
  BY DEF Add, Fresh
<1>2. CASE AddWithoutKey(f)
  <2>1. byFp' = byFp /\ f.fp = None
    BY <1>2 DEF AddWithoutKey
  <2>2. \A k \in DOMAIN byFp : k # f.fp
    BY <2>1, FindingsAssumption DEF FindingsInv, FindingsTypeOK
  <2>3. EvidenceKept'
    BY <1>1, <2>1, <2>2, EvidenceGrows
  <2> QED
    BY <1>1, <2>1, <2>3 DEF PlainStored
<1>3. CASE AddSameFingerprint(f)
  <2> DEFINE m == MergeTwo(byFp[f.fp], f)
  <2>1. f.fp \in DOMAIN byFp /\ byFp' = Put(byFp, f.fp, m)
    BY <1>3 DEF AddSameFingerprint
  <2>2. m.evid = byFp[f.fp].evid \cup {f.id}
    BY <1>1, <2>1, MergeTwoType DEF FindingsInv, FindingsTypeOK
  <2> HIDE DEF m
  <2>3. /\ DOMAIN byFp' = DOMAIN byFp
        /\ byFp'[f.fp] = m
        /\ \A k \in DOMAIN byFp : k # f.fp => byFp'[k] = byFp[k]
    BY <2>1 DEF Put
  <2>4. EvidenceKept'
    BY <1>1, <2>1, <2>2, <2>3, EvidenceGrows
  <2> QED
    BY <1>1, <2>1, <2>3, <2>4 DEF PlainStored
<1>4. CASE AddToCluster(f)
  <2> DEFINE h == byRc[f.rc]
             m == MergeCluster(h, f)
  <2>1. /\ f.rc \in DOMAIN byRc /\ f.rc # None
        /\ byFp' = Put(byFp, m.fp, m)
    BY <1>4, FindingsAssumption DEF AddToCluster, ClusterKey, FindingsInv, FindingsTypeOK
  <2>2. h \in Finding /\ h.rc = f.rc /\ Known(h)
    BY <2>1 DEF FindingsInv, FindingsTypeOK, AllKnown
  <2>3. Same(f, m) \/ Same(h, m)
    BY <1>1, <2>2, MergeClusterType
  <2>4. PICK a \in added : Same(a, h)
    BY <2>2 DEF Known
  <2> HIDE DEF h, m
  <2>5. \E g \in added' : g.fp = m.fp /\ g.rc # None
    BY <1>1, <2>1, <2>2, <2>3, <2>4 DEF Same
  <2>6. /\ DOMAIN byFp' = DOMAIN byFp \cup {m.fp}
        /\ \A k \in DOMAIN byFp : k # m.fp => byFp'[k] = byFp[k]
    BY <2>1 DEF Put
  <2>7. f.fp \notin DOMAIN byFp
    BY <1>4 DEF AddToCluster
  <2>8. EvidenceKept'
    BY <1>1, <2>5, <2>6, <2>7, EvidenceGrows
  <2> QED
    BY <1>1, <2>1, <2>6, <2>8 DEF PlainStored
<1>5. CASE AddFirst(f)
  <2>1. f.fp \notin DOMAIN byFp /\ f.fp # None /\ byFp' = Put(byFp, f.fp, f)
    BY <1>5 DEF AddFirst
  <2>2. /\ DOMAIN byFp' = DOMAIN byFp \cup {f.fp} /\ byFp'[f.fp] = f
        /\ \A k \in DOMAIN byFp : k # f.fp => byFp'[k] = byFp[k]
    BY <2>1 DEF Put
  <2>3. \A g \in Of(f.fp) : g.rc # None
    BY <2>1 DEF PlainStored, Of
  <2>4. Of(f.fp) = {} \/ \E g \in added' : g.fp = f.fp /\ g.rc # None
    BY <1>1, <2>3 DEF Of
  <2>5. EvidenceKept'
    BY <1>1, <2>1, <2>2, <2>4, EvidenceGrows
  <2> QED
    BY <1>1, <2>1, <2>2, <2>5 DEF PlainStored
<1> QED
  BY <1>2, <1>3, <1>4, <1>5 DEF Add

(* Findings without a root cause lose no evidence when they are merged by  *)
(* fingerprint (deduplicator.py _merge_two).                               *)
THEOREM FingerprintsKeepEvidence == Spec => []EvidenceKept
<1> DEFINE Inv == EvidenceKept /\ PlainStored
<1>1. Init => Inv
  <2>1. Init => DOMAIN byFp = {} /\ added = {}
    BY DEF Init
  <2> QED
    BY <2>1 DEF EvidenceKept, PlainStored
<1>2. FindingsInv /\ Inv /\ [Next]_vars => Inv'
  <2> SUFFICES ASSUME FindingsInv, Inv, [Next]_vars PROVE Inv'
    OBVIOUS
  <2>1. CASE Next
    <3>1. PICK c \in Pool : Add(New(c))
      BY <2>1 DEF Next
    <3>2. PICK f : f = New(c)
      OBVIOUS
    <3> QED
      BY <3>1, <3>2, NewIsFresh, EvidenceStep
  <2>2. CASE UNCHANGED vars
    BY <2>2 DEF vars, EvidenceKept, PlainStored, Ids
  <2> QED
    BY <2>1, <2>2
<1>3. Inv => EvidenceKept
  OBVIOUS
<1> QED
  BY <1>1, <1>2, <1>3, FindingsInvariant, PTL DEF Spec
=============================================================================
