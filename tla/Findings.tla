------------------------------ MODULE Findings ------------------------------
(***************************************************************************)
(* What the orchestrator does with the findings of a run.                  *)
(*                                                                         *)
(* The validation tasks of a run hand their findings, in whatever order    *)
(* they get there, to the deduplicator, which merges by fingerprint (the   *)
(* same issue on the same endpoint) and by root cause (the same issue on   *)
(* several endpoints); what it answers is appended to the findings of the  *)
(* run unless one with that identity is there.  No step suspends, so one   *)
(* finding registered is one action.                                       *)
(*                                                                         *)
(* A finding is a record; its text and its reproduction are left out, and  *)
(* its evidence is one piece, named by the finding's own number.           *)
(***************************************************************************)
EXTENDS Integers, FiniteSets, Functions

CONSTANTS
  Fingerprints,
  Causes,        \* root causes
  Endpoints,
  None,          \* no fingerprint, no root cause
  MaxFindings,   \* bound on the findings registered
  Pool           \* the contents findings may come with

Severity   == {"info", "low", "medium", "high", "critical"}
Confidence == {"tentative", "low", "medium", "high", "confirmed"}

Content == [fp : Fingerprints \cup {None}, rc : Causes \cup {None},
            ep : Endpoints, sev : Severity, conf : Confidence]

ASSUME FindingsAssumption ==
  /\ None \notin Fingerprints \cup Causes
  /\ MaxFindings \in Nat
  /\ Pool \subseteq Content

VARIABLES
  byFp,     \* _by_fingerprint
  byRc,     \* _by_root_cause
  noKey,    \* _no_key
  ctx,      \* ctx.findings; identities are unique, the order plays no role
  added,    \* history: the findings as they were registered
  members   \* history: for each root cause, those its cluster took in

vars == <<byFp, byRc, noKey, ctx, added, members>>

Finding == [id : Nat, fp : Fingerprints \cup {None}, rc : Causes \cup {None},
            ep : Endpoints, sev : Severity, conf : Confidence,
            evid : SUBSET Nat, size : Nat, affected : SUBSET Endpoints]

Ids(S) == {f.id : f \in S}

(* _severity_rank, _confidence_rank *)
SevRank == [info |-> 0, low |-> 1, medium |-> 2, high |-> 3, critical |-> 4]
ConfRank == [tentative |-> 0, low |-> 1, medium |-> 2, high |-> 3, confirmed |-> 4]

(* How the severities compare as strings. *)
Alphabetical == [critical |-> 0, high |-> 1, info |-> 2, low |-> 3, medium |-> 4]

(* dict[k] = v *)
Put(d, k, v) == [x \in DOMAIN d \cup {k} |-> IF x = k THEN v ELSE d[x]]

(* A finding as a check makes it: a fresh identity, the default cluster.   *)
New(c) ==
  LET n == Cardinality(added) + 1
  IN  [id |-> n, fp |-> c.fp, rc |-> c.rc, ep |-> c.ep, sev |-> c.sev, conf |-> c.conf,
       evid |-> {n}, size |-> 1, affected |-> {}]

(* Faulty forms of the operators below. *)
MergeTwoOlder(a, b)    == a
OutranksByName(n, h)   == Alphabetical[n.sev] > Alphabetical[h.sev]
AffectedNew(h, n)      == {h.ep, n.ep}
RegisterOnce(f, m)     == ctx' = IF \E g \in ctx : g.id = m.id \/ g.rc \in {m.rc} \ {None}
                                 THEN ctx ELSE ctx \cup {m}

(* _merge_two: the severities are compared as strings. *)
MergeTwo(a, b) ==
  LET head == IF Alphabetical[a.sev] >= Alphabetical[b.sev] THEN a ELSE b
  IN  [head EXCEPT !.evid = a.evid \cup b.evid]

(* A new member leads the cluster if it is worse, or as bad and surer.     *)
Outranks(n, h) ==
  \/ SevRank[n.sev] > SevRank[h.sev]
  \/ SevRank[n.sev] = SevRank[h.sev] /\ ConfRank[n.conf] > ConfRank[h.conf]

(* cluster_size: a new head starts again from one. *)
Grown(h, n) == IF Outranks(n, h) THEN 2 ELSE h.size + 1

Affected(h, n) == h.affected \cup {h.ep, n.ep}

(* _merge_cluster *)
MergeCluster(h, n) ==
  [(IF Outranks(n, h) THEN n ELSE h) EXCEPT
     !.evid = h.evid \cup n.evid,
     !.size = Grown(h, n),
     !.affected = Affected(h, n)]

(* The fingerprint under which the merged finding of a cluster is stored.  *)
ClusterKey(f, m) == m.fp

(* _validate_one: what add() returned for f is appended unless its         *)
(* identity is known; a copy that is there is not replaced.                *)
Register(f, m) == ctx' = IF m.id \in Ids(ctx) THEN ctx ELSE ctx \cup {m}

Init ==
  /\ byFp = << >>
  /\ byRc = << >>
  /\ noKey = {}
  /\ ctx = {}
  /\ added = {}
  /\ members = [r \in Causes |-> {}]

-----------------------------------------------------------------------------
(* FindingDeduplicator.add and its caller *)

AddWithoutKey(f) ==
  /\ f.fp = None
  /\ noKey' = noKey \cup {f}
  /\ Register(f, f)
  /\ UNCHANGED <<byFp, byRc, members>>

AddSameFingerprint(f) ==
  /\ f.fp \in DOMAIN byFp
  /\ LET m == MergeTwo(byFp[f.fp], f)
     IN  byFp' = Put(byFp, f.fp, m) /\ Register(f, m)
  /\ UNCHANGED <<byRc, noKey, members>>

AddToCluster(f) ==
  /\ f.fp \notin {None} \cup DOMAIN byFp
  /\ f.rc \in DOMAIN byRc
  /\ LET m == MergeCluster(byRc[f.rc], f)
     IN  /\ byRc' = Put(byRc, f.rc, m)
         /\ byFp' = Put(byFp, ClusterKey(f, m), m)
         /\ Register(f, m)
  /\ members' = [members EXCEPT ![f.rc] = @ \cup {f}]
  /\ UNCHANGED noKey

AddFirst(f) ==
  /\ f.fp \notin {None} \cup DOMAIN byFp
  /\ f.rc \notin DOMAIN byRc
  /\ byFp' = Put(byFp, f.fp, f)
  /\ IF f.rc = None
     THEN UNCHANGED <<byRc, members>>
     ELSE /\ byRc' = Put(byRc, f.rc, f)
          /\ members' = [members EXCEPT ![f.rc] = @ \cup {f}]
  /\ Register(f, f)
  /\ UNCHANGED noKey

Add(f) ==
  /\ added' = added \cup {f}
  /\ \/ AddWithoutKey(f)
     \/ AddSameFingerprint(f)
     \/ AddToCluster(f)
     \/ AddFirst(f)

Next ==
  /\ Cardinality(added) < MaxFindings
  /\ \E c \in Pool : Add(New(c))

Spec == Init /\ [][Next]_vars

(* FindingDeduplicator.all *)
All == Range(byFp) \cup noKey

-----------------------------------------------------------------------------
(* Properties *)

(* The stores hold findings of their types, under the keys they carry.     *)
FindingsTypeOK ==
  /\ DOMAIN byFp \subseteq Fingerprints
  /\ \A k \in DOMAIN byFp : byFp[k] \in Finding /\ byFp[k].fp = k
  /\ DOMAIN byRc \subseteq Causes
  /\ \A r \in DOMAIN byRc : byRc[r] \in Finding /\ byRc[r].rc = r
  /\ noKey \subseteq Finding
  /\ ctx \subseteq Finding
  /\ added \subseteq Finding
  /\ members \in [Causes -> SUBSET added]

(* No finding is lost between the checks and the report: whatever was      *)
(* registered is in ctx.findings itself, or one with its fingerprint or    *)
(* its root cause is; and what the deduplicator holds as current is never  *)
(* missing there.                                                          *)
NothingLost ==
  /\ Ids(All) \subseteq Ids(ctx)
  /\ \A f \in added : \E g \in ctx : \/ g.id = f.id
                                     \/ f.fp # None /\ g.fp = f.fp
                                     \/ f.rc # None /\ g.rc = f.rc

Weight(f) == 5 * SevRank[f.sev] + ConfRank[f.conf]

(* A cluster speaks for its members whatever the order they came in: its   *)
(* evidence is theirs, its head is one of them, as bad as any and, among   *)
(* the worst, as sure as any, and the first that was.                      *)
ClusterFaithful ==
  \A r \in DOMAIN byRc :
    LET h == byRc[r]  M == members[r]
    IN  /\ h.evid = Ids(M)
        /\ h.id \in Ids(M)
        /\ \A n \in M : /\ Weight(n) <= Weight(h)
                        /\ n.id < h.id => Weight(n) < Weight(h)

(* A cluster of two or more names the endpoint of every member, those it   *)
(* had before a change of head included, and no other.                     *)
EndpointsComplete ==
  \A r \in DOMAIN byRc :
    Cardinality(members[r]) > 1 => byRc[r].affected = {n.ep : n \in members[r]}

(* The size of a cluster counts its members as long as the first of them   *)
(* leads it, and never exceeds their number afterwards.                    *)
SizeBound ==
  \A r \in DOMAIN byRc :
    LET h == byRc[r]  M == members[r]
    IN  /\ h.size <= Cardinality(M)
        /\ (\A n \in M : h.id <= n.id) => h.size = Cardinality(M)

(* Merging by fingerprint alone loses no evidence: when no finding with a  *)
(* fingerprint has a root cause, what is stored under it holds the         *)
(* evidence of them all.                                                   *)
EvidenceKept ==
  \A k \in DOMAIN byFp :
    LET same == {f \in added : f.fp = k}
    IN  (\A f \in same : f.rc = None) => byFp[k].evid = Ids(same)
=============================================================================
