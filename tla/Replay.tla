------------------------------- MODULE Replay -------------------------------
(***************************************************************************)
(* A replay: one recorded request is sent several times and the answers    *)
(* are compared.  Two endpoints, the replay of a finding and the raw       *)
(* repeater, share the engine and the verdict.                             *)
(***************************************************************************)
EXTENDS Integers, Sequences, FiniteSets

CONSTANTS
  ReplayCap,       \* 10: the most samples of a replay
  ReplayBodies,    \* the requests
  ReplayAnswers    \* what the target may answer

ASSUME ReplayAssumption ==
  /\ ReplayCap \in Nat \ {0}
  /\ \A r \in ReplayBodies : r.samples \in Int
  /\ \A a \in ReplayAnswers : a.status \in Nat /\ a.length \in Nat /\ a.time \in Nat

VARIABLES
  replayPc,   \* "off", "check", "send" or "done"
  request,    \* the request: which endpoint, samples, and what it finds
  code,       \* of the response, 0 before
  fates,      \* history: each send raised or was answered
  answers,    \* the answers the engine kept
  verdict     \* the badge, "none" before

replayVars == <<replayPc, request, code, fates, answers, verdict>>

ReplayOff ==
  /\ replayPc = "off" /\ request = [endpoint |-> "off"] /\ code = 0
  /\ fates = <<>> /\ answers = <<>> /\ verdict = "none"

ReplayInit ==
  /\ replayPc = "check" /\ request \in ReplayBodies /\ code = 0
  /\ fates = <<>> /\ answers = <<>> /\ verdict = "none"

(* The samples of a finding's replay are clipped; the repeater refuses     *)
(* others.                                                                 *)
Samples(r) ==
  IF r.samples < 1 THEN 1 ELSE IF r.samples > ReplayCap THEN ReplayCap ELSE r.samples

Refused(r) ==
  IF r.endpoint = "finding" /\ ~r.found THEN 404
  ELSE IF ~r.recipe \/ (r.endpoint = "raw" /\ r.samples \notin 1..ReplayCap) THEN 422
  ELSE 200

ReplayRefuse ==
  /\ replayPc = "check" /\ Refused(request) # 200
  /\ replayPc' = "done" /\ code' = Refused(request)
  /\ UNCHANGED <<request, fates, answers, verdict>>

ReplayBegin ==
  /\ replayPc = "check" /\ Refused(request) = 200
  /\ \/ replayPc' = "send" /\ UNCHANGED code
     \/ replayPc' = "done" /\ code' = 502      \* no client to send with
  /\ UNCHANGED <<request, fates, answers, verdict>>

Sampling == replayPc = "send" /\ Len(fates) < Samples(request)

(* A send that raises leaves no trace in the result. *)
SampleRaises ==
  /\ Sampling /\ fates' = Append(fates, "raised")
  /\ UNCHANGED <<replayPc, request, code, answers, verdict>>

SampleAnswered ==
  /\ Sampling /\ fates' = Append(fates, "answered")
  /\ \E a \in ReplayAnswers : answers' = Append(answers, a)
  /\ UNCHANGED <<replayPc, request, code, verdict>>

Kept == {answers[i] : i \in DOMAIN answers}

Spread(S) == IF S = {} THEN 0
             ELSE (CHOOSE a \in S : \A b \in S : b <= a) - (CHOOSE a \in S : \A b \in S : a <= b)

(* One status, and bodies that begin alike (200 characters). *)
Consistent ==
  /\ answers # <<>>
  /\ Cardinality({a.status : a \in Kept}) = 1
  /\ Cardinality({a.head : a \in Kept}) = 1

(* Faulty form. *)
ReliableOnce == Consistent

Reliable ==
  /\ Consistent
  /\ Spread({a.length : a \in Kept}) < 50
  /\ Spread({a.time : a \in Kept}) < 1000

Success(a) == a.status \in 200..399 /\ ~a.error

Verdict ==
  IF (\A a \in Kept : ~Success(a)) \/ ~Reliable THEN "Not verified"
  ELSE IF ~Consistent THEN "Flaky"
  ELSE "Reproducible"

ReplayEnds ==
  /\ replayPc = "send" /\ ~Sampling
  /\ replayPc' = "done" /\ code' = 200 /\ verdict' = Verdict
  /\ UNCHANGED <<request, fates, answers>>

ReplayNext ==
  ReplayRefuse \/ ReplayBegin \/ SampleRaises \/ SampleAnswered \/ ReplayEnds

ReplaySpec == ReplayInit /\ [][ReplayNext]_replayVars

-----------------------------------------------------------------------------
(* "Reproducible" is not given to answers that disagree: any two of those  *)
(* that were kept have one status below 400 and like bodies and times,     *)
(* whatever was lost between them (replay.py _verdict, ReplayEngine.replay,*)
(* is_reliable).                                                           *)
VerdictEarned ==
  verdict = "Reproducible" =>
    /\ \E i \in DOMAIN fates : fates[i] = "answered"
    /\ \A a, b \in Kept :
         /\ a.status = b.status /\ a.status \in 200..399 /\ a.head = b.head
         /\ a.length - b.length < 50 /\ a.time - b.time < 1000

(* There are between one and ten sends, whatever the request says, and     *)
(* each is a sample or is lost to an exception; a send may follow up to    *)
(* five redirects of its own (replay.py replay_finding, replay_raw).       *)
ReplayBounded ==
  /\ Len(fates) <= ReplayCap
  /\ code = 200 => /\ Len(fates) >= 1
                   /\ Len(answers) = Cardinality({i \in DOMAIN fates : fates[i] = "answered"})

(* A replay says "Reproducible" only of answers that agree, and makes no   *)
(* more sends than it may to find out.                                     *)
ReplayTrue == VerdictEarned /\ ReplayBounded
=============================================================================
