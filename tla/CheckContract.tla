--------------------------- MODULE CheckContract ----------------------------
(***************************************************************************)
(* What the orchestrator, and the operator, may rely on of every check: it  *)
(* sends nothing before it is allowed to and nothing once it is over, it    *)
(* reports once, and it ends.                                               *)
(***************************************************************************)
EXTENDS Naturals

CONSTANT Verdicts   \* what becomes of the candidate followed

VARIABLES
  phase,     \* "idle", "probing" or "over"
  allowed,   \* the operator's configuration and the gate allow the check
  sent,      \* the number of requests
  verdict    \* "none" or a member of Verdicts

contractVars == <<phase, allowed, sent, verdict>>

Init ==
  /\ phase = "idle" /\ allowed \in BOOLEAN /\ sent = 0 /\ verdict = "none"

(* Discover begins, or ends at once. *)
Start ==
  /\ phase = "idle" /\ phase' = "probing" /\ allowed'
  /\ UNCHANGED <<sent, verdict>>

Refuse ==
  /\ phase = "idle" /\ phase' = "over" /\ allowed' \in BOOLEAN
  /\ UNCHANGED <<sent, verdict>>

(* Requests, the last of which may end discover with nothing.  A check may *)
(* send a pair (a baseline and a probe) before it looks at either.         *)
Request ==
  /\ phase = "probing" /\ phase' \in {"probing", "over"}
  /\ sent' \in sent..(sent + 2)
  /\ UNCHANGED <<allowed, verdict>>

Report ==
  /\ phase = "probing" /\ phase' = "over"
  /\ verdict' \in Verdicts \cup {"none"}
  /\ UNCHANGED <<allowed, sent>>

Next == Start \/ Refuse \/ Request \/ Report

Spec == Init /\ [][Next]_contractVars /\ WF_contractVars(Report)
=============================================================================
