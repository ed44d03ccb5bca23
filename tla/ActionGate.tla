----------------------------- MODULE ActionGate -----------------------------
(***************************************************************************)
(* The gate a check shows its plan to before it touches the target, and    *)
(* the log of its decisions.  A decision depends on the plan, on what the  *)
(* caller passes (allow_destructive, max_destructive_level), on the mode   *)
(* of the gate and, when it prompts, on the line the user types.           *)
(***************************************************************************)
EXTENDS Naturals, Sequences

CONSTANTS
  MaxAsks,   \* bound on the questions a behaviour asks the gate
  Plans,     \* the plans it is asked about
  Limits,    \* values of max_destructive_level
  Lines,     \* what a user types
  None       \* no level, no confirm word, no gate

(* A plan has no word (None, the empty string of the code) or the name of  *)
(* its action; none has the yes of the lower tiers for its word.           *)
ASSUME GateAssumption ==
  /\ MaxAsks \in Nat /\ Limits \subseteq Nat /\ None \notin Lines \cup {""}
  /\ \A plan \in Plans :
       /\ plan.risk \in 0..4 /\ plan.destructive \in BOOLEAN
       /\ plan.level \in 1..6 \cup {None}
       /\ plan.word \notin {"", "y"}

VARIABLES
  mode,     \* how the gate was built, or None: the checks run without one
  history   \* the decisions taken, in order

gateVars == <<mode, history>>

Mode == {"interactive", "non_interactive", "strict"}
LOW     == 1
BLOCKED == 4               \* 99 in the code; NONE, LOW, MEDIUM, HIGH are 0..3

Prompt(level) ==
  CASE level = 3 -> {"CONFIRM"}
    [] level = 4 -> {"CONFIRM-LEVEL-4"}
    [] level = 5 -> {"CONFIRM-LEVEL-5"}
    [] level = 6 -> {"CONFIRM-LEVEL-6"}
    [] OTHER     -> {}

(* Faulty form. *)
WeightUnset(plan) == IF plan.level = None THEN 2 ELSE plan.level

(* A plan without a level counts as "data destruction". *)
Weight(plan) == IF plan.level = None THEN 3 ELSE plan.level

Expected(plan) == ({plan.word} \ {None}) \cup Prompt(plan.level)

(* Levels 1 and 2 take a yes; from 3 on the user types a word. *)
Confirmed(plan, line) ==
  IF Weight(plan) <= 2 THEN line = "y" ELSE line \in Expected(plan)

MustUnlock(plan) == plan.destructive \/ plan.risk = BLOCKED

(* Does the gate read a line for this plan? *)
Prompts(plan, allow, max) ==
  IF MustUnlock(plan)
  THEN allow /\ Weight(plan) <= max /\ mode # "non_interactive"
  ELSE mode = "interactive" /\ plan.risk > LOW

Approves(plan, allow, max, line) ==
  IF MustUnlock(plan)
  THEN Prompts(plan, allow, max) /\ Confirmed(plan, line)
  ELSE \/ mode = "non_interactive"
       \/ plan.risk <= LOW
       \/ Prompts(plan, allow, max) /\ line = "y"

Decision(plan, allow, max, line) ==
  [plan |-> plan, allow |-> allow, max |-> max,
   line |-> IF Prompts(plan, allow, max) THEN line ELSE None,
   approved |-> Approves(plan, allow, max, line)]

Logged(d) == Append(history, d)

GateInit == mode \in Mode \cup {None} /\ history = <<>>

(* ask: decide and log. *)
Ask(plan, allow, max, line) ==
  /\ mode # None
  /\ history' = Logged(Decision(plan, allow, max, line))
  /\ UNCHANGED mode

GateAsk ==
  /\ Len(history) < MaxAsks
  /\ \E plan \in Plans, allow \in BOOLEAN, max \in Limits, line \in Lines :
       Ask(plan, allow, max, line)

GateSpec == GateInit /\ [][GateAsk]_gateVars

-----------------------------------------------------------------------------
Decisions == {history[i] : i \in DOMAIN history}

(* A bare yes never authorises what ranks as data destruction or worse,    *)
(* also when the plan does not say how destructive it is: the limit of the *)
(* operator and the tier of the prompt read the missing level alike, and   *)
(* nothing destructive passes a gate that cannot prompt (gate.py ask,      *)
(* _prompt_user_tiered).                                                   *)
TypedConsent ==
  \A d \in Decisions :
    d.approved /\ (d.plan.destructive \/ d.plan.risk = BLOCKED) =>
      /\ d.allow /\ mode # "non_interactive"
      /\ d.line \notin {"", None}
      /\ d.plan.level \notin {1, 2} => d.line # "y" /\ d.max >= 3

(* Two questions about one plan, answered alike whenever the user is asked *)
(* both times: the one under the looser limits is approved if the stricter *)
(* one is (gate.py ask).                                                   *)
ConsentMonotone ==
  \A d, e \in Decisions :
    /\ d.plan = e.plan /\ d.approved /\ e.line \in {d.line, None}
    /\ d.allow => e.allow
    /\ d.max <= e.max
    => e.approved

(* Consent means what was typed and no more: severe plans need their word, *)
(* and loosening the limits never turns a yes into a no (gate.py ask).     *)
Consent == TypedConsent /\ ConsentMonotone
=============================================================================
