---------------------------- MODULE ChecksProofs ----------------------------
(***************************************************************************)
(* What the gate and the checks promise, for all plans, limits and answers *)
(* of the user, and whatever a target answers.                             *)
(*                                                                         *)
(* A step of any check begins it, sends a request or closes it (Begins,    *)
(* Sends, Closes): consent and the contract follow from that alone.  What  *)
(* a check finds is proved of the check by itself, from an invariant on    *)
(* its locals, its candidate and its wire, and the step of the others      *)
(* leaves it alone (NextOf).                                               *)
(***************************************************************************)
EXTENDS MCChecks, TLAPS, FiniteSetTheorems, SequenceTheorems

-----------------------------------------------------------------------------
(* The action gate *)

(* What the gate is asked: any plan of the instance, and those of the       *)
(* checks, which pass the limit 2.                                         *)
CheckPlans == {CanaryPlan, BolaPlan, BehaviorPlan}
AnyPlan  == Plans \cup CheckPlans
AnyLimit == Limits \cup {2}
AnyLine  == Lines \cup {""}

(* The decisions the gate in its present mode can take. *)
Possible ==
  {Decision(plan, allow, max, line) :
     plan \in AnyPlan, allow \in BOOLEAN, max \in AnyLimit, line \in AnyLine}

(* Consent follows from what the log is made of: every entry is a decision *)
(* of this gate, whose mode never changes.                                 *)
GateInv == history \in Seq(Possible)

(* An empty log holds no decision. *)
LEMMA GateInitInv == GateInit => GateInv
  BY DEF GateInit, GateInv

(* An entry is logged as it was decided, and none is changed. *)
LEMMA GateStep == GateInv /\ [GateAsk]_gateVars => GateInv'
<1> SUFFICES ASSUME GateInv, [GateAsk]_gateVars PROVE GateInv'
  OBVIOUS
<1>1. mode' = mode
  BY DEF GateAsk, Ask, gateVars
<1>2. Possible' = Possible
  BY <1>1 DEF Possible, Decision, Prompts, Approves
<1>3. CASE GateAsk
  <2>1. PICK plan \in Plans, allow \in BOOLEAN, max \in Limits, line \in Lines :
          Ask(plan, allow, max, line)
    BY <1>3 DEF GateAsk
  <2>2. history' = Append(history, Decision(plan, allow, max, line))
    BY <2>1 DEF Ask, Logged
  <2>3. Decision(plan, allow, max, line) \in Possible
    <3>1. plan \in AnyPlan /\ max \in AnyLimit /\ line \in AnyLine
      BY DEF AnyPlan, AnyLimit, AnyLine
    <3> QED
      BY <3>1 DEF Possible
  <2>4. history' \in Seq(Possible)
    <3> HIDE DEF Possible
    <3> QED
      BY <2>2, <2>3 DEF GateInv
  <2> QED
    BY <1>2, <2>4 DEF GateInv
<1>4. CASE UNCHANGED gateVars
  BY <1>2, <1>4 DEF GateInv, gateVars
<1> QED
  BY <1>3, <1>4

(* The plans of the checks are like those of the instance. *)
LEMMA PlanShape ==
  ASSUME NEW plan \in AnyPlan
  PROVE  /\ plan.level \in 1..6 \cup {None}
         /\ plan.word = None \/ plan.word \notin {"", "y"}
<1>1. CASE plan \in Plans
  BY <1>1, GateAssumption
<1>2. CASE plan \in CheckPlans
  <2>1. plan.level = None /\ plan.word = None
    BY <1>2 DEF CheckPlans, CanaryPlan, BolaPlan, BehaviorPlan
  <2> QED
    BY <2>1
<1> QED
  BY <1>1, <1>2 DEF AnyPlan

(* The limits are numbers. *)
LEMMA LimitShape == AnyLimit \subseteq Nat
<1>1. Limits \subseteq Nat /\ 2 \in Nat
  BY GateAssumption
<1> QED
  BY <1>1 DEF AnyLimit

(* The words of a plan are not the yes of the lower tiers, and not empty.  *)
LEMMA ExpectedWords ==
  ASSUME NEW plan \in AnyPlan, NEW line \in Expected(plan), line # None
  PROVE  line \notin {"", "y"}
  BY PlanShape DEF Expected, Prompt

(* A plan weighs between one and six, and three without a level. *)
LEMMA WeightRange ==
  ASSUME NEW plan \in AnyPlan
  PROVE  Weight(plan) \in 1..6 /\ (plan.level \notin {1, 2} => Weight(plan) >= 3)
<1>1. plan.level = None \/ plan.level \in 1..6
  BY PlanShape
<1>2. CASE plan.level = None
  BY <1>2 DEF Weight
<1>3. CASE plan.level # None /\ plan.level \in 1..6
  BY <1>3 DEF Weight
<1> QED
  BY <1>1, <1>2, <1>3

(* One decision is what was consented to. *)
LEMMA DecisionConsents ==
  ASSUME NEW plan \in AnyPlan, NEW allow \in BOOLEAN, NEW max \in AnyLimit, NEW line \in AnyLine,
         MustUnlock(plan), Approves(plan, allow, max, line)
  PROVE  /\ allow /\ mode # "non_interactive" /\ Prompts(plan, allow, max)
         /\ line \notin {"", None}
         /\ plan.level \notin {1, 2} => line # "y" /\ max >= 3
<1>1. /\ Prompts(plan, allow, max) /\ Confirmed(plan, line) /\ line # None
      /\ allow /\ Weight(plan) <= max /\ mode # "non_interactive"
  BY GateAssumption DEF Approves, Prompts, AnyLine
<1>6. max \in Nat
  BY LimitShape
<1>2. /\ max \in Nat /\ Weight(plan) \in 1..6
      /\ plan.level \notin {1, 2} => Weight(plan) >= 3
  BY <1>6, WeightRange
<1>3. CASE Weight(plan) <= 2
  BY <1>1, <1>2, <1>3 DEF Confirmed
<1>4. CASE Weight(plan) > 2
  <2>1. line \in Expected(plan)
    BY <1>1, <1>2, <1>4 DEF Confirmed
  <2>2. line \notin {"", "y"}
    BY <1>1, <2>1, ExpectedWords
  <2>3. max >= 3
    BY <1>1, <1>2, <1>4
  <2> QED
    BY <1>1, <2>2, <2>3
<1>5. Weight(plan) <= 2 \/ Weight(plan) > 2
  BY <1>2
<1> QED
  BY <1>3, <1>4, <1>5

(* A log of such decisions has the consent of every plan it approved. *)
LEMMA InvGivesConsent == GateInv => Consent
<1> SUFFICES ASSUME GateInv PROVE TypedConsent /\ ConsentMonotone
  BY DEF Consent
<1>1. ASSUME NEW d \in Decisions
      PROVE  \E plan \in AnyPlan, allow \in BOOLEAN, max \in AnyLimit, line \in AnyLine :
               d = Decision(plan, allow, max, line)
  <2>1. d \in Possible
    <3> HIDE DEF Possible
    <3> QED
      BY DEF Decisions, GateInv
  <2> QED
    BY <2>1 DEF Possible
<1>2. TypedConsent
  <2> SUFFICES ASSUME NEW d \in Decisions, d.approved,
                      d.plan.destructive \/ d.plan.risk = BLOCKED
               PROVE  /\ d.allow /\ mode # "non_interactive"
                      /\ d.line \notin {"", None}
                      /\ d.plan.level \notin {1, 2} => d.line # "y" /\ d.max >= 3
    BY DEF TypedConsent
  <2>1. PICK plan \in AnyPlan, allow \in BOOLEAN, max \in AnyLimit, line \in AnyLine :
          d = Decision(plan, allow, max, line)
    BY <1>1
  <2>2. /\ d.plan = plan /\ d.allow = allow /\ d.max = max
        /\ d.line = IF Prompts(plan, allow, max) THEN line ELSE None
        /\ d.approved = Approves(plan, allow, max, line)
    BY <2>1 DEF Decision
  <2>3. MustUnlock(plan) /\ Approves(plan, allow, max, line)
    BY <2>2 DEF MustUnlock
  <2> QED
    BY <2>2, <2>3, DecisionConsents
<1>3. ConsentMonotone
  <2> SUFFICES ASSUME NEW d \in Decisions, NEW e \in Decisions,
                      d.plan = e.plan, d.approved, e.line \in {d.line, None},
                      d.allow => e.allow, d.max <= e.max
               PROVE  e.approved
    BY DEF ConsentMonotone
  <2>1. PICK plan \in AnyPlan, allow \in BOOLEAN, max \in AnyLimit, line \in AnyLine :
          d = Decision(plan, allow, max, line)
    BY <1>1
  <2>2. PICK plan2 \in AnyPlan, allow2 \in BOOLEAN, max2 \in AnyLimit, line2 \in AnyLine :
          e = Decision(plan2, allow2, max2, line2)
    BY <1>1
  <2>3. /\ plan2 = plan /\ (allow => allow2) /\ max <= max2
        /\ Approves(plan, allow, max, line)
        /\ e.approved = Approves(plan, allow2, max2, line2)
        /\ d.line = IF Prompts(plan, allow, max) THEN line ELSE None
        /\ e.line = IF Prompts(plan, allow2, max2) THEN line2 ELSE None
    BY <2>1, <2>2 DEF Decision
  <2>4. line2 # None /\ max \in Nat /\ max2 \in Nat
    <3>1. line2 # None
      BY GateAssumption DEF AnyLine
    <3>2. max \in Nat /\ max2 \in Nat
      BY LimitShape
    <3> QED
      BY <3>1, <3>2
  <2>5. CASE MustUnlock(plan)
    <3>1. Weight(plan) \in Nat
      BY WeightRange
    <3>2. Prompts(plan, allow, max) /\ Confirmed(plan, line)
      BY <2>3, <2>5 DEF Approves
    <3>3. Prompts(plan, allow2, max2)
      BY <2>3, <2>4, <2>5, <3>1, <3>2 DEF Prompts
    <3>4. line2 = line
      BY <2>3, <2>4, <3>2, <3>3
    <3> QED
      BY <2>3, <2>5, <3>2, <3>3, <3>4 DEF Approves
  <2>6. CASE ~MustUnlock(plan)
    <3>1. Prompts(plan, allow, max) <=> Prompts(plan, allow2, max2)
      BY <2>6 DEF Prompts
    <3>2. Prompts(plan, allow, max) => line2 = line
      BY <2>3, <2>4, <3>1
    <3> QED
      BY <2>3, <2>6, <3>1, <3>2 DEF Approves
  <2> QED
    BY <2>5, <2>6
<1> QED
  BY <1>2, <1>3

(* For every set of plans, limits and lines and every number of questions: *)
(* what destroys needs a typed word, and looser limits never turn a yes    *)
(* into a no (gate.py ask, _prompt_user_tiered).                           *)
THEOREM GateTakesConsent == GateSpec => []Consent
  BY GateInitInv, GateStep, InvGivesConsent, PTL DEF GateSpec

-----------------------------------------------------------------------------
(* Steps *)

IsSeq(s) == s \in Seq(Range(s))

(* What a list is made of is no matter: it is a sequence of its members. *)
LEMMA SeqIsSeq ==
  ASSUME NEW S, NEW s \in Seq(S)
  PROVE  IsSeq(s)
<1>1. s \in [1..Len(s) -> S] /\ Len(s) \in Nat
  BY LenProperties
<1>2. s \in [1..Len(s) -> Range(s)]
  BY <1>1 DEF Range
<1> QED
  BY <1>1, <1>2 DEF IsSeq

(* Lists in a row are a list. *)
LEMMA SeqGrows ==
  ASSUME NEW s, NEW t, IsSeq(s), IsSeq(t)
  PROVE  IsSeq(s \o t) /\ Len(s \o t) = Len(s) + Len(t)
<1> DEFINE S == Range(s) \cup Range(t)
<1>1. s \in Seq(S) /\ t \in Seq(S)
  BY SeqMonotonic DEF IsSeq
<1> HIDE DEF S
<1>2. s \o t \in Seq(S) /\ Len(s \o t) = Len(s) + Len(t)
  BY <1>1, ConcatProperties
<1> QED
  BY <1>2, SeqIsSeq

(* The lists one step sends. *)
LEMMA ShortSeqs ==
  /\ IsSeq(<<>>) /\ Len(<<>>) = 0
  /\ \A x : IsSeq(<<x>>) /\ Len(<<x>>) = 1
  /\ \A x, y : IsSeq(<<x, y>>) /\ Len(<<x, y>>) = 2
<1>1. IsSeq(<<>>) /\ Len(<<>>) = 0
  BY SeqIsSeq, EmptySeq
<1>2. ASSUME NEW x PROVE IsSeq(<<x>>) /\ Len(<<x>>) = 1
  <2>1. <<x>> \in Seq({x})
    OBVIOUS
  <2> QED
    BY <2>1, SeqIsSeq
<1>3. ASSUME NEW x, NEW y PROVE IsSeq(<<x, y>>) /\ Len(<<x, y>>) = 2
  <2>1. <<x, y>> \in Seq({x, y})
    OBVIOUS
  <2> QED
    BY <2>1, SeqIsSeq
<1> QED
  BY <1>1, <1>2, <1>3

(* A list takes one more. *)
LEMMA AppendIsSeq ==
  ASSUME NEW s, NEW x, IsSeq(s)
  PROVE  IsSeq(Append(s, x)) /\ Len(Append(s, x)) = Len(s) + 1
<1> DEFINE S == Range(s) \cup {x}
<1>1. s \in Seq(S) /\ x \in S
  BY SeqMonotonic DEF IsSeq
<1> HIDE DEF S
<1>2. Append(s, x) \in Seq(S) /\ Len(Append(s, x)) = Len(s) + 1
  BY <1>1
<1> QED
  BY <1>2, SeqIsSeq

(* The three kinds of step a check takes: it begins, it asks, it is over.  *)
Begins ==
  /\ pc = "start" /\ pc' # "start" /\ (pc' # "done" => Allowed')
  /\ \/ history' = history
     \/ \E plan \in CheckPlans, allow \in BOOLEAN, line \in AnyLine :
          history' = Append(history, Decision(plan, allow, 2, line))
  /\ UNCHANGED <<check, env, cand, wire, result, mode>>
Sends ==
  /\ pc \notin {"start", "done"} /\ pc' # "start"
  /\ \/ wire' = wire \/ wire' = wire \o <<>>
     \/ \E x : wire' = wire \o <<x>> \/ wire' = Append(wire, x)
     \/ \E x, y : wire' = wire \o <<x, y>>
  /\ UNCHANGED <<check, env, result, mode, history>>
Verdicts == Outcome \cup {"dropped", "unreported"}
Ruling == IF result = Nothing THEN "none"
          ELSE IF result.stage = "reported" THEN result.finding.status
          ELSE result.stage
Closes ==
  /\ pc \notin {"start", "done"} /\ pc' = "done"
  /\ Ruling' \in Verdicts \cup {"none"}
  /\ UNCHANGED <<check, env, loc, cand, wire, mode, history>>
Moves == Begins \/ Sends \/ Closes

(* No verdict before the check is over, and the requests are a list. *)
RunInv ==
  /\ pc # "done" => result = Nothing
  /\ pc = "start" => wire = <<>> /\ cand = Nothing
  /\ IsSeq(wire)
  /\ env \in Consents
  /\ GateInv

(* A list of requests grows by the few that one step sends. *)
LEMMA WireGrows ==
  ASSUME RunInv
  PROVE  /\ Len(wire) \in Nat
         /\ IsSeq(wire \o <<>>) /\ Len(wire \o <<>>) = Len(wire)
         /\ \A x : IsSeq(wire \o <<x>>) /\ Len(wire \o <<x>>) = Len(wire) + 1
         /\ \A x, y : /\ IsSeq(wire \o <<x, y>>)
                      /\ Len(wire \o <<x, y>>) = Len(wire) + 2
<1>1. IsSeq(wire) /\ Len(wire) \in Nat
  BY LenProperties DEF RunInv, IsSeq
<1>2. IsSeq(wire \o <<>>) /\ Len(wire \o <<>>) = Len(wire) + 0
  BY <1>1, SeqGrows, ShortSeqs
<1>3. ASSUME NEW x PROVE IsSeq(wire \o <<x>>) /\ Len(wire \o <<x>>) = Len(wire) + 1
  BY <1>1, SeqGrows, ShortSeqs
<1>4. ASSUME NEW x, NEW y
      PROVE  IsSeq(wire \o <<x, y>>) /\ Len(wire \o <<x, y>>) = Len(wire) + 2
  BY <1>1, SeqGrows, ShortSeqs
<1> QED
  BY <1>1, <1>2, <1>3, <1>4

(* validate and assess end a check with one ruling, or none. *)
LEMMA JudgeCloses ==
  ASSUME RunInv, NEW c, NEW v, NEW e, NEW f, Judge(c, Reported(v, e, f)),
         f = Nothing \/ [f EXCEPT !.status = Status(v.outcome),
                                  !.confidence = v.confidence].status \in Outcome
  PROVE  Closes
<1>1. /\ pc = "judge" /\ pc' = "done"
      /\ result' = IF cand = Nothing THEN result ELSE Reported(v, e, f)
      /\ UNCHANGED <<check, env, loc, cand, wire, mode, history>>
  BY DEF Judge, At, gateVars
<1>2. CASE cand = Nothing
  BY <1>1, <1>2 DEF RunInv, Closes, Ruling
<1>3. CASE cand # Nothing
  <2>1. Ruling' \in Verdicts \cup {"none"}
    BY <1>1, <1>3 DEF Ruling, Reported, Verdicts, Nothing
  <2> QED
    BY <1>1, <2>1 DEF Closes
<1> QED
  BY <1>2, <1>3

(* A check without a gate begins authorised, or not at all. *)
LEMMA BeginBegins ==
  ASSUME NEW c, NEW active \in BOOLEAN, NEW stage, NEW locals,
         Begin(c, active, stage, locals), stage # "start",
         stage # "done" => c \notin Gated /\ (active \/ c \notin Active)
  PROVE  check = c /\ Begins
<1>1. /\ check = c /\ pc = "start"
      /\ pc' = IF active /\ ~Authorised THEN "done" ELSE stage
      /\ UNCHANGED <<check, env, cand, wire, result, mode, history>>
  BY DEF Begin, At, Step, Keeps, gateVars
<1>2. ASSUME pc' # "done" PROVE Allowed'
  BY <1>1, <1>2 DEF Allowed, Authorised, NeedsTerms, Active, Gated
<1> QED
  BY <1>1, <1>2 DEF Begins, Active, Gated

(* A check with a gate begins authorised and approved, or not at all. *)
LEMMA BeginGatedBegins ==
  ASSUME RunInv, NEW c, NEW plan \in CheckPlans, NEW stage, NEW locals,
         BeginGated(c, plan, stage, locals), stage # "start"
  PROVE  check = c /\ Begins
<1>1. /\ check = c /\ pc = "start"
      /\ UNCHANGED <<check, env, cand, wire, result, mode>>
      /\ pc' # "done" => Authorised /\ Proceeds
      /\ pc' \in {"done", stage}
  BY DEF BeginGated, At, Step
<1>2. ASSUME pc' # "done", mode # None PROVE history' # <<>>
  <2>1. PICK d : history' = Append(history, d)
    BY <1>2 DEF BeginGated, Logged, Step
  <2> QED
    BY <2>1 DEF RunInv, GateInv
<1>3. ASSUME pc' # "done" PROVE Allowed'
  BY <1>1, <1>2, <1>3 DEF Allowed, Authorised, Proceeds, NeedsTerms, Active, Gated
<1>4. env.allow \in BOOLEAN
  BY RunAssumption DEF RunInv
<1>5. \/ history' = history
      \/ \E line \in AnyLine : history' = Append(history, Decision(plan, env.allow, 2, line))
  BY DEF BeginGated, Logged, AnyLine
<1> QED
  BY <1>1, <1>3, <1>4, <1>5 DEF Begins

(* Every step of every check is of one of these kinds: xss. *)
LEMMA XssMoves ==
  ASSUME RunInv, XssNext
  PROVE  check = "xss" /\ Moves
<1>1. CASE XssBegin
  BY <1>1, BeginGatedBegins DEF XssBegin, CheckPlans, Moves, Active, Gated
<1>2. CASE XssHome
  BY <1>2 DEF XssHome, Moves, At, Probe, Step, Sent, Keeps, gateVars, Sends
<1>3. CASE XssParam
  BY <1>3 DEF XssParam, Moves, At, Probe, Step, Sent, Keeps, gateVars, Sends
<1>4. CASE XssJson
  BY <1>4 DEF XssJson, Moves, At, Probe, Step, Sent, Keeps, gateVars, Sends
<1>5. CASE Judge("xss", Reported(XssValidate(cand), XssEvidence(cand), XssAssess(cand)))
  BY <1>5, JudgeCloses DEF XssValidate, XssAssess, Status, Outcome, Moves, Judge, At
<1> QED
  BY <1>1, <1>2, <1>3, <1>4, <1>5 DEF XssNext

(* sqli-time-based. *)
LEMMA SqliMoves ==
  ASSUME RunInv, SqliNext
  PROVE  check = "sqli" /\ Moves
<1>1. CASE SqliBegin
  BY <1>1, BeginGatedBegins DEF SqliBegin, CheckPlans, Moves, Active, Gated
<1>2. CASE SqliCheap
  BY <1>2 DEF SqliCheap, Measure, Moves, At, Probe, Step, Sent, Keeps, gateVars, Sends
<1>3. CASE Measure("sqli")
  BY <1>3 DEF Measure, Moves, At, Probe, Step, Sent, Keeps, gateVars, Sends
<1>4. CASE SqliVerdict
  BY <1>4 DEF SqliVerdict, Measure, Moves, At, Probe, Step, Sent, Keeps, gateVars, Sends
<1>5. CASE Judge("sqli", Reported(SqliValidate(cand), SqliEvidence(cand), SqliAssess(cand)))
  BY <1>5, JudgeCloses DEF SqliValidate, SqliAssess, Status, Outcome, Moves, Judge, At
<1> QED
  BY <1>1, <1>2, <1>3, <1>4, <1>5 DEF SqliNext

(* command-injection. *)
LEMMA CmdiMoves ==
  ASSUME RunInv, CmdiNext
  PROVE  check = "cmdi" /\ Moves
<1>1. CASE CmdiBegin
  BY <1>1, BeginGatedBegins DEF CmdiBegin, CheckPlans, Moves, Active, Gated
<1>2. CASE Measure("cmdi")
  BY <1>2 DEF Measure, Moves, At, Probe, Step, Sent, Keeps, gateVars, Sends
<1>3. CASE CmdiVerdict
  BY <1>3 DEF CmdiVerdict, Measure, Moves, At, Probe, Step, Sent, Keeps, gateVars, Sends
<1>4. CASE Judge("cmdi", Reported(CmdiValidate(cand), CmdiEvidence(cand), CmdiAssess(cand)))
  BY <1>4, JudgeCloses DEF CmdiValidate, CmdiAssess, Status, Outcome, Moves, Judge, At
<1> QED
  BY <1>1, <1>2, <1>3, <1>4 DEF CmdiNext

(* ssrf. *)
LEMMA SsrfMoves ==
  ASSUME RunInv, SsrfNext
  PROVE  check = "ssrf" /\ Moves
<1>1. CASE SsrfBegin
  <2>1. /\ check = "ssrf" /\ pc = "start" /\ pc' \in {"ssrf_home", "done"}
        /\ UNCHANGED <<check, env, cand, wire, result, mode>>
    BY <1>1 DEF SsrfBegin, At, Step
  <2>2. ASSUME pc' # "done" PROVE Allowed'
    <3>1. env.active /\ Proceeds
      BY <1>1, <2>2 DEF SsrfBegin, Usable, Step
    <3>2. ASSUME mode # None PROVE history' # <<>>
      <4>1. PICK d : history' = Append(history, d)
        BY <1>1, <2>2, <3>2 DEF SsrfBegin, Logged, Step
      <4> QED
        BY <4>1 DEF RunInv, IsSeq
    <3> QED
      BY <2>1, <3>1, <3>2 DEF Allowed, Proceeds, NeedsTerms
  <2>3. env.allow \in BOOLEAN /\ CanaryPlan \in CheckPlans /\ "" \in AnyLine
    BY RunAssumption DEF RunInv, CheckPlans, AnyLine
  <2>4. \/ history' = history
        \/ history' = Append(history, Decision(CanaryPlan, env.allow, 2, ""))
    BY <1>1 DEF SsrfBegin, Logged
  <2> QED
    BY <2>1, <2>2, <2>3, <2>4 DEF Moves, Begins
<1>2. CASE SsrfHome
  BY <1>2 DEF SsrfHome, SsrfPoll, Moves, At, Probe, Step, Sent, Keeps, gateVars, Sends
<1>3. CASE SsrfProbe
  BY <1>3 DEF SsrfProbe, SsrfPoll, Moves, At, Probe, Step, Sent, Keeps, gateVars, Sends
<1>4. CASE SsrfCallback
  BY <1>4 DEF SsrfCallback, Is, Moves, At, Probe, Step, Sent, Keeps, gateVars, Sends
<1>5. CASE SsrfPoll("ssrf_poll", "ssrf_again")
  BY <1>5 DEF SsrfPoll, Moves, At, Probe, Step, Sent, Keeps, gateVars, Sends
<1>6. CASE SsrfPoll("ssrf_again", "judge")
  BY <1>6 DEF SsrfPoll, Moves, At, Probe, Step, Sent, Keeps, gateVars, Sends
<1>7. CASE Judge("ssrf", Reported(SsrfValidate(cand), SsrfEvidence(cand), SsrfAssess(cand)))
  BY <1>7, JudgeCloses DEF SsrfValidate, SsrfAssess, Status, Outcome, Moves, Judge, At
<1> QED
  BY <1>1, <1>2, <1>3, <1>4, <1>5, <1>6, <1>7 DEF SsrfNext

(* path-traversal. *)
LEMMA TraversalMoves ==
  ASSUME RunInv, TraversalNext
  PROVE  check = "traversal" /\ Moves
<1>1. CASE TraversalBegin
  BY <1>1, BeginGatedBegins DEF TraversalBegin, CheckPlans, Moves, Active, Gated
<1>2. CASE TraversalBaseline
  BY <1>2 DEF TraversalBaseline, Moves, At, Probe, Step, Sent, Keeps, gateVars, Sends
<1>3. CASE TraversalProbe
  BY <1>3 DEF TraversalProbe, Moves, At, Probe, Step, Sent, Keeps, gateVars, Sends
<1>4. CASE Judge("traversal", Reported(TraversalValidate(cand), TraversalEvidence(cand), TraversalAssess(cand)))
  BY <1>4, JudgeCloses DEF TraversalValidate, TraversalAssess, Status, Outcome, Moves, Judge, At
<1> QED
  BY <1>1, <1>2, <1>3, <1>4 DEF TraversalNext

(* bola. *)
LEMMA BolaMoves ==
  ASSUME RunInv, BolaNext
  PROVE  check = "bola" /\ Moves
<1>1. CASE BolaBegin
  BY <1>1, BeginBegins, BeginGatedBegins DEF BolaBegin, CheckPlans, Moves, Active, Gated
<1>2. CASE BolaOwner
  BY <1>2 DEF BolaOwner, SkipResource, NextBola, Moves, At, Probe, Step, Sent, Keeps, gateVars, Sends
<1>3. CASE BolaOther
  BY <1>3 DEF BolaOther, SkipResource, NextBola, Moves, At, Probe, Step, Sent, Keeps, gateVars, Sends
<1>4. CASE Judge("bola", Reported(BolaValidate(cand), BolaEvidence(cand), BolaAssess(cand)))
  BY <1>4, JudgeCloses DEF BolaValidate, BolaAssess, Status, Outcome, Moves, Judge, At
<1> QED
  BY <1>1, <1>2, <1>3, <1>4 DEF BolaNext

(* session-cookie. *)
LEMMA SessionMoves ==
  ASSUME RunInv, SessionNext
  PROVE  check = "session" /\ Moves
<1>1. CASE SessionBegin
  BY <1>1, BeginBegins DEF SessionBegin, Moves, Active, Gated
<1>2. CASE SessionHome
  BY <1>2 DEF SessionHome, Moves, At, Probe, Step, Sent, Keeps, gateVars, Sends
<1>3. CASE SessionCanary
  BY <1>3 DEF SessionCanary, Moves, At, Probe, Step, Sent, Keeps, gateVars, Sends
<1>4. CASE SessionVectors
  BY <1>4 DEF SessionVectors, Moves, At, Probe, Step, Sent, Keeps, gateVars, Sends
<1>5. CASE Judge("session", Reported(SessionValidate(cand), SessionEvidence(cand), SessionAssess(cand)))
  BY <1>5, JudgeCloses DEF SessionValidate, SessionAssess, Status, Outcome, Moves, Judge, At
<1> QED
  BY <1>1, <1>2, <1>3, <1>4, <1>5 DEF SessionNext

(* graphql. *)
LEMMA GraphqlMoves ==
  ASSUME RunInv, GraphqlNext
  PROVE  check = "graphql" /\ Moves
<1>1. CASE GraphqlBegin
  BY <1>1, BeginBegins DEF GraphqlBegin, Moves, Active, Gated
<1>2. CASE GraphqlSchema
  BY <1>2 DEF GraphqlSchema, NextPath, Moves, At, Probe, Step, Sent, Keeps, gateVars, Sends
<1>3. CASE GraphqlType
  BY <1>3 DEF GraphqlType, NextPath, Moves, At, Probe, Step, Sent, Keeps, gateVars, Sends
<1>4. CASE GraphqlFuzz
  BY <1>4 DEF GraphqlFuzz, NextPath, Moves, At, Probe, Step, Sent, Keeps, gateVars, Sends
<1>5. CASE Judge("graphql", Reported(GraphqlValidate(cand), GraphqlEvidence(cand), GraphqlAssess(cand)))
  BY <1>5, JudgeCloses DEF GraphqlValidate, GraphqlAssess, Status, Outcome, Moves, Judge, At
<1> QED
  BY <1>1, <1>2, <1>3, <1>4, <1>5 DEF GraphqlNext

(* mass-assignment. *)
LEMMA MassMoves ==
  ASSUME RunInv, MassNext
  PROVE  check = "mass" /\ Moves
<1>1. CASE MassBegin
  BY <1>1, BeginBegins DEF MassBegin, Moves, Active, Gated
<1>2. CASE MassRead
  BY <1>2 DEF MassRead, Moves, At, Probe, Step, Sent, Keeps, gateVars, Sends
<1>3. CASE MassWrite
  BY <1>3 DEF MassWrite, Moves, At, Probe, Step, Sent, Keeps, gateVars, Sends
<1>4. CASE Judge("mass", Reported(MassValidate(cand), MassEvidence(cand), MassAssess(cand)))
  BY <1>4, JudgeCloses DEF MassValidate, MassAssess, Status, Outcome, Moves, Judge, At
<1> QED
  BY <1>1, <1>2, <1>3, <1>4 DEF MassNext

(* http-methods. *)
LEMMA MethodsMoves ==
  ASSUME RunInv, MethodsNext
  PROVE  check = "methods" /\ Moves
<1>1. CASE MethodsBegin
  BY <1>1, BeginBegins DEF MethodsBegin, Moves, Active, Gated
<1>2. CASE MethodsOptions
  BY <1>2 DEF MethodsOptions, Use, Raised, Moves, At, Probe, Step, Sent, Keeps, gateVars, Sends
<1>3. CASE MethodsProbe
  BY <1>3 DEF MethodsProbe, Use, Raised, Moves, At, Probe, Step, Sent, Keeps, gateVars, Sends
<1>4. CASE Judge("methods", Reported(MethodsValidate(cand), MethodsEvidence(cand), MethodsAssess(cand)))
  BY <1>4, JudgeCloses DEF MethodsValidate, MethodsAssess, Status, Outcome, Moves, Judge, At
<1> QED
  BY <1>1, <1>2, <1>3, <1>4 DEF MethodsNext

(* bfla, behavior and invalidation. *)
LEMMA AuthorizationMoves ==
  ASSUME RunInv, AuthorizationNext
  PROVE  check \in {"bfla", "behavior", "invalidation"} /\ Moves
<1>1. CASE BflaBegin
  BY <1>1, BeginBegins DEF BflaBegin, Moves, Active, Gated
<1>2. CASE BflaPath
  BY <1>2 DEF BflaPath, Onward, Get, Moves, At, Probe, Step, Sent, Keeps, gateVars, Sends
<1>3. CASE Judge("bfla", Reported(BflaValidate(cand), BflaEvidence(cand), BflaAssess(cand)))
  BY <1>3, JudgeCloses DEF BflaValidate, BflaAssess, Status, Outcome, Moves, Judge, At
<1>4. CASE BehaviorBegin
  BY <1>4, BeginBegins, BeginGatedBegins DEF BehaviorBegin, CheckPlans, Moves, Active, Gated
<1>5. CASE BehaviorPath
  BY <1>5 DEF BehaviorPath, Onward, Get, Moves, At, Probe, Step, Sent, Keeps, gateVars, Sends
<1>6. CASE Judge("behavior", Reported(BehaviorValidate(cand), BehaviorEvidence(cand), BehaviorAssess(cand)))
  BY <1>6, JudgeCloses DEF BehaviorValidate, BehaviorAssess, Status, Outcome, Moves, Judge, At
<1>7. CASE InvalidationBegin
  <2>1. /\ check = "invalidation" /\ pc = "start" /\ pc' = "done"
        /\ UNCHANGED <<check, env, cand, wire, result, mode, history>>
    BY <1>7 DEF InvalidationBegin, At, Step, Keeps, gateVars, IsAuthenticated, Identity
  <2> QED
    BY <2>1 DEF Moves, Begins
<1> QED
  BY <1>1, <1>2, <1>3, <1>4, <1>5, <1>6, <1>7 DEF AuthorizationNext

(* The checks that observe only. *)
LEMMA ObservationMoves ==
  ASSUME RunInv, ObservationNext
  PROVE  check \in {"headers", "cors", "redirect", "sourcemap", "disclosure"} /\ Moves
<1>1. CASE HeadersBegin
  BY <1>1, BeginBegins DEF HeadersBegin, Moves, Active, Gated
<1>2. CASE HeadersGet
  BY <1>2 DEF HeadersGet, Following, Url, Raised, Moves, At, Probe, Step, Sent, Keeps, gateVars, Sends
<1>3. CASE Judge("headers", Reported(HeadersValidate(cand), HeadersEvidence(cand), HeadersAssess(cand)))
  BY <1>3, JudgeCloses DEF HeadersValidate, HeadersAssess, Status, Outcome, Moves, Judge, At, Always
<1>4. CASE CorsBegin
  BY <1>4, BeginBegins DEF CorsBegin, Moves, Active, Gated
<1>5. CASE CorsPreflight
  BY <1>5 DEF CorsPreflight, Following, Url, Raised, Moves, At, Probe, Step, Sent, Keeps, gateVars, Sends
<1>6. CASE CorsGet
  BY <1>6 DEF CorsGet, Following, Url, Raised, Moves, At, Probe, Step, Sent, Keeps, gateVars, Sends
<1>7. CASE Judge("cors", Reported(CorsValidate(cand), CorsEvidence(cand), CorsAssess(cand)))
  BY <1>7, JudgeCloses DEF CorsValidate, CorsAssess, Status, Outcome, Moves, Judge, At, Always
<1>8. CASE RedirectBegin
  BY <1>8, BeginBegins DEF RedirectBegin, Moves, Active, Gated
<1>9. CASE RedirectHome
  BY <1>9 DEF RedirectHome, Following, Url, Raised, Moves, At, Probe, Step, Sent, Keeps, gateVars, Sends
<1>10. CASE RedirectProbe
  BY <1>10 DEF RedirectProbe, Following, Url, Raised, Moves, At, Probe, Step, Sent, Keeps, gateVars, Sends
<1>11. CASE Judge("redirect", Reported(RedirectValidate(cand), RedirectEvidence(cand), RedirectAssess(cand)))
  BY <1>11, JudgeCloses DEF RedirectValidate, RedirectAssess, Status, Outcome, Moves, Judge, At, Always
<1>12. CASE SourceMapBegin
  BY <1>12, BeginBegins DEF SourceMapBegin, Moves, Active, Gated
<1>13. CASE SourceMapHome
  BY <1>13 DEF SourceMapHome, Following, Url, Raised, Moves, At, Probe, Step, Sent, Keeps, gateVars, Sends
<1>14. CASE SourceMapScript
  BY <1>14 DEF SourceMapScript, Following, Url, Raised, Moves, At, Probe, Step, Sent, Keeps, gateVars, Sends
<1>15. CASE SourceMapOfScript
  BY <1>15 DEF SourceMapOfScript, Following, Url, Raised, Moves, At, Probe, Step, Sent, Keeps, gateVars, Sends
<1>16. CASE SourceMapCommon
  BY <1>16 DEF SourceMapCommon, Following, Url, Raised, Moves, At, Probe, Step, Sent, Keeps, gateVars, Sends
<1>17. CASE Judge("sourcemap", Reported(SourceMapValidate(cand), SourceMapEvidence(cand), SourceMapAssess(cand)))
  BY <1>17, JudgeCloses DEF SourceMapValidate, SourceMapAssess, Status, Outcome, Moves, Judge, At, Always
<1>18. CASE DisclosureBegin
  BY <1>18, BeginBegins DEF DisclosureBegin, Moves, Active, Gated
<1>19. CASE DisclosureHome
  BY <1>19 DEF DisclosureHome, Following, Url, Raised, Moves, At, Probe, Step, Sent, Keeps, gateVars, Sends
<1>20. CASE DisclosureMissing
  BY <1>20 DEF DisclosureMissing, Following, Url, Raised, Moves, At, Probe, Step, Sent, Keeps, gateVars, Sends
<1>21. CASE DisclosureDebug
  BY <1>21 DEF DisclosureDebug, Following, Url, Raised, Moves, At, Probe, Step, Sent, Keeps, gateVars, Sends
<1>22. CASE DisclosureBackup
  BY <1>22 DEF DisclosureBackup, Following, Url, Raised, Moves, At, Probe, Step, Sent, Keeps, gateVars, Sends
<1>23. CASE Judge("disclosure", Reported(DisclosureValidate(cand), DisclosureEvidence(cand), DisclosureAssess(cand)))
  BY <1>23, JudgeCloses DEF DisclosureValidate, DisclosureAssess, Status, Outcome, Moves, Judge, At, Always
<1> QED
  BY <1>1, <1>2, <1>3, <1>4, <1>5, <1>6, <1>7, <1>8, <1>9, <1>10, <1>11, <1>12, <1>13, <1>14, <1>15, <1>16, <1>17, <1>18, <1>19, <1>20, <1>21, <1>22, <1>23 DEF ObservationNext

(* Whatever check a behaviour is about, its steps are of the three kinds;  *)
(* the gate by itself only writes its log.                                 *)
LEMMA NextMoves == RunInv /\ Next => Moves \/ GateAlone
  BY XssMoves, SqliMoves, CmdiMoves, SsrfMoves, TraversalMoves, BolaMoves, SessionMoves,
     GraphqlMoves, MassMoves, MethodsMoves, AuthorizationMoves, ObservationMoves
     DEF Next

(* It holds before a check begins. *)
LEMMA RunInitInv == Init => RunInv
<1> SUFFICES ASSUME Init PROVE RunInv
  OBVIOUS
<1>1. GateInv
  BY GateInitInv DEF Init, RunInit
<1>2. env \in Consents /\ wire = <<>> /\ cand = Nothing /\ result = Nothing
  BY DEF Init, RunInit
<1> QED
  BY <1>1, <1>2, ShortSeqs DEF RunInv

(* The decisions a check asks for are among those the gate can take. *)
LEMMA LogGrows ==
  ASSUME GateInv, NEW plan \in CheckPlans, NEW allow \in BOOLEAN, NEW line \in AnyLine,
         mode' = mode, history' = Append(history, Decision(plan, allow, 2, line))
  PROVE  GateInv'
<1>1. Possible' = Possible
  BY DEF Possible, Decision, Prompts, Approves
<1>2. Decision(plan, allow, 2, line) \in Possible
  <2>1. plan \in AnyPlan /\ 2 \in AnyLimit
    BY DEF AnyPlan, AnyLimit
  <2> QED
    BY <2>1 DEF Possible
<1>3. history' \in Seq(Possible)
  <2> HIDE DEF Possible
  <2> QED
    BY <1>2 DEF GateInv
<1> QED
  BY <1>1, <1>3 DEF GateInv

(* No step of a check, and no question to the gate, breaks it. *)
LEMMA RunInvStep == RunInv /\ [Next]_runVars => RunInv'
<1> SUFFICES ASSUME RunInv, [Next]_runVars PROVE RunInv'
  OBVIOUS
<1>1. CASE Begins
  <2>1. GateInv'
    <3>1. CASE history' = history
      BY <1>1, <3>1, GateStep DEF RunInv, Begins, gateVars
    <3>2. CASE history' # history
      BY <1>1, <3>2, LogGrows DEF RunInv, Begins
    <3> QED
      BY <3>1, <3>2
  <2> QED
    BY <1>1, <2>1 DEF RunInv, Begins
<1>2. CASE Sends
  <2>1. GateInv'
    BY <1>2, GateStep DEF RunInv, Sends, gateVars
  <2>2. IsSeq(wire')
    <3>1. IsSeq(wire)
      BY DEF RunInv
    <3>2. ASSUME NEW x, wire' = Append(wire, x) PROVE IsSeq(wire')
      BY <3>1, <3>2, AppendIsSeq
    <3> QED
      BY <1>2, <3>1, <3>2, WireGrows DEF Sends
  <2> QED
    BY <1>2, <2>1, <2>2 DEF RunInv, Sends
<1>3. CASE Closes
  <2>1. GateInv'
    BY <1>3, GateStep DEF RunInv, Closes, gateVars
  <2> QED
    BY <1>3, <2>1 DEF RunInv, Closes
<1>4. CASE GateAlone
  <2>1. GateInv'
    BY <1>4, GateStep DEF RunInv, GateAlone
  <2> QED
    BY <1>4, <2>1 DEF RunInv, GateAlone
<1>5. CASE UNCHANGED runVars
  <2>1. GateInv'
    BY <1>5, GateStep DEF RunInv, runVars
  <2> QED
    BY <1>5, <2>1 DEF RunInv, runVars
<1> QED
  BY <1>1, <1>2, <1>3, <1>4, <1>5, NextMoves DEF Moves

(* Whatever the checks ask of it and in whatever order, the gate approves  *)
(* with the consent a plan demands only (gate.py ask).                     *)
THEOREM ChecksTakeConsent == Spec => []Consent
<1>1. RunInv => Consent
  BY InvGivesConsent DEF RunInv
<1> QED
  BY <1>1, RunInitInv, RunInvStep, PTL DEF Spec

-----------------------------------------------------------------------------
(* The contract *)

(* A check that has not begun is idle. *)
LEMMA ContractInit == Init => Contract!Init
  BY DEF Init, RunInit, Contract!Init, Allowed, Nothing

(* To begin, or to be refused, is a step of the contract. *)
LEMMA ContractBegins ==
  ASSUME Begins
  PROVE  Contract!Start \/ Contract!Refuse
<1>1. /\ pc = "start" /\ pc' # "start" /\ (pc' # "done" => Allowed')
      /\ UNCHANGED <<wire, result>>
  BY DEF Begins
<1>2. (Allowed \in BOOLEAN)'
  BY DEF Allowed
<1>3. CASE pc' = "done"
  BY <1>1, <1>2, <1>3 DEF Contract!Refuse
<1>4. CASE pc' # "done"
  BY <1>1, <1>4 DEF Contract!Start
<1> QED
  BY <1>3, <1>4

(* So is a request, *)
LEMMA ContractSends ==
  ASSUME RunInv, Sends
  PROVE  Contract!Request
<1>1. /\ pc \notin {"start", "done"} /\ pc' # "start"
      /\ UNCHANGED <<check, env, result, mode, history>>
  BY DEF Sends
<1>2. Len(wire') \in Len(wire)..(Len(wire) + 2)
  <2>1. IsSeq(wire) /\ Len(wire) \in Nat
    BY WireGrows DEF RunInv
  <2>2. ASSUME NEW x, wire' = Append(wire, x) PROVE Len(wire') = Len(wire) + 1
    BY <2>1, <2>2, AppendIsSeq
  <2>3. Len(wire') \in {Len(wire), Len(wire) + 1, Len(wire) + 2}
    BY <2>2, WireGrows DEF Sends
  <2> QED
    BY <2>1, <2>3
<1>3. UNCHANGED Allowed
  BY <1>1 DEF Allowed
<1> QED
  BY <1>1, <1>2, <1>3 DEF Contract!Request

(* and so is the report. *)
LEMMA ContractCloses ==
  ASSUME Closes
  PROVE  Contract!Report
<1>1. /\ pc \notin {"start", "done"} /\ pc' = "done"
      /\ UNCHANGED <<check, env, mode, history, wire>>
      /\ Ruling' \in Verdicts \cup {"none"}
  BY DEF Closes
<1>2. UNCHANGED Allowed
  BY <1>1 DEF Allowed
<1> QED
  BY <1>1, <1>2 DEF Contract!Report, Ruling, Verdicts

(* Every step of a check is a step of the contract, or none of its business. *)
LEMMA ContractStep == RunInv /\ [Next]_runVars => [Contract!Next]_Contract!contractVars
<1> SUFFICES ASSUME RunInv, [Next]_runVars PROVE [Contract!Next]_Contract!contractVars
  OBVIOUS
<1>1. CASE Begins
  BY <1>1, ContractBegins DEF Contract!Next
<1>2. CASE Sends
  BY <1>2, ContractSends DEF Contract!Next
<1>3. CASE Closes
  BY <1>3, ContractCloses DEF Contract!Next
<1>4. CASE GateAlone
  <2>1. check = "gate" /\ UNCHANGED <<check, pc, env, wire, result>>
    BY <1>4 DEF GateAlone, Is
  <2>2. Allowed /\ Allowed'
    BY <2>1 DEF Allowed, Active, NeedsTerms, Gated
  <2> QED
    BY <2>1, <2>2 DEF Contract!contractVars
<1>5. CASE UNCHANGED runVars
  <2>1. UNCHANGED <<check, pc, env, wire, result, mode, history>>
    BY <1>5 DEF runVars, gateVars
  <2>2. UNCHANGED Allowed
    BY <2>1 DEF Allowed
  <2> QED
    BY <2>1, <2>2 DEF Contract!contractVars
<1> QED
  BY <1>1, <1>2, <1>3, <1>4, <1>5, NextMoves DEF Moves

(* Every check, whatever its lists, the answers and what raises, takes the *)
(* steps of the contract: what the operator and the gate have not allowed  *)
(* sends nothing, and a check that is over sends no more and reports no    *)
(* second time (the safety part of KeepsContract).                         *)
THEOREM ChecksKeepContract == Spec => Contract!Init /\ [][Contract!Next]_Contract!contractVars
  BY ContractInit, ContractStep, RunInitInv, RunInvStep, PTL DEF Spec

(* A step of a behaviour is a step of its check. *)
LEMMA NextOf ==
  ASSUME RunInv, Next
  PROVE  /\ check' = check
         /\ check = "xss" => XssNext
         /\ check = "sqli" => SqliNext
         /\ check = "cmdi" => CmdiNext
         /\ check = "ssrf" => SsrfNext
         /\ check = "traversal" => TraversalNext
         /\ check = "bola" => BolaNext
         /\ check = "session" => SessionNext
         /\ check = "graphql" => GraphqlNext
         /\ check = "mass" => MassNext
         /\ check = "methods" => MethodsNext
         /\ check \in {"bfla", "behavior", "invalidation"} => AuthorizationNext
         /\ check \in {"headers", "cors", "redirect", "sourcemap", "disclosure"} =>
              ObservationNext
<1>1. check' = check
  BY NextMoves DEF Moves, Begins, Sends, Closes, GateAlone
<1>2. GateAlone => check = "gate"
  BY DEF GateAlone, Is
<1> QED
  BY <1>1, <1>2, XssMoves, SqliMoves, CmdiMoves, SsrfMoves, TraversalMoves, BolaMoves,
     SessionMoves, GraphqlMoves, MassMoves, MethodsMoves, AuthorizationMoves,
     ObservationMoves DEF Next

(* SetToSeq lists the members of a finite set. *)
LEMMA SetToSeqLists ==
  ASSUME NEW S, IsFiniteSet(S)
  PROVE  SetToSeq(S) \in Seq(S)
<1>1. Cardinality(S) \in Nat /\ \E f : f \in Bijection(1..Cardinality(S), S)
  BY FS_CardinalityType DEF ExistsBijection
<1>2. \E f \in [1..Cardinality(S) -> S] : IsInjective(f)
  BY <1>1 DEF Bijection, Injection
<1>3. SetToSeq(S) \in [1..Cardinality(S) -> S]
  BY <1>2 DEF SetToSeq
<1> QED
  BY <1>1, <1>3

(* What was found is judged, once and as it is. *)
JudgedAs(report) ==
  result # Nothing => pc = "done" /\ cand # Nothing /\ result = report

(* A report in full: what validate, collect_evidence and assess returned. *)
LEMMA ReportIs ==
  ASSUME NEW v, NEW e, NEW f, Reported(v, e, f).stage = "reported"
  PROVE  /\ v.outcome # "false_positive" /\ f # Nothing
         /\ Reported(v, e, f) =
              [stage |-> "reported", v |-> v, evidence |-> e, assessed |-> f,
               finding |-> [f EXCEPT !.status = Status(v.outcome),
                                     !.confidence = v.confidence]]
  BY DEF Reported

-----------------------------------------------------------------------------
(* xss *)

XssParams == {"q", "linked"}

(* What xss can have found: a canary in the context of its page, or in a body*)
(* of JSON, where nothing encloses it.                                     *)
XssFound(c) ==
  \/ /\ c.parameter \in XssParams /\ c.page \in Page /\ c.escaped = FALSE
     /\ c.context = DetectReflectionContext(c.page.within)
  \/ /\ c.parameter = "(json body)" /\ c.page.within = {} /\ c.escaped \in BOOLEAN
     /\ c.page.encodes = c.escaped
     /\ c.context = IF c.escaped THEN "unknown" ELSE "html_text"
XssReport == Reported(XssValidate(cand), XssEvidence(cand), XssAssess(cand))

(* Candidates are found that way, and judged as they were found. *)
XssInv ==
  Is("xss") =>
    /\ cand = Nothing \/ XssFound(cand)
    /\ pc = "xss_param" => loc.todo \in Seq(XssParams) /\ loc.todo # <<>>
    /\ JudgedAs(XssReport)

(* Every request of xss keeps the invariant. *)
LEMMA XssStep ==
  ASSUME RunInv, XssInv, XssNext
  PROVE  XssInv'
<1> USE DEF Is
<1>1. check = "xss" /\ check' = "xss"
  BY XssMoves DEF Moves, Begins, Sends, Closes
<1>2. CASE XssBegin
  BY <1>1, <1>2 DEF XssBegin, BeginGated, At, Step, XssInv, RunInv, JudgedAs
<1>3. CASE XssHome
  <2>1. ASSUME NEW linked \in SUBSET {"linked"}
        PROVE  <<"q">> \o SetToSeq(linked) \in Seq(XssParams)
               /\ <<"q">> \o SetToSeq(linked) # <<>>
    <3>1. SetToSeq(linked) \in Seq(XssParams)
      <4>1. IsFiniteSet(linked)
        BY FS_Singleton, FS_Subset
      <4> QED
        BY <4>1, SetToSeqLists, SeqMonotonic DEF XssParams
    <3>2. <<"q">> \in Seq(XssParams)
      BY DEF XssParams
    <3> QED
      BY <3>1, <3>2, ConcatProperties, ConcatEqualIffEmpty
  <2> QED
    <3>1. /\ pc = "xss_home" /\ result' = result /\ (cand = Nothing => cand' = Nothing)
          /\ cand # Nothing => cand' = cand
      BY <1>3 DEF XssHome, Probe, At, Found, Keeps
    <3>2. \/ pc' = "done"
          \/ \E linked \in SUBSET {"linked"} : loc' = [todo |-> <<"q">> \o SetToSeq(linked)]
      BY <1>3 DEF XssHome, Probe, Step
    <3>3. pc' = "xss_param" => loc'.todo \in Seq(XssParams) /\ loc'.todo # <<>>
      BY <2>1, <3>2
    <3> QED
      BY <1>1, <3>1, <3>3 DEF XssInv, RunInv, JudgedAs, XssFound
<1>4. CASE XssParam
  <2>1. Head(loc.todo) \in XssParams /\ Tail(loc.todo) \in Seq(XssParams)
    BY <1>1, <1>4, HeadTailProperties DEF XssInv, XssParam, At
  <2>2. \A page \in Page : Escaped(page) = FALSE
    BY DEF Escaped, CanaryLostWith
  <2>3. (cand = Nothing \/ XssFound(cand))'
    <3>1. CASE UNCHANGED cand
      BY <1>1, <3>1 DEF XssInv, XssFound
    <3>2. CASE ~UNCHANGED cand
      <4>1. PICK page \in Page :
              cand' = [parameter |-> Head(loc.todo), page |-> page, escaped |-> Escaped(page),
                       context |-> DetectReflectionContext(page.within)]
        BY <1>4, <3>2 DEF XssParam, Probe, Found
      <4> QED
        BY <2>1, <2>2, <4>1 DEF XssFound
    <3> QED
      BY <3>1, <3>2
  <2>4. pc' = "xss_param" => loc'.todo = Tail(loc.todo) /\ Tail(loc.todo) # <<>>
    <3>1. pc' = "xss_param" => Tail(loc.todo) # <<>> /\ loc' = [todo |-> Tail(loc.todo)]
      BY <1>4 DEF XssParam, Probe, Step
    <3> QED
      BY <3>1
  <2>5. pc # "done" /\ result' = result
    BY <1>4 DEF XssParam, At, Probe, Keeps
  <2> QED
    BY <1>1, <2>1, <2>3, <2>4, <2>5 DEF XssInv, RunInv, JudgedAs
<1>5. CASE XssJson
  <2>1. (cand = Nothing \/ XssFound(cand))'
    <3>1. CASE UNCHANGED cand
      BY <1>1, <3>1 DEF XssInv, XssFound
    <3>2. CASE ~UNCHANGED cand
      <4>1. PICK html \in BOOLEAN :
              cand' = [parameter |-> "(json body)", escaped |-> ~html,
                       page |-> [within |-> {}, encodes |-> ~html, entity |-> FALSE],
                       context |-> IF html THEN "html_text" ELSE "unknown"]
        BY <1>5, <3>2 DEF XssJson, Probe, Found
      <4> QED
        BY <4>1 DEF XssFound
    <3> QED
      BY <3>1, <3>2
  <2>2. pc # "done" /\ pc' # "xss_param" /\ result' = result
    BY <1>5 DEF XssJson, At, Probe, Step, Keeps
  <2> QED
    BY <1>1, <2>1, <2>2 DEF XssInv, RunInv, JudgedAs
<1>6. CASE Judge("xss", XssReport)
  BY <1>1, <1>6 DEF Judge, At, XssInv, RunInv, JudgedAs, XssReport
<1> QED
  BY <1>2, <1>3, <1>4, <1>5, <1>6 DEF XssNext, XssReport

(* The strength of a finding is that of the context it was seen in. *)
LEMMA XssInvHonours == XssInv => XssContextHonoured
<1> SUFFICES ASSUME XssInv, Reports("xss")
             PROVE  LET c == cand f == result.finding IN
                    /\ c.parameter = "(json body)" => ~c.page.encodes /\ f.status = "likely"
                    /\ f.status = "confirmed" => c.page.within # {}
                    /\ ~c.page.encodes /\ c.page.within # {} => f.status = "confirmed"
                    /\ f.severity = "critical" =>
                         f.status = "confirmed" /\ c.page.within \cap {"script", "url"} # {}
                    /\ result.evidence.outcome = f.status
                    /\ f.confidence = result.assessed.confidence
                    /\ f.status = result.assessed.status
  BY DEF XssContextHonoured
<1>1. /\ XssFound(cand) /\ result = XssReport /\ result.stage = "reported"
  BY DEF Reports, Is, XssInv, JudgedAs, Nothing
<1>2. /\ XssValidate(cand).outcome # "false_positive" /\ XssAssess(cand) # Nothing
      /\ result = [stage |-> "reported", v |-> XssValidate(cand),
                   evidence |-> XssEvidence(cand), assessed |-> XssAssess(cand),
                   finding |-> [XssAssess(cand) EXCEPT
                     !.status = Status(XssValidate(cand).outcome),
                     !.confidence = XssValidate(cand).confidence]]
  BY <1>1, ReportIs DEF XssReport
<1>3. CASE cand.parameter = "(json body)"
  <2>1. cand.escaped = FALSE /\ cand.context = "html_text" /\ cand.page.within = {}
    BY <1>1, <1>2, <1>3 DEF XssFound, XssParams, XssValidate, OutcomeForContext
  <2>2. ~cand.page.encodes
    BY <1>1, <1>3, <2>1 DEF XssFound, XssParams
  <2> QED
    BY <1>2, <1>3, <2>1, <2>2 DEF XssValidate, XssEvidence, XssAssess, OutcomeForContext,
       ConfidenceForContext, XssSeverity, Enclosing, Status
<1>4. CASE cand.parameter # "(json body)"
  <2>1. PICK page \in Page : /\ cand.page = page /\ cand.escaped = FALSE
                             /\ cand.context = DetectReflectionContext(page.within)
    BY <1>1, <1>4 DEF XssFound
  <2>2. page.within \subseteq Enclosing
    BY DEF Page
  <2> QED
    BY <1>2, <1>4, <2>1, <2>2 DEF XssValidate, XssEvidence, XssAssess, OutcomeForContext,
       ConfidenceForContext, XssSeverity, Enclosing, Status, DetectReflectionContext
<1> QED
  BY <1>3, <1>4

(* The members of a list that grows by one. *)
LEMMA OneMore ==
  ASSUME NEW s, NEW x, IsSeq(s)
  PROVE  /\ Len(s) \in Nat /\ DOMAIN s = 1..Len(s)
         /\ DOMAIN (s \o <<x>>) = 1..(Len(s) + 1)
         /\ Len(s \o <<x>>) = Len(s) + 1
         /\ \A i \in 1..Len(s) : (s \o <<x>>)[i] = s[i]
         /\ (s \o <<x>>)[Len(s) + 1] = x
         /\ Range(s \o <<x>>) = Range(s) \cup {x}
         /\ IsSeq(s \o <<x>>)
<1> DEFINE S == Range(s) \cup {x}
<1>1. s \in Seq(S) /\ <<x>> \in Seq(S)
  BY SeqMonotonic DEF IsSeq
<1>2. Len(s) \in Nat /\ DOMAIN s = 1..Len(s)
  BY <1>1, LenProperties
<1> HIDE DEF S
<1>3. /\ s \o <<x>> \in Seq(S) /\ Len(s \o <<x>>) = Len(s) + Len(<<x>>)
      /\ \A i \in 1..(Len(s) + Len(<<x>>)) :
           (s \o <<x>>)[i] = IF i <= Len(s) THEN s[i] ELSE <<x>>[i - Len(s)]
  BY <1>1, ConcatProperties
<1>4. /\ Len(s \o <<x>>) = Len(s) + 1
      /\ \A i \in 1..Len(s) : (s \o <<x>>)[i] = s[i]
      /\ (s \o <<x>>)[Len(s) + 1] = x
  BY <1>2, <1>3
<1>5. DOMAIN (s \o <<x>>) = 1..(Len(s) + 1)
  BY <1>3, <1>4, LenProperties
<1>6. Range(s \o <<x>>) = Range(s) \cup {x}
  BY <1>2, <1>4, <1>5 DEF Range
<1>7. IsSeq(s \o <<x>>)
  BY <1>3, SeqIsSeq
<1> QED
  BY <1>2, <1>4, <1>5, <1>6, <1>7

(* To send nothing leaves the wire as it is. *)
LEMMA NoMore ==
  ASSUME NEW s, IsSeq(s)
  PROVE  s \o <<>> = s
  BY ConcatEmptySeq DEF IsSeq

-----------------------------------------------------------------------------
(* session-cookie *)

(* The locals of session-cookie after the home page. *)
SessionLocals ==
  [leaks : BOOLEAN, https : BOOLEAN, cookie : Cookie \cup {None},
   todo : Seq(Range(CanaryParams))]

(* A canary that came back was sent, a vector that needs it has it. *)
SessionFound(c) ==
  /\ c.kind \in {"xss_steals_session", "csrf_via_xss", "secure_missing_over_https",
                 "weak_token", "token_in_response_body"} \cup Hardening
  /\ c.kind \in {"xss_steals_session", "csrf_via_xss"} => Xss /\ "canary" \in Range(wire)
  /\ c.kind = "xss_steals_session" => ~c.cookie.httponly
  /\ c.kind \in Hardening => ~Xss
SessionReport == Reported(SessionValidate(cand), SessionEvidence(cand), SessionAssess(cand))

(* The canary is sent before the vectors are considered. *)
SessionInv ==
  Is("session") =>
    /\ cand # Nothing => pc \in {"judge", "done"} /\ SessionFound(cand)
    /\ pc \in {"session_canary", "session_vectors"} => loc \in SessionLocals
    /\ pc = "session_canary" => loc.todo # <<>>
    /\ pc = "session_vectors" /\ Xss => "canary" \in Range(wire)
    /\ JudgedAs(SessionReport)

(* The list of a canary parameter for each cookie. *)
LEMMA SixIsSeq ==
  ASSUME NEW S, NEW a \in S, NEW b \in S, NEW c \in S, NEW d \in S, NEW e \in S, NEW f \in S
  PROVE  <<a, b, c, d, e, f>> \in Seq(S)
  OBVIOUS

(* Every request of session-cookie keeps the invariant. *)
LEMMA SessionStep ==
  ASSUME RunInv, SessionInv, SessionNext
  PROVE  SessionInv'
<1> USE DEF Is
<1>1. check = "session" /\ check' = "session"
  BY SessionMoves DEF Moves, Begins, Sends, Closes
<1>2. CASE SessionBegin
  BY <1>1, <1>2 DEF SessionBegin, Begin, At, Step, Keeps, SessionInv, RunInv, JudgedAs
<1>3. CASE SessionHome
  <2>1. cand = Nothing /\ cand' = Nothing /\ result = Nothing /\ result' = Nothing
    BY <1>1, <1>3 DEF SessionHome, Probe, At, Found, Keeps, SessionInv, RunInv
  <2>2. CanaryParams \in Seq(Range(CanaryParams)) /\ CanaryParams # <<>>
        /\ <<>> \in Seq(Range(CanaryParams))
    <3>1. CanaryParams \in Seq({"q", "search", "query", "id", "name", "input"})
      BY SixIsSeq DEF CanaryParams
    <3>2. CanaryParams # <<>>
      BY DEF CanaryParams
    <3> QED
      BY <3>1, <3>2, SeqIsSeq, EmptySeq DEF IsSeq
  <2>3. \/ pc' = "done"
        \/ /\ pc' = "session_vectors" /\ loc' \in SessionLocals /\ loc'.todo = <<>>
        \/ /\ pc' = "session_canary" /\ loc' \in SessionLocals /\ loc'.todo # <<>>
    <3>1. CASE Probe("done", <<>>, <<"home">>, {})
      BY <3>1 DEF Probe, Step
    <3>2. ASSUME NEW leaks \in BOOLEAN, NEW https \in BOOLEAN, NEW cookie \in Cookie \cup {None},
                 LET page == [leaks |-> leaks, https |-> https, cookie |-> cookie,
                              todo |-> CanaryParams]
                 IN  Step(IF cookie = None THEN "session_vectors" ELSE "session_canary",
                          [page EXCEPT !.todo = IF cookie = None THEN <<>> ELSE @])
          PROVE  \/ pc' = "session_vectors" /\ loc' \in SessionLocals /\ loc'.todo = <<>>
                 \/ pc' = "session_canary" /\ loc' \in SessionLocals /\ loc'.todo # <<>>
      <4>1. loc' = [leaks |-> leaks, https |-> https, cookie |-> cookie,
                    todo |-> IF cookie = None THEN <<>> ELSE CanaryParams]
        BY <3>2 DEF Step
      <4>2. pc' = IF cookie = None THEN "session_vectors" ELSE "session_canary"
        BY <3>2 DEF Step
      <4> HIDE DEF Cookie
      <4> QED
        BY <2>2, <4>1, <4>2 DEF SessionLocals
    <3> QED
      BY <1>3, <3>1, <3>2 DEF SessionHome, Probe
  <2> QED
    BY <1>1, <2>1, <2>3 DEF SessionInv, JudgedAs, Xss
<1>4. CASE SessionCanary
  <2>1. cand = Nothing /\ cand' = Nothing /\ result = Nothing /\ result' = Nothing
    BY <1>1, <1>4 DEF SessionCanary, Probe, At, Found, Keeps, SessionInv, RunInv
  <2>2. loc \in SessionLocals /\ loc.todo # <<>>
    BY <1>1, <1>4 DEF SessionCanary, At, SessionInv
  <2>3. /\ Tail(loc.todo) \in Seq(Range(CanaryParams))
        /\ <<Head(loc.todo)>> \in Seq(Range(CanaryParams))
    BY <2>2, HeadTailProperties DEF SessionLocals
  <2>4. PICK reflected \in BOOLEAN :
          /\ pc' = IF reflected \/ Tail(loc.todo) = <<>> THEN "session_vectors"
                   ELSE "session_canary"
          /\ loc' = [loc EXCEPT !.todo = IF reflected THEN <<Head(@)>> ELSE Tail(loc.todo)]
    BY <1>4 DEF SessionCanary, Probe, Step
  <2>5. loc' \in SessionLocals /\ loc'.todo = IF reflected THEN <<Head(loc.todo)>> ELSE Tail(loc.todo)
    BY <2>2, <2>3, <2>4 DEF SessionLocals
  <2>6. "canary" \in Range(wire')
    BY <1>4, OneMore DEF SessionCanary, Probe, Sent, RunInv
  <2> QED
    BY <1>1, <2>1, <2>4, <2>5, <2>6 DEF SessionInv, JudgedAs, Xss
<1>5. CASE SessionVectors
  <2>1. /\ pc = "session_vectors" /\ pc' = "judge" /\ loc' = loc /\ wire' = wire
        /\ cand = Nothing /\ result' = result /\ result = Nothing
    BY <1>1, <1>5, NoMore DEF SessionVectors, Probe, At, Step, Sent, Keeps, SessionInv, RunInv
  <2>2. ASSUME cand' # Nothing PROVE SessionFound(cand)'
    <3>1. PICK k \in BrowserVector(loc.cookie) \cup NetworkVector(loc.cookie)
                       \cup ServerVector(loc.cookie) \cup {"token_in_response_body"} :
            cand' = [kind |-> k, cookie |-> IF k = "token_in_response_body" THEN None
                                            ELSE loc.cookie]
      BY <1>5, <2>1, <2>2 DEF SessionVectors, Probe, Found
    <3>2. CASE k \in BrowserVector(loc.cookie)
      BY <1>1, <2>1, <3>1, <3>2 DEF SessionFound, SessionInv, BrowserVector, Hardening, Xss
    <3>3. CASE k \notin BrowserVector(loc.cookie)
      BY <3>1, <3>3 DEF SessionFound, NetworkVector, ServerVector, Hardening
    <3> QED
      BY <3>2, <3>3
  <2> QED
    BY <1>1, <2>1, <2>2 DEF SessionInv, JudgedAs
<1>6. CASE Judge("session", SessionReport)
  BY <1>1, <1>6 DEF Judge, At, SessionInv, RunInv, JudgedAs, SessionReport, SessionFound, Xss
<1> QED
  BY <1>2, <1>3, <1>4, <1>5, <1>6 DEF SessionNext, SessionReport

(* A theft of the session is claimed of a cookie whose canary was seen only. *)
LEMMA SessionInvEscalates == SessionInv => SessionEscalation
<1> SUFFICES ASSUME SessionInv, Reports("session")
             PROVE  LET f == result.finding IN
                    /\ f.severity = "critical" =>
                         Xss /\ "canary" \in Range(wire) /\ ~cand.cookie.httponly
                    /\ f.severity = "low" <=> f.confidence = "low"
                    /\ f.severity = "low" => f.status = "likely" /\ ~Xss
                    /\ f.cause \in {"httponly", "samesite"} /\ f.status = "confirmed" => Xss
  BY DEF SessionEscalation
<1>1. SessionFound(cand) /\ result = SessionReport /\ result.stage = "reported"
  BY DEF Reports, Is, SessionInv, JudgedAs, Nothing
<1>2. result = [stage |-> "reported", v |-> SessionValidate(cand),
                evidence |-> SessionEvidence(cand), assessed |-> SessionAssess(cand),
                finding |-> [SessionAssess(cand) EXCEPT
                  !.status = Status(SessionValidate(cand).outcome),
                  !.confidence = SessionValidate(cand).confidence]]
  BY <1>1, ReportIs DEF SessionReport
<1>3. /\ result.finding.severity = SessionAssess(cand).severity
      /\ result.finding.cause = SessionAssess(cand).cause
      /\ result.finding.status = Status(SessionValidate(cand).outcome)
      /\ result.finding.confidence = SessionValidate(cand).confidence
  BY <1>2 DEF SessionAssess
<1>4. /\ SessionAssess(cand).severity = IF cand.kind = "xss_steals_session" THEN "critical"
                                         ELSE IF cand.kind \in Hardening THEN "low" ELSE "high"
      /\ SessionAssess(cand).cause = RootCause(cand.kind)
  BY DEF SessionAssess
<1>5. CASE cand.kind \in Hardening
  <2>1. SessionValidate(cand) = [outcome |-> "likely", confidence |-> "low"]
    BY <1>5 DEF SessionValidate
  <2> QED
    BY <1>1, <1>3, <1>4, <1>5, <2>1 DEF SessionFound, Status, Hardening
<1>6. CASE cand.kind \notin Hardening
  <2>1. SessionValidate(cand).confidence # "low"
    BY <1>6 DEF SessionValidate
  <2>2. RootCause(cand.kind) \in {"httponly", "samesite"} =>
          cand.kind \in {"xss_steals_session", "csrf_via_xss", "httponly", "samesite"}
    BY <1>6 DEF RootCause, Hardening
  <2> QED
    BY <1>1, <1>3, <1>4, <1>6, <2>1, <2>2 DEF SessionFound
<1> QED
  BY <1>5, <1>6

(* How often a path is asked something. *)
TimesIn(s, p, r) == Cardinality({i \in DOMAIN s : s[i].path = p /\ s[i].request = r})

(* One more request is counted once. *)
LEMMA TallyGrows ==
  ASSUME NEW s, NEW p, NEW r, NEW y, IsSeq(s)
  PROVE  /\ TimesIn(s, p, r) \in Nat
         /\ TimesIn(s \o <<y>>, p, r) =
              IF y.path = p /\ y.request = r THEN TimesIn(s, p, r) + 1 ELSE TimesIn(s, p, r)
<1> DEFINE I == {i \in DOMAIN s : s[i].path = p /\ s[i].request = r}
           J == {i \in DOMAIN (s \o <<y>>) :
                   (s \o <<y>>)[i].path = p /\ (s \o <<y>>)[i].request = r}
           n == Len(s) + 1
<1>1. /\ Len(s) \in Nat /\ DOMAIN s = 1..Len(s) /\ DOMAIN (s \o <<y>>) = 1..n
      /\ \A i \in 1..Len(s) : (s \o <<y>>)[i] = s[i]
      /\ (s \o <<y>>)[n] = y
  BY OneMore
<1>2. IsFiniteSet(I)
  <2>1. IsFiniteSet(1..Len(s)) /\ I \subseteq 1..Len(s)
    BY <1>1, FS_Interval
  <2> QED
    BY <2>1, FS_Subset
<1>3. n \notin I
  BY <1>1
<1>4. J = IF y.path = p /\ y.request = r THEN I \cup {n} ELSE I
  <2>1. 1..n = 1..Len(s) \cup {n}
    BY <1>1
  <2> QED
    BY <1>1, <2>1
<1>5. Cardinality(I) \in Nat /\ Cardinality(I \cup {n}) = Cardinality(I) + 1
  BY <1>2, <1>3, FS_CardinalityType, FS_AddElement
<1> QED
  BY <1>4, <1>5 DEF TimesIn

(* What is not in a list is in it no times. *)
LEMMA NeverIn ==
  ASSUME NEW s, NEW p, NEW r, \A i \in DOMAIN s : s[i].path # p
  PROVE  TimesIn(s, p, r) = 0
<1>1. {i \in DOMAIN s : s[i].path = p /\ s[i].request = r} = {}
  OBVIOUS
<1> QED
  BY <1>1, FS_EmptySet DEF TimesIn

-----------------------------------------------------------------------------
(* graphql *)

(* A request to an endpoint, and how the requests to it add up. *)
Query(p, r, g) == [path |-> p, request |-> r, gave |-> g]

(* What one path may be asked in all, and what it was asked before its turn. *)
Counted(w, p) ==
  /\ TimesIn(w, p, "introspection") = 1
  /\ TimesIn(w, p, "type") <= 1
  /\ TimesIn(w, p, "users") <= FuzzQueries
Untouched(w, S) == \A i \in DOMAIN w : w[i].path \notin S

(* A path has given what one of these requests asks for, and that what it  *)
(* is asked follows what it gave.                                          *)
Given(w, p, R) == \E i \in DOMAIN w : w[i].path = p /\ w[i].request \in R /\ w[i].gave
Follows(w, i) ==
  /\ w[i].request = "type" => ~Given(w, w[i].path, {"introspection"})
  /\ w[i].request = "users" =>
       \E j \in DOMAIN w : /\ j < i /\ w[j].path = w[i].path
                           /\ w[j].request \in {"introspection", "type"} /\ w[j].gave
  /\ w[i].request = "users" /\ w[i].gave =>
       \A j \in DOMAIN w : w[j].path = w[i].path => j <= i
Orderly(w) == \A i \in DOMAIN w : Follows(w, i)

(* A query counts for its path and leaves the other paths alone. *)
LEMMA QueryAdded ==
  ASSUME NEW w, NEW y, IsSeq(w),
         \A i \in DOMAIN w : Counted(w, w[i].path)
  PROVE  LET v == w \o <<y>> p == y.path r == y.request IN
         /\ Counted(v, p) => \A i \in DOMAIN v : Counted(v, v[i].path)
         /\ \A S : Untouched(w, S) /\ p \notin S => Untouched(v, S)
         /\ \A q, t : /\ TimesIn(w, q, t) \in Nat
                      /\ TimesIn(v, q, t) =
                           IF q = p /\ t = r THEN TimesIn(w, q, t) + 1 ELSE TimesIn(w, q, t)
<1> DEFINE v == w \o <<y>>
           p == y.path
           r == y.request
<1>1. \A q, t : /\ TimesIn(w, q, t) \in Nat
                /\ TimesIn(v, q, t) =
                     IF q = p /\ t = r THEN TimesIn(w, q, t) + 1 ELSE TimesIn(w, q, t)
  BY TallyGrows
<1>2. /\ DOMAIN v = DOMAIN w \cup {Len(w) + 1}
      /\ \A i \in DOMAIN w : v[i] = w[i]
      /\ v[Len(w) + 1].path = p
  BY OneMore
<1> HIDE DEF v, p, r
<1>3. ASSUME Counted(v, p), NEW i \in DOMAIN v PROVE Counted(v, v[i].path)
  <2>1. CASE v[i].path = p
    BY <1>3, <2>1
  <2>2. CASE v[i].path # p
    <3>1. Counted(w, v[i].path)
      BY <1>2, <1>3, <2>2
    <3> QED
      BY <1>1, <2>2, <3>1 DEF Counted
  <2> QED
    BY <2>1, <2>2
<1>4. \A S : Untouched(w, S) /\ p \notin S => Untouched(v, S)
  BY <1>2 DEF Untouched
<1> QED
  BY <1>1, <1>3, <1>4 DEF v, p, r

(* What a path has given, after one more query. *)
LEMMA GivenAfter ==
  ASSUME NEW w, NEW y, IsSeq(w),
         NEW q, NEW R
  PROVE  LET v == w \o <<y>> IN
         Given(v, q, R) <=> Given(w, q, R) \/ (q = y.path /\ y.request \in R /\ y.gave)
<1> DEFINE v == w \o <<y>>
           p == y.path
           r == y.request
           g == y.gave
<1>1. /\ DOMAIN w = 1..Len(w) /\ DOMAIN v = 1..(Len(w) + 1) /\ Len(w) \in Nat
      /\ \A i \in 1..Len(w) : v[i] = w[i]
      /\ v[Len(w) + 1] = y
  BY OneMore
<1> DEFINE n == Len(w) + 1
<1>2. v[n].path = p /\ v[n].request = r /\ v[n].gave = g
  BY <1>1
<1>3. DOMAIN v = DOMAIN w \cup {n} /\ \A i \in DOMAIN w : v[i] = w[i]
  BY <1>1
<1> HIDE DEF n, v, p, r, g
<1>4. ASSUME NEW i \in DOMAIN v, v[i].path = q, v[i].request \in R, v[i].gave
      PROVE  Given(w, q, R) \/ (q = p /\ r \in R /\ g)
  <2>1. CASE i \in DOMAIN w
    BY <1>3, <1>4, <2>1, Zenon DEF Given
  <2>2. CASE i = n
    BY <1>2, <1>4, <2>2
  <2> QED
    BY <1>3, <2>1, <2>2
<1>5. Given(w, q, R) => Given(v, q, R)
  BY <1>3, Zenon DEF Given
<1>6. ASSUME q = p, r \in R, g PROVE Given(v, q, R)
  <2>1. v[n].path = q /\ v[n].request \in R /\ v[n].gave
    BY <1>2, <1>6
  <2> QED
    BY <1>3, <2>1 DEF Given
<1> QED
  <2>1. Given(v, q, R) => Given(w, q, R) \/ (q = p /\ r \in R /\ g)
    BY <1>4, Zenon DEF Given
  <2> QED
    BY <1>5, <1>6, <2>1 DEF v, p, r, g

(* A query that follows what its path gave keeps the order. *)
LEMMA OrderKept ==
  ASSUME NEW w, NEW y, IsSeq(w),
         Orderly(w), ~Given(w, y.path, {"users"}),
         y.request = "introspection" => Untouched(w, {y.path}),
         y.request = "type" => ~Given(w, y.path, {"introspection"}),
         y.request = "users" => Given(w, y.path, {"introspection", "type"})
  PROVE  Orderly(w \o <<y>>)
<1> DEFINE v == w \o <<y>>
           p == y.path
           r == y.request
           g == y.gave
           n == Len(w) + 1
<1>1. /\ DOMAIN w = 1..Len(w) /\ DOMAIN v = 1..n /\ Len(w) \in Nat
      /\ \A i \in 1..Len(w) : v[i] = w[i]
      /\ v[n] = y
  BY OneMore
<1>2. v[n].path = p /\ v[n].request = r
  BY <1>1
<1>3. /\ DOMAIN v = DOMAIN w \cup {n} /\ \A i \in DOMAIN w : v[i] = w[i] /\ i < n
      /\ \A i \in DOMAIN v : i <= n
  BY <1>1
<1>4. \A q, R : Given(v, q, R) <=> Given(w, q, R) \/ (q = p /\ r \in R /\ g)
  BY GivenAfter
<1>h. /\ ~Given(w, p, {"users"}) /\ (r = "introspection" => Untouched(w, {p}))
      /\ r = "type" => ~Given(w, p, {"introspection"})
      /\ r = "users" => Given(w, p, {"introspection", "type"})
  OBVIOUS
<1> HIDE DEF v, p, r, g, n
<1>5. ASSUME NEW i \in DOMAIN w PROVE Follows(v, i)
  <2>1. Follows(w, i) /\ v[i] = w[i]
    BY <1>3, <1>5 DEF Orderly
  <2>2. v[i].request = "type" => ~Given(v, v[i].path, {"introspection"})
    <3>1. r = "introspection" => v[i].path # p
      BY <1>h, <1>5, <2>1 DEF Untouched
    <3>2. r \in {"introspection"} <=> r = "introspection"
      OBVIOUS
    <3>3. w[i].request = "type" => ~Given(w, w[i].path, {"introspection"})
      BY <2>1, Zenon DEF Follows
    <3> QED
      BY <1>4, <2>1, <3>1, <3>2, <3>3
  <2>3. v[i].request = "users" =>
          \E j \in DOMAIN v : /\ j < i /\ v[j].path = v[i].path
                              /\ v[j].request \in {"introspection", "type"} /\ v[j].gave
    <3>1. ASSUME w[i].request = "users"
          PROVE  \E j \in DOMAIN w : /\ j < i /\ w[j].path = w[i].path
                                    /\ w[j].request \in {"introspection", "type"} /\ w[j].gave
      BY <2>1, <3>1, Zenon DEF Follows
    <3> QED
      BY <1>3, <2>1, <3>1, Zenon
  <2>4. v[i].request = "users" /\ v[i].gave =>
          \A j \in DOMAIN v : v[j].path = v[i].path => j <= i
    <3>1. ASSUME w[i].request = "users", w[i].gave
          PROVE  /\ w[i].path # p
                 /\ \A j \in DOMAIN w : w[j].path = w[i].path => j <= i
      <4>1. w[i].path # p
        BY <1>h, <1>5, <3>1, Zenon DEF Given
      <4>2. \A j \in DOMAIN w : w[j].path = w[i].path => j <= i
        BY <2>1, <3>1, Zenon DEF Follows
      <4> QED
        BY <4>1, <4>2
    <3>2. \A j \in DOMAIN v : j \in DOMAIN w \/ v[j].path = p
      BY <1>2, <1>3
    <3> QED
      BY <1>3, <2>1, <3>1, <3>2, Zenon
  <2> QED
    BY <2>2, <2>3, <2>4, Zenon DEF Follows
<1>6. Follows(v, n)
  <2>1. v[n].request = "type" => ~Given(v, v[n].path, {"introspection"})
    <3>1. r = "type" => ~(r \in {"introspection"})
      OBVIOUS
    <3> QED
      BY <1>2, <1>4, <1>h, <3>1
  <2>2. v[n].request = "users" =>
          \E j \in DOMAIN v : /\ j < n /\ v[j].path = v[n].path
                              /\ v[j].request \in {"introspection", "type"} /\ v[j].gave
    BY <1>2, <1>3, <1>h, Zenon DEF Given
  <2>3. \A j \in DOMAIN v : j <= n
    BY <1>3
  <2> QED
    BY <2>1, <2>2, <2>3, Zenon DEF Follows
<1> QED
  <2>1. Orderly(v)
    BY <1>3, <1>5, <1>6, Zenon DEF Orderly
  <2> QED
    BY <2>1 DEF v

Asking == {"gql_schema", "gql_type", "gql_fuzz"}

(* An endpoint that is blamed for its objects gave one. *)
GraphqlFound(c) == c.kind = "graphql_fuzz_bola" => Given(wire, c.path, {"users"})
GraphqlReport ==
  Reported(GraphqlValidate(cand), GraphqlEvidence(cand), GraphqlAssess(cand))

(* The endpoints not yet asked are untouched, and every other has the queries*)
(* its stage allows.                                                       *)
GraphqlInv ==
  Is("graphql") =>
    /\ \A i \in DOMAIN wire : Counted(wire, wire[i].path)
    /\ Orderly(wire)
    /\ pc \in Asking =>
         loc.todo \in Seq(Range(Paths)) /\ loc.todo # <<>> /\ IsInjective(loc.todo)
    /\ pc = "gql_schema" => Untouched(wire, Range(loc.todo))
    /\ pc \in {"gql_type", "gql_fuzz"} =>
         /\ Untouched(wire, Range(Tail(loc.todo)))
         /\ Counted(wire, Head(loc.todo))
         /\ ~Given(wire, Head(loc.todo), {"users"})
    /\ pc = "gql_type" =>
         /\ TimesIn(wire, Head(loc.todo), "type") = 0
         /\ TimesIn(wire, Head(loc.todo), "users") = 0
         /\ ~Given(wire, Head(loc.todo), {"introspection"})
    /\ pc = "gql_fuzz" =>
         /\ loc.n \in 1..FuzzQueries
         /\ TimesIn(wire, Head(loc.todo), "users") = loc.n - 1
         /\ Given(wire, Head(loc.todo), {"introspection", "type"})
    /\ cand # Nothing => GraphqlFound(cand)
    /\ JudgedAs(GraphqlReport)

(* The paths not yet asked, when the first of them is done. *)
LEMMA PathsLeft ==
  ASSUME NEW s \in Seq(Range(Paths)), s # <<>>, IsInjective(s)
  PROVE  /\ Tail(s) \in Seq(Range(Paths)) /\ IsInjective(Tail(s))
         /\ Head(s) \notin Range(Tail(s))
         /\ Range(Tail(s)) \subseteq Range(s) /\ Head(s) \in Range(s)
         /\ Len(s) # 1 => Tail(s) # <<>>
<1>1. /\ Tail(s) \in Seq(Range(Paths)) /\ Len(s) \in Nat \ {0} /\ Len(Tail(s)) = Len(s) - 1
      /\ \A i \in 1..Len(Tail(s)) : Tail(s)[i] = s[i + 1]
      /\ Head(s) = s[1]
  BY HeadTailProperties, LenProperties, EmptySeq
<1>2. DOMAIN s = 1..Len(s) /\ DOMAIN Tail(s) = 1..(Len(s) - 1)
  BY <1>1, LenProperties
<1>3. \A i \in DOMAIN Tail(s) : i + 1 \in DOMAIN s /\ Tail(s)[i] = s[i + 1] /\ i + 1 # 1
  BY <1>1, <1>2
<1>4. 1 \in DOMAIN s
  BY <1>1, <1>2
<1>5. IsInjective(Tail(s))
  <2> SUFFICES ASSUME NEW i \in DOMAIN Tail(s), NEW j \in DOMAIN Tail(s), Tail(s)[i] = Tail(s)[j]
               PROVE  i = j
    BY DEF IsInjective
  <2>1. i + 1 = j + 1
    BY <1>3 DEF IsInjective
  <2> QED
    BY <1>1, <1>2, <2>1
<1>6. Head(s) \notin Range(Tail(s))
  BY <1>1, <1>3, <1>4 DEF IsInjective, Range
<1>7. Range(Tail(s)) \subseteq Range(s) /\ Head(s) \in Range(s)
  BY <1>1, <1>3, <1>4 DEF Range
<1>8. Len(s) # 1 => Tail(s) # <<>>
  <2>0. Len(Tail(s)) = Len(s) - 1 /\ Len(s) \in Nat
    BY <1>1
  <2> DEFINE a == Len(s)
             b == Len(Tail(s))
  <2>2. b = a - 1 /\ a \in Nat
    BY <2>0
  <2> HIDE DEF a, b
  <2>3. b = 0 => a = 1
    BY <2>2
  <2>1. Len(Tail(s)) = 0 => Len(s) = 1
    BY <2>3 DEF a, b
  <2> QED
    BY <2>1, EmptySeq
<1> QED
  BY <1>1, <1>5, <1>6, <1>7, <1>8

(* The request of a step of graphql, and where it leaves the paths. *)
LEMMA GraphqlAsked ==
  ASSUME RunInv, GraphqlInv, Is("graphql"), pc \in Asking, NEW r, NEW g,
         wire' = wire \o <<To(r, g)>>,
         r = "introspection" => pc = "gql_schema",
         r = "type" => pc = "gql_type",
         r = "users" => pc = "gql_fuzz"
  PROVE  LET h == Head(loc.todo) IN
         /\ Counted(wire', h) => \A i \in DOMAIN wire' : Counted(wire', wire'[i].path)
         /\ Untouched(wire', Range(Tail(loc.todo)))
         /\ \A q, t : /\ TimesIn(wire, q, t) \in Nat
                      /\ TimesIn(wire', q, t) =
                           IF q = h /\ t = r THEN TimesIn(wire, q, t) + 1
                           ELSE TimesIn(wire, q, t)
         /\ Orderly(wire')
         /\ \A q, R : Given(wire', q, R) <=> Given(wire, q, R) \/ (q = h /\ r \in R /\ g)
<1> DEFINE h == Head(loc.todo)
           w == wire
           y == Query(h, r, g)
           v == w \o <<y>>
<1>1. /\ IsSeq(w) /\ To(r, g) = y /\ \A i \in DOMAIN w : Counted(w, w[i].path)
      /\ Orderly(w)
  BY DEF RunInv, GraphqlInv, To, Query
<1>2. loc.todo \in Seq(Range(Paths)) /\ loc.todo # <<>> /\ IsInjective(loc.todo)
  BY DEF GraphqlInv
<1>3. h \notin Range(Tail(loc.todo)) /\ Range(Tail(loc.todo)) \subseteq Range(loc.todo)
      /\ h \in Range(loc.todo)
  BY <1>2, PathsLeft
<1>4. Untouched(w, Range(Tail(loc.todo)))
  BY <1>3 DEF GraphqlInv, Untouched, Asking
<1>5. wire' = v /\ y.path = h /\ y.request = r /\ y.gave = g
  BY <1>1 DEF Query
<1>6. ~Given(w, h, {"users"}) /\ (r = "introspection" => Untouched(w, {h}))
  <2>1. CASE pc = "gql_schema"
    <3>1. \A i \in DOMAIN w : w[i].path \notin Range(loc.todo)
      BY <2>1 DEF GraphqlInv, Untouched
    <3>2. \A i \in DOMAIN w : w[i].path # h
      BY <1>3, <3>1
    <3> HIDE DEF w, h
    <3> QED
      BY <3>2 DEF Given, Untouched
  <2>2. CASE pc # "gql_schema"
    BY <2>2 DEF GraphqlInv, Asking
  <2> QED
    BY <2>1, <2>2
<1>7. /\ r = "type" => ~Given(w, h, {"introspection"})
      /\ r = "users" => Given(w, h, {"introspection", "type"})
  BY DEF GraphqlInv
<1> HIDE DEF h, w, y
<1>a. IsSeq(w)
  BY <1>1
<1>b. \A i \in DOMAIN w : Counted(w, w[i].path)
  BY <1>1
<1>8. /\ Counted(v, h) => \A i \in DOMAIN v : Counted(v, v[i].path)
      /\ Untouched(v, Range(Tail(loc.todo)))
  <2>1. Counted(v, h) => \A i \in DOMAIN v : Counted(v, v[i].path)
    BY <1>a, <1>b, <1>5, QueryAdded
  <2>2. \A S : Untouched(w, S) /\ h \notin S => Untouched(v, S)
    BY <1>a, <1>b, <1>5, QueryAdded
  <2>3. h \notin Range(Tail(loc.todo))
    BY <1>3 DEF h
  <2> QED
    BY <1>4, <2>1, <2>2, <2>3
<1>9. ASSUME NEW q, NEW t
      PROVE  /\ TimesIn(w, q, t) \in Nat
             /\ TimesIn(v, q, t) =
                  IF q = h /\ t = r THEN TimesIn(w, q, t) + 1 ELSE TimesIn(w, q, t)
  BY <1>a, <1>5, TallyGrows
<1>10. Orderly(v)
  <2>1. Orderly(w)
    BY <1>1
  <2>2. ~Given(w, h, {"users"})
    BY <1>6
  <2>3. r = "introspection" => Untouched(w, {h})
    BY <1>6
  <2> QED
    BY <1>a, <1>5, <1>7, <2>1, <2>2, <2>3, OrderKept
<1>11. \A q, R : Given(v, q, R) <=> Given(w, q, R) \/ (q = h /\ r \in R /\ g)
  BY <1>a, <1>5, GivenAfter
<1> QED
  BY <1>5, <1>8, <1>9, <1>10, <1>11 DEF h, w

(* A path that is done leaves the others as they were. *)
LEMMA GraphqlGoesOn ==
  ASSUME RunInv, GraphqlInv, Is("graphql"), pc \in Asking,
         Step(NextPath, PathDone), Untouched(wire', Range(Tail(loc.todo)))
  PROVE  /\ pc' \in {"gql_schema", "judge"}
         /\ pc' = "gql_schema" =>
              /\ loc'.todo \in Seq(Range(Paths)) /\ loc'.todo # <<>> /\ IsInjective(loc'.todo)
              /\ Untouched(wire', Range(loc'.todo))
<1>1. loc.todo \in Seq(Range(Paths)) /\ loc.todo # <<>> /\ IsInjective(loc.todo)
  BY DEF GraphqlInv
<1>2. loc' = [todo |-> Tail(loc.todo)] /\ pc' = IF Len(loc.todo) = 1 THEN "judge" ELSE "gql_schema"
  BY DEF Step, NextPath, PathDone
<1>3. loc'.todo = Tail(loc.todo)
  BY <1>2
<1> QED
  BY <1>1, <1>2, <1>3, PathsLeft

(* Every request of graphql keeps the invariant. *)
LEMMA GraphqlStep ==
  ASSUME RunInv, GraphqlInv, GraphqlNext
  PROVE  GraphqlInv'
<1> USE DEF Is
<1>1. check = "graphql" /\ check' = "graphql"
  BY GraphqlMoves DEF Moves, Begins, Sends, Closes
<1>2. CASE GraphqlBegin
  <2>1. /\ pc' \in {"done", "gql_schema"} /\ wire' = wire /\ wire = <<>>
        /\ cand' = Nothing /\ result' = Nothing
        /\ pc' = "gql_schema" => loc' = [todo |-> Paths]
    BY <1>1, <1>2 DEF GraphqlBegin, Begin, At, Step, Keeps, RunInv
  <2>2. pc' = "gql_schema" => loc'.todo = Paths
    BY <2>1
  <2>3. DOMAIN wire' = {}
    BY <2>1
  <2> QED
    BY <1>1, <2>1, <2>2, <2>3, RunAssumption DEF GraphqlInv, JudgedAs, Untouched, Asking
<1>3. CASE GraphqlSchema
  <2>1. pc = "gql_schema" /\ result = Nothing /\ result' = Nothing
    BY <1>3 DEF GraphqlSchema, Probe, At, Keeps, RunInv
  <2>0. PICK g \in BOOLEAN :
          /\ wire' = wire \o <<To("introspection", g)>>
          /\ IF g THEN pc' = "gql_fuzz" /\ loc'.n = 1 /\ loc'.todo = loc.todo
             ELSE pc' = "gql_type" /\ loc' = loc
    <3>1. CASE Probe("gql_type", loc, <<To("introspection", FALSE)>>, {})
      BY <3>1 DEF Probe, Step, Sent
    <3>2. ASSUME NEW types, NEW new,
                 Probe("gql_fuzz", [todo |-> loc.todo, n |-> 1, types |-> types],
                       <<To("introspection", TRUE)>>, new)
          PROVE  /\ wire' = wire \o <<To("introspection", TRUE)>>
                 /\ pc' = "gql_fuzz" /\ loc'.n = 1 /\ loc'.todo = loc.todo
      BY <3>2 DEF Probe, Step, Sent
    <3> QED
      BY <1>3, <3>1, <3>2 DEF GraphqlSchema
  <2> DEFINE h == Head(loc.todo)
  <2>2. loc.todo \in Seq(Range(Paths)) /\ loc.todo # <<>> /\ IsInjective(loc.todo)
    BY <1>1, <2>1 DEF GraphqlInv, Asking
  <2>3. Untouched(wire, Range(loc.todo)) /\ h \in Range(loc.todo)
    BY <1>1, <2>1, <2>2, PathsLeft DEF GraphqlInv
  <2>4. \A t : TimesIn(wire, h, t) = 0
    BY <2>3, NeverIn DEF Untouched, Query
  <2>5. /\ Counted(wire', h) => \A i \in DOMAIN wire' : Counted(wire', wire'[i].path)
        /\ Untouched(wire', Range(Tail(loc.todo)))
        /\ \A q, t : TimesIn(wire, q, t) \in Nat /\ TimesIn(wire', q, t) =
                        IF q = h /\ t = "introspection" THEN TimesIn(wire, q, t) + 1
                        ELSE TimesIn(wire, q, t)
        /\ Orderly(wire')
        /\ \A q, R : Given(wire', q, R) <=> Given(wire, q, R) \/ (q = h /\ "introspection" \in R /\ g)
    BY <1>1, <2>0, <2>1, GraphqlAsked DEF Asking
  <2>6. /\ TimesIn(wire', h, "introspection") = 1
        /\ TimesIn(wire', h, "type") = 0 /\ TimesIn(wire', h, "users") = 0
    BY <2>4, <2>5
  <2>7. Counted(wire', h)
    BY <2>6 DEF Counted, FuzzQueries
  <2>8. ~Given(wire, h, {"users"}) /\ ~Given(wire, h, {"introspection"})
    <3>1. \A i \in DOMAIN wire : wire[i].path # h
      BY <2>3 DEF Untouched
    <3> QED
      BY <3>1, Zenon DEF Given
  <2>10. /\ ~Given(wire', h, {"users"})
         /\ g => Given(wire', h, {"introspection", "type"})
         /\ ~g => ~Given(wire', h, {"introspection"})
    BY <2>5, <2>8
  <2>9. cand' # Nothing => GraphqlFound(cand)'
    <3>1. CASE UNCHANGED cand
      BY <1>1, <2>5, <3>1 DEF GraphqlInv, GraphqlFound
    <3>2. CASE ~UNCHANGED cand
      <4>1. PICK types : cand' = [path |-> Head(loc.todo), kind |-> "introspection_enabled",
                                  types |-> types]
        BY <1>3, <3>2 DEF GraphqlSchema, Probe, Found
      <4> QED
        BY <4>1 DEF GraphqlFound
    <3> QED
      BY <3>1, <3>2
  <2> QED
    BY <1>1, <2>0, <2>1, <2>2, <2>5, <2>6, <2>7, <2>9, <2>10
    DEF GraphqlInv, JudgedAs, Asking, FuzzQueries
<1>4. CASE GraphqlType
  <2>1. pc = "gql_type" /\ result = Nothing /\ result' = Nothing
    BY <1>4 DEF GraphqlType, Probe, At, Keeps, RunInv
  <2>0. PICK g \in BOOLEAN :
          /\ wire' = wire \o <<To("type", g)>>
          /\ IF g THEN pc' = "gql_fuzz" /\ loc'.n = 1 /\ loc'.todo = loc.todo
             ELSE Step(NextPath, PathDone)
    <3>1. CASE Probe(NextPath, PathDone, <<To("type", FALSE)>>, {})
      BY <3>1 DEF Probe, Sent
    <3>2. ASSUME NEW new,
                 Probe("gql_fuzz", [todo |-> loc.todo, n |-> 1, types |-> 0],
                       <<To("type", TRUE)>>, new)
          PROVE  /\ wire' = wire \o <<To("type", TRUE)>>
                 /\ pc' = "gql_fuzz" /\ loc'.n = 1 /\ loc'.todo = loc.todo
      BY <3>2 DEF Probe, Step, Sent
    <3> QED
      BY <1>4, <3>1, <3>2 DEF GraphqlType
  <2> DEFINE h == Head(loc.todo)
  <2>2. loc.todo \in Seq(Range(Paths)) /\ loc.todo # <<>> /\ IsInjective(loc.todo)
    BY <1>1, <2>1 DEF GraphqlInv, Asking
  <2>3. /\ Counted(wire, h) /\ TimesIn(wire, h, "type") = 0
        /\ TimesIn(wire, h, "users") = 0 /\ ~Given(wire, h, {"users"})
    BY <1>1, <2>1 DEF GraphqlInv
  <2>5. /\ Counted(wire', h) => \A i \in DOMAIN wire' : Counted(wire', wire'[i].path)
        /\ Untouched(wire', Range(Tail(loc.todo)))
        /\ \A q, t : TimesIn(wire, q, t) \in Nat /\ TimesIn(wire', q, t) =
                        IF q = h /\ t = "type" THEN TimesIn(wire, q, t) + 1
                        ELSE TimesIn(wire, q, t)
        /\ Orderly(wire')
        /\ \A q, R : Given(wire', q, R) <=> Given(wire, q, R) \/ (q = h /\ "type" \in R /\ g)
    BY <1>1, <2>0, <2>1, GraphqlAsked DEF Asking
  <2>6. TimesIn(wire', h, "users") = 0 /\ TimesIn(wire', h, "type") = 1
        /\ TimesIn(wire', h, "introspection") = 1
    BY <2>3, <2>5 DEF Counted
  <2>7. Counted(wire', h)
    BY <2>6 DEF Counted, FuzzQueries
  <2>8. ~Given(wire', h, {"users"}) /\ (g => Given(wire', h, {"introspection", "type"}))
    BY <2>3, <2>5
  <2>9. cand' # Nothing => GraphqlFound(cand)'
    <3>1. CASE UNCHANGED cand
      BY <1>1, <2>5, <3>1 DEF GraphqlInv, GraphqlFound
    <3>2. CASE ~UNCHANGED cand
      <4>1. cand' = [path |-> Head(loc.todo), kind |-> "type_query_works", types |-> 0]
        BY <1>4, <3>2 DEF GraphqlType, Probe, Found
      <4> QED
        BY <4>1 DEF GraphqlFound
    <3> QED
      BY <3>1, <3>2
  <2>10. CASE Step(NextPath, PathDone)
    <3>1. /\ pc' \in {"gql_schema", "judge"}
          /\ pc' = "gql_schema" =>
               /\ loc'.todo \in Seq(Range(Paths)) /\ loc'.todo # <<>> /\ IsInjective(loc'.todo)
               /\ Untouched(wire', Range(loc'.todo))
      BY <1>1, <2>1, <2>5, <2>10, GraphqlGoesOn DEF Asking
    <3> QED
      BY <1>1, <2>1, <2>5, <2>7, <2>9, <3>1 DEF GraphqlInv, JudgedAs, Asking
  <2>11. CASE g
    <3>1. pc' = "gql_fuzz" /\ loc'.n = 1 /\ loc'.todo = loc.todo
      BY <2>0, <2>11
    <3>2. /\ \A i \in DOMAIN wire' : Counted(wire', wire'[i].path)
          /\ Untouched(wire', Range(Tail(loc'.todo))) /\ Orderly(wire')
      BY <2>5, <2>7, <3>1
    <3>3. TimesIn(wire', Head(loc'.todo), "users") = loc'.n - 1
      BY <2>6, <3>1
    <3> QED
      BY <1>1, <2>1, <2>2, <2>7, <2>8, <2>9, <2>11, <3>1, <3>2, <3>3
      DEF GraphqlInv, JudgedAs, Asking, FuzzQueries
  <2> QED
    BY <2>0, <2>10, <2>11
<1>5. CASE GraphqlFuzz
  <2>1. pc = "gql_fuzz" /\ result = Nothing /\ result' = Nothing
    BY <1>5 DEF GraphqlFuzz, Probe, At, Keeps, RunInv
  <2>0. PICK g \in BOOLEAN :
          /\ wire' = wire \o <<To("users", g)>>
          /\ \/ Step(NextPath, PathDone)
             \/ /\ pc' = "gql_fuzz" /\ loc' = [loc EXCEPT !.n = @ + 1]
                /\ loc.n # FuzzQueries /\ ~g
          /\ ~UNCHANGED cand => g
    <3>1. PICK a \in FuzzAnswer :
            LET ends == IsFuzzSuccess(a) \/ loc.n = FuzzQueries IN
            Probe(IF ends THEN NextPath ELSE "gql_fuzz",
                  IF ends THEN PathDone ELSE [loc EXCEPT !.n = @ + 1],
                  <<To("users", IsFuzzSuccess(a))>>,
                  IF IsFuzzSuccess(a)
                  THEN {[path |-> Head(loc.todo), kind |-> "graphql_fuzz_bola",
                         types |-> loc.types, answer |-> a]}
                  ELSE {})
      BY <1>5 DEF GraphqlFuzz
    <3>2. wire' = wire \o <<To("users", IsFuzzSuccess(a))>>
      BY <3>1 DEF Probe, Sent
    <3>3. IsFuzzSuccess(a) \in BOOLEAN
      BY DEF IsFuzzSuccess
    <3>4. CASE IsFuzzSuccess(a)
      BY <3>1, <3>2, <3>3, <3>4 DEF Probe
    <3>5. CASE ~IsFuzzSuccess(a)
      BY <3>1, <3>2, <3>3, <3>5 DEF Probe, Found, Step
    <3> QED
      BY <3>4, <3>5
  <2> DEFINE h == Head(loc.todo)
  <2>2. loc.todo \in Seq(Range(Paths)) /\ loc.todo # <<>> /\ IsInjective(loc.todo)
    BY <1>1, <2>1 DEF GraphqlInv, Asking
  <2>3. /\ Counted(wire, h) /\ loc.n \in 1..FuzzQueries
        /\ TimesIn(wire, h, "users") = loc.n - 1
        /\ ~Given(wire, h, {"users"}) /\ Given(wire, h, {"introspection", "type"})
    BY <1>1, <2>1 DEF GraphqlInv
  <2>5. /\ Counted(wire', h) => \A i \in DOMAIN wire' : Counted(wire', wire'[i].path)
        /\ Untouched(wire', Range(Tail(loc.todo)))
        /\ \A q, t : TimesIn(wire, q, t) \in Nat /\ TimesIn(wire', q, t) =
                        IF q = h /\ t = "users" THEN TimesIn(wire, q, t) + 1
                        ELSE TimesIn(wire, q, t)
        /\ Orderly(wire')
        /\ \A q, R : Given(wire', q, R) <=> Given(wire, q, R) \/ (q = h /\ "users" \in R /\ g)
    BY <1>1, <2>0, <2>1, GraphqlAsked DEF Asking
  <2>6. TimesIn(wire', h, "users") = loc.n
    BY <2>3, <2>5 DEF FuzzQueries
  <2>7. Counted(wire', h)
    BY <2>3, <2>5, <2>6 DEF Counted, FuzzQueries
  <2>8. /\ Given(wire', h, {"introspection", "type"})
        /\ ~g => ~Given(wire', h, {"users"})
        /\ g => Given(wire', h, {"users"})
    BY <2>3, <2>5
  <2>9. cand' # Nothing => GraphqlFound(cand)'
    <3>1. CASE UNCHANGED cand
      BY <1>1, <2>5, <3>1 DEF GraphqlInv, GraphqlFound
    <3>2. CASE ~UNCHANGED cand
      <4>1. PICK a : cand' = [path |-> Head(loc.todo), kind |-> "graphql_fuzz_bola",
                              types |-> loc.types, answer |-> a]
        BY <1>5, <3>2 DEF GraphqlFuzz, Probe, Found
      <4> QED
        BY <2>0, <2>8, <3>2, <4>1 DEF GraphqlFound
    <3> QED
      BY <3>1, <3>2
  <2>10. CASE Step(NextPath, PathDone)
    <3>1. /\ pc' \in {"gql_schema", "judge"}
          /\ pc' = "gql_schema" =>
               /\ loc'.todo \in Seq(Range(Paths)) /\ loc'.todo # <<>> /\ IsInjective(loc'.todo)
               /\ Untouched(wire', Range(loc'.todo))
      BY <1>1, <2>1, <2>5, <2>10, GraphqlGoesOn DEF Asking
    <3> QED
      BY <1>1, <2>1, <2>5, <2>7, <2>9, <3>1 DEF GraphqlInv, JudgedAs, Asking
  <2>11. CASE /\ pc' = "gql_fuzz" /\ loc' = [loc EXCEPT !.n = @ + 1]
              /\ loc.n # FuzzQueries /\ ~g
    BY <1>1, <2>1, <2>2, <2>3, <2>5, <2>6, <2>7, <2>8, <2>9, <2>11
    DEF GraphqlInv, JudgedAs, Asking, FuzzQueries
  <2> QED
    BY <2>0, <2>10, <2>11
<1>6. CASE Judge("graphql", GraphqlReport)
  BY <1>1, <1>6 DEF Judge, At, GraphqlInv, RunInv, JudgedAs, GraphqlReport, GraphqlFound, Asking
<1> QED
  BY <1>2, <1>3, <1>4, <1>5, <1>6 DEF GraphqlNext, GraphqlReport

(* A finding about objects rests on queries for objects, within the limit. *)
LEMMA GraphqlInvEscalates == RunInv /\ GraphqlInv => GraphqlEscalation
<1> SUFFICES ASSUME RunInv, GraphqlInv, Is("graphql")
             PROVE  /\ \A i \in DOMAIN wire :
                        /\ AskedOf(wire[i].path, "introspection") = 1
                        /\ AskedOf(wire[i].path, "type") <= 1
                        /\ AskedOf(wire[i].path, "users") <= FuzzQueries
                        /\ wire[i].request = "type" =>
                             ~GaveOne(wire[i].path, {"introspection"})
                        /\ wire[i].request = "users" =>
                             \E j \in DOMAIN wire :
                               /\ j < i /\ wire[j].path = wire[i].path
                               /\ wire[j].request \in {"introspection", "type"} /\ wire[j].gave
                        /\ wire[i].request = "users" /\ wire[i].gave =>
                             \A j \in DOMAIN wire : wire[j].path = wire[i].path => j <= i
                    /\ Reports("graphql") =>
                        /\ result.finding.severity = "high" => GaveOne(cand.path, {"users"})
                        /\ result.finding.status = "likely" <=>
                             cand.kind = "introspection_enabled" /\ cand.types = 0
  BY DEF GraphqlEscalation
<1>1. /\ \A p, r : AskedOf(p, r) = TimesIn(wire, p, r)
      /\ \A p, R : GaveOne(p, R) <=> Given(wire, p, R)
  BY DEF AskedOf, TimesIn, GaveOne, Given
<1>2. ASSUME Reports("graphql")
      PROVE  /\ result.finding.severity = "high" => GaveOne(cand.path, {"users"})
             /\ result.finding.status = "likely" <=>
                  cand.kind = "introspection_enabled" /\ cand.types = 0
  <2>1. GraphqlFound(cand) /\ result = GraphqlReport /\ result.stage = "reported"
    BY <1>2 DEF Reports, GraphqlInv, JudgedAs, Nothing
  <2>2. result = [stage |-> "reported", v |-> GraphqlValidate(cand),
                  evidence |-> GraphqlEvidence(cand), assessed |-> GraphqlAssess(cand),
                  finding |-> [GraphqlAssess(cand) EXCEPT
                    !.status = Status(GraphqlValidate(cand).outcome),
                    !.confidence = GraphqlValidate(cand).confidence]]
    BY <2>1, ReportIs DEF GraphqlReport
  <2>3. /\ result.finding.severity = GraphqlAssess(cand).severity
        /\ result.finding.status = Status(GraphqlValidate(cand).outcome)
    BY <2>2 DEF GraphqlAssess
  <2>4. GraphqlAssess(cand).severity = "high" => cand.kind = "graphql_fuzz_bola"
    BY DEF GraphqlAssess
  <2>5. Status(GraphqlValidate(cand).outcome) = "likely" <=>
          cand.kind = "introspection_enabled" /\ cand.types = 0
    BY DEF Status, GraphqlValidate
  <2> QED
    BY <1>1, <2>1, <2>3, <2>4, <2>5 DEF GraphqlFound
<1> QED
  BY <1>1, <1>2 DEF GraphqlInv, Counted, Orderly, Follows

(* What the three checks that escalate have seen. *)
EarnedInv == RunInv /\ XssInv /\ SessionInv /\ GraphqlInv

(* Every step of every check keeps the three invariants. *)
LEMMA EarnedStep == EarnedInv /\ [Next]_runVars => EarnedInv'
<1> SUFFICES ASSUME EarnedInv, [Next]_runVars PROVE EarnedInv'
  OBVIOUS
<1>1. RunInv /\ RunInv'
  BY RunInvStep DEF EarnedInv
<1>2. CASE UNCHANGED runVars
  <2>1. UNCHANGED <<check, pc, env, loc, cand, wire, result>>
    BY <1>2 DEF runVars
  <2>2. XssInv'
    BY <1>1, <2>1 DEF EarnedInv, XssInv, Is, JudgedAs, XssFound, XssReport
  <2>3. SessionInv'
    BY <1>1, <2>1 DEF EarnedInv, SessionInv, Is, JudgedAs, SessionFound, SessionReport, Xss
  <2>4. GraphqlInv'
    BY <1>1, <2>1 DEF EarnedInv, GraphqlInv, Is, JudgedAs, GraphqlFound, GraphqlReport
  <2> QED
    BY <1>1, <2>2, <2>3, <2>4 DEF EarnedInv
<1>3. CASE Next
  <2>1. check' = check
    BY <1>1, <1>3, NextOf
  <2>2. XssInv'
    <3>1. CASE check = "xss"
      BY <1>1, <1>3, <3>1, NextOf, XssStep DEF EarnedInv
    <3>2. CASE check # "xss"
      BY <2>1, <3>2 DEF XssInv, Is
    <3> QED
      BY <3>1, <3>2
  <2>3. SessionInv'
    <3>1. CASE check = "session"
      BY <1>1, <1>3, <3>1, NextOf, SessionStep DEF EarnedInv
    <3>2. CASE check # "session"
      BY <2>1, <3>2 DEF SessionInv, Is
    <3> QED
      BY <3>1, <3>2
  <2>4. GraphqlInv'
    <3>1. CASE check = "graphql"
      BY <1>1, <1>3, <3>1, NextOf, GraphqlStep DEF EarnedInv
    <3>2. CASE check # "graphql"
      BY <2>1, <3>2 DEF GraphqlInv, Is
    <3> QED
      BY <3>1, <3>2
  <2> QED
    BY <1>1, <2>2, <2>3, <2>4 DEF EarnedInv
<1> QED
  BY <1>2, <1>3

(* A strength above the plain one is given only to what was seen in the    *)
(* answers, whatever the pages, cookies and schemas are (xss.py,           *)
(* session_cookie.py, graphql.py).                                         *)
THEOREM EscalationsAreEarned == Spec => []EscalationEarned
<1>1. Init => EarnedInv
  <2> SUFFICES ASSUME Init PROVE EarnedInv
    OBVIOUS
  <2>1. RunInv /\ pc = "start" /\ cand = Nothing /\ wire = <<>> /\ result = Nothing
    BY RunInitInv DEF Init, RunInit
  <2>2. DOMAIN wire = {}
    BY <2>1
  <2>3. XssInv /\ SessionInv
    BY <2>1 DEF XssInv, SessionInv, JudgedAs
  <2>4. Orderly(wire)
    BY <2>2 DEF Orderly
  <2>5. GraphqlInv
    BY <2>1, <2>2, <2>4 DEF GraphqlInv, JudgedAs, Asking
  <2> QED
    BY <2>1, <2>3, <2>5 DEF EarnedInv
<1>2. EarnedInv => EscalationEarned
  BY XssInvHonours, SessionInvEscalates, GraphqlInvEscalates DEF EarnedInv, EscalationEarned
<1> QED
  BY <1>1, <1>2, EarnedStep, PTL DEF Spec

(* The median of one number or of two is one of them. *)
LEMMA MiddleIsOne ==
  ASSUME NEW a \in Nat, NEW b \in Nat
  PROVE  Max({a, b}) \in {a, b}
<1>1. \E x \in {a, b} : \A y \in {a, b} : x >= y
  OBVIOUS
<1> QED
  BY <1>1 DEF Max

-----------------------------------------------------------------------------
(* path-traversal *)

(* The baselines and what a payload was compared with. *)
Based(base) == base \in Seq(Shown) /\ Len(base) \in 1..2
TraversalFound(c) ==
  /\ c.behavior = "canary_reflected" => c.seen.echo /\ ~c.base[1].echo
  /\ c.behavior = "status_transition_404_to_200" =>
       c.seen.status = 200 /\ \E i \in DOMAIN c.base : c.base[i].status = 404
  /\ c.behavior = "different_length" =>
       /\ \E i \in DOMAIN c.base : c.base[i].status = c.seen.status
       /\ \E i \in DOMAIN c.base : c.base[i].length # c.seen.length
  /\ c.behavior = "different_status" =>
       \E i \in DOMAIN c.base : c.base[i].status # c.seen.status
TraversalReport ==
  Reported(TraversalValidate(cand), TraversalEvidence(cand), TraversalAssess(cand))

(* Every baseline is an answer that was seen. *)
TraversalInv ==
  Is("traversal") =>
    /\ pc \in {"pt_base", "pt_probe"} =>
         loc = [base |-> loc.base, n |-> loc.n, todo |-> loc.todo]
    /\ pc = "pt_base" => loc.n \in 0..1 /\ loc.base \in Seq(Shown) /\ Len(loc.base) <= loc.n
    /\ pc = "pt_probe" => Based(loc.base)
    /\ cand # Nothing => TraversalFound(cand)
    /\ JudgedAs(TraversalReport)

(* The middle of one number or of two, given for every baseline, is that of *)
(* a baseline.                                                             *)
LEMMA MiddleSeen ==
  ASSUME NEW s, DOMAIN s \in {{1}, {1, 2}}, \A i \in DOMAIN s : s[i] \in Nat
  PROVE  \E i \in DOMAIN s : s[i] = Middle(s)
<1>1. PICK i \in DOMAIN s, j \in DOMAIN s : Range(s) = {s[i], s[j]}
  <2>1. CASE DOMAIN s = {1}
    BY <2>1 DEF Range
  <2>2. CASE DOMAIN s = {1, 2}
    BY <2>2 DEF Range
  <2> QED
    BY <2>1, <2>2
<1> QED
  BY <1>1, MiddleIsOne DEF Middle

(* The status and the length payloads are compared with are a baseline's. *)
LEMMA BaselineSeen ==
  ASSUME Based(loc.base)
  PROVE  /\ \E i \in DOMAIN loc.base : loc.base[i].status = BaseStatus
         /\ \E i \in DOMAIN loc.base : loc.base[i].length = BaseLength
<1>1. /\ Len(loc.base) \in 1..2 /\ DOMAIN loc.base = 1..Len(loc.base)
      /\ \A i \in 1..Len(loc.base) : loc.base[i] \in Shown
  BY LenProperties, ElementOfSeq DEF Based
<1>2. \A i \in DOMAIN loc.base : loc.base[i].status \in Nat /\ loc.base[i].length \in Nat
  <2>1. \A x \in Shown : x.status \in Statuses /\ x.length \in 1..2
    BY DEF Shown
  <2>2. Statuses \subseteq Nat /\ 1..2 \subseteq Nat
    BY StatusesAssumption
  <2> HIDE DEF Shown
  <2>3. \A x \in Shown : x.status \in Nat /\ x.length \in Nat
    BY <2>1, <2>2
  <2> QED
    BY <1>1, <2>3
<1>3. DOMAIN loc.base \in {{1}, {1, 2}}
  <2> DEFINE n == Len(loc.base)
  <2>1. DOMAIN loc.base = 1..n /\ n \in 1..2
    BY <1>1
  <2> HIDE DEF n
  <2> QED
    BY <2>1
<1>4. \E i \in DOMAIN loc.base : loc.base[i].status = BaseStatus
  <2> DEFINE s == [i \in DOMAIN loc.base |-> loc.base[i].status]
  <2>1. DOMAIN s \in {{1}, {1, 2}} /\ \A i \in DOMAIN s : s[i] \in Nat
    BY <1>2, <1>3
  <2>2. BaseStatus = Middle(s) /\ \A i \in DOMAIN s : s[i] = loc.base[i].status
    BY DEF BaseStatus
  <2> HIDE DEF s
  <2> QED
    BY <2>1, <2>2, MiddleSeen DEF s
<1>5. \E i \in DOMAIN loc.base : loc.base[i].length = BaseLength
  <2> DEFINE s == [i \in DOMAIN loc.base |-> loc.base[i].length]
  <2>1. DOMAIN s \in {{1}, {1, 2}} /\ \A i \in DOMAIN s : s[i] \in Nat
    BY <1>2, <1>3
  <2>2. BaseLength = Middle(s) /\ \A i \in DOMAIN s : s[i] = loc.base[i].length
    BY DEF BaseLength
  <2> HIDE DEF s
  <2> QED
    BY <2>1, <2>2, MiddleSeen DEF s
<1> QED
  BY <1>4, <1>5

(* Every request of path-traversal keeps the invariant. *)
LEMMA TraversalStep ==
  ASSUME RunInv, TraversalInv, TraversalNext
  PROVE  TraversalInv'
<1> USE DEF Is
<1>1. check = "traversal" /\ check' = "traversal"
  BY TraversalMoves DEF Moves, Begins, Sends, Closes
<1>2. CASE TraversalBegin
  <2>1. /\ pc' \in {"done", "pt_base"} /\ cand' = Nothing /\ result' = Nothing
        /\ pc' = "pt_base" => loc' = [base |-> <<>>, n |-> 0, todo |-> Payloads]
    BY <1>1, <1>2 DEF TraversalBegin, BeginGated, At, Step, RunInv
  <2>2. pc' = "pt_base" =>
          /\ loc' = [base |-> loc'.base, n |-> loc'.n, todo |-> loc'.todo]
          /\ loc'.n = 0 /\ loc'.base = <<>>
    BY <2>1
  <2>3. pc' = "pt_base" => loc'.base \in Seq(Shown) /\ Len(loc'.base) <= loc'.n
    <3>1. <<>> \in Seq(Shown) /\ Len(<<>>) = 0
      BY EmptySeq
    <3>2. <<>> \in Seq(Shown) /\ Len(<<>>) <= 0
      BY <3>1
    <3> HIDE DEF Shown
    <3> QED
      BY <2>2, <3>2
  <2> QED
    BY <1>1, <2>1, <2>2, <2>3 DEF TraversalInv, JudgedAs
<1>3. CASE TraversalBaseline
  <2>1. /\ pc = "pt_base" /\ cand' = cand /\ result = Nothing /\ result' = Nothing
    BY <1>3 DEF TraversalBaseline, Probe, At, Found, Keeps, RunInv
  <2>2. /\ loc = [base |-> loc.base, n |-> loc.n, todo |-> loc.todo]
        /\ loc.n \in 0..1 /\ loc.base \in Seq(Shown) /\ Len(loc.base) <= loc.n
    BY <1>1, <2>1 DEF TraversalInv
  <2>3. PICK got \in {<<>>} \cup {<<a>> : a \in Shown} :
          /\ pc' = IF loc.n = 0 THEN "pt_base" ELSE IF loc.base \o got = <<>> THEN "judge"
                   ELSE "pt_probe"
          /\ loc' = [loc EXCEPT !.base = loc.base \o got, !.n = @ + 1]
    BY <1>3 DEF TraversalBaseline, Probe, Step
  <2>4. loc' = [base |-> loc.base \o got, n |-> loc.n + 1, todo |-> loc.todo]
    BY <2>2, <2>3
  <2>5. got \in Seq(Shown) /\ Len(got) \in 0..1
    <3>1. CASE got = <<>>
      BY <3>1, EmptySeq
    <3>2. ASSUME NEW a \in Shown, got = <<a>> PROVE got \in Seq(Shown) /\ Len(got) = 1
      BY <3>2
    <3> QED
      BY <2>3, <3>1, <3>2, EmptySeq
  <2>6. loc.base \o got \in Seq(Shown) /\ Len(loc.base \o got) = Len(loc.base) + Len(got)
    BY <2>2, <2>5, ConcatProperties
  <2>7. /\ loc'.base = loc.base \o got /\ loc'.n = loc.n + 1
        /\ loc' = [base |-> loc'.base, n |-> loc'.n, todo |-> loc'.todo]
    BY <2>4
  <2>8. /\ loc'.base \in Seq(Shown) /\ Len(loc'.base) \in Nat
        /\ Len(loc'.base) <= loc'.n /\ loc'.n \in 1..2
    <3>1. Len(loc.base) \in Nat
      BY <2>2, LenProperties
    <3> DEFINE k == Len(loc.base)  m == Len(got)  all == Len(loc.base \o got)
    <3>2. k \in Nat /\ m \in 0..1 /\ all = k + m /\ k <= loc.n
      BY <2>2, <2>5, <2>6, <3>1
    <3> HIDE DEF k, m, all
    <3>3. all \in Nat /\ all <= loc.n + 1 /\ loc.n + 1 \in 1..2
      BY <2>2, <3>2
    <3> QED
      BY <2>6, <2>7, <3>3 DEF all
  <2>9. pc' = IF loc.n = 0 THEN "pt_base" ELSE IF loc'.base = <<>> THEN "judge" ELSE "pt_probe"
    BY <2>3, <2>7
  <2>10. CASE loc.n = 0
    BY <1>1, <2>1, <2>7, <2>8, <2>9, <2>10 DEF TraversalInv, JudgedAs, TraversalFound
  <2>11. CASE loc.n # 0
    <3>1. loc'.base # <<>> => Based(loc'.base)
      <4>1. loc'.base # <<>> => Len(loc'.base) # 0
        BY <2>8, EmptySeq
      <4> DEFINE k == Len(loc'.base)
      <4>2. loc'.base # <<>> => k \in Nat /\ k # 0 /\ k <= loc'.n /\ loc'.n \in 1..2
        BY <2>8, <4>1
      <4> HIDE DEF k
      <4>3. loc'.base # <<>> => k \in 1..2
        BY <4>2
      <4> QED
        BY <2>8, <4>3 DEF Based, k
    <3> QED
      BY <1>1, <2>1, <2>7, <2>9, <2>11, <3>1 DEF TraversalInv, JudgedAs, TraversalFound
  <2> QED
    BY <2>10, <2>11
<1>4. CASE TraversalProbe
  <2>1. pc = "pt_probe" /\ result = Nothing /\ result' = Nothing
    BY <1>4 DEF TraversalProbe, Probe, At, Keeps, RunInv
  <2>2. loc = [base |-> loc.base, n |-> loc.n, todo |-> loc.todo] /\ Based(loc.base)
    BY <1>1, <2>1 DEF TraversalInv
  <2>3. pc' \in {"judge", "pt_probe"} /\ loc' = [loc EXCEPT !.todo = Tail(loc.todo)]
    BY <1>4 DEF TraversalProbe, Probe, Step
  <2>4. loc' = [base |-> loc.base, n |-> loc.n, todo |-> Tail(loc.todo)]
    BY <2>2, <2>3
  <2>5. loc'.base = loc.base /\ loc' = [base |-> loc'.base, n |-> loc'.n, todo |-> loc'.todo]
    BY <2>4
  <2>6. cand' # Nothing => TraversalFound(cand)'
    <3>1. CASE UNCHANGED cand
      BY <1>1, <3>1 DEF TraversalInv, TraversalFound
    <3>2. CASE ~UNCHANGED cand
      <4>1. PICK a \in Shown :
              cand' = [behavior |-> Behavior(a), seen |-> a, base |-> loc.base]
        BY <1>4, <3>2 DEF TraversalProbe, Probe, Found
      <4>2. /\ Behavior(a) = "canary_reflected" => a.echo /\ ~loc.base[1].echo
            /\ Behavior(a) = "status_transition_404_to_200" =>
                 a.status = 200 /\ BaseStatus = 404
            /\ Behavior(a) = "different_length" =>
                 a.status = BaseStatus /\ a.length # BaseLength
            /\ Behavior(a) = "different_status" => a.status # BaseStatus
        BY DEF Behavior
      <4>3. /\ \E i \in DOMAIN loc.base : loc.base[i].status = BaseStatus
            /\ \E i \in DOMAIN loc.base : loc.base[i].length = BaseLength
        BY <2>2, BaselineSeen
      <4> QED
        BY <4>1, <4>2, <4>3 DEF TraversalFound
    <3> QED
      BY <3>1, <3>2
  <2> QED
    BY <1>1, <2>1, <2>2, <2>3, <2>5, <2>6 DEF TraversalInv, JudgedAs
<1>5. CASE Judge("traversal", TraversalReport)
  BY <1>1, <1>5 DEF Judge, At, TraversalInv, RunInv, JudgedAs, TraversalReport, TraversalFound
<1> QED
  BY <1>2, <1>3, <1>4, <1>5 DEF TraversalNext, TraversalReport

(* What is confirmed differs from its baselines. *)
LEMMA TraversalInvConfirms == TraversalInv => TraversalConfirmed
<1> SUFFICES ASSUME TraversalInv, Reports("traversal") PROVE TraversalConfirmed
  BY DEF TraversalConfirmed
<1> DEFINE o == OutcomeForTraversal(cand.behavior, cand.seen.status)
<1>1. TraversalFound(cand) /\ result = TraversalReport /\ result.stage = "reported"
  BY DEF Reports, Is, TraversalInv, JudgedAs, Nothing
<1>2. /\ TraversalValidate(cand).outcome # "false_positive"
      /\ result = [stage |-> "reported", v |-> TraversalValidate(cand),
                   evidence |-> TraversalEvidence(cand), assessed |-> TraversalAssess(cand),
                   finding |-> [TraversalAssess(cand) EXCEPT
                     !.status = Status(TraversalValidate(cand).outcome),
                     !.confidence = TraversalValidate(cand).confidence]]
  BY <1>1, ReportIs DEF TraversalReport
<1>3. o # "false_positive" /\ TraversalValidate(cand).outcome = o
  BY <1>2 DEF TraversalValidate
<1>4. TraversalAssess(cand) =
        [severity |-> CASE o = "confirmed" -> "high" [] o = "likely" -> "medium"
                        [] OTHER -> "low",
         confidence |-> TraversalConfidence(o), status |-> o]
  BY <1>3 DEF TraversalAssess
<1>5. o \in {"confirmed", "likely", "inconclusive"}
  BY <1>3 DEF OutcomeForTraversal, OutcomeUncontaminated
<1>6. /\ result.finding.status = Status(o)
      /\ result.finding.severity = CASE o = "confirmed" -> "high" [] o = "likely" -> "medium"
                                     [] OTHER -> "low"
      /\ result.evidence = TraversalEvidence(cand)
  <2> DEFINE sev == CASE o = "confirmed" -> "high" [] o = "likely" -> "medium"
                      [] OTHER -> "low"
             sure == TraversalConfidence(o)
             v == TraversalValidate(cand)
             e == TraversalEvidence(cand)
  <2>1. /\ TraversalAssess(cand) = [severity |-> sev, confidence |-> sure, status |-> o]
        /\ v.outcome = o
        /\ result = [stage |-> "reported", v |-> v, evidence |-> e,
                     assessed |-> TraversalAssess(cand),
                     finding |-> [TraversalAssess(cand) EXCEPT
                       !.status = Status(v.outcome), !.confidence = v.confidence]]
    BY <1>2, <1>3, <1>4
  <2> HIDE DEF sev, sure, v, e, o
  <2>2. result.finding = [severity |-> sev, confidence |-> v.confidence, status |-> Status(o)]
    <3>1. result.finding = [[severity |-> sev, confidence |-> sure, status |-> o] EXCEPT
                              !.status = Status(o), !.confidence = v.confidence]
      BY <2>1
    <3> QED
      BY <3>1
  <2>3. result.evidence = e
    BY <2>1
  <2> QED
    BY <2>2, <2>3 DEF sev, e
<1>7. Status(o) = o
  BY <1>5 DEF Status
<1>8. /\ o = "confirmed" => /\ cand.seen.status \notin WafStatus \cup RateStatus
                            /\ cand.behavior \in {"canary_reflected",
                                                  "status_transition_404_to_200"}
      /\ cand.seen.status \in WafStatus \cup RateStatus => o = "inconclusive"
      /\ o = "likely" => cand.behavior = "different_length"
      /\ o = "inconclusive" => \/ cand.seen.status \in WafStatus \cup RateStatus
                               \/ cand.behavior = "different_status"
  BY DEF OutcomeForTraversal, OutcomeUncontaminated
<1>9. /\ result.evidence.outcome = o
      /\ result.evidence.waf = (cand.seen.status \in WafStatus)
  BY <1>6 DEF TraversalEvidence
<1> HIDE DEF o
<1>10. o = "likely" => result.finding.severity = "medium" /\ ~result.evidence.waf
  BY <1>6, <1>8, <1>9
<1> QED
  BY <1>1, <1>6, <1>7, <1>8, <1>9, <1>10 DEF TraversalConfirmed, TraversalFound

-----------------------------------------------------------------------------
(* mass-assignment *)

(* A mutation was written by a request that is on the wire. *)
MassFound(c) ==
  c.mutation # None =>
    c.mutation \in Write /\ [path |-> c.path, method |-> "POST"] \in Range(wire)
MassReport == Reported(MassValidate(cand), MassEvidence(cand), MassAssess(cand))

(* Candidates are found that way, and judged as they were found. *)
MassInv ==
  Is("mass") => (cand # Nothing => MassFound(cand)) /\ JudgedAs(MassReport)

(* Every request of mass-assignment keeps the invariant. *)
LEMMA MassStep ==
  ASSUME RunInv, MassInv, MassNext
  PROVE  MassInv'
<1> USE DEF Is
<1>1. check = "mass" /\ check' = "mass"
  BY MassMoves DEF Moves, Begins, Sends, Closes
<1>2. CASE MassBegin
  <2>1. pc = "start" /\ cand' = cand /\ result' = result /\ wire' = wire
    BY <1>2 DEF MassBegin, Begin, At, Keeps
  <2> QED
    BY <1>1, <2>1 DEF MassInv, RunInv, JudgedAs
<1>3. CASE MassRead
  <2>1. /\ pc = "mass_read" /\ result = Nothing /\ result' = Nothing
        /\ wire' = wire \o <<[path |-> Head(loc.todo), method |-> "GET"]>>
    BY <1>3 DEF MassRead, Probe, At, Sent, Keeps, RunInv
  <2>2. Range(wire) \subseteq Range(wire')
    BY <2>1, OneMore DEF RunInv
  <2>3. cand' # Nothing => MassFound(cand)'
    <3>1. CASE UNCHANGED cand
      BY <1>1, <2>2, <3>1 DEF MassInv, MassFound
    <3>2. CASE ~UNCHANGED cand
      <4>1. PICK f : cand' = Field(f, None)
        BY <1>3, <3>2 DEF MassRead, Probe, Found
      <4> QED
        BY <4>1 DEF MassFound, Field
    <3> QED
      BY <3>1, <3>2
  <2> QED
    BY <1>1, <2>1, <2>3 DEF MassInv, JudgedAs
<1>4. CASE MassWrite
  <2>1. /\ pc = "mass_write" /\ result = Nothing /\ result' = Nothing
        /\ wire' = wire \o <<[path |-> Head(loc.todo), method |-> "POST"]>>
    BY <1>4 DEF MassWrite, Probe, At, Sent, Keeps, RunInv
  <2>2. /\ Range(wire) \subseteq Range(wire')
        /\ [path |-> Head(loc.todo), method |-> "POST"] \in Range(wire')
    BY <2>1, OneMore DEF RunInv
  <2>3. cand' # Nothing => MassFound(cand)'
    <3>1. CASE UNCHANGED cand
      BY <1>1, <2>2, <3>1 DEF MassInv, MassFound
    <3>2. CASE ~UNCHANGED cand
      <4>0. PICK f \in loc.fields : \/ cand' = Field(f, None)
                                     \/ \E w \in Write : cand' = Field(f, w)
        BY <1>4, <3>2 DEF MassWrite, Probe, Found
      <4>1. PICK m \in Write \cup {None} : cand' = Field(f, m)
        BY <4>0
      <4>2. cand'.mutation = m /\ cand'.path = Head(loc.todo)
        BY <4>1 DEF Field
      <4> QED
        BY <2>2, <4>1, <4>2 DEF MassFound
    <3> QED
      BY <3>1, <3>2
  <2> QED
    BY <1>1, <2>1, <2>3 DEF MassInv, JudgedAs
<1>5. CASE Judge("mass", MassReport)
  BY <1>1, <1>5 DEF Judge, At, MassInv, RunInv, JudgedAs, MassReport, MassFound
<1> QED
  BY <1>2, <1>3, <1>4, <1>5 DEF MassNext, MassReport

(* A field is called writable after a write that was sent. *)
LEMMA MassInvWrites == MassInv => MassWritable
<1> SUFFICES ASSUME MassInv, Reports("mass") PROVE MassWritable
  BY DEF MassWritable
<1> DEFINE o == MassOutcome(cand)
<1>1. MassFound(cand) /\ result = MassReport /\ result.stage = "reported"
  BY DEF Reports, Is, MassInv, JudgedAs, Nothing
<1>2. result = [stage |-> "reported", v |-> MassValidate(cand),
                evidence |-> MassEvidence(cand), assessed |-> MassAssess(cand),
                finding |-> [MassAssess(cand) EXCEPT
                  !.status = Status(MassValidate(cand).outcome),
                  !.confidence = MassValidate(cand).confidence]]
  BY <1>1, ReportIs DEF MassReport
<1>3. result.finding.status = Status(o)
  BY <1>2 DEF MassAssess, MassValidate
<1>4. result.evidence.outcome = o
  BY <1>2 DEF MassEvidence
<1>5. o \in {"confirmed", "likely", "inconclusive"} /\ Status(o) = o
  BY DEF MassOutcome, MutationOutcome, Status
<1>6. cand.mutation # None =>
        /\ cand.mutation.status \in {200, 401, 403, 429, 500}
        /\ o = IF cand.mutation.status \in 200..299
               THEN IF cand.mutation.canary THEN "confirmed" ELSE "likely" ELSE "inconclusive"
  BY <1>1 DEF MassFound, Write, MassOutcome, MutationOutcome
<1>7. cand.mutation = None => o = "likely"
  BY DEF MassOutcome
<1> HIDE DEF o
<1>8. /\ o = "confirmed" <=>
           cand.mutation # None /\ cand.mutation.status = 200 /\ cand.mutation.canary
      /\ o = "inconclusive" <=> cand.mutation # None /\ cand.mutation.status # 200
  BY <1>6, <1>7
<1> QED
  BY <1>1, <1>3, <1>4, <1>5, <1>8 DEF MassWritable, MassFound

(* The reports of the checks that observe. *)
CorsReport == Reported(CorsValidate(cand), CorsEvidence(cand), CorsAssess(cand))
DisclosureReport ==
  Reported(DisclosureValidate(cand), DisclosureEvidence(cand), DisclosureAssess(cand))

(* Which step a behaviour of one of the looking checks takes. *)
LEMMA ObservationOf ==
  ASSUME ObservationNext
  PROVE  /\ check = "cors" => \/ CorsBegin \/ CorsPreflight \/ CorsGet
                              \/ Judge("cors", CorsReport)
         /\ check = "disclosure" =>
              \/ DisclosureBegin \/ DisclosureHome \/ DisclosureMissing \/ DisclosureDebug
              \/ DisclosureBackup \/ Judge("disclosure", DisclosureReport)
<1>1. /\ HeadersBegin => check = "headers"
      /\ HeadersGet => check = "headers"
      /\ \A r : Judge("headers", r) => check = "headers"
      /\ \A r : Judge("redirect", r) => check = "redirect"
      /\ \A r : Judge("sourcemap", r) => check = "sourcemap"
      /\ \A r : Judge("cors", r) => check = "cors"
      /\ \A r : Judge("disclosure", r) => check = "disclosure"
  BY DEF HeadersBegin, HeadersGet, Begin, At, Judge
<1>2. /\ CorsBegin => check = "cors"
      /\ CorsPreflight => check = "cors"
      /\ CorsGet => check = "cors"
  BY DEF CorsBegin, CorsPreflight, CorsGet, Begin, At
<1>3. /\ RedirectBegin => check = "redirect"
      /\ RedirectHome => check = "redirect"
      /\ RedirectProbe => check = "redirect"
  BY DEF RedirectBegin, RedirectHome, RedirectProbe, Begin, At
<1>4. /\ SourceMapBegin => check = "sourcemap"
      /\ SourceMapHome => check = "sourcemap"
      /\ SourceMapScript => check = "sourcemap"
      /\ SourceMapOfScript => check = "sourcemap"
      /\ SourceMapCommon => check = "sourcemap"
  BY DEF SourceMapBegin, SourceMapHome, SourceMapScript, SourceMapOfScript,
     SourceMapCommon, Begin, At
<1>5. /\ DisclosureBegin => check = "disclosure"
      /\ DisclosureHome => check = "disclosure"
      /\ DisclosureMissing => check = "disclosure"
      /\ DisclosureDebug => check = "disclosure"
      /\ DisclosureBackup => check = "disclosure"
  BY DEF DisclosureBegin, DisclosureHome, DisclosureMissing, DisclosureDebug,
     DisclosureBackup, Begin, At
<1> QED
  BY <1>1, <1>2, <1>3, <1>4, <1>5 DEF ObservationNext, CorsReport, DisclosureReport

-----------------------------------------------------------------------------
(* cors-policy *)

(* Preflights and requests alternate. *)
Alternates(w) ==
  \A j \in Nat \ {0} :
    /\ 2 * j - 1 <= Len(w) => w[2 * j - 1].what = "OPTIONS"
    /\ 2 * j <= Len(w) => w[2 * j].what = "GET"

(* Both answers of a path, and the issue is in one of them. *)
CorsFound(c) ==
  \E a, b \in CorsAnswer :
    c.seen = <<a, b>> /\ c.issue \in {Analyze(a), Analyze(b)} \ {None}

(* Two requests to every path, the preflight first: the length of the wire *)
(* says how many paths are left.                                           *)
CorsInv ==
  Is("cors") =>
    /\ Alternates(wire)
    /\ pc \in {"preflight", "cors_get"} =>
         /\ loc.todo \in Seq(Range(Paths)) /\ loc.todo # <<>>
         /\ Len(loc.todo) <= Len(Paths)
    /\ pc = "preflight" => Len(wire) = 2 * (Len(Paths) - Len(loc.todo))
    /\ pc = "cors_get" => /\ Len(wire) = 2 * (Len(Paths) - Len(loc.todo)) + 1
                          /\ loc.first \in CorsAnswer
    /\ pc = "judge" \/ result # Nothing => Len(wire) = 2 * Len(Paths)
    /\ cand # Nothing => CorsFound(cand)
    /\ JudgedAs(CorsReport)

(* What one more request makes of the list. *)
LEMMA AlternatesOn ==
  ASSUME NEW w, NEW v, NEW x, NEW k \in Nat, IsSeq(w), Alternates(w), v = w \o <<x>>,
         \/ Len(w) = 2 * k /\ x.what = "OPTIONS"
         \/ Len(w) = 2 * k + 1 /\ x.what = "GET"
  PROVE  Alternates(v) /\ Len(v) = Len(w) + 1
<1> DEFINE n == Len(w)
           m == Len(v)
<1>1. /\ n \in Nat /\ m = n + 1 /\ \A i \in 1..n : v[i] = w[i]
      /\ v[n + 1] = x
  BY OneMore
<1>2. \A j \in Nat \ {0} : /\ 2 * j - 1 <= n => w[2 * j - 1].what = "OPTIONS"
                           /\ 2 * j <= n => w[2 * j].what = "GET"
  BY DEF Alternates
<1>3. \/ n = 2 * k /\ x.what = "OPTIONS"
      \/ n = 2 * k + 1 /\ x.what = "GET"
  OBVIOUS
<1> HIDE DEF n, m
<1>4. ASSUME NEW j \in Nat \ {0}
      PROVE  /\ 2 * j - 1 <= m => v[2 * j - 1].what = "OPTIONS"
             /\ 2 * j <= m => v[2 * j].what = "GET"
  <2>1. ASSUME 2 * j - 1 <= m PROVE v[2 * j - 1].what = "OPTIONS"
    <3>1. CASE 2 * j - 1 <= n
      <4>1. 2 * j - 1 \in 1..n
        BY <1>1, <3>1
      <4> QED
        BY <1>1, <1>2, <3>1, <4>1
    <3>2. CASE ~(2 * j - 1 <= n)
      <4>1. 2 * j - 1 = n + 1
        BY <1>1, <2>1, <3>2
      <4>2. n # 2 * k + 1
        BY <4>1
      <4> QED
        BY <1>1, <1>3, <4>1, <4>2
    <3> QED
      BY <3>1, <3>2
  <2>2. ASSUME 2 * j <= m PROVE v[2 * j].what = "GET"
    <3>1. CASE 2 * j <= n
      <4>1. 2 * j \in 1..n
        BY <1>1, <3>1
      <4> QED
        BY <1>1, <1>2, <3>1, <4>1
    <3>2. CASE ~(2 * j <= n)
      <4>1. 2 * j = n + 1
        BY <1>1, <2>2, <3>2
      <4>2. n # 2 * k
        BY <4>1
      <4> QED
        BY <1>1, <1>3, <4>1, <4>2
    <3> QED
      BY <3>1, <3>2
  <2> QED
    BY <2>1, <2>2
<1> QED
  BY <1>1, <1>4 DEF Alternates, n, m

(* The path in hand is one of the list: how many are done, and what is left. *)
LEMMA PathInHand ==
  ASSUME NEW s \in Seq(Range(Paths)), s # <<>>, Len(s) <= Len(Paths)
  PROVE  /\ Len(Paths) - Len(s) \in Nat /\ Len(s) \in Nat \ {0}
         /\ Tail(s) \in Seq(Range(Paths))
         /\ Len(Tail(s)) = Len(s) - 1
         /\ Tail(s) = <<>> <=> Len(s) = 1
<1>1. Len(Paths) \in Nat
  BY RunAssumption, LenProperties
<1>2. Tail(s) \in Seq(Range(Paths)) /\ Len(Tail(s)) = Len(s) - 1 /\ Len(s) \in Nat \ {0}
  BY HeadTailProperties, LenProperties, EmptySeq
<1>3. Tail(s) = <<>> <=> Len(Tail(s)) = 0
  BY <1>2, EmptySeq
<1> DEFINE a == Len(Paths)  b == Len(s)  c == Len(Tail(s))
<1>4. a \in Nat /\ b \in Nat \ {0} /\ b <= a /\ c = b - 1
  BY <1>1, <1>2
<1> HIDE DEF a, b, c
<1>5. a - b \in Nat /\ (c = 0 <=> b = 1)
  BY <1>4
<1> QED
  BY <1>2, <1>3, <1>5 DEF a, b, c

(* Every request of cors keeps the invariant. *)
LEMMA CorsStep ==
  ASSUME RunInv, CorsInv, check = "cors", check' = check, ObservationNext
  PROVE  CorsInv'
<1> USE DEF Is
<1>0. IsSeq(wire) /\ Alternates(wire)
  BY DEF RunInv, CorsInv
<1>1. CASE CorsBegin
  <2>1. /\ pc' \in {"done", "preflight"} /\ wire' = <<>> /\ cand' = Nothing /\ result' = Nothing
        /\ wire' = wire
        /\ pc' = "preflight" => loc' = [todo |-> Paths]
    BY <1>1 DEF CorsBegin, Begin, At, Step, Keeps, RunInv
  <2>2. pc' = "preflight" => loc'.todo = Paths
    BY <2>1
  <2>3. Len(Paths) \in Nat /\ Len(wire') = 0
    BY <2>1, RunAssumption, LenProperties, EmptySeq
  <2>4. pc' = "preflight" => Len(wire') = 2 * (Len(Paths) - Len(loc'.todo))
    <3> DEFINE n == Len(Paths)
    <3>1. n \in Nat
      BY <2>3
    <3> HIDE DEF n
    <3>2. 0 = 2 * (n - n)
      BY <3>1
    <3> QED
      BY <2>2, <2>3, <3>2 DEF n
  <2>5. pc' = "preflight" => Len(loc'.todo) <= Len(Paths)
    BY <2>2, <2>3
  <2> QED
    BY <1>0, <2>1, <2>2, <2>4, <2>5, RunAssumption DEF CorsInv, JudgedAs
<1>2. CASE CorsPreflight
  <2>1. /\ pc = "preflight" /\ result = Nothing /\ result' = Nothing
        /\ wire' = wire \o <<[path |-> Head(loc.todo), what |-> "OPTIONS"]>>
    BY <1>2 DEF CorsPreflight, Probe, Raised, At, Sent, Keeps, Found, RunInv, Url
  <2>2. /\ loc.todo \in Seq(Range(Paths)) /\ loc.todo # <<>> /\ Len(loc.todo) <= Len(Paths)
        /\ Len(wire) = 2 * (Len(Paths) - Len(loc.todo))
    BY <2>1 DEF CorsInv
  <2>3. Len(Paths) - Len(loc.todo) \in Nat
    BY <2>2, PathInHand
  <2>4. Alternates(wire') /\ Len(wire') = Len(wire) + 1
    <3> DEFINE k == Len(Paths) - Len(loc.todo)
               x == [path |-> Head(loc.todo), what |-> "OPTIONS"]
    <3>1. k \in Nat /\ Len(wire) = 2 * k /\ wire' = wire \o <<x>> /\ x.what = "OPTIONS"
      BY <2>1, <2>2, <2>3
    <3> HIDE DEF k, x
    <3> QED
      BY <1>0, <3>1, AlternatesOn
  <2>5. CASE Raised(Url("OPTIONS"))
    <3>1. pc' = "done" /\ cand' = Nothing
      BY <2>5 DEF Raised, Step
    <3> QED
      BY <2>1, <2>4, <3>1 DEF CorsInv, JudgedAs
  <2>6. ASSUME NEW a \in CorsAnswer,
               Probe("cors_get", [todo |-> loc.todo, first |-> a], Url("OPTIONS"), {})
        PROVE  CorsInv'
    <3>1. pc' = "cors_get" /\ loc' = [todo |-> loc.todo, first |-> a] /\ cand' = cand
      BY <2>6 DEF Probe, Step, Found
    <3>2. loc'.todo = loc.todo /\ loc'.first = a
      BY <3>1
    <3>3. Len(wire') = 2 * (Len(Paths) - Len(loc'.todo)) + 1
      BY <2>2, <2>4, <3>2
    <3>4. cand # Nothing => CorsFound(cand)'
      BY <3>1 DEF CorsInv, CorsFound
    <3> QED
      BY <2>1, <2>2, <2>4, <2>6, <3>1, <3>2, <3>3, <3>4 DEF CorsInv, JudgedAs
  <2> QED
    BY <1>2, <2>5, <2>6 DEF CorsPreflight
<1>3. CASE CorsGet
  <2>1. /\ pc = "cors_get" /\ result = Nothing /\ result' = Nothing
        /\ wire' = wire \o <<[path |-> Head(loc.todo), what |-> "GET"]>>
    BY <1>3 DEF CorsGet, Probe, Raised, At, Sent, Keeps, RunInv, Url
  <2>2. /\ loc.todo \in Seq(Range(Paths)) /\ loc.todo # <<>> /\ Len(loc.todo) <= Len(Paths)
        /\ Len(wire) = 2 * (Len(Paths) - Len(loc.todo)) + 1 /\ loc.first \in CorsAnswer
    BY <2>1 DEF CorsInv
  <2>3. /\ Len(Paths) - Len(loc.todo) \in Nat /\ Len(loc.todo) \in Nat \ {0}
        /\ Tail(loc.todo) \in Seq(Range(Paths))
        /\ Len(Tail(loc.todo)) = Len(loc.todo) - 1
        /\ Tail(loc.todo) = <<>> <=> Len(loc.todo) = 1
    BY <2>2, PathInHand
  <2>4. Alternates(wire') /\ Len(wire') = Len(wire) + 1
    <3> DEFINE k == Len(Paths) - Len(loc.todo)
               x == [path |-> Head(loc.todo), what |-> "GET"]
    <3>1. k \in Nat /\ Len(wire) = 2 * k + 1 /\ wire' = wire \o <<x>> /\ x.what = "GET"
      BY <2>1, <2>2, <2>3
    <3> HIDE DEF k, x
    <3> QED
      BY <1>0, <3>1, AlternatesOn
  <2>5. CASE Raised(Url("GET"))
    <3>1. pc' = "done" /\ cand' = Nothing
      BY <2>5 DEF Raised, Step
    <3> QED
      BY <2>1, <2>4, <3>1 DEF CorsInv, JudgedAs
  <2>6. ASSUME NEW a \in CorsAnswer,
               \/ UNCHANGED cand
               \/ \E i \in {Analyze(loc.first), Analyze(a)} \ {None} : \E src :
                    cand' = [path |-> Head(loc.todo), issue |-> i, source |-> src,
                             seen |-> <<loc.first, a>>],
               pc' = IF Tail(loc.todo) = <<>> THEN "judge" ELSE "preflight",
               loc' = [todo |-> Tail(loc.todo)]
        PROVE  CorsInv'
    <3>1. cand' # Nothing => CorsFound(cand)'
      <4>1. CASE UNCHANGED cand
        BY <4>1 DEF CorsInv, CorsFound
      <4>2. CASE ~UNCHANGED cand
        <5>1. PICK i \in {Analyze(loc.first), Analyze(a)} \ {None} :
                cand'.issue = i /\ cand'.seen = <<loc.first, a>>
          BY <2>6, <4>2
        <5> QED
          BY <2>2, <5>1 DEF CorsFound
      <4> QED
        BY <4>1, <4>2
    <3>2. loc'.todo = Tail(loc.todo)
      BY <2>6
    <3> DEFINE p == Len(Paths)  t == Len(loc.todo)  r == Len(Tail(loc.todo))
               n == Len(wire)  m == Len(wire')
    <3>3. /\ p - t \in Nat /\ t \in Nat \ {0} /\ r = t - 1 /\ t <= p
          /\ n = 2 * (p - t) + 1 /\ m = n + 1 /\ p \in Nat
      BY <2>2, <2>3, <2>4, RunAssumption, LenProperties
    <3> HIDE DEF p, t, r, n, m
    <3>4. m = 2 * (p - r) /\ r <= p /\ (t = 1 => m = 2 * p)
      BY <3>3
    <3>5. Tail(loc.todo) = <<>> => Len(wire') = 2 * Len(Paths)
      BY <2>3, <3>4 DEF m, p, t
    <3>6. Len(wire') = 2 * (Len(Paths) - Len(loc'.todo)) /\ Len(loc'.todo) <= Len(Paths)
      BY <3>2, <3>4 DEF m, p, r
    <3> QED
      BY <2>1, <2>3, <2>4, <2>6, <3>1, <3>2, <3>5, <3>6 DEF CorsInv, JudgedAs
  <2>7. CASE ~Raised(Url("GET"))
    <3>1. PICK a \in CorsAnswer :
            LET seen == <<loc.first, a>>
                rest == Tail(loc.todo)
                Source(issue) == IF Analyze(loc.first) = issue THEN "preflight" ELSE "get"
            IN  Probe(IF rest = <<>> THEN "judge" ELSE "preflight", [todo |-> rest],
                      Url("GET"),
                      {[path |-> Head(loc.todo), issue |-> i, source |-> Source(i),
                        seen |-> seen] : i \in {Analyze(loc.first), Analyze(a)} \ {None}})
      BY <1>3, <2>7 DEF CorsGet
    <3>2. /\ pc' = IF Tail(loc.todo) = <<>> THEN "judge" ELSE "preflight"
          /\ loc' = [todo |-> Tail(loc.todo)]
          /\ \/ UNCHANGED cand
             \/ \E i \in {Analyze(loc.first), Analyze(a)} \ {None} : \E src :
                  cand' = [path |-> Head(loc.todo), issue |-> i, source |-> src,
                           seen |-> <<loc.first, a>>]
      BY <3>1 DEF Probe, Step, Found
    <3> QED
      BY <2>6, <3>2
  <2> QED
    BY <2>5, <2>7
<1>4. CASE Judge("cors", CorsReport)
  <2>1. /\ pc = "judge" /\ pc' = "done" /\ UNCHANGED <<cand, wire, loc>>
        /\ result = Nothing /\ result' = IF cand = Nothing THEN result ELSE CorsReport
    BY <1>4 DEF Judge, At, RunInv
  <2>2. Len(wire') = 2 * Len(Paths)
    BY <2>1 DEF CorsInv
  <2>3. Alternates(wire') /\ CorsReport' = CorsReport
    BY <1>0, <2>1 DEF CorsReport
  <2>4. cand' # Nothing => CorsFound(cand)'
    BY <2>1 DEF CorsInv, CorsFound
  <2> QED
    BY <2>1, <2>2, <2>3, <2>4 DEF CorsInv, JudgedAs
<1> QED
  BY <1>1, <1>2, <1>3, <1>4, ObservationOf

(* The issue of a finding is in one of its two answers. *)
LEMMA CorsInvSame == CorsInv => CorsSameAnswer
<1> SUFFICES ASSUME CorsInv, Reports("cors") PROVE CorsSameAnswer
  BY DEF CorsSameAnswer
<1>1. /\ CorsFound(cand) /\ result = CorsReport /\ result.stage = "reported"
      /\ Alternates(wire) /\ Len(wire) = 2 * Len(Paths)
  BY DEF Reports, Is, CorsInv, JudgedAs, Nothing
<1>2. result = [stage |-> "reported", v |-> CorsValidate(cand),
                evidence |-> CorsEvidence(cand), assessed |-> CorsAssess(cand),
                finding |-> [CorsAssess(cand) EXCEPT
                  !.status = Status(CorsValidate(cand).outcome),
                  !.confidence = CorsValidate(cand).confidence]]
  BY <1>1, ReportIs DEF CorsReport
<1>3. result.finding.severity = CASE cand.issue = "wildcard_with_credentials" -> "critical"
                                  [] cand.issue = "reflected_origin" -> "high"
                                  [] OTHER -> "low"
  BY <1>2 DEF CorsAssess
<1>4. PICK a \in CorsAnswer, b \in CorsAnswer :
        cand.seen = <<a, b>> /\ cand.issue \in {Analyze(a), Analyze(b)} \ {None}
  BY <1>1 DEF CorsFound
<1>5. Range(cand.seen) = {a, b}
  BY <1>4 DEF Range
<1>6. PICK x \in {a, b} : cand.issue = Analyze(x) /\ cand.issue # None
  BY <1>4
<1>7. /\ result.finding.severity = "critical" => x.origin = "*" /\ x.credentials
      /\ result.finding.severity = "high" => x.origin = "evil"
      /\ result.finding.severity = "low" => x.origin = "*"
  BY <1>3, <1>6 DEF Analyze
<1>8. \A i \in 1..Len(Paths) : wire[2 * i - 1].what = "OPTIONS" /\ wire[2 * i].what = "GET"
  <2> DEFINE n == Len(Paths)  m == Len(wire)
  <2>1. n \in Nat /\ m = 2 * n
    BY <1>1, RunAssumption, LenProperties
  <2>2. \A j \in Nat \ {0} : /\ 2 * j - 1 <= m => wire[2 * j - 1].what = "OPTIONS"
                             /\ 2 * j <= m => wire[2 * j].what = "GET"
    BY <1>1 DEF Alternates
  <2> HIDE DEF n, m
  <2>3. \A i \in 1..n : i \in Nat \ {0} /\ 2 * i - 1 <= m /\ 2 * i <= m
    BY <2>1
  <2>4. \A i \in 1..n : wire[2 * i - 1].what = "OPTIONS" /\ wire[2 * i].what = "GET"
    BY <2>2, <2>3
  <2> QED
    BY <2>4 DEF n
<1> QED
  BY <1>5, <1>6, <1>7, <1>8 DEF CorsSameAnswer

-----------------------------------------------------------------------------
(* information-disclosure *)

(* A page is exposed by the requests after the baseline. *)
Comparing == {"disc_debug", "disc_backup", "judge", "done"}

(* The baseline a page was compared with is still known when it is judged. *)
DisclosureInv ==
  Is("disclosure") =>
    /\ pc \in {"disc_debug", "disc_backup"} =>
         loc = [todo |-> loc.todo, baseline |-> loc.baseline]
    /\ cand # Nothing /\ cand.kind \in {"exposed", "backup_file"} =>
         /\ pc \in Comparing /\ cand.status = 200 /\ cand.page # "empty"
         /\ cand.kind = "exposed" /\ loc.baseline # None => cand.page = "real"
    /\ JudgedAs(DisclosureReport)

(* Every request of information-disclosure keeps the invariant. *)
LEMMA DisclosureStep ==
  ASSUME RunInv, DisclosureInv, check = "disclosure", check' = check, ObservationNext
  PROVE  DisclosureInv'
<1> USE DEF Is
<1>1. CASE DisclosureBegin
  <2>1. /\ pc' \in {"done", "disc_home"} /\ cand' = Nothing /\ result' = Nothing
    BY <1>1 DEF DisclosureBegin, Begin, At, Step, Keeps, RunInv
  <2> QED
    BY <2>1 DEF DisclosureInv, JudgedAs
<1>2. CASE DisclosureHome
  <2>1. pc = "disc_home" /\ pc' \in {"done", "disc_missing"} /\ result = Nothing /\ result' = Nothing
    BY <1>2 DEF DisclosureHome, Probe, At, Step, Keeps, RunInv
  <2>2. ~(cand' # Nothing /\ cand'.kind \in {"exposed", "backup_file"})
    <3>1. CASE UNCHANGED cand
      BY <2>1, <3>1 DEF DisclosureInv, Comparing
    <3>2. CASE ~UNCHANGED cand
      <4>1. PICK k \in DOMAIN HomeFindings :
              cand' = [kind |-> k, severity |-> HomeFindings[k], page |-> None]
        BY <1>2, <3>2 DEF DisclosureHome, Probe, Found
      <4>2. k \notin {"exposed", "backup_file"}
        BY DEF HomeFindings
      <4> QED
        BY <4>1, <4>2
    <3> QED
      BY <3>1, <3>2
  <2> QED
    BY <2>1, <2>2 DEF DisclosureInv, JudgedAs
<1>3. CASE DisclosureMissing
  <2>1. /\ pc = "disc_missing" /\ pc' = "disc_debug" /\ result = Nothing /\ result' = Nothing
        /\ cand' = cand
    BY <1>3 DEF DisclosureMissing, Probe, At, Step, Found, Keeps, RunInv
  <2>2. PICK b : loc' = [todo |-> Paths, baseline |-> b]
    BY <1>3 DEF DisclosureMissing, Probe, Step
  <2>3. loc' = [todo |-> loc'.todo, baseline |-> loc'.baseline]
    BY <2>2
  <2>4. ~(cand' # Nothing /\ cand'.kind \in {"exposed", "backup_file"})
    BY <2>1 DEF DisclosureInv, Comparing
  <2> QED
    BY <2>1, <2>3, <2>4 DEF DisclosureInv, JudgedAs
<1>4. CASE DisclosureDebug
  <2>1. pc = "disc_debug" /\ result = Nothing /\ result' = Nothing
    BY <1>4 DEF DisclosureDebug, Probe, At, Keeps, RunInv
  <2>2. loc = [todo |-> loc.todo, baseline |-> loc.baseline]
    BY <2>1 DEF DisclosureInv
  <2> DEFINE next == Following("disc_debug", "disc_backup")
  <2>3. /\ pc' = next.pc
        /\ loc' = IF next.pc = "disc_backup" THEN [next.loc EXCEPT !.todo = Paths] ELSE next.loc
    BY <1>4 DEF DisclosureDebug, Probe, Step
  <2>4. next.pc \in {"disc_debug", "disc_backup"} /\ next.loc = [loc EXCEPT !.todo = Tail(@)]
    BY DEF Following
  <2>5. next.loc = [todo |-> Tail(loc.todo), baseline |-> loc.baseline]
    BY <2>2, <2>4
  <2> HIDE DEF next
  <2>6. /\ loc' = [todo |-> loc'.todo, baseline |-> loc'.baseline]
        /\ loc'.baseline = loc.baseline
    <3>1. CASE next.pc = "disc_backup"
      <4>1. loc' = [next.loc EXCEPT !.todo = Paths]
        BY <2>3, <3>1
      <4>2. loc' = [todo |-> Paths, baseline |-> loc.baseline]
        BY <2>5, <4>1
      <4> QED
        BY <4>2
    <3>2. CASE next.pc # "disc_backup"
      <4>1. loc' = [todo |-> Tail(loc.todo), baseline |-> loc.baseline]
        BY <2>3, <2>5, <3>2
      <4> QED
        BY <4>1
    <3> QED
      BY <3>1, <3>2
  <2>7. cand' # Nothing /\ cand'.kind \in {"exposed", "backup_file"} =>
          /\ cand'.status = 200 /\ cand'.page # "empty"
          /\ cand'.kind = "exposed" /\ loc.baseline # None => cand'.page = "real"
    <3>1. CASE UNCHANGED cand
      BY <3>1 DEF DisclosureInv
    <3>2. CASE ~UNCHANGED cand
      <4>1. PICK page \in Pages : /\ page # "empty" /\ ~IsSoft404(page)
                                  /\ cand' = [kind |-> "exposed", severity |-> "medium",
                                              status |-> 200, page |-> page]
        BY <1>4, <3>2 DEF DisclosureDebug, Probe, Found
      <4>2. loc.baseline # None => page = "real"
        BY <4>1 DEF Pages, IsSoft404
      <4> QED
        BY <4>1, <4>2
    <3> QED
      BY <3>1, <3>2
  <2> QED
    BY <2>1, <2>3, <2>4, <2>6, <2>7 DEF DisclosureInv, JudgedAs, Comparing
<1>5. CASE DisclosureBackup
  <2>1. pc = "disc_backup" /\ result = Nothing /\ result' = Nothing
    BY <1>5 DEF DisclosureBackup, Probe, At, Keeps, RunInv
  <2>2. loc = [todo |-> loc.todo, baseline |-> loc.baseline]
    BY <2>1 DEF DisclosureInv
  <2> DEFINE next == Following("disc_backup", "judge")
  <2>3. pc' = next.pc /\ loc' = next.loc
    BY <1>5 DEF DisclosureBackup, Probe, Step
  <2>4. next.pc \in {"disc_backup", "judge"} /\ next.loc = [loc EXCEPT !.todo = Tail(@)]
    BY DEF Following
  <2> HIDE DEF next
  <2>5. loc' = [todo |-> Tail(loc.todo), baseline |-> loc.baseline]
    BY <2>2, <2>3, <2>4
  <2>6. loc' = [todo |-> loc'.todo, baseline |-> loc'.baseline] /\ loc'.baseline = loc.baseline
    BY <2>5
  <2>7. cand' # Nothing /\ cand'.kind \in {"exposed", "backup_file"} =>
          /\ cand'.status = 200 /\ cand'.page # "empty"
          /\ cand'.kind = "exposed" /\ loc.baseline # None => cand'.page = "real"
    <3>1. CASE UNCHANGED cand
      BY <3>1 DEF DisclosureInv
    <3>2. CASE ~UNCHANGED cand
      <4>1. PICK page \in Pages :
              /\ page # "empty"
              /\ cand' = [kind |-> "backup_file", severity |-> "high", status |-> 200,
                          page |-> page]
        BY <1>5, <3>2 DEF DisclosureBackup, Probe, Found
      <4> QED
        BY <4>1
    <3> QED
      BY <3>1, <3>2
  <2> QED
    BY <2>1, <2>3, <2>4, <2>6, <2>7 DEF DisclosureInv, JudgedAs, Comparing
<1>6. CASE Judge("disclosure", DisclosureReport)
  BY <1>6 DEF Judge, At, DisclosureInv, RunInv, JudgedAs, DisclosureReport, Comparing
<1> QED
  BY <1>1, <1>2, <1>3, <1>4, <1>5, <1>6, ObservationOf

(* A page like that of a path that cannot exist is never reported. *)
LEMMA DisclosureInvNotSoft == DisclosureInv => DisclosureNotSoft404
  BY DEF DisclosureInv, DisclosureNotSoft404, Reports, Is, JudgedAs, Nothing

-----------------------------------------------------------------------------
(* What the four checks that compare have compared. *)
MatchedInv == RunInv /\ TraversalInv /\ MassInv /\ CorsInv /\ DisclosureInv

(* Every step of every check keeps the four invariants. *)
LEMMA MatchedStep == MatchedInv /\ [Next]_runVars => MatchedInv'
<1> SUFFICES ASSUME MatchedInv, [Next]_runVars PROVE MatchedInv'
  OBVIOUS
<1>1. RunInv /\ RunInv'
  BY RunInvStep DEF MatchedInv
<1>2. CASE UNCHANGED runVars
  BY <1>1, <1>2 DEF MatchedInv, runVars, TraversalInv, MassInv, CorsInv, DisclosureInv, Is,
     JudgedAs, TraversalFound, TraversalReport, MassFound, MassReport, CorsFound, CorsReport,
     DisclosureReport
<1>3. CASE Next
  <2>1. check' = check
    BY <1>1, <1>3, NextOf
  <2>2. TraversalInv'
    <3>1. CASE check = "traversal"
      BY <1>1, <1>3, <3>1, NextOf, TraversalStep DEF MatchedInv
    <3>2. CASE check # "traversal"
      BY <2>1, <3>2 DEF TraversalInv, Is
    <3> QED
      BY <3>1, <3>2
  <2>3. MassInv'
    <3>1. CASE check = "mass"
      BY <1>1, <1>3, <3>1, NextOf, MassStep DEF MatchedInv
    <3>2. CASE check # "mass"
      BY <2>1, <3>2 DEF MassInv, Is
    <3> QED
      BY <3>1, <3>2
  <2>4. CorsInv'
    <3>1. CASE check = "cors"
      BY <1>1, <1>3, <2>1, <3>1, NextOf, CorsStep DEF MatchedInv
    <3>2. CASE check # "cors"
      BY <2>1, <3>2 DEF CorsInv, Is
    <3> QED
      BY <3>1, <3>2
  <2>5. DisclosureInv'
    <3>1. CASE check = "disclosure"
      BY <1>1, <1>3, <2>1, <3>1, NextOf, DisclosureStep DEF MatchedInv
    <3>2. CASE check # "disclosure"
      BY <2>1, <3>2 DEF DisclosureInv, Is
    <3> QED
      BY <3>1, <3>2
  <2> QED
    BY <1>1, <2>2, <2>3, <2>4, <2>5 DEF MatchedInv
<1> QED
  BY <1>2, <1>3

(* What convicts differs from the answer it is compared with and belongs to*)
(* the same question, for every set of statuses, paths and payloads        *)
(* (path_traversal.py, disclosure.py, cors.py, mass_assignment.py).        *)
THEOREM ComparisonsAreMatched == Spec => []ComparisonsMatched
<1>1. Init => MatchedInv
  <2> SUFFICES ASSUME Init PROVE MatchedInv
    OBVIOUS
  <2>1. RunInv /\ pc = "start" /\ cand = Nothing /\ wire = <<>> /\ result = Nothing
    BY RunInitInv DEF Init, RunInit
  <2>2. Alternates(wire)
    <3>1. Len(wire) = 0
      BY <2>1, EmptySeq
    <3> QED
      BY <3>1 DEF Alternates
  <2> QED
    BY <2>1, <2>2 DEF MatchedInv, TraversalInv, MassInv, CorsInv, DisclosureInv, JudgedAs
<1>2. MatchedInv => ComparisonsMatched
  BY TraversalInvConfirms, MassInvWrites, CorsInvSame, DisclosureInvNotSoft
     DEF MatchedInv, ComparisonsMatched
<1> QED
  BY <1>1, <1>2, MatchedStep, PTL DEF Spec

-----------------------------------------------------------------------------
(* ssrf *)

(* The locals of ssrf: a hit is of a payload that was found, and verified after. *)
SsrfReport == Reported(SsrfValidate(cand), SsrfEvidence(cand), SsrfAssess(cand))
SsrfLocals ==
  /\ loc = [todo |-> loc.todo, hit |-> loc.hit, verified |-> loc.verified]
  /\ loc.hit \in BOOLEAN /\ loc.verified \in BOOLEAN
  /\ loc.hit => cand # Nothing /\ cand.fetches
  /\ loc.verified => loc.hit

(* Nothing is sent without a domain of the operator's. *)
SsrfInv ==
  Is("ssrf") =>
    /\ pc \notin {"start", "done"} \/ wire # <<>> => Usable
    /\ pc \in {"ssrf_probe", "ssrf_poll", "ssrf_again", "judge"} \/ result # Nothing =>
         SsrfLocals
    /\ cand # Nothing => cand.indicator # None
    /\ JudgedAs(SsrfReport)

(* Every request of ssrf keeps the invariant. *)
LEMMA SsrfStep ==
  ASSUME RunInv, SsrfInv, SsrfNext
  PROVE  SsrfInv'
<1> USE DEF Is
<1>1. check = "ssrf" /\ check' = "ssrf"
  BY SsrfMoves DEF Moves, Begins, Sends, Closes
<1>2. CASE SsrfBegin
  <2>1. /\ wire' = <<>> /\ cand' = Nothing /\ result' = Nothing /\ env' = env
        /\ pc' \in {"done", "ssrf_home"} /\ (pc' = "ssrf_home" => Usable)
    BY <1>2 DEF SsrfBegin, At, Step, RunInv
  <2> QED
    BY <1>1, <2>1 DEF SsrfInv, JudgedAs, Usable
<1>3. CASE SsrfHome
  <2>1. /\ pc = "ssrf_home" /\ result = Nothing /\ result' = Nothing /\ cand' = cand /\ env' = env
    BY <1>3 DEF SsrfHome, Probe, At, Found, Keeps, RunInv
  <2>2. Usable /\ Usable' = Usable
    BY <1>1, <2>1 DEF SsrfInv, Usable
  <2>3. \/ pc' = "done"
        \/ /\ pc' \in {"done", "ssrf_probe"}
           /\ \E todo : loc' = [todo |-> todo, hit |-> FALSE, verified |-> FALSE]
    BY <1>3 DEF SsrfHome, Probe, Step
  <2>4. pc' \in {"done", "ssrf_probe"} /\ (pc' = "ssrf_probe" => SsrfLocals')
    <3>1. CASE pc' = "done"
      BY <3>1
    <3>2. CASE pc' # "done"
      <4>1. PICK todo : loc' = [todo |-> todo, hit |-> FALSE, verified |-> FALSE]
        BY <2>3, <3>2
      <4>2. loc'.todo = todo /\ loc'.hit = FALSE /\ loc'.verified = FALSE
        BY <4>1
      <4> QED
        BY <2>3, <3>2, <4>1, <4>2 DEF SsrfLocals
    <3> QED
      BY <3>1, <3>2
  <2> QED
    BY <1>1, <2>1, <2>2, <2>4 DEF SsrfInv, JudgedAs
<1>4. CASE SsrfProbe
  <2>1. /\ pc = "ssrf_probe" /\ result = Nothing /\ result' = Nothing /\ env' = env
        /\ pc' \in {"ssrf_probe", "ssrf_poll"} /\ loc' = [loc EXCEPT !.todo = Tail(loc.todo)]
    BY <1>4 DEF SsrfProbe, Probe, Step, At, Keeps, RunInv
  <2>2. SsrfLocals /\ Usable /\ Usable' = Usable
    BY <1>1, <2>1 DEF SsrfInv, Usable
  <2>3. cand # Nothing => cand' = cand
    BY <1>4 DEF SsrfProbe, Probe, Found
  <2>4. cand' # Nothing => cand'.indicator # None
    <3>1. CASE UNCHANGED cand
      BY <1>1, <3>1 DEF SsrfInv
    <3>2. CASE ~UNCHANGED cand
      <4>1. PICK a \in Answer, fetches \in BOOLEAN :
              /\ ClassifyIndicator(a) # None
              /\ cand' = [target |-> Head(loc.todo), indicator |-> ClassifyIndicator(a),
                          status |-> a.status, fetches |-> fetches]
        BY <1>4, <3>2 DEF SsrfProbe, Probe, Found
      <4> QED
        BY <4>1
    <3> QED
      BY <3>1, <3>2
  <2>5. SsrfLocals'
    <3>1. loc = [todo |-> loc.todo, hit |-> loc.hit, verified |-> loc.verified]
      BY <2>2 DEF SsrfLocals
    <3>2. loc' = [todo |-> Tail(loc.todo), hit |-> loc.hit, verified |-> loc.verified]
      BY <2>1, <3>1
    <3>3. loc'.todo = Tail(loc.todo) /\ loc'.hit = loc.hit /\ loc'.verified = loc.verified
      BY <3>2
    <3> QED
      BY <2>2, <2>3, <3>2, <3>3 DEF SsrfLocals
  <2> QED
    BY <1>1, <2>1, <2>2, <2>4, <2>5 DEF SsrfInv, JudgedAs
<1>5. CASE SsrfCallback
  <2>1. /\ pc \in {"ssrf_probe", "ssrf_poll", "ssrf_again"} /\ cand # Nothing /\ cand.fetches
        /\ loc' = [loc EXCEPT !.hit = TRUE] /\ UNCHANGED <<pc, env, cand, wire, result>>
        /\ result = Nothing
    BY <1>5 DEF SsrfCallback, RunInv
  <2>2. SsrfLocals /\ Usable /\ Usable' = Usable
    BY <1>1, <2>1 DEF SsrfInv, Usable
  <2>3. SsrfLocals'
    <3>1. loc = [todo |-> loc.todo, hit |-> loc.hit, verified |-> loc.verified]
      BY <2>2 DEF SsrfLocals
    <3>2. loc' = [todo |-> loc.todo, hit |-> TRUE, verified |-> loc.verified]
      BY <2>1, <3>1
    <3>3. loc'.todo = loc.todo /\ loc'.hit = TRUE /\ loc'.verified = loc.verified
      BY <3>2
    <3> QED
      BY <2>1, <2>2, <3>2, <3>3 DEF SsrfLocals
  <2> QED
    BY <1>1, <2>1, <2>2, <2>3 DEF SsrfInv, JudgedAs
<1>6. ASSUME NEW stage \in {"ssrf_poll", "ssrf_again"}, NEW next \in {"ssrf_again", "judge"},
             SsrfPoll(stage, next)
      PROVE  SsrfInv'
  <2>1. /\ pc = stage /\ result = Nothing /\ UNCHANGED <<env, cand, wire, result>>
        /\ \E up \in BOOLEAN :
             /\ pc' \in {"judge", next}
             /\ loc' = [loc EXCEPT !.verified = cand # Nothing /\ Verified(up)]
    BY <1>6 DEF SsrfPoll, At, Step, Keeps, RunInv
  <2>2. SsrfLocals /\ Usable /\ Usable' = Usable
    BY <1>1, <2>1 DEF SsrfInv, Usable
  <2>3. PICK up \in BOOLEAN : loc' = [loc EXCEPT !.verified = cand # Nothing /\ Verified(up)]
    BY <2>1
  <2>4. SsrfLocals'
    <3> DEFINE seen == cand # Nothing /\ Verified(up)
    <3>1. /\ loc = [todo |-> loc.todo, hit |-> loc.hit, verified |-> loc.verified]
          /\ seen \in BOOLEAN /\ (seen => loc.hit) /\ loc' = [loc EXCEPT !.verified = seen]
      BY <2>2, <2>3 DEF SsrfLocals, Verified
    <3> HIDE DEF seen
    <3>2. loc' = [todo |-> loc.todo, hit |-> loc.hit, verified |-> seen]
      BY <3>1
    <3>3. loc'.todo = loc.todo /\ loc'.hit = loc.hit /\ loc'.verified = seen
      BY <3>2
    <3> QED
      BY <2>1, <2>2, <3>1, <3>2, <3>3 DEF SsrfLocals
  <2> QED
    BY <1>1, <2>1, <2>2, <2>4 DEF SsrfInv, JudgedAs
<1>7. CASE Judge("ssrf", SsrfReport)
  <2>1. /\ pc = "judge" /\ pc' = "done" /\ UNCHANGED <<env, loc, cand, wire>>
        /\ result = Nothing /\ result' = IF cand = Nothing THEN result ELSE SsrfReport
    BY <1>7 DEF Judge, At, RunInv
  <2>2. SsrfLocals /\ Usable
    BY <1>1, <2>1 DEF SsrfInv
  <2>3. SsrfLocals' /\ Usable' /\ SsrfReport' = SsrfReport
    BY <2>1, <2>2 DEF SsrfLocals, Usable, SsrfReport, SsrfValidate
  <2> QED
    BY <1>1, <2>1, <2>3 DEF SsrfInv, JudgedAs
<1> QED
  BY <1>2, <1>3, <1>4, <1>5, <1>6, <1>7 DEF SsrfNext, SsrfReport

(* A callback decides, and there is none without a domain for it. *)
LEMMA SsrfInvDecides == SsrfInv => SsrfCallbackDecides /\ SsrfNeedsDomain
<1>1. SsrfInv => SsrfNeedsDomain
  BY DEF SsrfInv, SsrfNeedsDomain, Usable
<1>2. ASSUME SsrfInv, Is("ssrf"), result # Nothing
      PROVE  /\ Reports("ssrf")
             /\ result.finding.status = IF loc.verified THEN "confirmed" ELSE "likely"
             /\ loc.verified => cand.fetches /\ loc.hit
  <2>1. SsrfLocals /\ cand # Nothing /\ cand.indicator # None /\ result = SsrfReport
    BY <1>2 DEF SsrfInv, JudgedAs
  <2>2. /\ SsrfValidate(cand).outcome = IF loc.verified THEN "confirmed" ELSE "likely"
        /\ SsrfValidate(cand).outcome # "false_positive"
    BY <2>1 DEF SsrfValidate
  <2>3. SsrfAssess(cand) # Nothing
    <3>1. SsrfAssess(cand).severity = "high"
      BY DEF SsrfAssess
    <3>2. DOMAIN SsrfAssess(cand) # DOMAIN Nothing
      BY DEF SsrfAssess, Nothing
    <3> QED
      BY <3>2
  <2>4. result = [stage |-> "reported", v |-> SsrfValidate(cand),
                  evidence |-> SsrfEvidence(cand), assessed |-> SsrfAssess(cand),
                  finding |-> [SsrfAssess(cand) EXCEPT
                    !.status = Status(SsrfValidate(cand).outcome),
                    !.confidence = SsrfValidate(cand).confidence]]
    BY <2>1, <2>2, <2>3 DEF SsrfReport, Reported
  <2>5. result.stage = "reported" /\ result.finding.status = Status(SsrfValidate(cand).outcome)
    BY <2>4 DEF SsrfAssess
  <2> QED
    BY <1>2, <2>1, <2>2, <2>5 DEF Reports, Status, SsrfLocals
<1> QED
  BY <1>1, <1>2 DEF SsrfCallbackDecides

-----------------------------------------------------------------------------
(* bola-idor *)

(* A request for a resource, by the owner before anyone else. *)
For(r, p) == [resource |-> r, as |-> p]
OwnerFirst(w) ==
  \A i \in DOMAIN w :
    /\ w[i] = For(w[i].resource, w[i].as)
    /\ w[i].as # Owner => \E j \in 1..(i - 1) : w[j] = For(w[i].resource, Owner)

(* Another principal asked for it, and both answers were compared. *)
BolaFound(c) ==
  /\ For(c.resource, c.as) \in Range(wire) /\ c.as # Owner
  /\ c.status \in {200, 302} /\ c.own \in Body /\ c.other \in Body
  /\ c.verdict = BolaVerdict(c.own, c.other)
BolaReport == Reported(BolaValidate(cand), BolaEvidence(cand), BolaAssess(cand))

(* While others ask for a resource the owner has. *)
BolaInv ==
  Is("bola") =>
    /\ OwnerFirst(wire)
    /\ pc = "bola_other" =>
         /\ loc = [todo |-> loc.todo, n |-> loc.n, who |-> loc.who, body |-> loc.body]
         /\ loc.who \in Nat \ {0, 1} /\ loc.body \in Body
         /\ For(Head(loc.todo), Owner) \in Range(wire)
    /\ cand # Nothing => BolaFound(cand)
    /\ JudgedAs(BolaReport)

(* The owner has asked before another principal does. *)
LEMMA OwnerStaysFirst ==
  ASSUME NEW w, NEW v, NEW r, NEW p, IsSeq(w), OwnerFirst(w), v = w \o <<For(r, p)>>,
         p = Owner \/ For(r, Owner) \in Range(w)
  PROVE  OwnerFirst(v) /\ Range(v) = Range(w) \cup {For(r, p)}
<1> DEFINE n == Len(w)
<1>1. /\ n \in Nat /\ DOMAIN w = 1..n /\ DOMAIN v = 1..(n + 1)
      /\ \A i \in 1..n : v[i] = w[i]
      /\ v[n + 1] = For(r, p) /\ Range(v) = Range(w) \cup {For(r, p)}
  BY OneMore
<1>2. For(r, p).resource = r /\ For(r, p).as = p
  BY DEF For
<1> HIDE DEF n
<1>3. ASSUME NEW i \in DOMAIN v
      PROVE  /\ v[i] = For(v[i].resource, v[i].as)
             /\ v[i].as # Owner => \E j \in 1..(i - 1) : v[j] = For(v[i].resource, Owner)
  <2>1. CASE i \in 1..n
    <3>1. v[i] = w[i] /\ \A j \in 1..(i - 1) : v[j] = w[j]
      BY <1>1, <2>1
    <3>2. /\ w[i] = For(w[i].resource, w[i].as)
          /\ w[i].as # Owner => \E j \in 1..(i - 1) : w[j] = For(w[i].resource, Owner)
      BY <1>1, <2>1 DEF OwnerFirst
    <3> QED
      BY <3>1, <3>2
  <2>2. CASE i \notin 1..n
    <3>1. i = n + 1 /\ i - 1 = n
      BY <1>1, <2>2
    <3>2. v[i].resource = r /\ v[i].as = p /\ v[i] = For(r, p)
      BY <1>1, <1>2, <3>1
    <3>3. ASSUME p # Owner PROVE \E j \in 1..n : v[j] = For(r, Owner)
      <4>1. PICK j \in DOMAIN w : w[j] = For(r, Owner)
        BY <3>3 DEF Range
      <4> QED
        BY <1>1, <4>1
    <3> QED
      BY <3>1, <3>2, <3>3
  <2> QED
    BY <2>1, <2>2
<1> QED
  BY <1>1, <1>3 DEF OwnerFirst

(* Every request of bola keeps the invariant. *)
LEMMA BolaStep ==
  ASSUME RunInv, BolaInv, BolaNext
  PROVE  BolaInv'
<1> USE DEF Is
<1>1. check = "bola" /\ check' = "bola"
  BY BolaMoves DEF Moves, Begins, Sends, Closes
<1>2. CASE BolaBegin
  <2>1. /\ pc' \in {"done", "bola_owner"} /\ wire' = <<>> /\ cand' = Nothing /\ result' = Nothing
    BY <1>2 DEF BolaBegin, Begin, BeginGated, At, Step, Keeps, RunInv
  <2>2. DOMAIN wire' = {}
    BY <2>1
  <2> QED
    BY <1>1, <2>1, <2>2 DEF BolaInv, JudgedAs, OwnerFirst
<1>3. CASE BolaOwner
  <2>1. /\ pc = "bola_owner" /\ cand' = cand /\ result = Nothing /\ result' = Nothing
        /\ wire' = wire \o <<For(Head(loc.todo), Owner)>>
    BY <1>3 DEF BolaOwner, Probe, At, Sent, Found, Keeps, RunInv, As, For
  <2>2. OwnerFirst(wire') /\ Range(wire') = Range(wire) \cup {For(Head(loc.todo), Owner)}
    <3>1. IsSeq(wire) /\ OwnerFirst(wire)
      BY <1>1 DEF RunInv, BolaInv
    <3> DEFINE r == Head(loc.todo)
               p == Owner
    <3>2. wire' = wire \o <<For(r, p)>> /\ p = Owner
      BY <2>1
    <3> HIDE DEF r, p
    <3>3. OwnerFirst(wire')
      BY <3>1, <3>2, OwnerStaysFirst
    <3>4. Range(wire') = Range(wire) \cup {For(r, p)}
      BY <3>1, <3>2, OneMore
    <3> QED
      BY <3>3, <3>4 DEF r, p
  <2>3. \/ pc' \in {"judge", "bola_owner"}
        \/ /\ pc' = "bola_other"
           /\ \E b \in Body : loc' = [todo |-> loc.todo, n |-> loc.n, who |-> Owner + 1,
                                      body |-> b]
    BY <1>3 DEF BolaOwner, Probe, Step, SkipResource
  <2>4. pc' = "bola_other" =>
          /\ loc' = [todo |-> loc'.todo, n |-> loc'.n, who |-> loc'.who, body |-> loc'.body]
          /\ loc'.who \in Nat \ {0, 1} /\ loc'.body \in Body /\ loc'.todo = loc.todo
    <3> SUFFICES ASSUME pc' = "bola_other"
                 PROVE  /\ loc' = [todo |-> loc'.todo, n |-> loc'.n, who |-> loc'.who,
                                   body |-> loc'.body]
                        /\ loc'.who \in Nat \ {0, 1} /\ loc'.body \in Body
                        /\ loc'.todo = loc.todo
      OBVIOUS
    <3>1. PICK b \in Body : loc' = [todo |-> loc.todo, n |-> loc.n, who |-> Owner + 1,
                                    body |-> b]
      BY <2>3
    <3>2. loc'.todo = loc.todo /\ loc'.n = loc.n /\ loc'.who = 2 /\ loc'.body = b
      BY <3>1 DEF Owner
    <3> HIDE DEF Body
    <3> QED
      BY <3>1, <3>2 DEF Owner
  <2>5. cand' # Nothing => BolaFound(cand)'
    BY <1>1, <2>1, <2>2 DEF BolaInv, BolaFound
  <2> QED
    BY <1>1, <2>1, <2>2, <2>4, <2>5 DEF BolaInv, JudgedAs
<1>4. CASE BolaOther
  <2>1. /\ pc = "bola_other" /\ result = Nothing /\ result' = Nothing
        /\ wire' = wire \o <<For(Head(loc.todo), loc.who)>>
    BY <1>4 DEF BolaOther, Probe, At, Sent, Keeps, RunInv, As, For
  <2>2. /\ loc = [todo |-> loc.todo, n |-> loc.n, who |-> loc.who, body |-> loc.body]
        /\ loc.who \in Nat \ {0, 1} /\ loc.body \in Body
        /\ For(Head(loc.todo), Owner) \in Range(wire)
    BY <1>1, <2>1 DEF BolaInv
  <2>3. OwnerFirst(wire') /\ Range(wire') = Range(wire) \cup {For(Head(loc.todo), loc.who)}
    <3>1. IsSeq(wire) /\ OwnerFirst(wire)
      BY <1>1 DEF RunInv, BolaInv
    <3> DEFINE r == Head(loc.todo)
               p == loc.who
    <3>2. wire' = wire \o <<For(r, p)>> /\ For(r, Owner) \in Range(wire)
      BY <2>1, <2>2
    <3> HIDE DEF r, p
    <3>3. OwnerFirst(wire')
      BY <3>1, <3>2, OwnerStaysFirst
    <3>4. Range(wire') = Range(wire) \cup {For(r, p)}
      BY <3>1, <3>2, OneMore
    <3> QED
      BY <3>3, <3>4 DEF r, p
  <2>4. /\ pc' = NextBola.pc
        /\ loc' = IF NextBola.pc = "bola_other" THEN NextBola.loc
                  ELSE [todo |-> NextBola.loc.todo, n |-> loc.n, who |-> Owner]
    BY <1>4 DEF BolaOther, Probe, Step
  <2>5. pc' = "bola_other" => loc' = [loc EXCEPT !.who = loc.who + 1]
    BY <2>4 DEF NextBola
  <2>6. pc' = "bola_other" =>
          /\ loc' = [todo |-> loc'.todo, n |-> loc'.n, who |-> loc'.who, body |-> loc'.body]
          /\ loc'.who \in Nat \ {0, 1} /\ loc'.body \in Body /\ loc'.todo = loc.todo
    <3> SUFFICES ASSUME pc' = "bola_other"
                 PROVE  /\ loc' = [todo |-> loc'.todo, n |-> loc'.n, who |-> loc'.who,
                                   body |-> loc'.body]
                        /\ loc'.who \in Nat \ {0, 1} /\ loc'.body \in Body
                        /\ loc'.todo = loc.todo
      OBVIOUS
    <3>1. loc' = [todo |-> loc.todo, n |-> loc.n, who |-> loc.who + 1, body |-> loc.body]
      BY <2>2, <2>5
    <3>2. loc'.todo = loc.todo /\ loc'.n = loc.n /\ loc'.who = loc.who + 1
          /\ loc'.body = loc.body
      BY <3>1
    <3>3. loc.who + 1 \in Nat \ {0, 1}
      BY <2>2
    <3> HIDE DEF Body
    <3> QED
      BY <2>2, <3>1, <3>2, <3>3
  <2>7. cand' # Nothing => BolaFound(cand)'
    <3>1. CASE UNCHANGED cand
      BY <1>1, <2>3, <3>1 DEF BolaInv, BolaFound
    <3>2. CASE ~UNCHANGED cand
      <4>1. PICK a \in Asked :
              /\ ~Refused(a)
              /\ cand' = [resource |-> Head(loc.todo), as |-> loc.who,
                          status |-> a.status, own |-> loc.body, other |-> a.body,
                          verdict |-> BolaVerdict(loc.body, a.body)]
        BY <1>4, <3>2 DEF BolaOther, Probe, Found
      <4>2. a.status \in {200, 302} /\ a.body \in Body
        BY <4>1 DEF Asked, Refused
      <4> HIDE DEF Body
      <4>3. /\ cand'.resource = Head(loc.todo) /\ cand'.as = loc.who
            /\ cand'.status = a.status /\ cand'.own = loc.body /\ cand'.other = a.body
            /\ cand'.verdict = BolaVerdict(loc.body, a.body)
        BY <4>1
      <4> QED
        BY <2>2, <2>3, <4>2, <4>3 DEF BolaFound, Owner
    <3> QED
      BY <3>1, <3>2
  <2> QED
    BY <1>1, <2>1, <2>2, <2>3, <2>6, <2>7 DEF BolaInv, JudgedAs
<1>5. CASE Judge("bola", BolaReport)
  BY <1>1, <1>5 DEF Judge, At, BolaInv, RunInv, JudgedAs, BolaReport, BolaFound
<1> QED
  BY <1>2, <1>3, <1>4, <1>5 DEF BolaNext, BolaReport

(* A finding names a request of another principal after the owner's. *)
LEMMA BolaInvOwner == BolaInv => BolaOwnerFirst
<1> SUFFICES ASSUME BolaInv, Is("bola") PROVE BolaOwnerFirst
  BY DEF BolaOwnerFirst
<1>1. \A i \in DOMAIN wire : wire[i].as # Owner =>
         \E j \in 1..(i - 1) : wire[j] = [wire[i] EXCEPT !.as = Owner]
  <2>1. OwnerFirst(wire)
    BY DEF BolaInv
  <2>2. \A i \in DOMAIN wire : [wire[i] EXCEPT !.as = Owner] = For(wire[i].resource, Owner)
    BY <2>1 DEF OwnerFirst, For
  <2> QED
    BY <2>1, <2>2 DEF OwnerFirst
<1>2. ASSUME Reports("bola")
      PROVE  /\ [resource |-> cand.resource, as |-> cand.as] \in Range(wire)
             /\ cand.as # Owner /\ result.evidence.uncertainty = 0
             /\ result.finding.status = "confirmed" <=> cand.own.shape = cand.other.shape
  <2>1. BolaFound(cand) /\ result = BolaReport /\ result.stage = "reported"
    BY <1>2 DEF Reports, BolaInv, JudgedAs, Nothing
  <2>2. result = [stage |-> "reported", v |-> BolaValidate(cand),
                  evidence |-> BolaEvidence(cand), assessed |-> BolaAssess(cand),
                  finding |-> [BolaAssess(cand) EXCEPT
                    !.status = Status(BolaValidate(cand).outcome),
                    !.confidence = BolaValidate(cand).confidence]]
    BY <2>1, ReportIs DEF BolaReport
  <2>3. result.evidence = BolaEvidence(cand)
        /\ result.finding.status = Status(BolaValidate(cand).outcome)
    BY <2>2 DEF BolaAssess
  <2>4. BolaEvidence(cand).uncertainty = 0
    BY <2>1 DEF BolaFound, BolaEvidence
  <2>5. BolaValidate(cand).outcome = cand.verdict
    BY DEF BolaValidate
  <2>6. cand.verdict = "confirmed" <=> cand.own.shape = cand.other.shape
    BY <2>1 DEF BolaFound, BolaVerdict
  <2>7. Status(cand.verdict) = "confirmed" <=> cand.verdict = "confirmed"
    BY DEF Status
  <2> QED
    BY <2>1, <2>3, <2>4, <2>5, <2>6, <2>7 DEF BolaFound, For
<1> QED
  BY <1>1, <1>2 DEF BolaOwnerFirst

-----------------------------------------------------------------------------
(* bfla *)

(* The report of bfla. *)
BflaReport == Reported(BflaValidate(cand), BflaEvidence(cand), BflaAssess(cand))

(* Which step a behaviour of bfla takes. *)
LEMMA BflaOf ==
  ASSUME AuthorizationNext, check = "bfla"
  PROVE  BflaBegin \/ BflaPath \/ Judge("bfla", BflaReport)
<1>1. /\ BehaviorBegin => check = "behavior"
      /\ BehaviorPath => check = "behavior"
      /\ InvalidationBegin => check = "invalidation"
      /\ \A r : Judge("behavior", r) => check = "behavior"
  BY DEF BehaviorBegin, BehaviorPath, InvalidationBegin, Begin, BeginGated, At, Judge
<1> QED
  BY <1>1 DEF AuthorizationNext, BflaReport

(* No path is asked twice, and a finding names a request that was made. *)
Once(w) == \A i, j \in DOMAIN w : i # j => w[i].path # w[j].path
BflaFound(c) ==
  /\ [path |-> c.path, as |-> c.principal] \in Range(wire)
  /\ c.markers \in 2..4

(* The paths to come are untouched. *)
BflaInv ==
  Is("bfla") =>
    /\ Once(wire)
    /\ pc = "bfla_path" =>
         /\ loc = [todo |-> loc.todo, who |-> loc.who]
         /\ loc.todo \in Seq(Range(Paths)) /\ loc.todo # <<>> /\ IsInjective(loc.todo)
         /\ Untouched(wire, Range(loc.todo))
    /\ cand # Nothing => BflaFound(cand)
    /\ JudgedAs(BflaReport)

(* Every request of bfla keeps the invariant. *)
LEMMA BflaStep ==
  ASSUME RunInv, BflaInv, check = "bfla", check' = check, AuthorizationNext
  PROVE  BflaInv'
<1> USE DEF Is
<1>1. CASE BflaBegin
  <2>1. /\ wire' = <<>> /\ cand' = Nothing /\ result' = Nothing
    BY <1>1 DEF BflaBegin, Begin, At, Keeps, RunInv
  <2>2. pc' # "bfla_path" \/ \E who : loc' = [todo |-> Paths, who |-> who]
    BY <1>1 DEF BflaBegin, Begin, Step, At
  <2>3. pc' = "bfla_path" => /\ loc' = [todo |-> loc'.todo, who |-> loc'.who]
                             /\ loc'.todo = Paths
    BY <2>2
  <2>4. DOMAIN wire' = {}
    BY <2>1
  <2> QED
    BY <2>1, <2>3, <2>4, RunAssumption DEF BflaInv, JudgedAs, Once, Untouched
<1>2. CASE BflaPath
  <2> DEFINE x == [path |-> Head(loc.todo), as |-> loc.who]
             next == Onward("bfla_path")
  <2>1. /\ pc = "bfla_path" /\ result = Nothing /\ result' = Nothing
        /\ wire' = wire \o <<x>> /\ pc' = next.pc /\ loc' = next.loc
    BY <1>2 DEF BflaPath, Probe, At, Step, Sent, Keeps, RunInv, Get
  <2>2. /\ loc = [todo |-> loc.todo, who |-> loc.who]
        /\ loc.todo \in Seq(Range(Paths)) /\ loc.todo # <<>> /\ IsInjective(loc.todo)
        /\ Untouched(wire, Range(loc.todo)) /\ Once(wire) /\ IsSeq(wire)
    BY <2>1 DEF BflaInv, RunInv
  <2>3. /\ pc' = IF Len(loc.todo) = 1 THEN "judge" ELSE "bfla_path"
        /\ loc' = [loc EXCEPT !.todo = Tail(@)]
    BY <2>1 DEF Onward
  <2>4. loc' = [todo |-> Tail(loc.todo), who |-> loc.who]
    BY <2>2, <2>3
  <2>5. loc'.todo = Tail(loc.todo) /\ loc' = [todo |-> loc'.todo, who |-> loc'.who]
    BY <2>4
  <2>6. /\ Tail(loc.todo) \in Seq(Range(Paths)) /\ IsInjective(Tail(loc.todo))
        /\ Head(loc.todo) \notin Range(Tail(loc.todo))
        /\ Range(Tail(loc.todo)) \subseteq Range(loc.todo) /\ Head(loc.todo) \in Range(loc.todo)
        /\ Len(loc.todo) # 1 => Tail(loc.todo) # <<>>
    BY <2>2, PathsLeft
  <2>7. x.path = Head(loc.todo)
    OBVIOUS
  <2> HIDE DEF x, next
  <2>8. /\ DOMAIN wire' = DOMAIN wire \cup {Len(wire) + 1}
        /\ \A i \in DOMAIN wire : wire'[i] = wire[i]
        /\ wire'[Len(wire) + 1] = x
        /\ Len(wire) + 1 \notin DOMAIN wire
    <3>1. /\ Len(wire) \in Nat /\ DOMAIN wire = 1..Len(wire)
          /\ DOMAIN wire' = 1..(Len(wire) + 1)
          /\ \A i \in 1..Len(wire) : wire'[i] = wire[i]
          /\ wire'[Len(wire) + 1] = x
      BY <2>1, <2>2, OneMore
    <3> QED
      BY <3>1
  <2>9. Once(wire') /\ Untouched(wire', Range(Tail(loc.todo)))
    <3>1. \A i \in DOMAIN wire : wire[i].path # Head(loc.todo)
      BY <2>2, <2>6 DEF Untouched
    <3>2. Once(wire')
      BY <2>2, <2>7, <2>8, <3>1 DEF Once
    <3>3. Untouched(wire', Range(Tail(loc.todo)))
      BY <2>2, <2>6, <2>7, <2>8 DEF Untouched
    <3> QED
      BY <3>2, <3>3
  <2>10. Range(wire') = Range(wire) \cup {x}
    BY <2>1, <2>2, OneMore
  <2>11. cand' # Nothing => BflaFound(cand)'
    <3>1. CASE UNCHANGED cand
      BY <2>10, <3>1 DEF BflaInv, BflaFound
    <3>2. CASE ~UNCHANGED cand
      <4>1. PICK markers \in 0..4, status \in {200, 201} :
              /\ ~(markers < 2)
              /\ cand' = [path |-> Head(loc.todo), principal |-> loc.who,
                          markers |-> markers, status |-> status]
        BY <1>2, <3>2 DEF BflaPath, Probe, Found
      <4>2. markers \in 2..4
        BY <4>1
      <4>3. cand'.path = Head(loc.todo) /\ cand'.principal = loc.who /\ cand'.markers = markers
        BY <4>1
      <4> QED
        BY <2>10, <4>2, <4>3 DEF BflaFound, x
    <3> QED
      BY <3>1, <3>2
  <2> QED
    BY <2>1, <2>3, <2>5, <2>6, <2>9, <2>11 DEF BflaInv, JudgedAs
<1>3. CASE Judge("bfla", BflaReport)
  BY <1>3 DEF Judge, At, BflaInv, RunInv, JudgedAs, BflaReport, BflaFound
<1> QED
  BY <1>1, <1>2, <1>3, BflaOf

(* A finding names a request that was made, as the principal it blames. *)
LEMMA BflaInvLow == BflaInv => BflaAsLowPrivilege
<1> SUFFICES ASSUME BflaInv, Is("bfla") PROVE BflaAsLowPrivilege
  BY DEF BflaAsLowPrivilege
<1>1. Once(wire)
  BY DEF BflaInv
<1>2. ASSUME Reports("bfla")
      PROVE  /\ [path |-> cand.path, as |-> cand.principal] \in Range(wire)
             /\ result.finding.status = "confirmed" <=> cand.markers > 2
             /\ result.finding.confidence = "high" <=> result.finding.status = "confirmed"
  <2>1. BflaFound(cand) /\ result = BflaReport /\ result.stage = "reported"
    BY <1>2 DEF Reports, BflaInv, JudgedAs, Nothing
  <2>2. result = [stage |-> "reported", v |-> BflaValidate(cand),
                  evidence |-> BflaEvidence(cand), assessed |-> BflaAssess(cand),
                  finding |-> [BflaAssess(cand) EXCEPT
                    !.status = Status(BflaValidate(cand).outcome),
                    !.confidence = BflaValidate(cand).confidence]]
    BY <2>1, ReportIs DEF BflaReport
  <2>3. /\ result.finding.status = Status(BflaValidate(cand).outcome)
        /\ result.finding.confidence = BflaValidate(cand).confidence
    BY <2>2 DEF BflaAssess
  <2>4. /\ BflaValidate(cand).outcome = IF cand.markers >= 3 THEN "confirmed" ELSE "likely"
        /\ BflaValidate(cand).confidence = IF cand.markers >= 3 THEN "high" ELSE "medium"
    BY DEF BflaValidate
  <2>5. cand.markers >= 3 <=> cand.markers > 2
    BY <2>1 DEF BflaFound
  <2> QED
    BY <2>1, <2>3, <2>4, <2>5 DEF BflaFound, Status
<1> QED
  BY <1>1, <1>2 DEF BflaAsLowPrivilege, Once

-----------------------------------------------------------------------------
(* http-methods *)

(* The list of the methods to probe. *)
LEMMA FiveIsSeq ==
  ASSUME NEW S, NEW a \in S, NEW b \in S, NEW c \in S, NEW d \in S, NEW e \in S
  PROVE  <<a, b, c, d, e>> \in Seq(S)
  OBVIOUS

(* The methods http-methods sends, and those sent to a path. *)
AllMethods == Range(ProbeMethods) \cup {"OPTIONS"}
MethodsOf(w, p) == {w[i].method : i \in {j \in DOMAIN w : w[j].path = p}}
MethodsFound(c) == c.issue = "method_advertised_in_allow" <=> c.probed \notin 200..299
MethodsReport == Reported(MethodsValidate(cand), MethodsEvidence(cand), MethodsAssess(cand))

(* A request adds its method to those of its path, and of no other. *)
LEMMA MethodsGrow ==
  ASSUME NEW w, NEW x, NEW p, IsSeq(w)
  PROVE  MethodsOf(w \o <<x>>, p) = IF x.path = p THEN MethodsOf(w, p) \cup {x.method}
                                   ELSE MethodsOf(w, p)
<1> DEFINE n == Len(w) + 1
           v == w \o <<x>>
<1>1. /\ DOMAIN v = DOMAIN w \cup {n} /\ n \notin DOMAIN w
      /\ \A i \in DOMAIN w : v[i] = w[i]
      /\ v[n] = x
  <2>1. /\ Len(w) \in Nat /\ DOMAIN w = 1..Len(w) /\ DOMAIN v = 1..n
        /\ \A i \in 1..Len(w) : v[i] = w[i]
        /\ v[n] = x
    BY OneMore
  <2> QED
    BY <2>1
<1> HIDE DEF n, v
<1>2. MethodsOf(v, p) = IF x.path = p THEN MethodsOf(w, p) \cup {x.method} ELSE MethodsOf(w, p)
  BY <1>1 DEF MethodsOf
<1> QED
  BY <1>2 DEF v

(* The paths done have had every method, the one in hand has those that are*)
(* not left.                                                               *)
MethodsInv ==
  Is("methods") =>
    /\ \A i \in DOMAIN wire : wire[i].method \in AllMethods
    /\ pc \in {"options", "methods"} =>
         /\ loc.todo \in Seq(Range(Paths)) /\ loc.todo # <<>>
         /\ \A p \in Range(Paths) \ Range(loc.todo) : MethodsOf(wire, p) = AllMethods
    /\ pc = "methods" =>
         /\ loc = [todo |-> loc.todo, allow |-> loc.allow, methods |-> loc.methods]
         /\ loc.methods \in Seq(Range(ProbeMethods)) /\ loc.methods # <<>>
         /\ MethodsOf(wire, Head(loc.todo)) \cup Range(loc.methods) = AllMethods
    /\ pc = "judge" \/ result # Nothing =>
         \A p \in Range(Paths) : MethodsOf(wire, p) = AllMethods
    /\ cand # Nothing => MethodsFound(cand)
    /\ JudgedAs(MethodsReport)

(* The members of a list are its first and those of the rest. *)
LEMMA HeadAndRest ==
  ASSUME NEW T, NEW s \in Seq(T), s # <<>>
  PROVE  /\ Tail(s) \in Seq(T) /\ Head(s) \in Range(s)
         /\ Range(s) = {Head(s)} \cup Range(Tail(s))
         /\ Len(s) > 1 => Tail(s) # <<>>
         /\ ~(Len(s) > 1) => Tail(s) = <<>>
         /\ Tail(s) = <<>> => Range(Tail(s)) = {}
<1> DEFINE n == Len(s)  t == Tail(s)  m == Len(Tail(s))
<1>1. /\ t \in Seq(T) /\ n \in Nat \ {0} /\ m = n - 1
      /\ \A i \in 1..m : t[i] = s[i + 1]
      /\ Head(s) = s[1]
  BY HeadTailProperties, LenProperties, EmptySeq
<1>2. DOMAIN s = 1..n /\ DOMAIN t = 1..m
  BY <1>1, LenProperties
<1>3. (m = 0 <=> t = <<>>) /\ DOMAIN <<>> = {}
  BY <1>1, EmptySeq
<1> HIDE DEF n, t, m
<1>4. Range(s) = {Head(s)} \cup Range(t)
  <2>1. \A i \in 1..n : i = 1 \/ (i - 1 \in 1..m /\ s[i] = t[i - 1])
    BY <1>1
  <2>2. 1 \in 1..n /\ \A i \in 1..m : i + 1 \in 1..n
    BY <1>1
  <2>3. ASSUME NEW x \in Range(s) PROVE x \in {Head(s)} \cup Range(t)
    <3>1. PICK i \in 1..n : x = s[i]
      BY <1>2, <2>3 DEF Range
    <3>2. i = 1 \/ (i - 1 \in DOMAIN t /\ x = t[i - 1])
      BY <1>2, <2>1, <3>1
    <3> QED
      BY <1>1, <3>1, <3>2 DEF Range
  <2>4. ASSUME NEW x \in {Head(s)} \cup Range(t) PROVE x \in Range(s)
    <3>1. CASE x = Head(s)
      BY <1>1, <1>2, <2>2, <3>1 DEF Range
    <3>2. CASE x \in Range(t)
      <4>1. PICK i \in 1..m : x = t[i]
        BY <1>2, <3>2 DEF Range
      <4>2. i + 1 \in DOMAIN s /\ x = s[i + 1]
        BY <1>1, <1>2, <2>2, <4>1
      <4> QED
        BY <4>2 DEF Range
    <3> QED
      BY <2>4, <3>1, <3>2
  <2> QED
    BY <2>3, <2>4
<1>5. n > 1 <=> m # 0
  BY <1>1
<1>6. t = <<>> => Range(t) = {}
  BY <1>3 DEF Range
<1> QED
  BY <1>1, <1>3, <1>4, <1>5, <1>6 DEF n, t

(* The request of a step of http-methods. *)
LEMMA MethodsAsked ==
  ASSUME RunInv, MethodsInv, Is("methods"), pc \in {"options", "methods"},
         NEW x, wire' = wire \o <<x>>, x.path = Head(loc.todo), x.method \in AllMethods
  PROVE  /\ \A i \in DOMAIN wire' : wire'[i].method \in AllMethods
         /\ \A p \in Range(Paths) \ Range(loc.todo) : MethodsOf(wire', p) = AllMethods
         /\ MethodsOf(wire', Head(loc.todo)) =
              MethodsOf(wire, Head(loc.todo)) \cup {x.method}
         /\ \A p : MethodsOf(wire, p) \subseteq AllMethods
<1>1. IsSeq(wire) /\ \A i \in DOMAIN wire : wire[i].method \in AllMethods
  BY DEF RunInv, MethodsInv
<1>2. ASSUME NEW p
      PROVE  MethodsOf(wire', p) = IF x.path = p THEN MethodsOf(wire, p) \cup {x.method}
                                   ELSE MethodsOf(wire, p)
  <2> DEFINE w == wire
             v == wire'
  <2>1. IsSeq(w) /\ v = w \o <<x>>
    BY <1>1
  <2> HIDE DEF w, v
  <2>2. MethodsOf(v, p) = IF x.path = p THEN MethodsOf(w, p) \cup {x.method}
                          ELSE MethodsOf(w, p)
    BY <2>1, MethodsGrow
  <2> QED
    BY <2>2 DEF w, v
<1>3. \A p : MethodsOf(wire, p) \subseteq AllMethods
  BY <1>1 DEF MethodsOf
<1>4. \A p \in Range(Paths) \ Range(loc.todo) : MethodsOf(wire, p) = AllMethods
  BY DEF MethodsInv
<1>5. ASSUME NEW i \in DOMAIN wire' PROVE wire'[i].method \in AllMethods
  <2>1. wire'[i] \in Range(wire) \cup {x}
    <3>1. Range(wire') = Range(wire) \cup {x}
      BY <1>1, OneMore
    <3> QED
      BY <1>5, <3>1 DEF Range
  <2> QED
    BY <1>1, <2>1 DEF Range
<1> QED
  BY <1>2, <1>3, <1>4, <1>5

(* Every request of http-methods keeps the invariant. *)
LEMMA MethodsStep ==
  ASSUME RunInv, MethodsInv, MethodsNext
  PROVE  MethodsInv'
<1> USE DEF Is
<1>1. check = "methods" /\ check' = "methods"
  BY MethodsMoves DEF Moves, Begins, Sends, Closes
<1>2. CASE MethodsBegin
  <2>1. /\ pc' \in {"done", "options"} /\ wire' = <<>> /\ cand' = Nothing /\ result' = Nothing
        /\ pc' = "options" => loc' = [todo |-> Paths]
    BY <1>2 DEF MethodsBegin, Begin, At, Step, Keeps, RunInv
  <2>2. pc' = "options" => loc'.todo = Paths
    BY <2>1
  <2>3. DOMAIN wire' = {}
    BY <2>1
  <2> QED
    BY <1>1, <2>1, <2>2, <2>3, RunAssumption DEF MethodsInv, JudgedAs
<1>3. CASE MethodsOptions
  <2> DEFINE x == [path |-> Head(loc.todo), method |-> "OPTIONS"]
  <2>1. /\ pc = "options" /\ result = Nothing /\ result' = Nothing /\ wire' = wire \o <<x>>
    BY <1>3 DEF MethodsOptions, Probe, Raised, Use, At, Sent, Keeps, RunInv
  <2>2. x.path = Head(loc.todo) /\ x.method = "OPTIONS" /\ x.method \in AllMethods
    BY DEF AllMethods
  <2> HIDE DEF x
  <2>3. /\ \A i \in DOMAIN wire' : wire'[i].method \in AllMethods
        /\ \A p \in Range(Paths) \ Range(loc.todo) : MethodsOf(wire', p) = AllMethods
        /\ MethodsOf(wire', Head(loc.todo)) =
             MethodsOf(wire, Head(loc.todo)) \cup {x.method}
        /\ \A p : MethodsOf(wire, p) \subseteq AllMethods
    BY <1>1, <2>1, <2>2, MethodsAsked
  <2>4. CASE Raised(Use("OPTIONS"))
    <3>1. pc' = "done" /\ cand' = Nothing
      BY <2>4 DEF Raised, Step
    <3> QED
      BY <1>1, <2>1, <2>3, <3>1 DEF MethodsInv, JudgedAs
  <2>5. CASE ~Raised(Use("OPTIONS"))
    <3>1. PICK allow \in SUBSET {"PUT", "TRACE"} :
            Probe("methods", [todo |-> loc.todo, allow |-> allow, methods |-> ProbeMethods],
                  Use("OPTIONS"), {})
      BY <1>3, <2>5 DEF MethodsOptions
    <3>2. /\ pc' = "methods" /\ cand' = cand
          /\ loc' = [todo |-> loc.todo, allow |-> allow, methods |-> ProbeMethods]
      BY <3>1 DEF Probe, Step, Found
    <3>3. loc'.todo = loc.todo /\ loc'.allow = allow /\ loc'.methods = ProbeMethods
      BY <3>2
    <3>4. ProbeMethods \in Seq(Range(ProbeMethods)) /\ ProbeMethods # <<>>
      <4>1. ProbeMethods \in Seq({"PUT", "DELETE", "PATCH", "CONNECT", "TRACE"})
        BY FiveIsSeq DEF ProbeMethods
      <4>2. ProbeMethods # <<>>
        BY DEF ProbeMethods
      <4> QED
        BY <4>1, <4>2, SeqIsSeq DEF IsSeq
    <3>5. MethodsOf(wire', Head(loc.todo)) \cup Range(ProbeMethods) = AllMethods
      BY <2>2, <2>3 DEF AllMethods
    <3>6. cand' # Nothing => MethodsFound(cand)'
      BY <1>1, <3>2 DEF MethodsInv, MethodsFound
    <3>7. loc.todo \in Seq(Range(Paths)) /\ loc.todo # <<>>
      BY <1>1, <2>1 DEF MethodsInv
    <3> HIDE DEF ProbeMethods
    <3> QED
      BY <1>1, <2>1, <2>3, <3>2, <3>3, <3>4, <3>5, <3>6, <3>7 DEF MethodsInv, JudgedAs
  <2> QED
    BY <2>4, <2>5
<1>4. CASE MethodsProbe
  <2> DEFINE method == Head(loc.methods)
             x == [path |-> Head(loc.todo), method |-> method]
  <2>1. /\ pc = "methods" /\ result = Nothing /\ result' = Nothing /\ wire' = wire \o <<x>>
    BY <1>4 DEF MethodsProbe, Probe, Raised, Use, At, Sent, Keeps, RunInv
  <2>2. /\ loc = [todo |-> loc.todo, allow |-> loc.allow, methods |-> loc.methods]
        /\ loc.methods \in Seq(Range(ProbeMethods)) /\ loc.methods # <<>>
        /\ MethodsOf(wire, Head(loc.todo)) \cup Range(loc.methods) = AllMethods
        /\ loc.todo \in Seq(Range(Paths)) /\ loc.todo # <<>>
    BY <1>1, <2>1 DEF MethodsInv
  <2>3. /\ Tail(loc.methods) \in Seq(Range(ProbeMethods)) /\ method \in Range(loc.methods)
        /\ Range(loc.methods) = {method} \cup Range(Tail(loc.methods))
        /\ Len(loc.methods) > 1 => Tail(loc.methods) # <<>>
        /\ ~(Len(loc.methods) > 1) => Range(Tail(loc.methods)) = {}
    BY <2>2, HeadAndRest
  <2>4. /\ Tail(loc.todo) \in Seq(Range(Paths))
        /\ Range(loc.todo) = {Head(loc.todo)} \cup Range(Tail(loc.todo))
        /\ Tail(loc.todo) = <<>> => Range(Tail(loc.todo)) = {}
    BY <2>2, HeadAndRest
  <2>5. x.path = Head(loc.todo) /\ x.method = method /\ method \in AllMethods
    BY <2>2, <2>3
  <2> HIDE DEF x
  <2>6. /\ \A i \in DOMAIN wire' : wire'[i].method \in AllMethods
        /\ \A p \in Range(Paths) \ Range(loc.todo) : MethodsOf(wire', p) = AllMethods
        /\ MethodsOf(wire', Head(loc.todo)) = MethodsOf(wire, Head(loc.todo)) \cup {method}
    <3>1. /\ \A i \in DOMAIN wire' : wire'[i].method \in AllMethods
          /\ \A p \in Range(Paths) \ Range(loc.todo) : MethodsOf(wire', p) = AllMethods
          /\ MethodsOf(wire', Head(loc.todo)) =
               MethodsOf(wire, Head(loc.todo)) \cup {x.method}
      BY <1>1, <2>1, <2>5, MethodsAsked
    <3> QED
      BY <2>5, <3>1
  <2>7. CASE Raised(Use(method))
    <3>1. pc' = "done" /\ cand' = Nothing
      BY <2>7 DEF Raised, Step
    <3> QED
      BY <1>1, <2>1, <2>6, <3>1 DEF MethodsInv, JudgedAs
  <2>8. CASE ~Raised(Use(method))
    <3>1. PICK status \in {200, 302, 401, 405} :
            LET rest  == Tail(loc.todo)
                issue == Issue(method, status, loc.allow)
                Go(found) ==
                  IF Len(loc.methods) > 1
                  THEN Probe("methods", [loc EXCEPT !.methods = Tail(@)], Use(method), found)
                  ELSE Probe(IF rest = <<>> THEN "judge" ELSE "options",
                             [todo |-> rest], Use(method), found)
            IN  Go(IF issue = None THEN {}
                   ELSE {[path |-> Head(loc.todo), method |-> method,
                          issue |-> issue, probed |-> status]})
      BY <1>4, <2>8 DEF MethodsProbe
    <3>2. \/ UNCHANGED cand
          \/ /\ Issue(method, status, loc.allow) # None
             /\ cand' = [path |-> Head(loc.todo), method |-> method,
                         issue |-> Issue(method, status, loc.allow), probed |-> status]
      BY <3>1 DEF Probe, Found
    <3>3. cand' # Nothing => MethodsFound(cand)'
      <4>1. CASE UNCHANGED cand
        BY <1>1, <4>1 DEF MethodsInv, MethodsFound
      <4>2. CASE ~UNCHANGED cand
        <5>1. /\ cand'.issue = Issue(method, status, loc.allow) /\ cand'.probed = status
              /\ cand'.issue # None
          BY <3>2, <4>2
        <5>2. status \notin 200..299 => Classify(method, status) = None
          BY DEF Classify
        <5>3. status \in 200..299 =>
                Classify(method, status) \in {"trace_enabled", "connect_enabled",
                                              "method_allowed_without_auth"}
          BY DEF Classify
        <5> QED
          BY <5>1, <5>2, <5>3, IssueAssumption DEF MethodsFound, Issue
      <4> QED
        BY <4>1, <4>2
    <3>4. CASE Len(loc.methods) > 1
      <4>1. pc' = "methods" /\ loc' = [loc EXCEPT !.methods = Tail(loc.methods)]
        BY <3>1, <3>4 DEF Probe, Step
      <4>2. loc' = [todo |-> loc.todo, allow |-> loc.allow, methods |-> Tail(loc.methods)]
        BY <2>2, <4>1
      <4>3. /\ loc'.todo = loc.todo /\ loc'.allow = loc.allow
            /\ loc'.methods = Tail(loc.methods)
        BY <4>2
      <4>4. MethodsOf(wire', Head(loc.todo)) \cup Range(Tail(loc.methods)) = AllMethods
        BY <2>2, <2>3, <2>6
      <4>5. /\ loc'.todo \in Seq(Range(Paths)) /\ loc'.todo # <<>>
            /\ \A p \in Range(Paths) \ Range(loc'.todo) : MethodsOf(wire', p) = AllMethods
        BY <2>2, <2>6, <4>3
      <4>6. loc' = [todo |-> loc'.todo, allow |-> loc'.allow, methods |-> loc'.methods]
        BY <4>2, <4>3
      <4>7. /\ loc'.methods \in Seq(Range(ProbeMethods)) /\ loc'.methods # <<>>
            /\ MethodsOf(wire', Head(loc'.todo)) \cup Range(loc'.methods) = AllMethods
        BY <2>3, <3>4, <4>3, <4>4
      <4>8. ProbeMethods' = ProbeMethods /\ AllMethods' = AllMethods
        OBVIOUS
      <4>9. pc' # "judge" /\ result' = Nothing /\ Paths' = Paths
        BY <2>1, <4>1
      <4> HIDE DEF ProbeMethods, AllMethods
      <4> QED
        BY <2>6, <3>3, <4>1, <4>5, <4>6, <4>7, <4>8, <4>9 DEF MethodsInv, JudgedAs
    <3>5. CASE ~(Len(loc.methods) > 1)
      <4>1. /\ pc' = IF Tail(loc.todo) = <<>> THEN "judge" ELSE "options"
            /\ loc' = [todo |-> Tail(loc.todo)]
        BY <3>1, <3>5 DEF Probe, Step
      <4>2. loc'.todo = Tail(loc.todo)
        BY <4>1
      <4>3. MethodsOf(wire', Head(loc.todo)) = AllMethods
        <5>1. Range(loc.methods) = {method}
          BY <2>3, <3>5
        <5> HIDE DEF method
        <5> QED
          BY <2>2, <2>6, <5>1
      <4>4. \A p \in Range(Paths) \ Range(Tail(loc.todo)) : MethodsOf(wire', p) = AllMethods
        BY <2>4, <2>6, <4>3
      <4>5. Tail(loc.todo) = <<>> => \A p \in Range(Paths) : MethodsOf(wire', p) = AllMethods
        BY <2>4, <4>4
      <4> QED
        BY <1>1, <2>1, <2>4, <2>6, <3>3, <4>1, <4>2, <4>4, <4>5 DEF MethodsInv, JudgedAs
    <3> QED
      BY <3>4, <3>5
  <2> QED
    BY <2>7, <2>8
<1>5. CASE Judge("methods", MethodsReport)
  <2>1. /\ pc = "judge" /\ pc' = "done" /\ UNCHANGED <<cand, wire>>
        /\ result = Nothing /\ result' = IF cand = Nothing THEN result ELSE MethodsReport
    BY <1>5 DEF Judge, At, RunInv
  <2>2. /\ \A p \in Range(Paths) : MethodsOf(wire, p) = AllMethods
        /\ \A i \in DOMAIN wire : wire[i].method \in AllMethods
        /\ cand # Nothing => MethodsFound(cand)
    BY <1>1, <2>1 DEF MethodsInv
  <2>3. MethodsReport' = MethodsReport /\ (MethodsFound(cand)' <=> MethodsFound(cand))
    BY <2>1 DEF MethodsReport, MethodsFound
  <2> QED
    BY <1>1, <2>1, <2>2, <2>3 DEF MethodsInv, JudgedAs
<1> QED
  BY <1>2, <1>3, <1>4, <1>5 DEF MethodsNext, MethodsReport

(* A method is reported of a path that was asked with each of them. *)
LEMMA MethodsInvShows == MethodsInv => MethodsShown
<1> SUFFICES ASSUME MethodsInv, Reports("methods") PROVE MethodsShown
  BY DEF MethodsShown
<1>1. /\ MethodsFound(cand) /\ \A p \in Range(Paths) : MethodsOf(wire, p) = AllMethods
  BY DEF Reports, Is, MethodsInv, JudgedAs, Nothing
<1> QED
  BY <1>1 DEF MethodsShown, MethodsFound, MethodsOf, AllMethods

-----------------------------------------------------------------------------
(* What the four checks have asked, and as whom. *)
AskedInv == RunInv /\ SsrfInv /\ BolaInv /\ BflaInv /\ MethodsInv

(* Every step of every check keeps the four invariants. *)
LEMMA AskedStep == AskedInv /\ [Next]_runVars => AskedInv'
<1> SUFFICES ASSUME AskedInv, [Next]_runVars PROVE AskedInv'
  OBVIOUS
<1>1. RunInv /\ RunInv'
  BY RunInvStep DEF AskedInv
<1>2. CASE UNCHANGED runVars
  <2>1. UNCHANGED <<check, pc, env, loc, cand, wire, result>>
    BY <1>2 DEF runVars
  <2>2. SsrfInv'
    BY <1>1, <2>1 DEF AskedInv, SsrfInv, Is, JudgedAs, SsrfReport, SsrfLocals, Usable,
       SsrfValidate
  <2>3. BolaInv'
    BY <1>1, <2>1 DEF AskedInv, BolaInv, Is, JudgedAs, BolaReport, BolaFound
  <2>4. BflaInv'
    BY <1>1, <2>1 DEF AskedInv, BflaInv, Is, JudgedAs, BflaReport, BflaFound
  <2>5. MethodsInv'
    BY <1>1, <2>1 DEF AskedInv, MethodsInv, Is, JudgedAs, MethodsReport, MethodsFound
  <2> QED
    BY <1>1, <2>2, <2>3, <2>4, <2>5 DEF AskedInv
<1>3. CASE Next
  <2>1. check' = check
    BY <1>1, <1>3, NextOf
  <2>2. SsrfInv'
    <3>1. CASE check = "ssrf"
      BY <1>1, <1>3, <3>1, NextOf, SsrfStep DEF AskedInv
    <3>2. CASE check # "ssrf"
      BY <2>1, <3>2 DEF SsrfInv, Is
    <3> QED
      BY <3>1, <3>2
  <2>3. BolaInv'
    <3>1. CASE check = "bola"
      BY <1>1, <1>3, <3>1, NextOf, BolaStep DEF AskedInv
    <3>2. CASE check # "bola"
      BY <2>1, <3>2 DEF BolaInv, Is
    <3> QED
      BY <3>1, <3>2
  <2>4. BflaInv'
    <3>1. CASE check = "bfla"
      BY <1>1, <1>3, <2>1, <3>1, NextOf, BflaStep DEF AskedInv
    <3>2. CASE check # "bfla"
      BY <2>1, <3>2 DEF BflaInv, Is
    <3> QED
      BY <3>1, <3>2
  <2>5. MethodsInv'
    <3>1. CASE check = "methods"
      BY <1>1, <1>3, <3>1, NextOf, MethodsStep DEF AskedInv
    <3>2. CASE check # "methods"
      BY <2>1, <3>2 DEF MethodsInv, Is
    <3> QED
      BY <3>1, <3>2
  <2> QED
    BY <1>1, <2>2, <2>3, <2>4, <2>5 DEF AskedInv
<1> QED
  BY <1>2, <1>3

(* A finding about a principal, a method or a callback rests on a request  *)
(* made as that principal, with that method, to that domain, for every list*)
(* of paths and payloads (bola.py, bfla.py, http_methods.py, ssrf.py).     *)
THEOREM ChecksAskAsClaimed == Spec => []AskedAsClaimed
<1>1. Init => AskedInv
  <2> SUFFICES ASSUME Init PROVE AskedInv
    OBVIOUS
  <2>1. RunInv /\ pc = "start" /\ cand = Nothing /\ wire = <<>> /\ result = Nothing
    BY RunInitInv DEF Init, RunInit
  <2>2. DOMAIN wire = {}
    BY <2>1
  <2> QED
    BY <2>1, <2>2 DEF AskedInv, SsrfInv, BolaInv, BflaInv, MethodsInv, JudgedAs,
       OwnerFirst, Once
<1>2. AskedInv => AskedAsClaimed
  BY SsrfInvDecides, BolaInvOwner, BflaInvLow, MethodsInvShows DEF AskedInv, AskedAsClaimed
<1> QED
  BY <1>1, <1>2, AskedStep, PTL DEF Spec

-----------------------------------------------------------------------------
(* The delay *)

(* The samples of a series, in order. *)
InOrder(s) == \A i, j \in 1..Len(s) : i <= j => s[i] <= s[j]
Ordered(s) == s \in Seq(Times) /\ InOrder(s)

(* A set of numbers that is not empty has a least one. *)
LEMMA MinIsLeast ==
  ASSUME NEW S \in SUBSET Nat, S # {}
  PROVE  Min(S) \in S /\ \A x \in S : Min(S) <= x
<1> DEFINE R == {ss \in Nat \X Nat : ss[1] < ss[2]}
<1>0. OpToRel(<, Nat) = R
  BY DEF OpToRel
<1>1. PICK m \in S : \A x \in S : ~ (<<x, m>> \in R)
  BY <1>0, NatLessThanWellFounded, WFMin
<1>2. \A x \in S : m <= x
  <2>1. \A x \in S : x \in Nat /\ m \in Nat /\ ~ (x < m)
    BY <1>1
  <2> QED
    BY <2>1
<1> QED
  BY <1>2 DEF Min

(* The list in which x is put before place m. *)
LEMMA InsertAtList ==
  ASSUME NEW S, NEW s \in Seq(S), NEW x \in S, NEW m \in 1..Len(s) + 1
  PROVE  /\ InsertAt(s, m, x) \in Seq(S) /\ Len(InsertAt(s, m, x)) = Len(s) + 1
         /\ \A i \in 1..Len(s) + 1 :
              InsertAt(s, m, x)[i] = IF i < m THEN s[i] ELSE IF i = m THEN x ELSE s[i - 1]
<1> DEFINE n == Len(s)  a == SubSeq(s, 1, m - 1)  b == SubSeq(s, m, n)
<1>1. n \in Nat /\ m \in Nat \ {0} /\ m <= n + 1 /\ \A i \in 1..n : s[i] \in S
  BY LenProperties, ElementOfSeq
<1>2. /\ a \in Seq(S) /\ Len(a) = m - 1
      /\ \A i \in 1..m - 1 : a[i] = s[i]
  <2>1. /\ a \in Seq(S) /\ Len(a) = IF 1 <= m - 1 THEN m - 1 - 1 + 1 ELSE 0
        /\ \A i \in 1..m - 1 - 1 + 1 : a[i] = s[1 + i - 1]
    <3> HIDE DEF n
    <3>1. \A i \in 1..m - 1 : s[i] \in S
      BY <1>1
    <3>2. 1 \in Int /\ m - 1 \in Int
      BY <1>1
    <3> QED
      BY <3>1, <3>2, SubSeqProperties
  <2> HIDE DEF a, n
  <2> QED
    BY <1>1, <2>1
<1>3. /\ b \in Seq(S) /\ Len(b) = n - m + 1
      /\ \A i \in 1..n - m + 1 : b[i] = s[m + i - 1]
  <2>1. /\ b \in Seq(S) /\ Len(b) = IF m <= n THEN n - m + 1 ELSE 0
        /\ \A i \in 1..n - m + 1 : b[i] = s[m + i - 1]
    <3> HIDE DEF n
    <3>1. \A i \in m..n : s[i] \in S
      BY <1>1
    <3>2. m \in Int /\ n \in Int
      BY <1>1
    <3> QED
      BY <3>1, <3>2, SubSeqProperties
  <2> HIDE DEF b, n
  <2> QED
    BY <1>1, <2>1
<1> HIDE DEF a, b
<1> DEFINE c == a \o <<x>>
<1>4. /\ c \in Seq(S) /\ Len(c) = m
      /\ \A i \in 1..m : c[i] = IF i < m THEN s[i] ELSE x
  <2>1. <<x>> \in Seq(S) /\ Len(<<x>>) = 1 /\ <<x>>[1] = x
    OBVIOUS
  <2> DEFINE o == <<x>>
  <2>2. o \in Seq(S) /\ Len(o) = 1 /\ o[1] = x
    BY <2>1
  <2> HIDE DEF o
  <2>3. /\ a \o o \in Seq(S) /\ Len(a \o o) = Len(a) + Len(o)
        /\ \A i \in 1..Len(a) + Len(o) : (a \o o)[i] = IF i <= Len(a) THEN a[i] ELSE o[i - Len(a)]
    BY <1>2, <2>2, ConcatProperties
  <2> HIDE DEF n
  <2>4. /\ Len(a \o o) = m
        /\ \A i \in 1..m : (a \o o)[i] = IF i < m THEN s[i] ELSE x
    BY <1>1, <1>2, <2>2, <2>3
  <2> QED
    BY <2>3, <2>4 DEF o
<1> HIDE DEF c
<1>5. /\ c \o b \in Seq(S) /\ Len(c \o b) = Len(c) + Len(b)
      /\ \A i \in 1..Len(c) + Len(b) : (c \o b)[i] = IF i <= Len(c) THEN c[i] ELSE b[i - Len(c)]
  BY <1>3, <1>4, ConcatProperties
<1>6. InsertAt(s, m, x) = c \o b
  BY DEF InsertAt, a, b, c
<1> DEFINE u == c \o b
<1>7. /\ u \in Seq(S) /\ Len(u) = Len(c) + Len(b)
      /\ \A i \in 1..Len(c) + Len(b) : u[i] = IF i <= Len(c) THEN c[i] ELSE b[i - Len(c)]
  BY <1>5
<1> HIDE DEF u, n
<1>8. /\ Len(u) = n + 1
      /\ \A i \in 1..n + 1 : u[i] = IF i < m THEN s[i] ELSE IF i = m THEN x ELSE s[i - 1]
  <2>1. Len(u) = n + 1
    BY <1>1, <1>3, <1>4, <1>7
  <2>2. ASSUME NEW i \in 1..n + 1
        PROVE  u[i] = IF i < m THEN s[i] ELSE IF i = m THEN x ELSE s[i - 1]
    <3>1. CASE i <= m
      <4>1. i \in 1..m /\ u[i] = c[i]
        BY <1>1, <1>3, <1>4, <1>7, <3>1
      <4> QED
        BY <1>1, <1>4, <3>1, <4>1
    <3>2. CASE i > m
      <4>1. i - m \in 1..n - m + 1 /\ u[i] = b[i - m] /\ m + (i - m) - 1 = i - 1
        BY <1>1, <1>3, <1>4, <1>7, <3>2
      <4> QED
        BY <1>1, <1>3, <3>2, <4>1
    <3> QED
      BY <1>1, <3>1, <3>2
  <2> QED
    BY <2>1, <2>2
<1> QED
  BY <1>6, <1>7, <1>8 DEF n, u

(* A sample finds its place: the series stays in order. *)
LEMMA SampleOrders ==
  ASSUME NEW s, Ordered(s), NEW t \in Times
  PROVE  Ordered(Sample(s, t))
<1> DEFINE n == Len(s)  M == {i \in 1..n : s[i] > t} \cup {n + 1}  m == Min(M)
           u == InsertAt(s, m, t)
<1>1. /\ s \in Seq(Times) /\ n \in Nat /\ t \in Nat
      /\ \A i \in 1..n : s[i] \in Nat
      /\ \A i, j \in 1..n : i <= j => s[i] <= s[j]
  BY LenProperties, ElementOfSeq, TimesAssumption DEF Ordered, InOrder
<1>2. m \in M /\ \A i \in M : m <= i
  <2>1. M \in SUBSET Nat /\ M # {}
    <3> HIDE DEF n
    <3> QED
      BY <1>1
  <2> QED
    BY <2>1, MinIsLeast
<1> HIDE DEF m, n
<1>3. m \in 1..n + 1 /\ \A i \in 1..n : (i < m => s[i] <= t) /\ (m <= i => s[i] > t)
  <2>1. m \in 1..n + 1
    BY <1>1, <1>2
  <2>2. ASSUME NEW i \in 1..n, i < m PROVE s[i] <= t
    BY <1>1, <1>2, <2>1, <2>2
  <2>3. ASSUME NEW i \in 1..n, m <= i PROVE s[i] > t
    <3>1. m \in 1..n /\ s[m] > t
      BY <1>1, <1>2, <2>1, <2>3
    <3>2. s[m] <= s[i]
      BY <1>1, <2>3, <3>1
    <3> QED
      BY <1>1, <3>1, <3>2
  <2> QED
    BY <2>1, <2>2, <2>3
<1>4. /\ u \in Seq(Times) /\ Len(u) = n + 1
      /\ \A i \in 1..n + 1 : u[i] = IF i < m THEN s[i] ELSE IF i = m THEN t ELSE s[i - 1]
  BY <1>1, <1>3, InsertAtList DEF n
<1>5. Sample(s, t) = u
  BY DEF Sample, m, n
<1> HIDE DEF u, M
<1>6. ASSUME NEW i \in 1..n + 1, NEW j \in 1..n + 1, i <= j PROVE u[i] <= u[j]
  <2>1. CASE j < m
    BY <1>1, <1>3, <1>4, <1>6, <2>1
  <2>2. CASE j = m
    BY <1>1, <1>3, <1>4, <1>6, <2>2
  <2>3. CASE j > m
    <3>1. j - 1 \in 1..n /\ m <= j - 1 /\ u[j] = s[j - 1] /\ s[j - 1] > t
      BY <1>1, <1>3, <1>4, <2>3
    <3>2. CASE i < m
      BY <1>1, <1>3, <1>4, <3>1, <3>2
    <3>3. CASE i = m
      BY <1>1, <1>3, <1>4, <3>1, <3>3
    <3>4. CASE i > m
      <4>1. i - 1 \in 1..n /\ i - 1 <= j - 1 /\ u[i] = s[i - 1]
        BY <1>1, <1>3, <1>4, <1>6, <3>4
      <4> QED
        BY <1>1, <3>1, <4>1
    <3> QED
      BY <1>1, <1>3, <3>2, <3>3, <3>4
  <2> QED
    BY <1>1, <1>3, <2>1, <2>2, <2>3
<1> QED
  BY <1>4, <1>5, <1>6 DEF Ordered, InOrder

(* The median lies between the extremes. *)
LEMMA MedianBetween ==
  ASSUME NEW s, Ordered(s), s # <<>>
  PROVE  /\ s[1] \in Nat \ {0} /\ s[Len(s)] \in Nat \ {0} /\ Median2(s) \in Nat
         /\ 2 * s[1] <= Median2(s) /\ Median2(s) <= 2 * s[Len(s)]
<1> DEFINE n == Len(s)  i == (n + 1) \div 2  j == n \div 2 + 1
<1>1. /\ n \in Nat \ {0} /\ \A k \in 1..n : s[k] \in Nat \ {0}
      /\ \A k, l \in 1..n : k <= l => s[k] <= s[l]
  BY LenProperties, ElementOfSeq, EmptySeq, TimesAssumption DEF Ordered, InOrder
<1>2. Median2(s) = s[i] + s[j]
  BY DEF Median2
<1> HIDE DEF n
<1>3. i \in 1..n /\ j \in 1..n
  BY <1>1
<1> HIDE DEF i, j
<1>4. 1 \in 1..n /\ n \in 1..n
  BY <1>1
<1>5. /\ s[1] <= s[i] /\ s[1] <= s[j] /\ s[i] <= s[n] /\ s[j] <= s[n]
      /\ s[1] \in Nat \ {0} /\ s[n] \in Nat \ {0} /\ s[i] \in Nat /\ s[j] \in Nat
  BY <1>1, <1>3, <1>4
<1> QED
  BY <1>2, <1>5 DEF n

(* The state of a sequence. *)
Measured(s) ==
  /\ s = [n |-> s.n, base |-> s.base, blank |-> s.blank, ctl |-> s.ctl,
          probe |-> s.probe, waf |-> s.waf, rate |-> s.rate]
  /\ Ordered(s.base) /\ Ordered(s.probe)

(* No sample yet. *)
LEMMA FreshMeasured == Measured(Fresh)
<1>1. Ordered(<<>>)
  <2>1. <<>> \in Seq(Times) /\ Len(<<>>) = 0
    BY EmptySeq
  <2>2. 1..0 = {}
    OBVIOUS
  <2> QED
    BY <2>1, <2>2 DEF Ordered, InOrder
<1> QED
  BY <1>1 DEF Measured, Fresh

(* Whatever a request brings, the samples stay in order. *)
LEMMA AnswersMeasured ==
  ASSUME NEW s, Measured(s), NEW r \in Answers(s)
  PROVE  Measured(r)
<1>1. CASE r = Lost(s)
  <2>1. r = [n |-> s.n + 1, base |-> s.base, blank |-> s.blank, ctl |-> s.ctl,
             probe |-> s.probe, waf |-> s.waf, rate |-> s.rate]
    BY <1>1 DEF Lost, Measured
  <2> QED
    BY <2>1 DEF Measured
<1>2. ASSUME NEW t \in Times, NEW sign, NEW blank, r = Taken(s, t, sign, blank)
      PROVE  Measured(r)
  <2>1. CASE Kind(s.n) = "baseline"
    <3>1. r = [s EXCEPT !.n = @ + 1, !.base = Sample(@, t),
                        !.blank = IF s.base = <<>> THEN blank ELSE @]
      BY <1>2, <2>1 DEF Taken
    <3> DEFINE k == s.n + 1  b == Sample(s.base, t)
               z == IF s.base = <<>> THEN blank ELSE s.blank
    <3>2. r = [n |-> k, base |-> b, blank |-> z, ctl |-> s.ctl,
               probe |-> s.probe, waf |-> s.waf, rate |-> s.rate]
      BY <3>1 DEF Measured
    <3>3. Ordered(b)
      BY SampleOrders DEF Measured
    <3> HIDE DEF k, b, z
    <3> QED
      BY <3>2, <3>3 DEF Measured
  <2>2. CASE Kind(s.n) = "control"
    <3>1. r = [s EXCEPT !.n = @ + 1, !.ctl = @ + 1]
      BY <1>2, <2>2 DEF Taken
    <3>2. r = [n |-> s.n + 1, base |-> s.base, blank |-> s.blank, ctl |-> s.ctl + 1,
               probe |-> s.probe, waf |-> s.waf, rate |-> s.rate]
      BY <3>1 DEF Measured
    <3> QED
      BY <3>2 DEF Measured
  <2>3. CASE Kind(s.n) \notin {"baseline", "control"}
    <3>1. r = [s EXCEPT !.n = @ + 1, !.probe = Sample(@, t),
                        !.waf = @ \/ LooksLikeWaf(s, sign),
                        !.rate = @ \/ LooksLikeRateLimit(sign)]
      BY <1>2, <2>3 DEF Taken
    <3> DEFINE k == s.n + 1  p == Sample(s.probe, t)
               w == s.waf \/ LooksLikeWaf(s, sign)
               l == s.rate \/ LooksLikeRateLimit(sign)
    <3>2. r = [n |-> k, base |-> s.base, blank |-> s.blank, ctl |-> s.ctl,
               probe |-> p, waf |-> w, rate |-> l]
      BY <3>1 DEF Measured
    <3>3. Ordered(p)
      BY SampleOrders DEF Measured
    <3> HIDE DEF k, p, w, l
    <3> QED
      BY <3>2, <3>3 DEF Measured
  <2> QED
    BY <2>1, <2>2, <2>3
<1>3. \/ r = Lost(s)
      \/ \E t \in Times : \E sign, blank : r = Taken(s, t, sign, blank)
  <2>1. Answers(s) =
          {Lost(s)} \cup
          IF Kind(s.n) = "probe"
          THEN {Taken(s, t, sign, s.blank) : t \in Times, sign \in Sign}
          ELSE {Taken(s, t, "ok", blank) : t \in Times,
                blank \in IF s.base = <<>> THEN BOOLEAN ELSE {s.blank}}
    BY DEF Answers
  <2> DEFINE T1 == {Taken(s, t, sign, s.blank) : t \in Times, sign \in Sign}
             T2 == {Taken(s, t, "ok", blank) : t \in Times,
                    blank \in IF s.base = <<>> THEN BOOLEAN ELSE {s.blank}}
  <2>2. r = Lost(s) \/ r \in T1 \/ r \in T2
    <3>1. r \in {Lost(s)} \cup IF Kind(s.n) = "probe" THEN T1 ELSE T2
      BY <2>1
    <3> HIDE DEF T1, T2
    <3> QED
      BY <3>1
  <2>3. r \in T1 => \E t \in Times, sign \in Sign : r = Taken(s, t, sign, s.blank)
    OBVIOUS
  <2>4. r \in T2 => \E t \in Times, blank \in IF s.base = <<>> THEN BOOLEAN ELSE {s.blank} :
                      r = Taken(s, t, "ok", blank)
    OBVIOUS
  <2> HIDE DEF T1, T2
  <2> QED
    BY <2>2, <2>3, <2>4
<1> QED
  BY <1>1, <1>2, <1>3

(* What a delay is proof of. *)
Proves(r) ==
  /\ r.waf <=> r.verdict = "waf_interference"
  /\ r.rate <=> r.verdict = "rate_limited"
  /\ r.verdict = "timing_reproducible" =>
       /\ r.low >= 5 /\ 2 * r.high >= r.baseline2 + 40 /\ r.high # 0

(* The result a check receives is proof of its verdict, whatever was measured. *)
LEMMA ResultProves ==
  ASSUME NEW s, Measured(s)
  PROVE  Proves(Result(s)) /\ Result(s).verdict = Verdict(s)
<1> DEFINE v == Verdict(s)  r == Result(s)
<1>1. /\ r.verdict = v /\ r.baseline2 = (IF s.base = <<>> THEN 0 ELSE Median2(s.base))
      /\ r.waf = (v = "waf_interference") /\ r.rate = (v = "rate_limited")
      /\ r.low = (IF s.probe = <<>> THEN 0 ELSE s.probe[1])
      /\ r.high = (IF s.probe = <<>> THEN 0 ELSE s.probe[Len(s.probe)])
  <2> DEFINE p2 == IF \/ v \in {"timing_anomaly", "timing_reproducible"}
                      \/ v = "inconclusive" /\ s.base # <<>> /\ s.probe # <<>>
                   THEN Median2(s.probe) ELSE 0
             b2 == IF s.base = <<>> THEN 0 ELSE Median2(s.base)
             l  == IF s.probe = <<>> THEN 0 ELSE s.probe[1]
             h  == IF s.probe = <<>> THEN 0 ELSE s.probe[Len(s.probe)]
  <2>1. r = [verdict |-> v, baseline2 |-> b2, probe2 |-> p2,
             waf |-> v = "waf_interference", rate |-> v = "rate_limited",
             low |-> l, high |-> h, controls |-> s.ctl > 0]
    BY DEF Result
  <2> HIDE DEF p2, v, r
  <2>2. /\ r.verdict = v /\ r.baseline2 = b2 /\ r.low = l /\ r.high = h
        /\ r.waf = (v = "waf_interference") /\ r.rate = (v = "rate_limited")
    <3> HIDE DEF b2, l, h
    <3> QED
      BY <2>1
  <2> QED
    BY <2>2
<1>2. ASSUME v = "timing_reproducible"
      PROVE  /\ s.base # <<>> /\ s.probe # <<>> /\ Reproducible(s)
             /\ ~(HasSlow(s.probe) /\ HasFast(s.probe))
  <2> DEFINE f == Flaky(s.base)  p == Reproducible(s)  h == HasSlow(s.probe) /\ HasFast(s.probe)
  <2>1. v = IF s.base = <<>> THEN "inconclusive"
            ELSE IF f THEN "timing_flaky"
            ELSE IF s.waf THEN "waf_interference"
            ELSE IF s.rate THEN "rate_limited"
            ELSE IF s.probe = <<>> THEN "inconclusive"
            ELSE IF h THEN "timing_anomaly"
            ELSE IF p THEN "timing_reproducible" ELSE "inconclusive"
    BY DEF Verdict
  <2> HIDE DEF f, p, h, v
  <2>2. s.base # <<>> /\ s.probe # <<>> /\ p /\ ~h
    BY <1>2, <2>1
  <2> QED
    BY <2>2 DEF p, h
<1>3. ASSUME v = "timing_reproducible"
      PROVE  r.low >= 5 /\ 2 * r.high >= r.baseline2 + 40 /\ r.high # 0
  <2> DEFINE a == s.probe[1]  z == s.probe[Len(s.probe)]  m == Median2(s.probe)
             b == Median2(s.base)
  <2>1. /\ a \in Nat /\ z \in Nat /\ m \in Nat /\ 2 * a <= m /\ m <= 2 * z
        /\ b \in Nat /\ b >= 2
    <3>1. a \in Nat /\ z \in Nat /\ m \in Nat /\ 2 * a <= m /\ m <= 2 * z
      BY <1>2, <1>3, MedianBetween DEF Measured
    <3>2. /\ s.base[1] \in Nat \ {0} /\ b \in Nat /\ 2 * s.base[1] <= b
      BY <1>2, <1>3, MedianBetween DEF Measured
    <3> HIDE DEF a, z, m, b
    <3>3. b >= 2
      BY <3>2
    <3> QED
      BY <3>1, <3>2, <3>3
  <2>2. m >= b + 40
    BY <1>2, <1>3 DEF Reproducible
  <2>3. ~(z > 20 /\ a < 5)
    BY <1>2, <1>3 DEF HasSlow, HasFast
  <2>4. r.low = a /\ r.high = z /\ r.baseline2 = b
    BY <1>1, <1>2, <1>3
  <2> HIDE DEF a, z, m, b
  <2>5. z > 20 /\ a >= 5 /\ 2 * z >= b + 40
    BY <2>1, <2>2, <2>3
  <2> QED
    <3> HIDE DEF r
    <3> QED
      BY <2>1, <2>4, <2>5
<1> QED
  <2> HIDE DEF r, v
  <2>1. Proves(r) /\ r.verdict = v
    BY <1>1, <1>3 DEF Proves
  <2> QED
    BY <2>1 DEF r, v

(* The stages of a sequence. *)
Timing == {"sequence", "verdict"}

(* Candidates of sqli-time-based are results of a sequence. *)
SqliReport == Reported(SqliValidate(cand), SqliEvidence(cand), SqliAssess(cand))
SqliInv ==
  Is("sqli") =>
    /\ pc \in Timing => Measured(loc.seq) /\ loc = [seq |-> loc.seq, cheap |-> loc.cheap]
    /\ cand # Nothing => Proves(cand.r)
    /\ JudgedAs(SqliReport)

(* So are those of command-injection, which stops at the first that is settled. *)
CmdiReport == Reported(CmdiValidate(cand), CmdiEvidence(cand), CmdiAssess(cand))
CmdiInv ==
  Is("cmdi") =>
    /\ pc \in Timing => Measured(loc.seq) /\ loc = [seq |-> loc.seq, todo |-> loc.todo]
    /\ cand # Nothing =>
         /\ Proves(cand.r)
         /\ cand.r.verdict # "timing_anomaly" =>
              cand.payload = Head(loc.todo) /\ pc \in {"judge", "done"}
    /\ JudgedAs(CmdiReport)

(* One request of the sequence. *)
LEMMA MeasureMeasures ==
  ASSUME NEW c, Measure(c), Measured(loc.seq)
  PROVE  /\ check = c /\ pc = "sequence" /\ pc' \in Timing /\ UNCHANGED <<cand, result>>
         /\ \E s : Measured(s) /\ loc' = [loc EXCEPT !.seq = s]
<1>1. PICK s \in Answers(loc.seq) :
        Step(IF Ends(s) THEN "verdict" ELSE "sequence", [loc EXCEPT !.seq = s])
  BY DEF Measure
<1>2. Measured(s)
  BY AnswersMeasured
<1> QED
  BY <1>1, <1>2 DEF Measure, At, Step, Keeps, Timing

(* Every request of sqli-time-based keeps the invariant. *)
LEMMA SqliStep ==
  ASSUME RunInv, SqliInv, SqliNext
  PROVE  SqliInv'
<1> USE DEF Is
<1>1. check = "sqli" /\ check' = "sqli"
  BY SqliMoves DEF Moves, Begins, Sends, Closes
<1>2. CASE SqliBegin
  BY <1>1, <1>2 DEF SqliBegin, BeginGated, At, Step, SqliInv, RunInv, JudgedAs, Timing
<1>3. CASE SqliCheap
  <2>1. /\ pc = "sqli_cheap" /\ result = Nothing /\ result' = Nothing
        /\ cand' = cand
        /\ pc' \in {"judge", "sequence"}
        /\ \E cheap : loc' = [seq |-> Fresh, cheap |-> cheap]
    BY <1>3 DEF SqliCheap, At, Probe, Step, Found, Keeps, RunInv
  <2>2. loc'.seq = Fresh /\ loc' = [seq |-> loc'.seq, cheap |-> loc'.cheap]
    BY <2>1
  <2>3. Measured(loc'.seq)
    BY <2>2, FreshMeasured
  <2>4. Measured(loc.seq)' /\ (loc = [seq |-> loc.seq, cheap |-> loc.cheap])'
    BY <2>2, <2>3 DEF Measured, Ordered, InOrder
  <2>5. (cand # Nothing => Proves(cand.r))'
    BY <1>1, <2>1 DEF SqliInv, Proves
  <2> QED
    BY <1>1, <2>1, <2>4, <2>5 DEF SqliInv, JudgedAs
<1>4. CASE Measure("sqli")
  <2>1. pc = "sequence"
    BY <1>4 DEF Measure, At
  <2>2. Measured(loc.seq) /\ loc = [seq |-> loc.seq, cheap |-> loc.cheap]
    BY <1>1, <2>1 DEF SqliInv, Timing
  <2>3. /\ pc' \in Timing /\ UNCHANGED <<cand, result>>
        /\ \E s : Measured(s) /\ loc' = [loc EXCEPT !.seq = s]
    BY <1>4, <2>2, MeasureMeasures
  <2>4. PICK s : Measured(s) /\ loc' = [loc EXCEPT !.seq = s]
    BY <2>3
  <2>5. loc' = [seq |-> s, cheap |-> loc.cheap]
    BY <2>2, <2>4
  <2>6. loc'.seq = s /\ loc' = [seq |-> loc'.seq, cheap |-> loc'.cheap]
    BY <2>5
  <2>7. Measured(loc.seq)' /\ (loc = [seq |-> loc.seq, cheap |-> loc.cheap])'
    BY <2>4, <2>6 DEF Measured, Ordered, InOrder
  <2>8. result = Nothing
    BY <2>1 DEF RunInv
  <2>9. (cand # Nothing => Proves(cand.r))'
    BY <1>1, <2>3 DEF SqliInv, Proves
  <2> QED
    BY <1>1, <2>3, <2>7, <2>8, <2>9 DEF SqliInv, JudgedAs
<1>5. CASE SqliVerdict
  <2>1. pc = "verdict" /\ pc' = "judge" /\ result = Nothing /\ result' = Nothing
    BY <1>5 DEF SqliVerdict, At, Probe, Step, Keeps, RunInv
  <2>2. Measured(loc.seq)
    BY <1>1, <2>1 DEF SqliInv, Timing
  <2>3. (cand # Nothing => Proves(cand.r))'
    <3>1. CASE UNCHANGED cand
      BY <1>1, <3>1 DEF SqliInv, Proves
    <3>2. CASE ~UNCHANGED cand
      <4>1. cand' = [r |-> Result(loc.seq), status |-> 200, cheap |-> loc.cheap]
        BY <1>5, <3>2 DEF SqliVerdict, Probe, Found
      <4>2. cand'.r = Result(loc.seq)
        BY <4>1
      <4>3. Proves(cand'.r)
        BY <2>2, <4>2, ResultProves
      <4> QED
        BY <4>3 DEF Proves
    <3> QED
      BY <3>1, <3>2
  <2> QED
    BY <1>1, <2>1, <2>3 DEF SqliInv, JudgedAs, Timing
<1>6. CASE Judge("sqli", SqliReport)
  <2>1. (cand # Nothing => Proves(cand.r))'
    BY <1>1, <1>6 DEF Judge, SqliInv, Proves
  <2> QED
    BY <1>1, <1>6, <2>1 DEF Judge, At, SqliInv, RunInv, JudgedAs, SqliReport, Timing
<1> QED
  BY <1>2, <1>3, <1>4, <1>5, <1>6 DEF SqliNext, SqliReport

(* Every request of command-injection keeps the invariant. *)
LEMMA CmdiStep ==
  ASSUME RunInv, CmdiInv, CmdiNext
  PROVE  CmdiInv'
<1> USE DEF Is
<1> DEFINE Shown1 == cand # Nothing =>
             /\ Proves(cand.r)
             /\ cand.r.verdict # "timing_anomaly" =>
                  cand.payload = Head(loc.todo) /\ pc \in {"judge", "done"}
<1>1. check = "cmdi" /\ check' = "cmdi"
  BY CmdiMoves DEF Moves, Begins, Sends, Closes
<1>2. CASE CmdiBegin
  <2>1. /\ pc = "start" /\ cand = Nothing /\ cand' = Nothing /\ result' = Nothing
        /\ pc' \in {"done", "sequence"}
        /\ pc' = "sequence" => loc' = [seq |-> Fresh, todo |-> Payloads]
    BY <1>1, <1>2 DEF CmdiBegin, BeginGated, At, Step, RunInv
  <2>2. pc' = "sequence" => loc'.seq = Fresh /\ loc' = [seq |-> loc'.seq, todo |-> loc'.todo]
    BY <2>1
  <2>3. pc' = "sequence" => Measured(loc'.seq)
    BY <2>2, FreshMeasured
  <2>4. (pc \in Timing => Measured(loc.seq) /\ loc = [seq |-> loc.seq, todo |-> loc.todo])'
    BY <2>1, <2>2, <2>3 DEF Measured, Ordered, InOrder, Timing
  <2> QED
    BY <1>1, <2>1, <2>4 DEF CmdiInv, JudgedAs
<1>3. CASE Measure("cmdi")
  <2>1. pc = "sequence" /\ result = Nothing
    BY <1>3 DEF Measure, At, RunInv
  <2>2. Measured(loc.seq) /\ loc = [seq |-> loc.seq, todo |-> loc.todo]
    BY <1>1, <2>1 DEF CmdiInv, Timing
  <2>3. /\ pc' \in Timing /\ UNCHANGED <<cand, result>>
        /\ \E s : Measured(s) /\ loc' = [loc EXCEPT !.seq = s]
    BY <1>3, <2>2, MeasureMeasures
  <2>4. PICK s : Measured(s) /\ loc' = [loc EXCEPT !.seq = s]
    BY <2>3
  <2>5. loc' = [seq |-> s, todo |-> loc.todo]
    BY <2>2, <2>4
  <2>6. loc'.seq = s /\ loc' = [seq |-> loc'.seq, todo |-> loc'.todo]
    BY <2>5
  <2>7. Measured(loc.seq)' /\ (loc = [seq |-> loc.seq, todo |-> loc.todo])'
    BY <2>4, <2>6 DEF Measured, Ordered, InOrder
  <2>8. cand # Nothing => Proves(cand.r) /\ cand.r.verdict = "timing_anomaly"
    BY <1>1, <2>1 DEF CmdiInv
  <2>9. cand' # Nothing => Proves(cand.r)' /\ cand'.r.verdict = "timing_anomaly"
    BY <2>3, <2>8 DEF Proves
  <2> QED
    BY <1>1, <2>1, <2>3, <2>7, <2>9 DEF CmdiInv, JudgedAs
<1>4. CASE CmdiVerdict
  <2> DEFINE s == loc.seq  over == Settled(s) \/ Len(loc.todo) = 1
  <2>1. /\ pc = "verdict" /\ result = Nothing /\ result' = Nothing
        /\ pc' = IF over THEN "judge" ELSE "sequence"
        /\ loc' = [seq |-> Fresh, todo |-> IF over THEN loc.todo ELSE Tail(loc.todo)]
    BY <1>4 DEF CmdiVerdict, At, Probe, Step, Keeps, RunInv
  <2>2. Measured(s)
    BY <1>1, <2>1 DEF CmdiInv, Timing
  <2>3. /\ loc'.seq = Fresh /\ loc' = [seq |-> loc'.seq, todo |-> loc'.todo]
        /\ over => loc'.todo = loc.todo /\ pc' = "judge"
    <3> HIDE DEF over
    <3> QED
      BY <2>1
  <2>4. Measured(loc'.seq)
    BY <2>3, FreshMeasured
  <2>5. Measured(loc.seq)' /\ (loc = [seq |-> loc.seq, todo |-> loc.todo])'
    BY <2>3, <2>4 DEF Measured, Ordered, InOrder
  <2>6. cand # Nothing => Proves(cand.r) /\ cand.r.verdict = "timing_anomaly"
    BY <1>1, <2>1 DEF CmdiInv
  <2>7. cand' # Nothing =>
          /\ Proves(cand.r)'
          /\ cand'.r.verdict # "timing_anomaly" =>
               cand'.payload = Head(loc'.todo) /\ pc' \in {"judge", "done"}
    <3>1. CASE UNCHANGED cand
      <4>1. cand' # Nothing => Proves(cand.r)' /\ cand'.r.verdict = "timing_anomaly"
        BY <2>6, <3>1 DEF Proves
      <4> QED
        BY <4>1
    <3>2. CASE ~UNCHANGED cand
      <4>1. CmdiMakesCandidate(s) /\ cand' = [r |-> Result(s), payload |-> Head(loc.todo)]
        BY <1>4, <3>2 DEF CmdiVerdict, Probe, Found
      <4>2. cand'.r = Result(s) /\ cand'.payload = Head(loc.todo)
        BY <4>1
      <4>3. Proves(cand'.r) /\ cand'.r.verdict = Verdict(s)
        BY <2>2, <4>2, ResultProves
      <4>4. Verdict(s) # "timing_anomaly" => Settled(s)
        <5>1. Verdict(s) \in {"inconclusive", "timing_flaky", "waf_interference",
                              "rate_limited", "timing_anomaly", "timing_reproducible"}
          BY DEF Verdict
        <5> QED
          BY <4>1, <5>1 DEF CmdiMakesCandidate, Settled
      <4> QED
        BY <2>3, <4>2, <4>3, <4>4 DEF Proves
    <3> QED
      BY <3>1, <3>2
  <2> QED
    BY <1>1, <2>1, <2>5, <2>7 DEF CmdiInv, JudgedAs
<1>5. CASE Judge("cmdi", CmdiReport)
  <2>1. /\ pc = "judge" /\ pc' = "done" /\ UNCHANGED <<cand, loc>> /\ result = Nothing
        /\ result' = IF cand = Nothing THEN result ELSE CmdiReport
    BY <1>5 DEF Judge, At, RunInv
  <2>2. Shown1'
    BY <1>1, <2>1 DEF CmdiInv, Proves
  <2> QED
    BY <1>1, <2>1, <2>2 DEF CmdiInv, JudgedAs, CmdiReport, Timing
<1> QED
  BY <1>2, <1>3, <1>4, <1>5 DEF CmdiNext, CmdiReport

(* A report of sqli-time-based rests on its verdict. *)
LEMMA SqliTells ==
  ASSUME SqliInv, Reports("sqli")
  PROVE  /\ Proves(cand.r)
         /\ result.finding.status = SqliOutcome(cand.r.verdict)
         /\ result.assessed.status = SqliOutcome(cand.r.verdict)
         /\ result.evidence.outcome = SqliOutcome(cand.r.verdict)
         /\ result.evidence.uncertainty = Uncertainty(cand.r.verdict)
<1> DEFINE o == SqliOutcome(cand.r.verdict)
<1>1. Proves(cand.r) /\ result = SqliReport /\ result.stage = "reported"
  BY DEF Reports, Is, SqliInv, JudgedAs, Nothing
<1>2. result = [stage |-> "reported", v |-> SqliValidate(cand),
                evidence |-> SqliEvidence(cand), assessed |-> SqliAssess(cand),
                finding |-> [SqliAssess(cand) EXCEPT
                  !.status = Status(SqliValidate(cand).outcome),
                  !.confidence = SqliValidate(cand).confidence]]
  BY <1>1, ReportIs DEF SqliReport
<1>3. o \in {"confirmed", "inconclusive"} /\ Status(o) = o
  BY DEF SqliOutcome, Status
<1>4. PICK sure : SqliValidate(cand) = [outcome |-> o, confidence |-> sure]
  BY DEF SqliValidate
<1>5. PICK grade : SqliAssess(cand) = [severity |-> "high", confidence |-> grade, status |-> o]
  BY DEF SqliAssess, SqliOutcome
<1>6. /\ SqliEvidence(cand).outcome = o
      /\ SqliEvidence(cand).uncertainty = Uncertainty(cand.r.verdict)
  <2> DEFINE u == Uncertainty(cand.r.verdict)
             x == cand.r.rate /\ cand.status \in {429, 503}
  <2>1. SqliEvidence(cand) = [outcome |-> o, uncertainty |-> u, waf |-> cand.r.waf,
                              rate |-> cand.r.rate, throttle |-> x, control |-> cand.r.controls]
    BY DEF SqliEvidence
  <2> HIDE DEF u, x, o
  <2> QED
    BY <2>1 DEF u
<1> DEFINE v == SqliValidate(cand)  a == SqliAssess(cand)  e == SqliEvidence(cand)
<1>7. v.outcome = o /\ v.confidence = sure
  <2> HIDE DEF o
  <2> QED
    BY <1>4
<1> HIDE DEF o
<1>8. [a EXCEPT !.status = Status(v.outcome), !.confidence = v.confidence] =
        [severity |-> "high", confidence |-> sure, status |-> o]
  <2> DEFINE x == Status(v.outcome)  y == v.confidence
  <2>1. a = [severity |-> "high", confidence |-> grade, status |-> o] /\ x = o /\ y = sure
    BY <1>3, <1>5, <1>7
  <2> HIDE DEF v, a, x, y
  <2>2. [a EXCEPT !.status = x, !.confidence = y] =
          [[severity |-> "high", confidence |-> grade, status |-> o]
             EXCEPT !.status = o, !.confidence = sure]
    BY <2>1
  <2> DEFINE f == [a EXCEPT !.status = x, !.confidence = y]
  <2>3. f = [[severity |-> "high", confidence |-> grade, status |-> o]
               EXCEPT !.status = o, !.confidence = sure]
    BY <2>2
  <2> HIDE DEF f
  <2>4. f = [severity |-> "high", confidence |-> sure, status |-> o]
    BY <2>3
  <2> QED
    BY <2>4, Zenon DEF f, x, y
<1>9. result = [stage |-> "reported", v |-> v, evidence |-> e, assessed |-> a,
                finding |-> [severity |-> "high", confidence |-> sure, status |-> o]]
  BY <1>2, <1>8
<1>10. a.status = o
  BY <1>5
<1> HIDE DEF v, a, e
<1>11. /\ result.finding = [severity |-> "high", confidence |-> sure, status |-> o]
       /\ result.assessed = a /\ result.evidence = e
  BY <1>9
<1> QED
  BY <1>1, <1>6, <1>10, <1>11 DEF o, e

(* The same of command-injection, whose evidence may be missing. *)
LEMMA CmdiTells ==
  ASSUME CmdiInv, Reports("cmdi")
  PROVE  /\ Proves(cand.r)
         /\ result.finding.status = SqliOutcome(cand.r.verdict)
         /\ result.assessed.status = SqliOutcome(cand.r.verdict)
         /\ \/ cand.r.high = 0 /\ result.evidence = Nothing
            \/ /\ result.evidence.outcome = SqliOutcome(cand.r.verdict)
               /\ result.evidence.uncertainty = Uncertainty(cand.r.verdict)
<1> DEFINE o == SqliOutcome(cand.r.verdict)
<1>1. Proves(cand.r) /\ result = CmdiReport /\ result.stage = "reported"
  BY DEF Reports, Is, CmdiInv, JudgedAs, Nothing
<1>2. result = [stage |-> "reported", v |-> CmdiValidate(cand),
                evidence |-> CmdiEvidence(cand), assessed |-> CmdiAssess(cand),
                finding |-> [CmdiAssess(cand) EXCEPT
                  !.status = Status(CmdiValidate(cand).outcome),
                  !.confidence = CmdiValidate(cand).confidence]]
  BY <1>1, ReportIs DEF CmdiReport
<1>3. o \in {"confirmed", "inconclusive"} /\ Status(o) = o
  BY DEF SqliOutcome, Status
<1>4. PICK sure : CmdiValidate(cand) = [outcome |-> o, confidence |-> sure]
  BY DEF CmdiValidate, SqliOutcome
<1>5. PICK grade : CmdiAssess(cand) = [severity |-> "critical", confidence |-> grade, status |-> o]
  BY DEF CmdiAssess, SqliOutcome
<1>6. \/ cand.r.high = 0 /\ CmdiEvidence(cand) = Nothing
      \/ /\ CmdiEvidence(cand).outcome = o
         /\ CmdiEvidence(cand).uncertainty = Uncertainty(cand.r.verdict)
  <2> DEFINE u == Uncertainty(cand.r.verdict)
  <2>1. CmdiEvidence(cand) = IF cand.r.high = 0 THEN Nothing ELSE
          [outcome |-> o, uncertainty |-> u, waf |-> cand.r.waf,
           rate |-> cand.r.rate, control |-> cand.r.controls]
    BY DEF CmdiEvidence, SqliOutcome
  <2> HIDE DEF u, o
  <2> QED
    BY <2>1 DEF u
<1> DEFINE v == CmdiValidate(cand)  a == CmdiAssess(cand)  e == CmdiEvidence(cand)
<1>7. v.outcome = o /\ v.confidence = sure
  <2> HIDE DEF o
  <2> QED
    BY <1>4
<1> HIDE DEF o
<1>8. [a EXCEPT !.status = Status(v.outcome), !.confidence = v.confidence] =
        [severity |-> "critical", confidence |-> sure, status |-> o]
  <2> DEFINE x == Status(v.outcome)  y == v.confidence
  <2>1. a = [severity |-> "critical", confidence |-> grade, status |-> o] /\ x = o /\ y = sure
    BY <1>3, <1>5, <1>7
  <2> HIDE DEF v, a, x, y
  <2>2. [a EXCEPT !.status = x, !.confidence = y] =
          [[severity |-> "critical", confidence |-> grade, status |-> o]
             EXCEPT !.status = o, !.confidence = sure]
    BY <2>1
  <2> DEFINE f == [a EXCEPT !.status = x, !.confidence = y]
  <2>3. f = [[severity |-> "critical", confidence |-> grade, status |-> o]
               EXCEPT !.status = o, !.confidence = sure]
    BY <2>2
  <2> HIDE DEF f
  <2>4. f = [severity |-> "critical", confidence |-> sure, status |-> o]
    BY <2>3
  <2> QED
    BY <2>4, Zenon DEF f, x, y
<1>9. result = [stage |-> "reported", v |-> v, evidence |-> e, assessed |-> a,
                finding |-> [severity |-> "critical", confidence |-> sure, status |-> o]]
  BY <1>2, <1>8
<1>10. a.status = o
  BY <1>5
<1> HIDE DEF v, a, e
<1>11. /\ result.finding = [severity |-> "critical", confidence |-> sure, status |-> o]
       /\ result.assessed = a /\ result.evidence = e
  BY <1>9
<1> QED
  BY <1>1, <1>6, <1>10, <1>11 DEF o, e

(* The reports and the wire say of a delay what was measured. *)
LEMMA DelayInvEarns == SqliInv /\ CmdiInv => DelayEarned
<1> SUFFICES ASSUME SqliInv, CmdiInv PROVE DelayEarned
  OBVIOUS
<1>1. ASSUME NEW c \in {"sqli", "cmdi"}, Reports(c)
      PROVE  /\ Proves(cand.r)
             /\ result.finding.status = SqliOutcome(cand.r.verdict)
             /\ result.assessed.status = SqliOutcome(cand.r.verdict)
             /\ \/ cand.r.high = 0 /\ result.evidence = Nothing
                \/ /\ result.evidence.outcome = SqliOutcome(cand.r.verdict)
                   /\ result.evidence.uncertainty = Uncertainty(cand.r.verdict)
  BY <1>1, SqliTells, CmdiTells
<1>2. DelayConfirmed
  <2> SUFFICES ASSUME NEW c \in {"sqli", "cmdi"}, Reports(c),
                      result.finding.status = "confirmed"
               PROVE  /\ ~cand.r.waf /\ ~cand.r.rate
                      /\ cand.r.low >= 5 /\ 2 * cand.r.high >= cand.r.baseline2 + 40
                      /\ result.assessed.status = "confirmed"
                      /\ result.evidence.outcome = "confirmed"
                      /\ result.evidence.uncertainty = 10
    BY DEF DelayConfirmed
  <2>1. cand.r.verdict = "timing_reproducible"
    BY <1>1 DEF SqliOutcome
  <2> QED
    BY <1>1, <2>1 DEF SqliOutcome, Uncertainty, Proves
<1>3. InterferenceTold
  <2> SUFFICES ASSUME NEW c \in {"sqli", "cmdi"}, Reports(c), cand.r.waf \/ cand.r.rate
               PROVE  /\ result.finding.status = "inconclusive"
                      /\ result.evidence = Nothing \/ result.evidence.uncertainty >= 70
    BY DEF InterferenceTold
  <2>1. cand.r.verdict \in {"waf_interference", "rate_limited"}
    BY <1>1 DEF Proves
  <2> QED
    BY <1>1, <2>1 DEF SqliOutcome, Uncertainty
<1>4. CmdiStopsWhenSettled
  BY DEF CmdiStopsWhenSettled, CmdiInv
<1> QED
  BY <1>2, <1>3, <1>4 DEF DelayEarned

(* What the two checks have measured. *)
DelayInv == RunInv /\ SqliInv /\ CmdiInv

(* Every step of every check keeps the two invariants. *)
LEMMA DelayStep == DelayInv /\ [Next]_runVars => DelayInv'
<1> SUFFICES ASSUME DelayInv, [Next]_runVars PROVE DelayInv'
  OBVIOUS
<1>1. RunInv /\ RunInv'
  BY RunInvStep DEF DelayInv
<1>2. CASE UNCHANGED runVars
  <2>1. SqliInv'
    BY <1>2 DEF DelayInv, runVars, SqliInv, Is, JudgedAs, SqliReport, Measured, Ordered, InOrder, Proves
  <2>2. CmdiInv'
    BY <1>2 DEF DelayInv, runVars, CmdiInv, Is, JudgedAs, CmdiReport, Measured, Ordered, InOrder, Proves
  <2> QED
    BY <1>1, <2>1, <2>2 DEF DelayInv
<1>3. CASE Next
  <2>1. check' = check
    BY <1>1, <1>3, NextOf
  <2>2. SqliInv'
    <3>1. CASE check = "sqli"
      BY <1>1, <1>3, <3>1, NextOf, SqliStep DEF DelayInv
    <3>2. CASE check # "sqli"
      BY <2>1, <3>2 DEF SqliInv, Is
    <3> QED
      BY <3>1, <3>2
  <2>3. CmdiInv'
    <3>1. CASE check = "cmdi"
      BY <1>1, <1>3, <3>1, NextOf, CmdiStep DEF DelayInv
    <3>2. CASE check # "cmdi"
      BY <2>1, <3>2 DEF CmdiInv, Is
    <3> QED
      BY <3>1, <3>2
  <2> QED
    BY <1>1, <2>2, <2>3 DEF DelayInv
<1> QED
  BY <1>2, <1>3

(* A delay convicts only against controls that stayed fast, what prevents  *)
(* the comparison is told, and the payloads stop when the answer is settled,*)
(* for every response time (control_probe.py, sqli.py validate,            *)
(* command_injection.py discover).                                         *)
THEOREM DelaysAreEarned == Spec => []DelayEarned
<1>1. Init => DelayInv
  <2> SUFFICES ASSUME Init PROVE DelayInv
    OBVIOUS
  <2>1. RunInv /\ pc = "start" /\ cand = Nothing /\ result = Nothing
    BY RunInitInv DEF Init, RunInit
  <2> QED
    BY <2>1 DEF DelayInv, SqliInv, CmdiInv, JudgedAs, Timing
<1>2. DelayInv => DelayEarned
  BY DelayInvEarns DEF DelayInv
<1> QED
  BY <1>1, <1>2, DelayStep, PTL DEF Spec
=============================================================================
