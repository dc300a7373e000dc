------------------------ MODULE EntitlementDecisions ------------------------
(***************************************************************************)
(* Entitlement checks of a small set of Playbooks, users and apps: a       *)
(* behaviour is one question and its answer.                               *)
(***************************************************************************)
EXTENDS Entitlements

CONSTANTS
  Questions     \* the questions asked

\* Rules and purchased holdings come in lists, a rule's number is one, and the
\* switch of a feature is on, off or left out.
QuestionFits(q) ==
  /\ Len(q.rules) \in Nat /\ DOMAIN q.rules = 1 .. Len(q.rules)
  /\ Len(q.addons) \in Nat /\ DOMAIN q.addons = 1 .. Len(q.addons)
  /\ \A i \in DOMAIN q.rules :
       /\ q.rules[i] # NoRule
       /\ q.rules[i].value \in Int
       /\ q.rules[i].enabled \in {"true", "false", "absent"}

ASSUME QuestionsFit == \A q \in Questions : QuestionFits(q)

VARIABLES
  question,     \* the question, or NoQuestion
  verdict       \* the answer, once there is one

questionVars == <<question, verdict>>

NoQuestion == [kind |-> "none"]
Unanswered == Verdict("none", FALSE, "unanswered")

AskInit == question \in Questions /\ verdict = Unanswered

\* check_entitlement
CheckEntitlement ==
  /\ question # NoQuestion /\ verdict = Unanswered
  /\ verdict' = EffectiveEntitlement(question)
  /\ UNCHANGED question

AskSpec == AskInit /\ [][CheckEntitlement]_questionVars

----------------------------------------------------------------------------
(* Properties                                                              *)

Asked == question # NoQuestion

\* The rules that grant the user's plan the entitlement.
PlanRules(q) ==
  {q.rules[i] : i \in {j \in DOMAIN q.rules :
     SegmentsMatch(q.rules[j], q.segments) /\ MatchesBaseline(q.rules[j], q.plan, q)}}

\* Rules that spell out what they grant.  (One that leaves it out is scored as
\* unlimited if it is a credit rule, and as switched off if it is a feature.)
SpelledOut(q) ==
  \A i \in DOMAIN q.rules :
    IF q.kind = "feature" THEN q.rules[i].enabled # "absent" ELSE q.rules[i].value # Absent

\* "Where entitlement rules overlap, the most permissive rule prevails": what a
\* user who bought nothing gets is no less than what any matching rule would
\* grant by itself, whatever order the rules are in and whichever rule the scores
\* prefer.  (The shorthand "limit" has no score: the first of its rules governs.)
MostPermissivePrevails ==
  Asked /\ question.kind # "limit" /\ question.addons = <<>> /\ ~question.trial.grants /\ SpelledOut(question) =>
    LET v == PlaybookVerdict(question) IN
    \A r \in PlanRules(question) :
      LET alone == Shaped(question.kind, r, Used(question), Absent) IN
      /\ v.limit = Absent \/ (alone.limit # Absent /\ alone.limit <= v.limit)
      /\ question.kind = "feature" /\ alone.allowed => v.allowed

\* The add-ons that rules grant to are the Playbook's.  (Of one that is not, the
\* engine counts a holding and the evaluator over the Playbook does not.)
TargetsKnown(q) ==
  \A i \in DOMAIN q.rules : \A t \in q.rules[i].targets :
    /\ t.kind = "addon" => t.id \in KnownAddons
    /\ t.kind = "addon_variation" /\ t.id \in DOMAIN AddonVariations =>
         AddonVariations[t.id].addon \in KnownAddons

\* "A matched rule yields identical results on every surface": the evaluator over
\* the Playbook and the engine's over provider snapshots agree for every user and
\* holding, although each selects its rules, purchases and baseline by itself.
\* (Of a deferred kind the engine says what the provider's entry says.)
EvaluatorsAgree ==
  Asked /\ ~question.trial.grants /\ question.used.usage = Absent /\ SpelledOut(question)
    /\ question.kind \notin DeferredKinds =>
    LET v == PlaybookVerdict(question)
        w == EngineVerdict(question)
    IN /\ v.status = w.status /\ v.allowed = w.allowed
       /\ v.limit = w.limit /\ v.used = w.used /\ v.remaining = w.remaining

\* What the app itself says adds up.
AppAddsUp(a) ==
  a.remaining # Absent /\ a.limit # Absent /\ a.used # Absent =>
    a.remaining = Left(a.limit, a.used)

\* A verdict that states a limit, a use and what is left of it states numbers that
\* add up, whichever of the app's two views and the Playbook each came from.
NumbersAddUp ==
  Asked /\ verdict # Unanswered
    /\ AppAddsUp(AppView(question.app.user, question.app.provider)) =>
      AppAddsUp(verdict)

=============================================================================
