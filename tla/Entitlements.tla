---------------------------- MODULE Entitlements ----------------------------
(***************************************************************************)
(* Whether a user may use what an entitlement stands for, and how much of  *)
(* it: src/server-rust/src/entitlements.  Pure operators over one          *)
(* entitlement: the Playbook's rules that match the user, the most         *)
(* permissive of them, the allowances of purchased add-ons, the limit's    *)
(* enforcement, and the app's own answer merged over it.  The engine's     *)
(* evaluator over provider snapshots (EngineVerdict) selects a rule by     *)
(* code of its own.                                                        *)
(*                                                                         *)
(* Data abstractions.  A question is a record of                           *)
(*   kind      the entitlement's type, which its rules share               *)
(*   inPlaybook   the Playbook has the entitlement                         *)
(*   rules     the entitlement's rules, in the Playbook's order            *)
(*   plan, cadence, segments, addons   the user's plan handle (or "none"), *)
(*             billing period, segments and purchased holdings             *)
(*   used      [context, balance, usage], the places consumption is in     *)
(*   trial     [grants, plan]: a reverse trial grants the handle, on plan  *)
(*   app       the app's view (see AppView)     wins   who wins, per field *)
(* A rule is a record of handle, targets, segments, enabled, value (its    *)
(* limit, allowance or included count), grant (initial_grant),             *)
(* enforcement, period (its reset or scope period) and scope.  Handles are *)
(* compared as they are, numbers are integers, the unlimited sentinel is   *)
(* also infinity, and a value that is not a number is left out.  What is   *)
(* selected from rules or holdings keeps their positions: it is a function *)
(* on some of them, and its order is theirs.                               *)
(*                                                                         *)
(* An operator named Faulty... is a slip that could be made in the         *)
(* operator it precedes; it models no code and nothing uses it.            *)
(***************************************************************************)
EXTENDS Integers, Sequences, FiniteSetsExt

CONSTANTS
  KnownAddons,      \* add-on handles of the Playbook
  AddonVariations,  \* variation -> [addon, cadence]
  PlanVariations,   \* variation -> [plan, cadence, segment]
  Dimension,        \* segment -> the dimension its predicates derive
  MaxSafe           \* MAX_SAFE_INTEGER

Absent   == -1            \* a field that is not there
Infinite == 999999        \* UNLIMITED_SENTINEL

\* resolve_limit_value: a value that is not there is unlimited.
Limit(value) == IF value = Absent THEN Infinite ELSE value

FirstPresent(a, b) == IF a = Absent THEN b ELSE a

----------------------------------------------------------------------------
(* Verdicts                                                                *)

Verdict(status, allowed, reason) ==
  [status |-> status, allowed |-> allowed, reason |-> reason, limit |-> Absent,
   used |-> Absent, remaining |-> Absent]
Allow        == Verdict("allowed", TRUE, "none")
Deny(reason) == Verdict("denied", FALSE, reason)

\* apply_usage_enforcement
Enforced(over, enforcement) ==
  CASE ~over                              -> Allow
    [] over /\ enforcement = "hard_block" -> Deny("reached")
    [] over /\ enforcement = "block_with_upsell" -> Deny("block_with_upsell")
    [] over /\ enforcement = "degrade"    -> Verdict("limited", TRUE, "degraded")
    [] over /\ enforcement = "allow_overage" -> Verdict("allowed", TRUE, "overage")
    [] OTHER                              -> Verdict("limited", FALSE, "reached")

Left(limit, used) == IF used > limit THEN 0 ELSE limit - used

WithLimit(verdict, limit, used) ==
  [verdict EXCEPT !.limit = limit, !.used = used, !.remaining = Left(limit, used)]

\* is_rule_shaped_kind: the kinds whose rules say what they grant.
ShapedKinds == {"feature", "usage_limit", "limit", "credits", "seat", "capability_tier"}

\* is_provider_deferred_kind: recognised, and left to what the provider says.
DeferredKinds == {"seats", "tiered"}

MeteredKinds == {"rate_limit", "price_per_unit"}

\* derive_result_with_allowance: what a rule grants, its own limit replaced by
\* the allowance that was computed from purchases, if any.
Shaped(kind, r, used, allowance) ==
  LET own   == IF kind = "credits" /\ r.value = Absent THEN Limit(r.grant)
               ELSE Limit(r.value)
      limit == FirstPresent(allowance, own)
  IN CASE kind = "feature" /\ r.enabled = "false" -> Deny("feature_not_enabled_for_plan")
       [] kind \in {"usage_limit", "limit", "credits"} /\ limit < Infinite ->
            WithLimit(Enforced(used >= limit, r.enforcement), limit, used)
       [] kind = "seat" /\ limit < Infinite -> WithLimit(Allow, limit, used)
       [] kind \in MeteredKinds -> Deny("not_access_entitlement_kind")
       [] kind \notin ShapedKinds \cup DeferredKinds \cup MeteredKinds ->
            Deny("unknown_entitlement_kind")
       [] OTHER -> Allow

----------------------------------------------------------------------------
(* Which rules match                                                       *)

\* matches_rule_segments: of every dimension the rule names, one segment.
SegmentsMatch(r, segments) ==
  \A s \in r.segments :
    \E t \in r.segments : Dimension[t] = Dimension[s] /\ t \in segments

PlanVariationMatches(v, plan, q) ==
  /\ v \in DOMAIN PlanVariations
  /\ PlanVariations[v].plan = plan /\ PlanVariations[v].cadence = q.cadence
  /\ PlanVariations[v].segment \in q.segments \cup {"none"}

\* matches_baseline: granted by the plan.
MatchesBaseline(r, plan, q) ==
  plan # "none" /\ \E t \in r.targets :
    \/ t.kind = "plan" /\ t.id = plan
    \/ t.kind = "plan_variation" /\ PlanVariationMatches(t.id, plan, q)

\* matches_holding: granted by a purchase.
MatchesHolding(r, h) ==
  \E t \in r.targets :
    \/ t.kind = "addon" /\ t.id = h.addon
    \/ t.kind = "addon_variation" /\ h.variation # "none" /\ t.id = h.variation

\* rule_permissiveness
Score(kind, r) ==
  CASE kind \in {"usage_limit", "credits", "seat"} -> Limit(r.value)
    [] kind = "feature" /\ r.enabled = "true"      -> 1
    [] OTHER                                       -> 0

NoRule == [handle |-> "none"]

Nothing(selected) == DOMAIN selected = {}
First(selected)   == selected[Min(DOMAIN selected)]

\* The first rule wins.
FaultyMostPermissive(kind, rules) == IF Nothing(rules) THEN NoRule ELSE First(rules)

\* pick_most_permissive: of equal ones, the first.
MostPermissive(kind, rules) ==
  IF Nothing(rules) THEN NoRule
  ELSE rules[CHOOSE i \in DOMAIN rules :
         \A j \in DOMAIN rules :
           /\ Score(kind, rules[j]) <= Score(kind, rules[i])
           /\ Score(kind, rules[j]) = Score(kind, rules[i]) => i <= j]

----------------------------------------------------------------------------
(* Purchases                                                               *)

\* validate_purchased_addons: no holding twice, no add-on both as a whole and
\* by variation.
ValidAddons(addons) ==
  \A i, j \in DOMAIN addons :
    i # j /\ addons[i].addon = addons[j].addon =>
      /\ addons[i].variation # addons[j].variation
      /\ addons[i].variation # "none"

VariationKnown(h) ==
  \/ h.variation = "none"
  \/ h.variation \in DOMAIN AddonVariations
       /\ AddonVariations[h.variation].addon = h.addon

CadenceOf(h) ==
  IF h.variation \in DOMAIN AddonVariations THEN AddonVariations[h.variation].cadence
  ELSE "none"

Additive(kind) == kind \in {"seat", "credits", "usage_limit", "limit"}

Recurring(kind, r) == kind # "credits" \/ r.period # "none"

\* One contribution per holding that some rule grants.
Purchases(kind, rules, holdings) ==
  LET owned(h) == RestrictValues(rules, LAMBDA r : MatchesHolding(r, h) /\ Recurring(kind, r))
      bought   == RestrictValues(holdings, LAMBDA h : ~Nothing(owned(h)))
  IN [i \in DOMAIN bought |->
        [rule |-> MostPermissive(kind, owned(bought[i])),
         quantity |-> bought[i].quantity, cadence |-> CadenceOf(bought[i])]]

\* The plan's own grant; once something is purchased, a recurring one.
Baseline(kind, rules, purchases) ==
  MostPermissive(kind,
    RestrictValues(rules, LAMBDA r : Nothing(purchases) \/ Recurring(kind, r)))

\* allowance_period
PeriodOf(kind, r, cadence) ==
  IF kind = "seat" THEN "seat"
  ELSE IF r.period # "billing" THEN r.period
  ELSE CASE cadence = "monthly" -> "month"
         [] cadence = "annual"  -> "year"
         [] OTHER               -> "none"

\* assert_compatible_allowances
Compatible(kind, a, b, aCadence, bCadence) ==
  /\ PeriodOf(kind, a, aCadence) # "none"
  /\ PeriodOf(kind, a, aCadence) = PeriodOf(kind, b, bCadence)
  /\ a.scope = b.scope

\* aggregate_purchased_allowance: the plan's allowance plus every purchase's, on
\* the terms of the plan's rule or, without one, of the first purchase's.
Aggregate(kind, baseline, purchases, cadence) ==
  LET alone  == baseline = NoRule
      policy == IF alone THEN First(purchases).rule ELSE baseline
      terms  == IF alone THEN First(purchases).cadence ELSE cadence
      base   == IF alone THEN 0 ELSE Limit(baseline.value)
      Value(i)  == Limit(purchases[i].rule.value)
      Amount(i) == Value(i) * purchases[i].quantity
      Upto(n)   == {i \in DOMAIN purchases : i <= n}
      Total(S)  == base + MapThenSumSet(Amount, S)
      Finite(S) == base # Infinite /\ \A i \in S : Value(i) # Infinite
      fits == \A i \in DOMAIN purchases :
                /\ Compatible(kind, policy, purchases[i].rule, terms, purchases[i].cadence)
                /\ Value(i) # Infinite => Amount(i) <= MaxSafe
                /\ Finite(Upto(i)) => Total(Upto(i)) <= MaxSafe
      all == DOMAIN purchases
  IN IF ~fits THEN [rule |-> NoRule, allowance |-> Absent]
     ELSE [rule |-> policy, allowance |-> IF Finite(all) THEN Total(all) ELSE Infinite]

\* What a matched baseline and purchases of an additive kind come to.
Summed(kind, baseline, purchases, cadence, used) ==
  IF Nothing(purchases)
  THEN IF baseline = NoRule THEN Deny("no_matching_entitlement_rule")
       ELSE Shaped(kind, baseline, used, Absent)
  ELSE LET sum == Aggregate(kind, baseline, purchases, cadence) IN
       IF sum.rule = NoRule THEN Deny("invalid_purchased_allowance")
       ELSE Shaped(kind, sum.rule, used, sum.allowance)

----------------------------------------------------------------------------
(* The two evaluators                                                      *)

Used(q) ==
  FirstPresent(q.used.context, FirstPresent(q.used.balance, FirstPresent(q.used.usage, 0)))

\* The plan whose rules apply: of a handle a reverse trial grants, the trial's.
MatchingPlan(q) == IF q.trial.grants THEN q.trial.plan ELSE q.plan

\* The segments of the rules are not looked at.
FaultyMatching(q, plan, holdings) ==
  RestrictValues(q.rules, LAMBDA r :
    \/ MatchesBaseline(r, plan, q)
    \/ \E i \in DOMAIN holdings : MatchesHolding(r, holdings[i]))

Matching(q, plan, holdings) ==
  RestrictValues(q.rules, LAMBDA r :
    /\ SegmentsMatch(r, q.segments)
    /\ \/ MatchesBaseline(r, plan, q)
       \/ \E i \in DOMAIN holdings : MatchesHolding(r, holdings[i]))

\* derive_local_entitlement_from_configured_rules
PlaybookVerdict(q) ==
  LET holdings == RestrictValues(q.addons, LAMBDA h :
                    h.quantity > 0 /\ h.addon \in KnownAddons /\ VariationKnown(h))
      plan      == MatchingPlan(q)
      matching  == Matching(q, plan, holdings)
      purchases == Purchases(q.kind, matching, holdings)
      granted   == RestrictValues(matching, LAMBDA r : MatchesBaseline(r, plan, q))
  IN CASE ~ValidAddons(q.addons) -> Deny("invalid_purchased_allowance")
       [] ValidAddons(q.addons) /\ q.trial.grants /\ plan = "none" ->
            Verdict("allowed", TRUE, "granted_by_reverse_trial")
       [] ValidAddons(q.addons) /\ ~q.trial.grants /\ plan = "none" /\ Nothing(holdings) ->
            Deny("no_plan_identity")
       [] OTHER ->
            IF Nothing(matching) THEN Deny("no_matching_entitlement_rule")
            ELSE IF Nothing(holdings) \/ ~Additive(q.kind)
            THEN Shaped(q.kind, MostPermissive(q.kind, matching), Used(q), Absent)
            ELSE Summed(q.kind, Baseline(q.kind, granted, purchases), purchases,
                        q.cadence, Used(q))

\* engine_check_entitlement over find_effective_entitlement_rule, for an
\* entitlement the providers have, of a kind it does not leave to their entry.
EngineVerdict(q) ==
  LET holdings == RestrictValues(q.addons, LAMBDA h : h.quantity > 0 /\ VariationKnown(h))
      inScope   == RestrictValues(q.rules, LAMBDA r : SegmentsMatch(r, q.segments))
      purchases == Purchases(q.kind, inScope, holdings)
      granted   == RestrictValues(inScope, LAMBDA r : MatchesBaseline(r, q.plan, q))
      baseline  == Baseline(q.kind, granted, purchases)
      own       == IF baseline = NoRule THEN {} ELSE {0}   \* ahead of the purchases
      all       == [i \in own \cup DOMAIN purchases |->
                      IF i = 0 THEN baseline ELSE purchases[i].rule]
      used      == FirstPresent(q.used.context, FirstPresent(q.used.balance, 0))
  IN IF ~ValidAddons(q.addons) THEN Deny("invalid_purchased_allowance")
     ELSE IF ~Nothing(all) /\ ~Additive(q.kind)
     THEN Shaped(q.kind, MostPermissive(q.kind, all), used, Absent)
     ELSE Summed(q.kind, baseline, purchases, q.cadence, used)

----------------------------------------------------------------------------
(* The app's own answer                                                    *)

NoApp == [status |-> "none", limit |-> Absent, used |-> Absent, remaining |-> Absent]

\* from_mirrored: what is left follows from the limit and the use of it.
Mirrored(a) ==
  IF a.remaining = Absent /\ a.limit # Absent /\ a.used # Absent
  THEN [a EXCEPT !.remaining = Left(a.limit, a.used)] ELSE a

\* app_entitlement: the provider's fields over the user context's.
AppView(user, provider) ==
  LET u == Mirrored(user)
      p == Mirrored(provider)
  IN [status    |-> IF p.status = "none" THEN u.status ELSE p.status,
      limit     |-> FirstPresent(p.limit, u.limit),
      used      |-> FirstPresent(p.used, u.used),
      remaining |-> FirstPresent(p.remaining, u.remaining)]

\* The side a field comes from: its winner, if that has the field.
SourceOf(winner, app, playbook) ==
  CASE app = Absent /\ playbook = Absent -> "neither"
    [] app # Absent /\ (winner = "app" \/ playbook = Absent) -> "app"
    [] OTHER -> "playbook"
Picked(source, app, playbook) == IF source = "app" THEN app ELSE playbook

\* What is left keeps the side it came from.
FaultyRemaining(limit, used, remaining, mixed) == remaining

\* Numbers of different sides do not add up, so what is left is computed anew.
Remaining(limit, used, remaining, mixed) ==
  IF limit # Absent /\ used # Absent /\ mixed THEN Left(limit, used) ELSE remaining

\* merge_entitlement_results
Merged(v, evaluated, app, wins) ==
  LET base == IF app.status # "none" /\ (wins.status = "app" \/ ~evaluated)
              THEN Verdict(app.status, app.status # "denied", "entitlement_mirrored")
              ELSE v
      ofLimit == SourceOf(wins.limit, app.limit, v.limit)
      ofUsed  == SourceOf(wins.used, app.used, v.used)
      ofLeft  == SourceOf(wins.remaining, app.remaining, v.remaining)
      limit   == Picked(ofLimit, app.limit, v.limit)
      used    == Picked(ofUsed, app.used, v.used)
      mixed   == ofLeft # "neither" /\ \/ used # Absent /\ ofUsed # ofLeft
                                       \/ limit # Absent /\ ofLimit # ofLeft
  IN [base EXCEPT !.limit = limit, !.used = used,
        !.remaining = Remaining(limit, used, Picked(ofLeft, app.remaining, v.remaining), mixed)]

\* derive_effective_entitlement: what the app says was used is an input of the
\* evaluation.
EffectiveEntitlement(q) ==
  LET app  == AppView(q.app.user, q.app.provider)
      told == q.wins.used = "app" /\ app.used # Absent
      evaluated == PlaybookVerdict(IF told THEN [q EXCEPT !.used.balance = app.used] ELSE q)
      unknown   == Deny("entitlement_not_in_playbook")
  IN IF app = NoApp THEN IF q.inPlaybook THEN evaluated ELSE unknown
     ELSE Merged(IF q.inPlaybook THEN evaluated ELSE unknown, q.inPlaybook, app, q.wins)

=============================================================================
