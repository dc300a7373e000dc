----------------------------- MODULE DecisionsMC -----------------------------
(* The resolver's requests and the entitlement checks of one run: a         *)
(* behaviour is one request, or one question, and its answer.               *)
EXTENDS ResolverMC, EntitlementDecisions

Catalogue(v) ==
  CASE v = "monthly_pack" -> [addon |-> "pack", cadence |-> "monthly"]
    [] v = "annual_pack"  -> [addon |-> "pack", cadence |-> "annual"]
    [] v = "other_seats"  -> [addon |-> "seats", cadence |-> "monthly"]
TheAddonVariations ==
  [v \in {"monthly_pack", "annual_pack", "other_seats"} |-> Catalogue(v)]
ThePlanVariations ==
  [v \in {"pro_monthly", "pro_team"} |->
     [plan |-> "pro", cadence |-> "monthly",
      segment |-> IF v = "pro_team" THEN "team" ELSE "none"]]
\* Two segments of one dimension and one of another.
TheDimension == [s \in {"team", "solo", "eu"} |-> IF s = "eu" THEN "region" ELSE "size"]

For(kind, id) == [kind |-> kind, id |-> id]
Rule(handle, targets, value) ==
  [handle |-> handle, targets |-> targets, segments |-> {}, enabled |-> "true",
   value |-> value, grant |-> Absent, enforcement |-> "hard_block",
   period |-> "billing", scope |-> "account"]

NoTrialGrant == [grants |-> FALSE, plan |-> "none"]
Unused    == [context |-> Absent, balance |-> Absent, usage |-> Absent]
AppWins   == [status |-> "app", limit |-> "app", used |-> "app", remaining |-> "app"]
Silent    == [user |-> NoApp, provider |-> NoApp]
Question(kind, rules) ==
  [kind |-> kind, inPlaybook |-> TRUE, rules |-> rules, plan |-> "pro",
   cadence |-> "monthly", segments |-> {"team"}, addons |-> <<>>,
   used |-> [Unused EXCEPT !.balance = 3], trial |-> NoTrialGrant,
   app |-> Silent, wins |-> AppWins]

Holding(addon, variation, quantity) ==
  [addon |-> addon, variation |-> variation, quantity |-> quantity]

\* Rules without repetition, in every order.
Orders(pool, size) ==
  {s \in UNION {[1 .. n -> pool] : n \in 0 .. size} :
     \A i, j \in DOMAIN s : i # j => s[i] # s[j]}

\* Overlapping rules of a plan: by variation, segment and enforcement.
PlanRulePool(values) ==
  LET plain == Rule("plain", {For("plan", "pro")}, 3)
  IN {plain, [plain EXCEPT !.value = Absent], [plain EXCEPT !.enabled = "false"],
      [Rule("other", {For("plan", "free")}, 9) EXCEPT !.enforcement = "degrade"],
      [plain EXCEPT !.handle = "soft", !.enforcement = "allow_overage"]}
    \cup {[Rule("more", {For("plan_variation", v)}, n) EXCEPT !.segments = s] :
            v \in {"pro_monthly", "pro_team"}, n \in values, s \in {{}, {"solo", "eu"}, {"team", "solo"}}}
Plain ==
  {[Question(kind, rules) EXCEPT !.segments = s, !.plan = p] :
     kind \in {"feature", "usage_limit", "credits", "seat", "capability_tier", "rate_limit",
               "tiered", "unheard_of"},
     rules \in Orders(PlanRulePool({5}), 2), s \in {{}, {"team"}, {"solo", "eu"}},
     p \in {"pro", "none"}}

\* Purchases over a plan's allowance.
AddonRulePool ==
  {Rule("base", {For("plan", "pro")}, 2),
   Rule("pack", {For("addon", "pack"), For("addon", "seats")}, 4),
   [Rule("month", {For("addon_variation", "monthly_pack")}, 6) EXCEPT !.enforcement = "degrade"],
   Rule("year", {For("addon_variation", "annual_pack")}, Infinite),
   [Rule("once", {For("plan", "pro"), For("addon", "pack")}, 5) EXCEPT !.period = "none"],
   [Rule("both", {For("plan", "pro"), For("addon", "seats")}, 3)
      EXCEPT !.segments = {"solo"}, !.scope = "seat"]}
Basket ==
  {<<>>, <<Holding("pack", "none", 2)>>, <<Holding("pack", "none", 0)>>,
   <<Holding("pack", "monthly_pack", 1), Holding("pack", "annual_pack", 1)>>,
   <<Holding("pack", "monthly_pack", 2), Holding("seats", "none", 1)>>,
   <<Holding("pack", "none", 1), Holding("pack", "monthly_pack", 1)>>,
   <<Holding("pack", "none", 1), Holding("pack", "none", 2)>>,
   <<Holding("seats", "none", 3), Holding("pack", "other_seats", 1)>>}
Bought ==
  {[Question(kind, rules) EXCEPT !.addons = a, !.plan = p, !.segments = s, !.used = u] :
     kind \in {"feature", "usage_limit", "limit", "credits", "seat"},
     rules \in Orders(AddonRulePool, 3), a \in Basket, p \in {"pro", "none"},
     s \in {{}, {"solo"}}, u \in {[Unused EXCEPT !.balance = 7]}}

\* Trials, unknown holdings and places consumption is kept in.
Odd ==
  {[Question(kind, rules) EXCEPT !.addons = a, !.trial = t, !.used = u, !.plan = p] :
     kind \in {"usage_limit", "credits"}, rules \in Orders(AddonRulePool, 2),
     a \in {<<>>, <<Holding("gone", "none", 1)>>, <<Holding("pack", "monthly_pack", 1)>>},
     t \in {NoTrialGrant, [grants |-> TRUE, plan |-> "none"], [grants |-> TRUE, plan |-> "pro"]},
     u \in {Unused, [Unused EXCEPT !.usage = 4], [context |-> 0, balance |-> 8, usage |-> 4]},
     p \in {"pro", "free"}}

\* The app's own numbers, from the user's context and from a provider.
Told(status, limit, used, remaining) ==
  [status |-> status, limit |-> limit, used |-> used, remaining |-> remaining]
AppViews ==
  {NoApp, Told("allowed", Absent, Absent, Absent), Told("denied", 4, Absent, Absent),
   Told("none", 4, 1, Absent), Told("limited", 4, 6, 0), Told("none", Absent, 2, 9)}
Winners == [status : {"app", "playbook"}, limit : {"app", "playbook"},
            used : {"app", "playbook"}, remaining : {"app", "playbook"}]
Mirrors ==
  {[Question("usage_limit", rules) EXCEPT !.app = [user |-> u, provider |-> p], !.wins = w,
                                          !.inPlaybook = k] :
     rules \in {<<>>, <<Rule("plain", {For("plan", "pro")}, 3)>>,
                <<Rule("free", {For("plan", "pro")}, Infinite)>>},
     u \in AppViews, p \in AppViews, w \in Winners, k \in BOOLEAN}

TheQuestions == Plain \cup Bought \cup Odd \cup Mirrors

\* No rule of these grants to an add-on the Playbook does not have.
ASSUME TheTargetsAreKnown == \A q \in TheQuestions : TargetsKnown(q)

----------------------------------------------------------------------------
NobodyAsks == question = NoQuestion /\ verdict = Unanswered
NoRequest  ==
  /\ playbook = <<>> /\ slot = Request(<<>>, "none") /\ person = Usable(None, "none")
  /\ hidden = {} /\ decision = [candidate |-> 0, reason |-> "not_asked"]

DecisionsInit == (Init /\ NobodyAsks) \/ (AskInit /\ NoRequest)

DecisionsNext ==
  \/ Next /\ UNCHANGED questionVars
  \/ CheckEntitlement /\ UNCHANGED vars

DecisionsSpec == DecisionsInit /\ [][DecisionsNext]_<<vars, questionVars>>
=============================================================================
