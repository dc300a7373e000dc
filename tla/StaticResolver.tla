--------------------------- MODULE StaticResolver ---------------------------
(***************************************************************************)
(* Which placement a request resolves to: src/server-rust/src/placements/  *)
(* static_resolver.rs (resolve), with the trial, threshold and tier gates  *)
(* beside it.  Pure operators: resolve reads a Playbook indexed once, the  *)
(* request's slot and the provider state of one user, and changes nothing  *)
(* but the impression history's expired windows (see LocalRuntime).        *)
(*                                                                         *)
(* Data abstractions.  A Playbook is the sequence of its candidates, one   *)
(* per payload, in authored order.  A candidate is a record of             *)
(*   template  the surface template its payload is for                     *)
(*   rule      its entry's id                  category  the entry's       *)
(*   order     the entry's drag order          payload   place in the entry *)
(*   handle    the trigger's entitlement       slot      the trigger's slot *)
(*   trial     [kind, at] of a trial trigger                               *)
(*   usage     [kind, percent] of a threshold trigger on that entitlement  *)
(*   tier      where the user's tier stands to the gate's: "none" for a    *)
(*             gate without one, "below", or "atOrAbove" (or not known)      *)
(*   known, qualified, planned, segmented   the verdicts of the checks on  *)
(*             the trigger's type, the qualifier and plan/segment targets, *)
(*             which depend on one user's context and nothing else here.   *)
(* A slot's templates are the expanded ids of its surface_template_ids; a  *)
(* request without any is a lookup by name.  Percentages are integers.     *)
(* Content, tokens and the superseded ids kept for analytics are left out. *)
(*                                                                         *)
(* An operator named Faulty... is a slip that could be made in the         *)
(* operator it precedes; it models no code and nothing uses it.            *)
(***************************************************************************)
EXTENDS Integers, Sequences, FiniteSets

None    == -1                     \* a number that is not known
NoTrial == [kind |-> "none", at |-> 0]
NoUsage == [kind |-> "none", percent |-> 0]

IsList(s) == Len(s) \in Nat /\ DOMAIN s = 1 .. Len(s)

\* What a Playbook and a user are, as far as the order of candidates goes: places,
\* orders and percentages are numbers.
WellFormed(playbook, person) ==
  /\ IsList(playbook)
  /\ person.elapsed \in Int
  /\ \A i \in DOMAIN playbook :
       /\ playbook[i].order \in Int
       /\ playbook[i].payload \in Int
       /\ playbook[i].trial.at \in Int
       /\ playbook[i].usage.percent \in Int
       /\ person.consumed[playbook[i].usage.kind][playbook[i].handle] \in Int

\* A slot's templates are a list.
SlotFits(slot) == IsList(slot.templates)

\* category_bucket, for the categories a Playbook is authored with.
Bucket(category) ==
  CASE category = "gated"                            -> 0
    [] category = "fixed"                            -> 1
    [] category \in {"usage_credit_seat", "trials"}  -> 2
    [] category \in {"other_conversion", "retention"} -> 4
    [] OTHER                                         -> 99

\* shared_tier_category_rank
SharedRank(category) == IF category \in {"trials", "retention"} THEN 1 ELSE 0

----------------------------------------------------------------------------
(* Triggers                                                                *)

\* compute_user_elapsed_percent, over the derived trial_progress_percent.
ElapsedPercent(person) ==
  IF ~person.active \/ person.state = "expired" THEN None ELSE person.elapsed

\* matches_trial_trigger
TrialOpen(c, person) ==
  CASE c.trial.kind = "none"      -> TRUE
    [] c.trial.kind = "started"   ->
         person.active /\ ElapsedPercent(person) \in 0 .. 5
    [] c.trial.kind = "progress"  ->
         person.active /\ person.state \notin {"expired", "converted"}
    [] c.trial.kind = "ending"    ->
         person.active /\ person.daysLeft # None /\ person.daysLeft <= c.trial.at
    [] c.trial.kind = "ended"     -> person.state = "expired"
    [] c.trial.kind = "converted" -> person.state = "converted"

\* compute_consumed_percent: a credit trigger goes by what is left, so one
\* entitlement reads differently to triggers of different kinds.
Consumed(c, person) == person.consumed[c.usage.kind][c.handle]

\* matches_threshold_trigger: unknown consumption fails closed.
UsageOpen(c, person) ==
  \/ c.usage = NoUsage
  \/ Consumed(c, person) # None /\ Consumed(c, person) >= c.usage.percent

\* unknown_trigger_type and the four gates.
Open(c, person) ==
  /\ c.known
  /\ TrialOpen(c, person)
  /\ UsageOpen(c, person)
  /\ c.qualified
  /\ c.tier # "atOrAbove"

\* The status gate_refusal reads: the slot's own check result wins.
GateStatus(c, slot, person) ==
  IF c.handle = "none" THEN "none"
  ELSE IF slot.handle = c.handle /\ slot.status # "none" THEN slot.status
  ELSE person.status[c.handle]

\* gate_refusal: "none" when an access gate may appear in this slot.
GateRefusal(c, slot, person, requireGateSlot) ==
  LET outside == IF requireGateSlot THEN slot.category # "gated"
                 ELSE slot.category \notin {"none", "gated"}
  IN
  IF Bucket(c.category) # 0 THEN "none"
  ELSE IF outside THEN "gate_outside_access_gate"
  ELSE IF c.tier # "none" THEN "none"
  ELSE IF GateStatus(c, slot, person) \in {"denied", "limited"} THEN "none"
  ELSE "entitlement_not_denied"

Targeted(c) == c.planned /\ c.segmented

----------------------------------------------------------------------------
(* The order of candidates                                                 *)

Before(a, b) ==
  \E n \in DOMAIN a : a[n] < b[n] /\ \A m \in 1 .. n - 1 : a[m] = b[m]

FirstBy(Key(_), S) == CHOOSE i \in S : \A j \in S \ {i} : Before(Key(i), Key(j))

\* Place of a template in the slot's expanded list, 1 for a lookup by name.
TemplatePlace(t, slot) == CHOOSE n \in DOMAIN slot.templates : slot.templates[n] = t

\* The order in which candidates are gathered: authored order, which leaves
\* template and index to decide between equals.
Position(playbook, slot, i) ==
  LET c == playbook[i] IN <<c.order, c.payload, TemplatePlace(c.template, slot), i>>

\* tier3_urgency: class, then closeness, capped so that limits reached tie.
Urgency(c, person) ==
  LET elapsed == ElapsedPercent(person)
      used    == Consumed(c, person)
  IN
  IF Bucket(c.category) # 2 THEN <<0, 0>>
  ELSE IF c.trial.kind \in {"started", "ended", "converted"} THEN <<1, 0>>
  ELSE IF c.trial # NoTrial THEN
    <<3, IF elapsed = None THEN 0 ELSE IF elapsed > 100 THEN 100 ELSE elapsed>>
  ELSE IF c.usage = NoUsage THEN <<3, 0>>
  ELSE IF used >= 100 THEN <<2, 100>>
  ELSE <<3, IF used = None THEN 0 ELSE used>>

\* Urgency before category.
FaultyUrgencyKey(playbook, slot, person, i) ==
  LET u == Urgency(playbook[i], person)
  IN <<u[1], -u[2], Bucket(playbook[i].category)>> \o Position(playbook, slot, i)

\* Tier and urgency only; the row decides the rest.
FaultyRowKey(playbook, slot, person, i) ==
  LET u == Urgency(playbook[i], person)
  IN <<Bucket(playbook[i].category), u[1], -u[2], i>>

\* rank_candidates' sort key.
RankKey(playbook, slot, person, i) ==
  LET c == playbook[i]
      u == Urgency(c, person)
  IN <<Bucket(c.category), u[1], -u[2], c.order, SharedRank(c.category), c.payload>>
     \o Position(playbook, slot, i)

----------------------------------------------------------------------------
(* Supersession                                                            *)

Crossed(playbook, S, elapsed) ==
  {i \in S : playbook[i].trial.kind = "progress" /\ elapsed >= playbook[i].trial.at}

\* apply_milestone_supersession: of the crossed milestones the highest wins,
\* then the lower entry order, then the earlier candidate.
MilestoneWinner(playbook, slot, crossed) ==
  LET Key(i) == <<-playbook[i].trial.at>> \o Position(playbook, slot, i)
  IN FirstBy(Key, crossed)

\* With a crossed milestone, only the winner's entry stays among the
\* milestones; without one, or with one candidate, all stay.
TrialSuperseded(playbook, slot, person, S) ==
  LET elapsed == ElapsedPercent(person)
      crossed == Crossed(playbook, S, elapsed)
  IN
  IF elapsed = None \/ Cardinality(S) <= 1 \/ crossed = {} THEN S
  ELSE {i \in S : \/ playbook[i].trial.kind # "progress"
                  \/ playbook[i].rule =
                       playbook[MilestoneWinner(playbook, slot, crossed)].rule}

SameMilestoneLine(c, d) ==
  c.usage # NoUsage /\ d.usage.kind = c.usage.kind /\ d.handle = c.handle

\* A milestone has to exceed itself.
FaultyStrictUsage(playbook, S) ==
  {i \in S : \A j \in S : SameMilestoneLine(playbook[i], playbook[j]) =>
                            playbook[j].usage.percent < playbook[i].usage.percent}

\* apply_threshold_milestone_supersession
UsageSuperseded(playbook, S) ==
  {i \in S : \A j \in S : SameMilestoneLine(playbook[i], playbook[j]) =>
                            playbook[j].usage.percent <= playbook[i].usage.percent}

----------------------------------------------------------------------------
(* resolve, for a slot with templates                                      *)

\* A filter that applies only if it leaves something.
Narrow(S, T) == IF S \cap T = {} THEN S ELSE S \cap T

ForTemplates(playbook, slot) ==
  {i \in DOMAIN playbook : \E n \in DOMAIN slot.templates :
                             slot.templates[n] = playbook[i].template}

ForEntitlement(playbook, slot, S) ==
  IF slot.handle = "none" THEN S
  ELSE {i \in S : playbook[i].handle = slot.handle}

\* The candidates the slot takes, up to the impression-history check.
ForSlot(playbook, slot, person, S) ==
  LET hinted  == IF slot.id = "none" THEN S
                 ELSE Narrow(S, {i \in S : playbook[i].slot = slot.id})
      allowed == {i \in hinted : GateRefusal(playbook[i], slot, person, TRUE) = "none"}
      fixed   == IF ~slot.fixedOnly THEN allowed
                 ELSE {i \in allowed : playbook[i].category = "fixed"}
  IN
  CASE slot.category = "triggered" ->
         {i \in fixed : Bucket(playbook[i].category) \in {2, 4}}
    [] slot.category = "gated" ->
         Narrow(fixed, {i \in fixed : playbook[i].category = "gated"})
    [] OTHER -> fixed

Served(i)       == [candidate |-> i, reason |-> "none"]
Refused(reason) == [candidate |-> 0, reason |-> reason]

\* "hidden" are the candidates whose entry the impression history hides.
ResolveSlot(playbook, slot, person, hidden) ==
  LET gathered  == ForTemplates(playbook, slot)
      entitled  == ForEntitlement(playbook, slot, gathered)
      taken     == ForSlot(playbook, slot, person, entitled)
      open      == {i \in taken \ hidden : Open(playbook[i], person)}
      remaining == TrialSuperseded(playbook, slot, person, open)
      eligible  == {i \in remaining : Targeted(playbook[i])}
      ranked    == UsageSuperseded(playbook, eligible)
      Key(i)    == RankKey(playbook, slot, person, i)
  IN
  IF gathered = {} THEN Refused("no_candidates_for_template")
  ELSE IF entitled = {} THEN Refused("no_gate_for_entitlement")
  ELSE IF ranked # {} THEN Served(FirstBy(Key, ranked))
  ELSE IF \E i \in remaining : playbook[i].planned /\ ~playbook[i].segmented
       THEN Refused("segment_target_mismatch")
  ELSE Refused("no_eligible_candidate")

----------------------------------------------------------------------------
(* resolve, for a lookup by name                                           *)

\* Targeting is left to the slot path.
FaultyRefusal(playbook, slot, person, hidden, i) ==
  IF i \in hidden THEN "placement_retired"
  ELSE IF ~Open(playbook[i], person) THEN "trigger_unmet"
  ELSE GateRefusal(playbook[i], slot, person, FALSE)

\* Why this candidate may not be served, in the order of the checks.
Refusal(playbook, slot, person, hidden, i) ==
  LET c == playbook[i] IN
  IF i \in hidden              THEN "placement_retired"
  ELSE IF ~c.known             THEN "unknown_trigger_type"
  ELSE IF ~TrialOpen(c, person) THEN "trial_trigger_unmet"
  ELSE IF ~UsageOpen(c, person) THEN "threshold_trigger_unmet"
  ELSE IF ~c.qualified         THEN "qualifier_trigger_unmet"
  ELSE IF c.tier = "atOrAbove" THEN "entitlement_gate_unmet"
  ELSE IF ~c.planned           THEN "plan_target_mismatch"
  ELSE IF ~c.segmented         THEN "segment_target_mismatch"
  ELSE GateRefusal(c, slot, person, FALSE)

Named(playbook, slot) == {i \in DOMAIN playbook : playbook[i].rule = slot.name}

FirstOf(S) == CHOOSE i \in S : \A j \in S : i <= j

ServableByName(playbook, slot, person, hidden) ==
  {i \in Named(playbook, slot) : Refusal(playbook, slot, person, hidden, i) = "none"}

\* The first servable payload in authored order, else the first's refusal.
ResolveName(playbook, slot, person, hidden) ==
  LET named    == Named(playbook, slot)
      servable == ServableByName(playbook, slot, person, hidden)
  IN
  IF named = {} THEN Refused("placement_not_found")
  ELSE IF servable # {} THEN Served(FirstOf(servable))
  ELSE Refused(Refusal(playbook, slot, person, hidden, FirstOf(named)))

Resolve(playbook, slot, person, hidden) ==
  IF slot.templates = <<>> THEN ResolveName(playbook, slot, person, hidden)
  ELSE ResolveSlot(playbook, slot, person, hidden)

\* The candidates resolve asks the impression history about.
AskedAbout(playbook, slot, person, hidden) ==
  LET named    == Named(playbook, slot)
      servable == ServableByName(playbook, slot, person, hidden)
  IN
  IF slot.templates = <<>>
  THEN {i \in named : servable # {} => i <= FirstOf(servable)}
  ELSE ForSlot(playbook, slot, person,
               ForEntitlement(playbook, slot, ForTemplates(playbook, slot)))

=============================================================================
