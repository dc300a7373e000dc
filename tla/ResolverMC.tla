----------------------------- MODULE ResolverMC -----------------------------
(* Playbooks, slots and users for TLC, a handful of each around one hazard. *)
EXTENDS ResolverDecisions

Candidate(rule, category, order, payload) ==
  [template |-> "banner", rule |-> rule, category |-> category, order |-> order,
   payload |-> payload, handle |-> "none", slot |-> "none", trial |-> NoTrial,
   usage |-> NoUsage, tier |-> "none", known |-> TRUE, qualified |-> TRUE,
   planned |-> TRUE, segmented |-> TRUE]

Usage(c, kind, percent) ==
  [c EXCEPT !.handle = "seats", !.usage = [kind |-> kind, percent |-> percent]]
Trial(c, kind, at) == [c EXCEPT !.trial = [kind |-> kind, at |-> at]]

Request(templates, category) ==
  [templates |-> templates, name |-> "none", id |-> "none", handle |-> "none",
   category |-> category, status |-> "none", fixedOnly |-> FALSE]

\* What is left of the seats is less than what is not used of them.
Usable(percent, status) ==
  LET credit == IF percent = None THEN None ELSE percent + 10 IN
  [active |-> FALSE, state |-> "none", elapsed |-> None, daysLeft |-> None,
   consumed |-> [none             |-> [none |-> None, seats |-> percent],
                 usage_threshold  |-> [none |-> None, seats |-> percent],
                 credit_threshold |-> [none |-> None, seats |-> credit]],
   status |-> [seats |-> status]]
OnTrial(elapsed, daysLeft) ==
  [Usable(80, "allowed") EXCEPT !.active = TRUE, !.state = "active",
                                !.elapsed = elapsed, !.daysLeft = daysLeft]

\* Ranking: usage alerts and trial notices of one tier, nudges of the next,
\* fixed content and access gates, some of them with the same drag order.
RankPool ==
  LET alert  == Candidate("alert", "usage_credit_seat", 1, 0)
      trials == Candidate("trial", "trials", 1, 0)
  IN {Usage(alert, "usage_threshold", 50),
      [Usage(alert, "usage_threshold", 80) EXCEPT !.rule = "higher", !.order = 2],
      [Usage(alert, "credit_threshold", 90) EXCEPT !.rule = "credit", !.order = 0],
      Trial(trials, "started", 0),
      Trial([trials EXCEPT !.rule = "ending", !.order = 0], "ending", 3),
      Trial([trials EXCEPT !.rule = "half", !.order = 2], "progress", 50),
      Trial([trials EXCEPT !.rule = "late", !.order = 3], "progress", 75),
      [Candidate("nudge", "other_conversion", 0, 0) EXCEPT !.segmented = FALSE],
      Candidate("nudge", "other_conversion", 0, 1),
      [Candidate("back", "retention", 0, 0) EXCEPT !.template = "modal"],
      Candidate("news", "fixed", 9, 0),
      [Candidate("gate", "gated", 1, 0) EXCEPT !.handle = "seats"]}
RankSlots ==
  {Request(<<"banner">>, "none"), Request(<<"modal", "banner">>, "triggered"),
   Request(<<"banner">>, "gated"), [Request(<<"banner">>, "fixed") EXCEPT !.fixedOnly = TRUE]}
RankPeople ==
  {Usable(None, "denied"), Usable(80, "allowed"), Usable(100, "limited"),
   OnTrial(0, 9), OnTrial(60, 2), OnTrial(80, 2)}

\* Lookups by name: payloads of one entry that fail different checks.
NamePool ==
  LET gate == [Candidate("gate", "gated", 0, 0) EXCEPT !.handle = "seats"]
      note == Candidate("note", "other_conversion", 0, 0)
  IN {gate, [gate EXCEPT !.payload = 1, !.tier = "below"],
      [gate EXCEPT !.payload = 2, !.tier = "atOrAbove"],
      note, [note EXCEPT !.payload = 1, !.known = FALSE],
      [note EXCEPT !.payload = 2, !.qualified = FALSE],
      [note EXCEPT !.payload = 3, !.planned = FALSE],
      [note EXCEPT !.payload = 4, !.segmented = FALSE],
      Usage([note EXCEPT !.payload = 5], "usage_threshold", 80),
      Trial([note EXCEPT !.payload = 6], "ended", 0)}
ByName(name, category, handle, status) ==
  [Request(<<>>, category) EXCEPT !.name = name, !.handle = handle, !.status = status]
NameSlots ==
  {ByName("gate", "none", "none", "none"), ByName("gate", "gated", "seats", "denied"),
   ByName("gate", "gated", "seats", "allowed"), ByName("gate", "fixed", "none", "none"),
   ByName("note", "none", "none", "none"), ByName("absent", "none", "none", "none"),
   [Request(<<"banner">>, "none") EXCEPT !.handle = "seats", !.id = "s"],
   Request(<<"toast">>, "none")}
NamePeople ==
  {Usable(50, "denied"), Usable(90, "allowed"),
   [Usable(90, "none") EXCEPT !.state = "expired"]}

\* Milestones, one of them meant for another segment.
MilestonePool ==
  LET trials == Candidate("trial", "trials", 1, 0)
  IN {Trial([trials EXCEPT !.rule = "half"], "progress", 50),
      Trial([trials EXCEPT !.rule = "late", !.order = 2], "progress", 75),
      Trial([trials EXCEPT !.rule = "other", !.order = 3, !.segmented = FALSE], "progress", 70),
      Candidate("nudge", "retention", 0, 0)}
MilestoneSlots == {Request(<<"banner">>, "none"), Request(<<"banner">>, "triggered")}
MilestonePeople == {OnTrial(e, 5) : e \in {10, 60, 80}}

Scenario(pool, size, slots, people) ==
  [pool |-> pool, size |-> size, slots |-> slots, people |-> people]
Ranked     == {Scenario(RankPool, 3, RankSlots, RankPeople),
               Scenario(NamePool, 3, NameSlots, NamePeople)}
Milestones == {Scenario(MilestonePool, 2, MilestoneSlots, MilestonePeople)}
=============================================================================
