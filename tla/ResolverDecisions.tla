-------------------------- MODULE ResolverDecisions --------------------------
(***************************************************************************)
(* Decisions of the static resolver over every Playbook of a few           *)
(* candidates, every slot and every user of small sets: a behaviour is one *)
(* request and its answer.                                                 *)
(***************************************************************************)
EXTENDS StaticResolver

CONSTANTS
  Scenarios     \* [pool, size, slots, people]: the candidates a Playbook may
                \* hold and how many of them, the requests, the provider states

ASSUME ScenariosFit ==
  \A s \in Scenarios :
    /\ \A slot \in s.slots : SlotFits(slot)
    /\ \A person \in s.people :
         /\ WellFormed(<<>>, person)
         /\ \A c \in s.pool : WellFormed(<<c>>, person)

VARIABLES
  playbook,     \* the indexed candidates
  slot,         \* the request's slot
  person,       \* the provider state it is decided in
  hidden,       \* candidates the impression history hides
  decision      \* the answer, once there is one

vars == <<playbook, slot, person, hidden, decision>>

Undecided == [candidate |-> 0, reason |-> "undecided"]

\* Authored order is any order, and no payload is authored twice.
Playbooks(pool, size) ==
  {p \in UNION {[1 .. n -> pool] : n \in 0 .. size} :
     \A i, j \in DOMAIN p : i # j => p[i] # p[j]}

Init ==
  /\ \E s \in Scenarios :
       /\ playbook \in Playbooks(s.pool, s.size)
       /\ slot \in s.slots
       /\ person \in s.people
  /\ \E entries \in SUBSET {playbook[i].rule : i \in DOMAIN playbook} :
       hidden = {i \in DOMAIN playbook : playbook[i].rule \in entries}
  /\ decision = Undecided

Decide ==
  /\ decision = Undecided
  /\ decision' = Resolve(playbook, slot, person, hidden)
  /\ UNCHANGED <<playbook, slot, person, hidden>>

Next == Decide

Spec == Init /\ [][Next]_vars

----------------------------------------------------------------------------
(* Properties                                                              *)

Decided    == decision # Undecided
HasWinner  == Decided /\ decision.candidate # 0
Winner     == playbook[decision.candidate]
BySlot     == slot.templates # <<>>

\* A candidate this user could be shown in this slot, judged by itself: nothing
\* about the other candidates of the Playbook enters.
Showable(i) ==
  LET c == playbook[i] IN
  /\ \E n \in DOMAIN slot.templates : slot.templates[n] = c.template
  /\ slot.handle \in {"none", c.handle}
  /\ i \notin hidden
  /\ Open(c, person)
  /\ Targeted(c)
  /\ GateRefusal(c, slot, person, TRUE) = "none"
  /\ slot.fixedOnly => c.category = "fixed"
  /\ slot.category = "triggered" => Bucket(c.category) \in {2, 4}

AllShowable == {i \in DOMAIN playbook : Showable(i)}

\* The slot asks for nothing a candidate can only be preferred for.
NoHints == slot.id = "none" /\ slot.category # "gated"

IsMilestone(i) == playbook[i].trial.kind = "progress"

\* Milestones are aimed at this user, so that only showable ones supersede.
MilestonesTargeted ==
  \A i \in DOMAIN playbook : IsMilestone(i) => Targeted(playbook[i])

\* Without hints, a slot stays empty only if no candidate could be shown in it:
\* no chain of filters and supersessions loses the last showable one.
EmptyOnlyIfNothingShowable ==
  Decided /\ BySlot /\ NoHints /\ MilestonesTargeted /\ ~HasWinner =>
    AllShowable = {}

\* A higher usage milestone of the same line fired too.
Outdone(i) ==
  \E j \in AllShowable : /\ SameMilestoneLine(playbook[i], playbook[j])
                        /\ playbook[j].usage.percent > playbook[i].usage.percent

\* A more urgent category is never passed over: no showable candidate that its
\* own milestone line does not supersede belongs to an earlier tier.
CategoryComesFirst ==
  HasWinner /\ BySlot /\ NoHints =>
    \A i \in AllShowable :
      Bucket(playbook[i].category) < Bucket(Winner.category) => IsMilestone(i) \/ Outdone(i)

\* Of the usage milestones that fired for one entitlement and kind, a lower one
\* never stands in front of a higher one the user could be shown.
HighestUsageMilestone ==
  HasWinner /\ BySlot /\ NoHints =>
    \A i \in AllShowable :
      SameMilestoneLine(Winner, playbook[i]) /\ ~IsMilestone(i) =>
        playbook[i].usage.percent <= Winner.usage.percent

\* What a slot shows is the most urgent of what could be shown, in both respects.
MostUrgentShown == CategoryComesFirst /\ HighestUsageMilestone

\* Fetching by name is no way around a check of the slot path: what it serves,
\* a slot of its own category with its template would take too.
NameIsNoBackDoor ==
  HasWinner /\ ~BySlot =>
    LET c    == Winner
        gate == slot.handle = c.handle
        home == [templates |-> <<c.template>>, name |-> "none", id |-> "none",
                 handle |-> IF gate THEN slot.handle ELSE "none",
                 category |-> IF c.category = "gated" THEN "gated" ELSE "none",
                 status |-> IF gate THEN slot.status ELSE "none",
                 fixedOnly |-> FALSE]
    IN /\ decision.candidate \notin hidden
       /\ Resolve(<<c>>, home, person, {}) = Served(1)

\* Drag order and payload place decide within a category, as authored, and among
\* milestones of any category.
DistinctPlaces ==
  \A i, j \in DOMAIN playbook :
    LET c == playbook[i]
        d == playbook[j]
        together == \/ /\ Bucket(c.category) = Bucket(d.category)
                       /\ SharedRank(c.category) = SharedRank(d.category)
                    \/ IsMilestone(i) /\ IsMilestone(j)
    IN i # j /\ together => <<c.order, c.payload>> # <<d.order, d.payload>>

Reorderings ==
  {r \in [DOMAIN playbook -> DOMAIN playbook] :
     \A i, j \in DOMAIN playbook : r[i] = r[j] => i = j}

\* The row order of the Playbook never decides: any reordering of its rows
\* shows the same candidate.
RowOrderIsIrrelevant ==
  HasWinner /\ BySlot /\ DistinctPlaces =>
    \A r \in Reorderings :
      LET rows  == [i \in DOMAIN playbook |-> playbook[r[i]]]
          again == Resolve(rows, slot, person, {i \in DOMAIN playbook : r[i] \in hidden})
      IN again.candidate # 0 /\ rows[again.candidate] = Winner

\* "Fires once the user passes a progress milestone."
MilestoneWaits ==
  HasWinner /\ Winner.trial.kind = "progress" =>
    ElapsedPercent(person) >= Winner.trial.at

=============================================================================
