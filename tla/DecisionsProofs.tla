--------------------------- MODULE DecisionsProofs ---------------------------
(***************************************************************************)
(* Proofs about ResolverDecisions, for Playbooks of any candidates, length  *)
(* and row order, any slot and any user, and about EntitlementDecisions,    *)
(* for any rules, holdings, plan and app.                                   *)
(***************************************************************************)
EXTENDS ResolverDecisions, EntitlementDecisions, StaticResolverProofs, FiniteSetTheorems

----------------------------------------------------------------------------
(* The requests of a behaviour                                             *)

\* Request and Playbook have the shape assumed of the scenarios, and the answer
\* given is the one of resolve.
Answered ==
  /\ WellFormed(playbook, person)
  /\ SlotFits(slot)
  /\ Decided => decision = Resolve(playbook, slot, person, hidden)

LEMMA AnsweredInit == Init => Answered
<1> SUFFICES ASSUME Init PROVE Answered
  OBVIOUS
<1>1. PICK s \in Scenarios : /\ playbook \in Playbooks(s.pool, s.size)
                             /\ slot \in s.slots
                             /\ person \in s.people
  BY DEF Init
<1>2. PICK n \in 0 .. s.size : playbook \in [1 .. n -> s.pool]
  BY <1>1 DEF Playbooks
<1>3. playbook \in Seq(s.pool) /\ Len(playbook) \in Nat /\ DOMAIN playbook = 1 .. Len(playbook)
  BY <1>2
<1>4. SlotFits(slot) /\ WellFormed(<<>>, person) /\ \A c \in s.pool : WellFormed(<<c>>, person)
  BY <1>1, ScenariosFit
<1>5. person.elapsed \in Int
  BY <1>4 DEF WellFormed
<1>6. ASSUME NEW i \in DOMAIN playbook
      PROVE  /\ playbook[i].order \in Int
             /\ playbook[i].payload \in Int
             /\ playbook[i].trial.at \in Int
             /\ playbook[i].usage.percent \in Int
             /\ person.consumed[playbook[i].usage.kind][playbook[i].handle] \in Int
  <2> DEFINE c == playbook[i]
  <2>1. c \in s.pool
    BY <1>3
  <2>2. WellFormed(<<c>>, person)
    BY <1>4, <2>1
  <2>3. 1 \in DOMAIN <<c>> /\ <<c>>[1] = c
    OBVIOUS
  <2> QED  BY <2>2, <2>3 DEF WellFormed
<1>7. WellFormed(playbook, person)
  BY <1>3, <1>5, <1>6 DEF WellFormed, IsList
<1>8. ~ Decided
  BY DEF Init, Decided
<1> QED  BY <1>4, <1>7, <1>8 DEF Answered

LEMMA AnsweredStep == Answered /\ [Next]_vars => Answered'
<1> SUFFICES ASSUME Answered, [Next]_vars PROVE Answered'
  OBVIOUS
<1>1. UNCHANGED <<playbook, slot, person, hidden>>
  BY DEF Next, Decide, vars
<1>2. Decided' => decision' = Resolve(playbook, slot, person, hidden)
  BY DEF Next, Decide, vars, Answered, Decided
<1> QED  BY <1>1, <1>2 DEF Answered, Decided

LEMMA AlwaysAnswered == Spec => []Answered
  BY AnsweredInit, AnsweredStep, PTL DEF Spec

----------------------------------------------------------------------------
(* What a slot without hints considers                                     *)

\* Every showable candidate gets as far as the supersession of milestones.
LEMMA ShowableIsOpened ==
  ASSUME BySlot, NoHints, NEW i \in AllShowable
  PROVE  /\ i \in Opened(playbook, slot, person, hidden)
         /\ Targeted(playbook[i])
<1>1. /\ i \in DOMAIN playbook
      /\ \E n \in DOMAIN slot.templates : slot.templates[n] = playbook[i].template
      /\ slot.handle \in {"none", playbook[i].handle}
      /\ i \notin hidden
      /\ Open(playbook[i], person)
      /\ Targeted(playbook[i])
      /\ GateRefusal(playbook[i], slot, person, TRUE) = "none"
      /\ slot.fixedOnly => playbook[i].category = "fixed"
      /\ slot.category = "triggered" => Bucket(playbook[i].category) \in {2, 4}
  BY DEF AllShowable, Showable
<1>2. i \in ForEntitlement(playbook, slot, ForTemplates(playbook, slot))
  BY <1>1 DEF ForEntitlement, ForTemplates
<1>3. i \in Taken(playbook, slot, person)
  BY <1>1, <1>2 DEF Taken, ForSlot, NoHints
<1> QED  BY <1>1, <1>3 DEF Opened

\* And only those do.
LEMMA OpenedIsShowable ==
  ASSUME NEW i \in Opened(playbook, slot, person, hidden), Targeted(playbook[i])
  PROVE  i \in AllShowable
<1>1. i \in Taken(playbook, slot, person) /\ i \notin hidden /\ Open(playbook[i], person)
  BY DEF Opened
<1>2. /\ i \in DOMAIN playbook
      /\ \E n \in DOMAIN slot.templates : slot.templates[n] = playbook[i].template
      /\ slot.handle # "none" => playbook[i].handle = slot.handle
      /\ GateRefusal(playbook[i], slot, person, TRUE) = "none"
      /\ slot.fixedOnly => playbook[i].category = "fixed"
      /\ slot.category = "triggered" => Bucket(playbook[i].category) \in {2, 4}
  BY <1>1, TakenFrom, Zenon
<1> QED  BY <1>1, <1>2 DEF AllShowable, Showable

\* Only a milestone can be superseded by one.
LEMMA NoMilestoneStands ==
  ASSUME NEW i \in Opened(playbook, slot, person, hidden), ~ IsMilestone(i)
  PROVE  i \in Standing(playbook, slot, person, hidden)
  BY DEF Standing, TrialSuperseded, IsMilestone

\* Of what is numbered, as candidates and rules are, some has the highest value, and
\* one of those comes first.
LEMMA BestExists ==
  ASSUME NEW size \in Nat, NEW S \in SUBSET (0 .. size), S # {},
         NEW f, \A i \in S : f[i] \in Int
  PROVE  \E i \in S : \A j \in S : f[j] <= f[i] /\ (f[j] = f[i] => i <= j)
<1> DEFINE T == {i + 1 : i \in S}
           key == [n \in T |-> <<-f[n - 1], n>>]
<1>1. /\ T \in SUBSET (1 .. size + 1) /\ T # {} /\ size + 1 \in Nat
      /\ \A n \in T : n - 1 \in S /\ n \in Int
      /\ \A i \in S : i + 1 \in T /\ (i + 1) - 1 = i /\ i \in Int
  <2>1. \A i \in S : i \in Int /\ (i + 1) - 1 = i /\ i + 1 \in 1 .. size + 1 /\ i + 1 \in T
    OBVIOUS
  <2>2. \A n \in T : \E i \in S : n = i + 1
    OBVIOUS
  <2> HIDE DEF T
  <2>3. T \in SUBSET (1 .. size + 1) /\ T # {} /\ size + 1 \in Nat
    <3>1. T \subseteq 1 .. size + 1
      BY <2>1, <2>2
    <3>2. PICK i : i \in S
      OBVIOUS
    <3>3. i + 1 \in T
      BY <2>1, <3>2
    <3> QED  BY <3>1, <3>3
  <2>4. ASSUME NEW n \in T PROVE n - 1 \in S /\ n \in Int
    BY <2>1, <2>2
  <2> QED  BY <2>1, <2>3, <2>4
<1>2. \A n \in T : /\ key[n] \in Keys(2)
                   /\ key[n][1] = -f[n - 1] /\ key[n][2] = n
  BY <1>1 DEF Keys
<1>3. \A m, n \in T : m # n => key[m] # key[n]
  BY <1>2
<1> HIDE DEF key, T
<1>4. PICK n \in T : \A m \in T \ {n} : Before(key[n], key[m])
  BY <1>1, <1>2, <1>3, FirstExists
<1>5. ASSUME NEW j \in S
      PROVE  f[j] <= f[n - 1] /\ (f[j] = f[n - 1] => n - 1 <= j)
  <2>1. CASE j + 1 = n
    BY <1>1, <2>1
  <2>2. CASE j + 1 # n
    <3>1. j + 1 \in T /\ (j + 1) - 1 = j /\ Before(key[n], key[j + 1])
      BY <1>1, <1>4, <2>2
    <3>2. \A k \in Keys(2) : DOMAIN k = 1 .. 2
      BY DEF Keys
    <3>3. PICK p \in 1 .. 2 : /\ key[n][p] < key[j + 1][p]
                              /\ \A m \in 1 .. p - 1 : key[n][m] = key[j + 1][m]
      BY <1>2, <3>1, <3>2 DEF Before
    <3>4. /\ key[n][1] = -f[n - 1] /\ key[j + 1][1] = -f[j]
          /\ key[n][2] = n /\ key[j + 1][2] = j + 1
          /\ f[j] \in Int /\ f[n - 1] \in Int /\ j \in Int /\ n \in Int
      BY <1>1, <1>2, <3>1
    <3>5. CASE p = 1
      BY <3>3, <3>4, <3>5
    <3>6. CASE p = 2
      <4>1. key[n][1] = key[j + 1][1]
        BY <3>3, <3>6
      <4> QED  BY <3>3, <3>4, <3>6, <4>1
    <3> QED  BY <3>5, <3>6
  <2> QED  BY <2>1, <2>2
<1> QED  BY <1>1, <1>5

\* Among candidates numbered as a Playbook numbers them, some percentage is highest.
LEMMA HighestExists ==
  ASSUME NEW size \in Nat, NEW S \in SUBSET (1 .. size), S # {},
         NEW f, \A i \in S : f[i] \in Int
  PROVE  \E i \in S : \A j \in S : f[j] <= f[i]
<1>1. S \in SUBSET (0 .. size)
  OBVIOUS
<1>2. \E i \in S : \A j \in S : f[j] <= f[i] /\ (f[j] = f[i] => i <= j)
  BY <1>1, BestExists
<1> QED  BY <1>2

\* The highest of what is eligible outlives the supersession of usage milestones.
LEMMA SomeoneIsRanked ==
  ASSUME Answered, Eligible(playbook, slot, person, hidden) # {}
  PROVE  Ranked(playbook, slot, person, hidden) # {}
<1> DEFINE E == Eligible(playbook, slot, person, hidden)
           f == [i \in E |-> playbook[i].usage.percent]
<1>1. E \subseteq DOMAIN playbook
  <2>1. ASSUME NEW i \in E PROVE i \in DOMAIN playbook
    <3>1. i \in Standing(playbook, slot, person, hidden)
      BY DEF Eligible
    <3>2. i \in Taken(playbook, slot, person)
      BY <3>1 DEF Standing, TrialSuperseded, Opened
    <3> QED  BY <3>2, TakenFrom
  <2> QED  BY <2>1
<1>2. PICK size \in Nat : E \in SUBSET (1 .. size)
  BY <1>1 DEF Answered, WellFormed, IsList
<1>3. \A i \in E : f[i] \in Int /\ f[i] = playbook[i].usage.percent
  BY <1>1 DEF Answered, WellFormed
<1> HIDE DEF E, f
<1>4. PICK i \in E : \A j \in E : f[j] <= f[i]
  BY <1>2, <1>3, HighestExists DEF E
<1> QED  BY <1>3, <1>4 DEF Ranked, UsageSuperseded, E

LEMMA OpenedIsGathered ==
  ASSUME Answered, NEW i \in Opened(playbook, slot, person, hidden)
  PROVE  Gathered(playbook, slot, i)
<1>1. i \in Taken(playbook, slot, person)
  BY DEF Opened
<1>2. /\ i \in DOMAIN playbook
      /\ \E n \in DOMAIN slot.templates : slot.templates[n] = playbook[i].template
      /\ slot.handle # "none" => playbook[i].handle = slot.handle
      /\ GateRefusal(playbook[i], slot, person, TRUE) = "none"
      /\ slot.fixedOnly => playbook[i].category = "fixed"
      /\ slot.category = "triggered" => Bucket(playbook[i].category) \in {2, 4}
  BY <1>1, TakenFrom, Zenon
<1> QED  BY <1>2 DEF Gathered, Answered

----------------------------------------------------------------------------
(* What a slot shows                                                       *)

LEMMA WinnerIsRanked ==
  ASSUME Answered, Decided, BySlot
  PROVE  LET R == Ranked(playbook, slot, person, hidden)
         IN /\ HasWinner <=> R # {}
            /\ HasWinner =>
                 /\ decision.candidate \in R
                 /\ \A j \in R \ {decision.candidate} :
                      Before(RankKey(playbook, slot, person, decision.candidate),
                             RankKey(playbook, slot, person, j))
<1>1. decision = ResolveSlot(playbook, slot, person, hidden)
  BY DEF Answered, Resolve, BySlot
<1> QED  BY <1>1, SlotIsServed DEF Answered, HasWinner

\* No chain of filters and supersessions empties a slot some candidate could fill.
THEOREM SlotsAreFilled == Spec => []EmptyOnlyIfNothingShowable
<1>1. ASSUME Answered PROVE EmptyOnlyIfNothingShowable
  <2> SUFFICES ASSUME Decided, BySlot, NoHints, MilestonesTargeted, NEW i \in AllShowable
               PROVE  HasWinner
    BY DEF EmptyOnlyIfNothingShowable
  <2> DEFINE O == Opened(playbook, slot, person, hidden)
             crossed == Crossed(playbook, O, ElapsedPercent(person))
  <2>1. i \in O /\ Targeted(playbook[i])
    BY ShowableIsOpened
  <2>2. Eligible(playbook, slot, person, hidden) # {}
    <3>1. CASE i \in Standing(playbook, slot, person, hidden)
      BY <2>1, <3>1 DEF Eligible
    <3>2. CASE i \notin Standing(playbook, slot, person, hidden)
      <4>1. crossed # {} /\ crossed \subseteq O
        BY <2>1, <3>2 DEF Standing, TrialSuperseded, Crossed
      <4>2. \A j \in crossed : Gathered(playbook, slot, j)
        BY <1>1, <4>1, OpenedIsGathered
      <4> DEFINE w == MilestoneWinner(playbook, slot, crossed)
      <4>3. w \in crossed
        <5> HIDE DEF crossed
        <5> QED BY <1>1, <4>1, <4>2, MilestoneFirst DEF Answered
      <4>4. w \in Standing(playbook, slot, person, hidden)
        BY <4>1, <4>3 DEF Standing, TrialSuperseded
      <4>5. Targeted(playbook[w])
        <5>1. IsMilestone(w) /\ w \in DOMAIN playbook
          BY <4>2, <4>3 DEF Crossed, IsMilestone, Gathered
        <5> QED BY <5>1 DEF MilestonesTargeted
      <4> QED  BY <4>4, <4>5 DEF Eligible
    <3> QED  BY <3>1, <3>2
  <2> QED  BY <1>1, <2>2, SomeoneIsRanked, WinnerIsRanked
<1> QED  BY <1>1, AlwaysAnswered, PTL

\* The first in rank is of the earliest tier of those ranked.
LEMMA FirstTier ==
  ASSUME Answered, NEW i, NEW j, Gathered(playbook, slot, i), Gathered(playbook, slot, j),
         Before(RankKey(playbook, slot, person, i), RankKey(playbook, slot, person, j))
  PROVE  Bucket(playbook[i].category) <= Bucket(playbook[j].category)
<1> DEFINE a == RankKey(playbook, slot, person, i)
           b == RankKey(playbook, slot, person, j)
<1>1. a \in Keys(10) /\ b \in Keys(10)
  BY RankKeyIsKey DEF Answered
<1>2. a[1] = Bucket(playbook[i].category) /\ b[1] = Bucket(playbook[j].category)
  <2>1. /\ a[1] = RowKey(playbook[i], slot, person)[1]
        /\ b[1] = RowKey(playbook[j], slot, person)[1]
    <3>1. 1 \in 1 .. 9
      OBVIOUS
    <3> HIDE DEF a, b
    <3> QED  BY <3>1, RankKeyFront DEF Answered, a, b
  <2> QED  BY <2>1 DEF RowKey
<1> HIDE DEF a, b
<1>3. PICK n \in 1 .. 10 : a[n] < b[n] /\ \A m \in 1 .. n - 1 : a[m] = b[m]
  <2>1. Before(a, b) /\ DOMAIN a = 1 .. 10
    BY <1>1 DEF a, b, Keys
  <2> QED  BY <2>1 DEF Before
<1>4. a[1] <= b[1]
  <2>1. a[1] \in Int /\ b[1] \in Int
    BY <1>1 DEF Keys
  <2>2. CASE n = 1
    BY <1>3, <2>1, <2>2
  <2>3. CASE n # 1
    <3>1. 1 \in 1 .. n - 1
      BY <2>3
    <3> QED  BY <1>3, <2>1, <3>1
  <2> QED  BY <2>2, <2>3
<1> QED  BY <1>2, <1>4

\* What a slot shows is the most urgent of what it could show.
THEOREM MostUrgentIsShown == Spec => []MostUrgentShown
<1>1. ASSUME Answered PROVE MostUrgentShown
  <2> SUFFICES ASSUME HasWinner, BySlot, NoHints, NEW i \in AllShowable
               PROVE  /\ Bucket(playbook[i].category) < Bucket(Winner.category)
                           => IsMilestone(i) \/ Outdone(i)
                      /\ SameMilestoneLine(Winner, playbook[i]) /\ ~IsMilestone(i)
                           => playbook[i].usage.percent <= Winner.usage.percent
    BY DEF MostUrgentShown, CategoryComesFirst, HighestUsageMilestone
  <2> DEFINE R == Ranked(playbook, slot, person, hidden)
             E == Eligible(playbook, slot, person, hidden)
             w == decision.candidate
  <2>0. i \in Opened(playbook, slot, person, hidden) /\ Targeted(playbook[i])
    BY ShowableIsOpened
  <2>1. ~IsMilestone(i) => i \in E
    BY <2>0, NoMilestoneStands DEF Eligible
  <2>2. w \in R /\ \A j \in R \ {w} :
          Before(RankKey(playbook, slot, person, w), RankKey(playbook, slot, person, j))
    BY <1>1, WinnerIsRanked DEF HasWinner
  <2>3. \A j \in E : j \in Opened(playbook, slot, person, hidden) /\ Targeted(playbook[j])
    BY DEF Eligible, Standing, TrialSuperseded
  <2>4. \A j \in R : j \in E
    BY DEF Ranked, UsageSuperseded
  <2>5. \A j \in E : Gathered(playbook, slot, j)
    BY <1>1, <2>3, OpenedIsGathered
  <2>6. \A j \in E : playbook[j].usage.percent \in Int
    BY <1>1, <2>5 DEF Answered, WellFormed, Gathered
  <2>7. ASSUME SameMilestoneLine(Winner, playbook[i]), ~IsMilestone(i)
        PROVE  playbook[i].usage.percent <= Winner.usage.percent
    BY <2>1, <2>2, <2>7 DEF Ranked, UsageSuperseded, Winner
  <2>8. ASSUME Bucket(playbook[i].category) < Bucket(Winner.category), ~IsMilestone(i)
        PROVE  Outdone(i)
    <3>1. i \notin R
      <4> SUFFICES ASSUME i \in R PROVE FALSE
        OBVIOUS
      <4>1. i # w
        BY <2>8, BucketIsNumber DEF Winner
      <4>2. Bucket(playbook[w].category) <= Bucket(playbook[i].category)
        BY <1>1, <2>2, <2>4, <2>5, <4>1, FirstTier
      <4> QED  BY <2>8, <4>2, BucketIsNumber DEF Winner
    <3>2. PICK j \in E : /\ SameMilestoneLine(playbook[i], playbook[j])
                         /\ ~ (playbook[j].usage.percent <= playbook[i].usage.percent)
      BY <2>1, <2>8, <3>1 DEF Ranked, UsageSuperseded
    <3>3. playbook[j].usage.percent > playbook[i].usage.percent
      BY <2>1, <2>6, <2>8, <3>2
    <3>4. j \in AllShowable
      BY <2>3, OpenedIsShowable
    <3> QED  BY <3>2, <3>3, <3>4 DEF Outdone
  <2> QED  BY <2>7, <2>8
<1> QED  BY <1>1, AlwaysAnswered, PTL

----------------------------------------------------------------------------
(* A lookup by name                                                        *)

\* What a lookup by name serves, a slot of its own category would take alone.
THEOREM NamesAreNoBackDoor == Spec => []NameIsNoBackDoor
<1>1. ASSUME Answered PROVE NameIsNoBackDoor
  <2> SUFFICES ASSUME HasWinner, ~ BySlot PROVE NameIsNoBackDoor
    BY DEF NameIsNoBackDoor
  <2> DEFINE w    == decision.candidate
             c    == Winner
             gate == slot.handle = c.handle
             home == [templates |-> <<c.template>>, name |-> "none", id |-> "none",
                      handle |-> IF gate THEN slot.handle ELSE "none",
                      category |-> IF c.category = "gated" THEN "gated" ELSE "none",
                      status |-> IF gate THEN slot.status ELSE "none",
                      fixedOnly |-> FALSE]
  <2>1. decision = ResolveName(playbook, slot, person, hidden)
    BY <1>1 DEF Answered, HasWinner, Resolve, BySlot
  <2>2. w \in ServableByName(playbook, slot, person, hidden)
    BY <1>1, <2>1, NameIsServed DEF Answered, HasWinner
  <2>3. Refusal(playbook, slot, person, hidden, w) = "none" /\ c = playbook[w]
    BY <2>2 DEF ServableByName, Winner
  <2> HIDE DEF c, w
  <2>4. /\ w \notin hidden /\ Open(c, person) /\ Targeted(c)
        /\ GateRefusal(c, slot, person, FALSE) = "none"
    BY <2>3 DEF Refusal, Open, Targeted
  <2>5. GateRefusal(c, home, person, TRUE) = "none"
    BY <2>4 DEF GateRefusal, GateStatus, Bucket
  <2> DEFINE one == <<c>>
  <2>6. /\ DOMAIN one = {1} /\ one[1] = c
        /\ DOMAIN home.templates = {1} /\ home.templates[1] = c.template
        /\ home.templates # <<>>
    OBVIOUS
  <2>7. /\ home.handle \in {"none", c.handle} /\ home.id = "none" /\ ~ home.fixedOnly
        /\ home.category # "triggered"
        /\ home.category = "gated" => c.category = "gated"
    OBVIOUS
  <2> HIDE DEF home, one
  <2>8. ForTemplates(one, home) = {1} /\ ForEntitlement(one, home, {1}) = {1}
    BY <2>6, <2>7 DEF ForTemplates, ForEntitlement
  <2>9. ForSlot(one, home, person, {1}) = {1}
    BY <2>5, <2>6, <2>7 DEF ForSlot, Narrow
  <2>10. {i \in {1} \ {} : Open(one[i], person)} = {1} /\ {i \in {1} : Targeted(one[i])} = {1}
    BY <2>4, <2>6
  <2>11. TrialSuperseded(one, home, person, {1}) = {1}
    BY FS_Singleton DEF TrialSuperseded
  <2>12. UsageSuperseded(one, {1}) = {1}
    <3>1. c.usage.percent \in Int
      BY <1>1, <2>2, <2>3 DEF Answered, WellFormed, ServableByName, Named
    <3> QED  BY <2>6, <3>1 DEF UsageSuperseded
  <2> DEFINE Key(i) == RankKey(one, home, person, i)
  <2>13. FirstBy(Key, {1}) = 1
    BY DEF FirstBy
  <2>14. Resolve(one, home, person, {}) = Served(1)
    BY <2>6, <2>8, <2>9, <2>10, <2>11, <2>12, <2>13 DEF Resolve, ResolveSlot
  <2> QED  BY <2>4, <2>14 DEF NameIsNoBackDoor, home, one, c, w
<1> QED  BY <1>1, AlwaysAnswered, PTL

----------------------------------------------------------------------------
(* The order of the rows                                                   *)

\* Rows are the Playbook's, each under one other number; the same are hidden.
Reordered(r, rows, gone) ==
  /\ r \in Reorderings
  /\ rows = [i \in DOMAIN playbook |-> playbook[r[i]]]
  /\ gone = {i \in DOMAIN playbook : r[i] \in hidden}

\* The rows of a set of candidates.
RowsOf(r, S) == {i \in DOMAIN playbook : r[i] \in S}

\* No number is left out.
LEMMA EveryRowIsKept ==
  ASSUME Answered, NEW r \in Reorderings, NEW x \in DOMAIN playbook
  PROVE  \E i \in DOMAIN playbook : r[i] = x
<1> DEFINE D == DOMAIN playbook
<1>1. IsFiniteSet(D)
  <2>1. PICK n \in Nat : D = 1 .. n
    BY DEF Answered, WellFormed, IsList
  <2> QED  BY <2>1, FS_Interval
<1>2. r \in [D -> D] /\ \A i, j \in D : r[i] = r[j] => i = j
  BY DEF Reorderings
<1> HIDE DEF D
<1>3. SUFFICES ASSUME \A i \in D : r[i] # x PROVE FALSE
  BY DEF D
<1>4. x \in D
  BY DEF D
<1>5. IsFiniteSet(D \ {x}) /\ Cardinality(D \ {x}) = Cardinality(D) - 1
  BY <1>1, <1>4, FS_RemoveElement
<1>6. Cardinality(D) \in Nat
  BY <1>1, FS_CardinalityType
<1>7. r \in [D -> D \ {x}]
  BY <1>2, <1>3
<1>8. Cardinality(D \ {x}) < Cardinality(D)
  BY <1>5, <1>6
<1>9. \E i, j \in D : i # j /\ r[i] = r[j]
  BY <1>1, <1>5, <1>7, <1>8, FS_PigeonHole
<1> QED  BY <1>2, <1>9

\* So a set of candidates and its rows are empty together.
LEMMA NoRows ==
  ASSUME Answered, NEW r \in Reorderings, NEW S \in SUBSET DOMAIN playbook
  PROVE  RowsOf(r, S) = {} <=> S = {}
  BY EveryRowIsKept DEF RowsOf

\* The reordered Playbook is one too.
LEMMA RowsAreWellFormed ==
  ASSUME Answered, NEW r, NEW rows, NEW gone, Reordered(r, rows, gone)
  PROVE  WellFormed(rows, person)
<1>1. PICK n \in Nat : DOMAIN playbook = 1 .. n
  BY DEF Answered, WellFormed, IsList
<1>2. DOMAIN rows = 1 .. n /\ \A i \in 1 .. n : rows[i] = playbook[r[i]] /\ r[i] \in 1 .. n
  BY <1>1 DEF Reordered, Reorderings
<1>3. IsList(rows)
  <2> DEFINE X == {playbook[i] : i \in 1 .. n}
  <2>1. rows \in [1 .. n -> X]
    BY <1>1, <1>2 DEF Reordered
  <2> HIDE DEF X
  <2>2. rows \in Seq(X) /\ Len(rows) = n
    BY <2>1
  <2> QED  BY <1>2, <2>2 DEF IsList
<1> QED  BY <1>1, <1>2, <1>3 DEF Answered, WellFormed

\* Each stage takes the rows of the candidates it takes.
LEMMA TakenRows ==
  ASSUME Answered, NEW r, NEW rows, NEW gone, Reordered(r, rows, gone)
  PROVE  Taken(rows, slot, person) = RowsOf(r, Taken(playbook, slot, person))
<1>1. /\ r \in Reorderings /\ DOMAIN rows = DOMAIN playbook
      /\ \A i \in DOMAIN playbook : rows[i] = playbook[r[i]] /\ r[i] \in DOMAIN playbook
  BY DEF Reordered, Reorderings
<1> DEFINE T == ForTemplates(playbook, slot)
           E == ForEntitlement(playbook, slot, T)
<1>2. ForTemplates(rows, slot) = RowsOf(r, T)
  BY <1>1 DEF ForTemplates, RowsOf
<1>3. T \subseteq DOMAIN playbook
  BY DEF ForTemplates
<1> HIDE DEF T
<1>4. ForEntitlement(rows, slot, RowsOf(r, T)) = RowsOf(r, E) /\ E \subseteq DOMAIN playbook
  BY <1>1, <1>3 DEF ForEntitlement, RowsOf
<1> HIDE DEF E
<1>5. ASSUME NEW S \in SUBSET DOMAIN playbook, NEW U \in SUBSET S
      PROVE  Narrow(RowsOf(r, S), RowsOf(r, U)) = RowsOf(r, Narrow(S, U))
  <2>1. S \cap U = U /\ RowsOf(r, S) \cap RowsOf(r, U) = RowsOf(r, U)
    BY DEF RowsOf
  <2>2. RowsOf(r, U) = {} <=> U = {}
    BY <1>1, NoRows
  <2> QED  BY <2>1, <2>2 DEF Narrow
<1> DEFINE hinted(S, P) == IF slot.id = "none" THEN S
                           ELSE Narrow(S, {i \in S : P[i].slot = slot.id})
           allowed(S, P) == {i \in S : GateRefusal(P[i], slot, person, TRUE) = "none"}
           fixed(S, P) == IF ~slot.fixedOnly THEN S
                          ELSE {i \in S : P[i].category = "fixed"}
           last(S, P) == CASE slot.category = "triggered" ->
                                {i \in S : Bucket(P[i].category) \in {2, 4}}
                           [] slot.category = "gated" ->
                                Narrow(S, {i \in S : P[i].category = "gated"})
                           [] OTHER -> S
<1>6. ASSUME NEW S \in SUBSET DOMAIN playbook
      PROVE  /\ hinted(RowsOf(r, S), rows) = RowsOf(r, hinted(S, playbook))
             /\ allowed(RowsOf(r, S), rows) = RowsOf(r, allowed(S, playbook))
             /\ fixed(RowsOf(r, S), rows) = RowsOf(r, fixed(S, playbook))
             /\ last(RowsOf(r, S), rows) = RowsOf(r, last(S, playbook))
  <2>1. {i \in RowsOf(r, S) : rows[i].slot = slot.id}
          = RowsOf(r, {i \in S : playbook[i].slot = slot.id})
    BY <1>1 DEF RowsOf
  <2>2. {i \in RowsOf(r, S) : rows[i].category = "gated"}
          = RowsOf(r, {i \in S : playbook[i].category = "gated"})
    BY <1>1 DEF RowsOf
  <2>3. Narrow(RowsOf(r, S), RowsOf(r, {i \in S : playbook[i].slot = slot.id}))
          = RowsOf(r, Narrow(S, {i \in S : playbook[i].slot = slot.id}))
    BY <1>5
  <2>4. Narrow(RowsOf(r, S), RowsOf(r, {i \in S : playbook[i].category = "gated"}))
          = RowsOf(r, Narrow(S, {i \in S : playbook[i].category = "gated"}))
    BY <1>5
  <2>5. hinted(RowsOf(r, S), rows) = RowsOf(r, hinted(S, playbook))
    BY <2>1, <2>3
  <2>6. allowed(RowsOf(r, S), rows) = RowsOf(r, allowed(S, playbook))
    BY <1>1 DEF RowsOf
  <2>7. fixed(RowsOf(r, S), rows) = RowsOf(r, fixed(S, playbook))
    BY <1>1 DEF RowsOf
  <2>8. {i \in RowsOf(r, S) : Bucket(rows[i].category) \in {2, 4}}
          = RowsOf(r, {i \in S : Bucket(playbook[i].category) \in {2, 4}})
    BY <1>1 DEF RowsOf
  <2>9. last(RowsOf(r, S), rows) = RowsOf(r, last(S, playbook))
    BY <2>2, <2>4, <2>8
  <2> QED  BY <2>5, <2>6, <2>7, <2>9
<1>7. ASSUME NEW S \in SUBSET DOMAIN playbook
      PROVE  /\ hinted(S, playbook) \in SUBSET DOMAIN playbook
             /\ allowed(S, playbook) \in SUBSET DOMAIN playbook
             /\ fixed(S, playbook) \in SUBSET DOMAIN playbook
  BY DEF Narrow
<1>8. ASSUME NEW S, NEW P
      PROVE  ForSlot(P, slot, person, S) = last(fixed(allowed(hinted(S, P), P), P), P)
  BY DEF ForSlot
<1> HIDE DEF hinted, allowed, fixed, last
<1>9. last(fixed(allowed(hinted(RowsOf(r, E), rows), rows), rows), rows)
        = RowsOf(r, last(fixed(allowed(hinted(E, playbook), playbook), playbook), playbook))
  <2> DEFINE H == hinted(E, playbook)
             A == allowed(H, playbook)
             F == fixed(A, playbook)
  <2>1. H \in SUBSET DOMAIN playbook /\ hinted(RowsOf(r, E), rows) = RowsOf(r, H)
    BY <1>4, <1>6, <1>7
  <2> HIDE DEF H
  <2>2. A \in SUBSET DOMAIN playbook /\ allowed(RowsOf(r, H), rows) = RowsOf(r, A)
    BY <2>1, <1>6, <1>7
  <2> HIDE DEF A
  <2>3. F \in SUBSET DOMAIN playbook /\ fixed(RowsOf(r, A), rows) = RowsOf(r, F)
    BY <2>2, <1>6, <1>7
  <2> HIDE DEF F
  <2>4. last(RowsOf(r, F), rows) = RowsOf(r, last(F, playbook))
    BY <2>3, <1>6
  <2> QED  BY <2>1, <2>2, <2>3, <2>4 DEF H, A, F
<1> QED  BY <1>2, <1>4, <1>8, <1>9 DEF Taken, T, E

LEMMA OpenedRows ==
  ASSUME Answered, NEW r, NEW rows, NEW gone, Reordered(r, rows, gone)
  PROVE  /\ Opened(rows, slot, person, gone) = RowsOf(r, Opened(playbook, slot, person, hidden))
         /\ Opened(playbook, slot, person, hidden) \subseteq DOMAIN playbook
<1>1. \A i \in DOMAIN playbook : rows[i] = playbook[r[i]] /\ (i \in gone <=> r[i] \in hidden)
  BY DEF Reordered
<1>2. Opened(playbook, slot, person, hidden) \subseteq DOMAIN playbook
  BY OpenedIsGathered DEF Gathered
<1>3. Taken(rows, slot, person) = RowsOf(r, Taken(playbook, slot, person))
  BY TakenRows
<1> QED  BY <1>1, <1>2, <1>3 DEF Opened, RowsOf

\* Whether one or more candidates are left is of no account: alone, a milestone
\* that is crossed wins.
LEMMA SupersededBy ==
  ASSUME NEW P, NEW S, WellFormed(P, person), SlotFits(slot), IsFiniteSet(S),
         \A i \in S : Gathered(P, slot, i)
  PROVE  LET elapsed == ElapsedPercent(person)
             crossed == Crossed(P, S, elapsed)
         IN TrialSuperseded(P, slot, person, S) =
              IF elapsed = None \/ crossed = {} THEN S
              ELSE {i \in S : \/ P[i].trial.kind # "progress"
                              \/ P[i].rule = P[MilestoneWinner(P, slot, crossed)].rule}
<1> DEFINE elapsed == ElapsedPercent(person)
           crossed == Crossed(P, S, elapsed)
           w == MilestoneWinner(P, slot, crossed)
<1>1. CASE crossed # {} /\ Cardinality(S) <= 1
  <2>1. crossed \subseteq S
    BY DEF Crossed
  <2>2. w \in crossed
    <3>1. \A i \in crossed : Gathered(P, slot, i)
      BY <2>1
    <3> HIDE DEF crossed
    <3> QED  BY <1>1, <3>1, MilestoneFirst
  <2>3. S = {w}
    <3>1. w \in S
      BY <2>1, <2>2
    <3> HIDE DEF w, crossed
    <3>2. IsFiniteSet(S \ {w}) /\ Cardinality(S \ {w}) = Cardinality(S) - 1
      BY <3>1, FS_RemoveElement
    <3>3. Cardinality(S) \in Nat /\ Cardinality(S \ {w}) \in Nat
      BY <3>2, FS_CardinalityType
    <3>4. Cardinality(S \ {w}) = 0
      BY <1>1, <3>2, <3>3
    <3>5. S \ {w} = {}
      BY <3>2, <3>4, FS_EmptySet
    <3> QED  BY <3>1, <3>5
  <2>4. TrialSuperseded(P, slot, person, S) = S
    BY <1>1 DEF TrialSuperseded
  <2>5. \A i \in S : P[i].rule = P[w].rule
    BY <2>3
  <2> HIDE DEF crossed, w
  <2>6. {i \in S : \/ P[i].trial.kind # "progress" \/ P[i].rule = P[w].rule} = S
    BY <2>5
  <2> QED  BY <2>4, <2>6 DEF crossed, w
<1>2. CASE ~ (crossed # {} /\ Cardinality(S) <= 1)
  BY <1>2 DEF TrialSuperseded
<1> QED  BY <1>1, <1>2

\* The milestone that wins is the same, in whatever row it is.
LEMMA SameMilestone ==
  ASSUME Answered, DistinctPlaces, NEW r, NEW rows, NEW gone, Reordered(r, rows, gone),
         NEW C \in SUBSET DOMAIN playbook, C # {},
         \A i \in C : Gathered(playbook, slot, i) /\ IsMilestone(i)
  PROVE  r[MilestoneWinner(rows, slot, RowsOf(r, C))] = MilestoneWinner(playbook, slot, C)
<1> DEFINE D == DOMAIN playbook
           w == MilestoneWinner(playbook, slot, C)
           v == MilestoneWinner(rows, slot, RowsOf(r, C))
           Key(P, i) == MilestoneKeyOf(P, slot, i)
           key == [i \in D |-> Key(playbook, i)]
           other == [i \in D |-> Key(rows, i)]
<1>1. /\ r \in Reorderings /\ r \in [D -> D]
      /\ DOMAIN rows = D /\ \A i \in D : rows[i] = playbook[r[i]] /\ r[i] \in D
  BY DEF Reordered, Reorderings
<1>2. WellFormed(rows, person) /\ WellFormed(playbook, person)
  BY RowsAreWellFormed DEF Answered
<1>3. \A i \in D : r[i] \in C => Gathered(rows, slot, i)
  BY <1>1 DEF Gathered
<1>4. \A i \in D : key[i] = Key(playbook, i) /\ other[i] = Key(rows, i)
  OBVIOUS
<1>5. w \in C /\ \A j \in C \ {w} : Before(Key(playbook, w), Key(playbook, j))
  BY <1>2, MilestoneFirst
<1>6. v \in RowsOf(r, C) /\ \A j \in RowsOf(r, C) \ {v} : Before(Key(rows, v), Key(rows, j))
  <2>1. RowsOf(r, C) # {}
    BY <1>1, NoRows
  <2>2. \A i \in RowsOf(r, C) : Gathered(rows, slot, i)
    BY <1>3 DEF RowsOf
  <2> QED  BY <1>2, <2>1, <2>2, MilestoneFirst
<1>7. \A x \in D : \E i \in D : r[i] = x
  BY <1>1, EveryRowIsKept
<1>8. \A i \in C : key[i] \in Keys(4 + 1)
  <2>1. 4 + 1 = 5
    OBVIOUS
  <2> QED  BY <1>2, <1>4, <2>1, MilestoneKey
<1>front. \A i \in C : \A n \in 1 .. 4 :
            Key(playbook, i)[n] = MilestoneRow(playbook[i], slot)[n]
  BY <1>2, MilestoneFront
<1>9. ASSUME NEW i \in D, r[i] \in C
      PROVE  /\ other[i] \in Keys(4 + 1)
             /\ \A n \in 1 .. 4 : other[i][n] = key[r[i]][n]
  <2>1. Key(rows, i) \in Keys(5)
    BY <1>2, <1>3, <1>9, MilestoneKey
  <2>2. Gathered(rows, slot, i) /\ rows[i] = playbook[r[i]] /\ r[i] \in D
    BY <1>1, <1>3, <1>9
  <2>3. \A n \in 1 .. 4 : Key(rows, i)[n] = MilestoneRow(rows[i], slot)[n]
    BY <1>2, <2>2, MilestoneFront
  <2>4. \A n \in 1 .. 4 : other[i][n] = key[r[i]][n]
    BY <1>4, <1>9, <1>front, <2>2, <2>3
  <2>5. 4 + 1 = 5
    OBVIOUS
  <2> QED  BY <1>4, <2>1, <2>4, <2>5
<1>10. ASSUME NEW i \in C, NEW j \in C, i # j
       PROVE  \E n \in 1 .. 4 : key[i][n] # key[j][n]
  <2>1. <<playbook[i].order, playbook[i].payload>> # <<playbook[j].order, playbook[j].payload>>
    BY <1>10 DEF DistinctPlaces
  <2>2. \E n \in 1 .. 4 : MilestoneRow(playbook[i], slot)[n] # MilestoneRow(playbook[j], slot)[n]
    <3>1. CASE playbook[i].order # playbook[j].order
      <4>1. 2 \in 1 .. 4 /\ MilestoneRow(playbook[i], slot)[2] # MilestoneRow(playbook[j], slot)[2]
        BY <3>1 DEF MilestoneRow
      <4> QED  BY <4>1
    <3>2. CASE playbook[i].payload # playbook[j].payload
      <4>1. 3 \in 1 .. 4 /\ MilestoneRow(playbook[i], slot)[3] # MilestoneRow(playbook[j], slot)[3]
        BY <3>2 DEF MilestoneRow
      <4> QED  BY <4>1
    <3> QED  BY <2>1, <3>1, <3>2
  <2>3. key[i] = Key(playbook, i) /\ key[j] = Key(playbook, j)
    BY <1>4
  <2> QED  BY <1>front, <2>2, <2>3
<1>11. \A j \in C \ {w} : Before(key[w], key[j])
  BY <1>4, <1>5
<1>12. v \in D /\ r[v] \in C /\ \A j \in D \ {v} : r[j] \in C => Before(other[v], other[j])
  BY <1>4, <1>6 DEF RowsOf
<1>13. SameFronts(D, r, C, 4, key, other, w, v)
  BY <1>1, <1>5, <1>7, <1>8, <1>9, <1>10, <1>11, <1>12 DEF SameFronts
<1> HIDE DEF D, w, v, key, other
<1>14. r[v] = w
  BY <1>13, SameFirst
<1> QED  BY <1>14 DEF w, v

LEMMA StandingRows ==
  ASSUME Answered, DistinctPlaces, NEW r, NEW rows, NEW gone, Reordered(r, rows, gone)
  PROVE  /\ Standing(rows, slot, person, gone) = RowsOf(r, Standing(playbook, slot, person, hidden))
         /\ Standing(playbook, slot, person, hidden) \subseteq DOMAIN playbook
<1> DEFINE D == DOMAIN playbook
           O == Opened(playbook, slot, person, hidden)
           elapsed == ElapsedPercent(person)
           C == Crossed(playbook, O, elapsed)
           w == MilestoneWinner(playbook, slot, C)
           v == MilestoneWinner(rows, slot, RowsOf(r, C))
<1>1. /\ r \in Reorderings /\ DOMAIN rows = D
      /\ \A i \in D : rows[i] = playbook[r[i]] /\ r[i] \in D
  BY DEF Reordered, Reorderings
<1>2. Opened(rows, slot, person, gone) = RowsOf(r, O) /\ O \subseteq D
  BY OpenedRows
<1>3. WellFormed(rows, person) /\ WellFormed(playbook, person) /\ SlotFits(slot)
  BY RowsAreWellFormed DEF Answered
<1>4. IsFiniteSet(O) /\ IsFiniteSet(RowsOf(r, O))
  <2>1. PICK n \in Nat : D = 1 .. n
    BY <1>3 DEF WellFormed, IsList
  <2>2. IsFiniteSet(D)
    BY <2>1, FS_Interval
  <2>3. RowsOf(r, O) \subseteq D
    BY DEF RowsOf
  <2> QED  BY <1>2, <2>2, <2>3, FS_Subset
<1>5. \A i \in O : Gathered(playbook, slot, i)
  BY OpenedIsGathered
<1>6. \A i \in RowsOf(r, O) : Gathered(rows, slot, i)
  BY <1>1, <1>5 DEF RowsOf, Gathered
<1>7. Crossed(rows, RowsOf(r, O), elapsed) = RowsOf(r, C) /\ C \subseteq O
  BY <1>1 DEF Crossed, RowsOf
<1>8. Standing(playbook, slot, person, hidden) =
        IF elapsed = None \/ C = {} THEN O
        ELSE {i \in O : \/ playbook[i].trial.kind # "progress"
                        \/ playbook[i].rule = playbook[w].rule}
  BY <1>3, <1>4, <1>5, SupersededBy DEF Standing
<1>9. Standing(rows, slot, person, gone) =
        IF elapsed = None \/ RowsOf(r, C) = {} THEN RowsOf(r, O)
        ELSE {i \in RowsOf(r, O) : \/ rows[i].trial.kind # "progress"
                                   \/ rows[i].rule = rows[v].rule}
  <2>1. TrialSuperseded(rows, slot, person, RowsOf(r, O)) =
          IF elapsed = None \/ Crossed(rows, RowsOf(r, O), elapsed) = {} THEN RowsOf(r, O)
          ELSE {i \in RowsOf(r, O) :
                  \/ rows[i].trial.kind # "progress"
                  \/ rows[i].rule =
                       rows[MilestoneWinner(rows, slot, Crossed(rows, RowsOf(r, O), elapsed))].rule}
    BY <1>3, <1>4, <1>6, SupersededBy
  <2> QED  BY <1>2, <1>7, <2>1 DEF Standing
<1>10. RowsOf(r, C) = {} <=> C = {}
  BY <1>1, <1>2, <1>7, NoRows
<1>11. C # {} => rows[v].rule = playbook[w].rule
  <2> SUFFICES ASSUME C # {} PROVE rows[v].rule = playbook[w].rule
    OBVIOUS
  <2>1. \A i \in C : Gathered(playbook, slot, i) /\ IsMilestone(i)
    BY <1>5 DEF Crossed, IsMilestone
  <2>2. r[v] = w
    <3> HIDE DEF C
    <3> QED  BY <1>2, <1>7, <2>1, SameMilestone
  <2>3. v \in D
    <3>1. \A i \in RowsOf(r, C) : Gathered(rows, slot, i)
      BY <1>6, <1>7 DEF RowsOf
    <3> HIDE DEF C
    <3>2. v \in RowsOf(r, C)
      BY <1>3, <1>10, <3>1, MilestoneFirst
    <3> QED  BY <3>2 DEF RowsOf
  <2> QED  BY <1>1, <2>2, <2>3
<1> HIDE DEF D, O, elapsed, C, w, v
<1>12. \A i \in D : i \in RowsOf(r, O) <=> r[i] \in O
  BY DEF RowsOf, D
<1>13. RowsOf(r, O) \subseteq D
  BY DEF RowsOf, D
<1>14. Standing(playbook, slot, person, hidden) \subseteq D
  BY <1>2, <1>8
<1>15. \A i \in D : i \in Standing(rows, slot, person, gone)
                    <=> r[i] \in Standing(playbook, slot, person, hidden)
  <2>1. CASE elapsed = None \/ C = {}
    BY <1>8, <1>9, <1>10, <1>12, <2>1
  <2>2. CASE ~ (elapsed = None \/ C = {})
    <3>1. Standing(playbook, slot, person, hidden) =
            {i \in O : \/ playbook[i].trial.kind # "progress"
                       \/ playbook[i].rule = playbook[w].rule}
      BY <1>8, <2>2
    <3>2. Standing(rows, slot, person, gone) =
            {i \in RowsOf(r, O) : \/ rows[i].trial.kind # "progress"
                                  \/ rows[i].rule = playbook[w].rule}
      BY <1>9, <1>10, <1>11, <2>2
    <3> QED  BY <1>1, <1>12, <3>1, <3>2
  <2> QED  BY <2>1, <2>2
<1>16. Standing(rows, slot, person, gone) \subseteq D
  BY <1>9, <1>13
<1> QED  BY <1>14, <1>15, <1>16 DEF RowsOf, D

LEMMA RankedRows ==
  ASSUME Answered, DistinctPlaces, NEW r, NEW rows, NEW gone, Reordered(r, rows, gone)
  PROVE  /\ Ranked(rows, slot, person, gone) = RowsOf(r, Ranked(playbook, slot, person, hidden))
         /\ Ranked(playbook, slot, person, hidden) \subseteq DOMAIN playbook
<1> DEFINE D == DOMAIN playbook
           E == Eligible(playbook, slot, person, hidden)
<1>1. /\ r \in Reorderings /\ \A i \in D : rows[i] = playbook[r[i]] /\ r[i] \in D
      /\ \A x \in D : \E i \in D : r[i] = x
  BY EveryRowIsKept DEF Reordered, Reorderings
<1>2. /\ Standing(rows, slot, person, gone) = RowsOf(r, Standing(playbook, slot, person, hidden))
      /\ Standing(playbook, slot, person, hidden) \subseteq D
  BY StandingRows
<1>3. Eligible(rows, slot, person, gone) = RowsOf(r, E) /\ E \subseteq D
  BY <1>1, <1>2 DEF Eligible, RowsOf
<1> HIDE DEF E
<1>4. UsageSuperseded(rows, RowsOf(r, E)) = RowsOf(r, UsageSuperseded(playbook, E))
  <2>1. ASSUME NEW i \in D
        PROVE  i \in UsageSuperseded(rows, RowsOf(r, E)) <=> r[i] \in UsageSuperseded(playbook, E)
    <3>1. i \in RowsOf(r, E) <=> r[i] \in E
      BY DEF RowsOf
    <3>2. (\A j \in RowsOf(r, E) : SameMilestoneLine(rows[i], rows[j]) =>
                                     rows[j].usage.percent <= rows[i].usage.percent)
          <=> \A x \in E : SameMilestoneLine(playbook[r[i]], playbook[x]) =>
                              playbook[x].usage.percent <= playbook[r[i]].usage.percent
      <4>1. ASSUME \A j \in RowsOf(r, E) : SameMilestoneLine(rows[i], rows[j]) =>
                     rows[j].usage.percent <= rows[i].usage.percent,
                   NEW x \in E, SameMilestoneLine(playbook[r[i]], playbook[x])
            PROVE  playbook[x].usage.percent <= playbook[r[i]].usage.percent
        <5>1. PICK j \in D : r[j] = x
          BY <1>1, <1>3
        <5>2. j \in RowsOf(r, E) /\ rows[j] = playbook[x] /\ rows[i] = playbook[r[i]]
          BY <1>1, <5>1 DEF RowsOf
        <5> QED  BY <4>1, <5>2
      <4>2. ASSUME \A x \in E : SameMilestoneLine(playbook[r[i]], playbook[x]) =>
                     playbook[x].usage.percent <= playbook[r[i]].usage.percent,
                   NEW j \in RowsOf(r, E), SameMilestoneLine(rows[i], rows[j])
            PROVE  rows[j].usage.percent <= rows[i].usage.percent
        <5>1. r[j] \in E /\ rows[j] = playbook[r[j]] /\ rows[i] = playbook[r[i]]
          BY <1>1 DEF RowsOf
        <5> QED  BY <4>2, <5>1
      <4> QED  BY <4>1, <4>2
    <3> QED  BY <3>1, <3>2 DEF UsageSuperseded
  <2>2. UsageSuperseded(rows, RowsOf(r, E)) \subseteq D
    BY DEF UsageSuperseded, RowsOf
  <2> QED  BY <2>1, <2>2 DEF RowsOf
<1>5. UsageSuperseded(playbook, E) \subseteq E
  BY DEF UsageSuperseded
<1> QED  BY <1>3, <1>4, <1>5 DEF Ranked, E

\* Candidates of one tier and category class differ in order or payload place, and
\* others in tier or class, so that no two have the same front.
LEMMA FrontsDiffer ==
  ASSUME Answered, DistinctPlaces, NEW i \in DOMAIN playbook, NEW j \in DOMAIN playbook, i # j
  PROVE  \E n \in 1 .. 9 : RowKey(playbook[i], slot, person)[n]
                            # RowKey(playbook[j], slot, person)[n]
<1> DEFINE a == RowKey(playbook[i], slot, person)
           b == RowKey(playbook[j], slot, person)
<1>1. /\ a[1] = Bucket(playbook[i].category) /\ b[1] = Bucket(playbook[j].category)
      /\ a[5] = SharedRank(playbook[i].category) /\ b[5] = SharedRank(playbook[j].category)
      /\ a[4] = playbook[i].order /\ b[4] = playbook[j].order
      /\ a[6] = playbook[i].payload /\ b[6] = playbook[j].payload
  BY DEF RowKey
<1> HIDE DEF a, b
<1>2. CASE Bucket(playbook[i].category) # Bucket(playbook[j].category)
  <2>1. 1 \in 1 .. 9 /\ a[1] # b[1]
    BY <1>1, <1>2
  <2> QED  BY <2>1 DEF a, b
<1>3. CASE SharedRank(playbook[i].category) # SharedRank(playbook[j].category)
  <2>1. 5 \in 1 .. 9 /\ a[5] # b[5]
    BY <1>1, <1>3
  <2> QED  BY <2>1 DEF a, b
<1>4. CASE playbook[i].order # playbook[j].order
  <2>1. 4 \in 1 .. 9 /\ a[4] # b[4]
    BY <1>1, <1>4
  <2> QED  BY <2>1 DEF a, b
<1>5. CASE playbook[i].payload # playbook[j].payload
  <2>1. 6 \in 1 .. 9 /\ a[6] # b[6]
    BY <1>1, <1>5
  <2> QED  BY <2>1 DEF a, b
<1> QED  BY <1>2, <1>3, <1>4, <1>5 DEF DistinctPlaces

\* Any reordering of a Playbook's rows shows the same candidate.
THEOREM RowsDoNotDecide == Spec => []RowOrderIsIrrelevant
<1>1. ASSUME Answered PROVE RowOrderIsIrrelevant
  <2> SUFFICES ASSUME HasWinner, BySlot, DistinctPlaces, NEW r \in Reorderings
               PROVE  LET rows  == [i \in DOMAIN playbook |-> playbook[r[i]]]
                          again == Resolve(rows, slot, person, {i \in DOMAIN playbook : r[i] \in hidden})
                      IN again.candidate # 0 /\ rows[again.candidate] = Winner
    BY DEF RowOrderIsIrrelevant
  <2> DEFINE D == DOMAIN playbook
             rows == [i \in DOMAIN playbook |-> playbook[r[i]]]
             gone == {i \in DOMAIN playbook : r[i] \in hidden}
             R == Ranked(playbook, slot, person, hidden)
             w == decision.candidate
             v == Resolve(rows, slot, person, gone).candidate
             key == [i \in D |-> RankKey(playbook, slot, person, i)]
             other == [i \in D |-> RankKey(rows, slot, person, i)]
  <2>1. Reordered(r, rows, gone)
    BY DEF Reordered
  <2>2. /\ r \in [D -> D] /\ \A x \in D : \E i \in D : r[i] = x
        /\ DOMAIN rows = D /\ \A i \in D : rows[i] = playbook[r[i]] /\ r[i] \in D
    BY <1>1, EveryRowIsKept DEF Reorderings
  <2>3. \A i \in D : key[i] = RankKey(playbook, slot, person, i)
                     /\ other[i] = RankKey(rows, slot, person, i)
    OBVIOUS
  <2> HIDE DEF rows, gone, key, other
  <2>4. /\ WellFormed(playbook, person) /\ WellFormed(rows, person) /\ SlotFits(slot)
    BY <1>1, <2>1, RowsAreWellFormed DEF Answered
  <2>5. Ranked(rows, slot, person, gone) = RowsOf(r, R) /\ R \subseteq D
    BY <1>1, <2>1, RankedRows
  <2>6. w \in R /\ \A j \in R \ {w} : Before(RankKey(playbook, slot, person, w),
                                              RankKey(playbook, slot, person, j))
    BY <1>1, WinnerIsRanked DEF HasWinner
  <2>7. RowsOf(r, R) # {}
    BY <1>1, <2>5, <2>6, NoRows
  <2>8. /\ v # 0 /\ v \in RowsOf(r, R)
        /\ \A j \in RowsOf(r, R) \ {v} : Before(RankKey(rows, slot, person, v),
                                                RankKey(rows, slot, person, j))
    <3>1. v = ResolveSlot(rows, slot, person, gone).candidate
      BY DEF Resolve, BySlot
    <3> HIDE DEF v
    <3> QED  BY <2>4, <2>5, <2>7, <3>1, SlotIsServed
  <2>9. \A i \in R : Gathered(playbook, slot, i)
    <3>1. \A i \in R : i \in Opened(playbook, slot, person, hidden)
      BY DEF Ranked, UsageSuperseded, Eligible, Standing, TrialSuperseded
    <3> QED  BY <1>1, <3>1, OpenedIsGathered
  <2>10. \A i \in D : r[i] \in R => Gathered(rows, slot, i)
    BY <2>2, <2>9 DEF Gathered
  <2> HIDE DEF D, R, w, v
  <2>11. \A i \in R : RankKey(playbook, slot, person, i) \in Keys(9 + 1)
    <3>1. 9 + 1 = 10
      OBVIOUS
    <3> QED  BY <2>4, <2>9, <3>1, RankKeyIsKey
  <2>12. \A i \in D : r[i] \in R => RankKey(rows, slot, person, i) \in Keys(9 + 1)
    <3>1. 9 + 1 = 10
      OBVIOUS
    <3> QED  BY <2>4, <2>10, <3>1, RankKeyIsKey
  <2>13. \A i \in R : \A n \in 1 .. 9 :
           RankKey(playbook, slot, person, i)[n] = RowKey(playbook[i], slot, person)[n]
    BY <2>4, <2>9, RankKeyFront
  <2>14. \A i \in D : r[i] \in R => \A n \in 1 .. 9 :
           RankKey(rows, slot, person, i)[n] = RowKey(rows[i], slot, person)[n]
    BY <2>4, <2>10, RankKeyFront
  <2>15. \A i, j \in R : i # j => \E n \in 1 .. 9 :
           RowKey(playbook[i], slot, person)[n] # RowKey(playbook[j], slot, person)[n]
    BY <1>1, <2>5, FrontsDiffer DEF D
  <2>16. SameFronts(D, r, R, 9, key, other, w, v)
    <3>1. \A i \in R : key[i] \in Keys(9 + 1)
      BY <2>3, <2>5, <2>11
    <3>2. ASSUME NEW i \in D, r[i] \in R
          PROVE  /\ other[i] \in Keys(9 + 1)
                 /\ \A n \in 1 .. 9 : other[i][n] = key[r[i]][n]
      <4>1. other[i] \in Keys(9 + 1)
        BY <2>3, <2>12, <3>2
      <4>2. \A n \in 1 .. 9 : other[i][n] = RowKey(rows[i], slot, person)[n]
        BY <2>3, <2>14, <3>2
      <4>3. \A n \in 1 .. 9 : key[r[i]][n] = RowKey(playbook[r[i]], slot, person)[n]
        BY <2>3, <2>5, <2>13, <3>2
      <4> QED  BY <2>2, <4>1, <4>2, <4>3
    <3>3. ASSUME NEW i \in R, NEW j \in R, i # j
          PROVE  \E n \in 1 .. 9 : key[i][n] # key[j][n]
      BY <2>3, <2>5, <2>13, <2>15, <3>3
    <3>4. \A j \in R \ {w} : Before(key[w], key[j])
      BY <2>3, <2>5, <2>6
    <3>5. v \in D /\ r[v] \in R
      BY <2>8 DEF RowsOf, D
    <3>6. \A j \in D \ {v} : r[j] \in R => Before(other[v], other[j])
      BY <2>3, <2>8, <3>5 DEF RowsOf, D
    <3> QED  BY <2>2, <2>5, <2>6, <3>1, <3>2, <3>3, <3>4, <3>5, <3>6 DEF SameFronts
  <2>17. r[v] = w
    BY <2>16, SameFirst
  <2>18. rows[v] = Winner
    BY <2>2, <2>8, <2>17 DEF Winner, w, RowsOf, D
  <2> QED  BY <2>8, <2>18 DEF v, rows, gone
<1> QED  BY <1>1, AlwaysAnswered, PTL

----------------------------------------------------------------------------
(* Entitlements: the numbers of an answer                                  *)

\* Verdicts have the fields that a merge replaces.
Fields(v) ==
  v \in [status : {v.status}, allowed : {v.allowed}, reason : {v.reason},
         limit : {v.limit}, used : {v.used}, remaining : {v.remaining}]

\* A verdict has its fields, and what is left follows from its limit and its use.
Sums(v) == Fields(v) /\ AppAddsUp(v)

LEMMA PlainVerdict ==
  ASSUME NEW status, NEW allowed, NEW reason
  PROVE  /\ Sums(Verdict(status, allowed, reason))
         /\ Verdict(status, allowed, reason).limit = Absent
  BY DEF Sums, Fields, AppAddsUp, Verdict

LEMMA LimitedVerdict ==
  ASSUME NEW v, Fields(v), NEW limit, NEW used
  PROVE  Sums(WithLimit(v, limit, used))
  BY DEF Sums, Fields, AppAddsUp, WithLimit

LEMMA EnforcedVerdict ==
  ASSUME NEW over, NEW enforcement
  PROVE  Sums(Enforced(over, enforcement))
<1>1. /\ Sums(Allow) /\ Sums(Deny("reached")) /\ Sums(Deny("block_with_upsell"))
      /\ Sums(Verdict("limited", TRUE, "degraded"))
      /\ Sums(Verdict("allowed", TRUE, "overage"))
      /\ Sums(Verdict("limited", FALSE, "reached"))
  BY PlainVerdict DEF Allow, Deny
<1> QED  BY <1>1 DEF Enforced

LEMMA ShapedVerdict ==
  ASSUME NEW kind, NEW r, NEW used, NEW allowance
  PROVE  Sums(Shaped(kind, r, used, allowance))
<1>1. /\ Sums(Allow) /\ \A reason : Sums(Deny(reason))
  BY PlainVerdict DEF Allow, Deny
<1>2. \A limit, over, e : Sums(WithLimit(Enforced(over, e), limit, used))
  BY EnforcedVerdict, LimitedVerdict DEF Sums
<1>3. \A limit : Sums(WithLimit(Allow, limit, used))
  BY <1>1, LimitedVerdict DEF Sums
<1> QED  BY <1>1, <1>2, <1>3 DEF Shaped

LEMMA PlaybookSums ==
  ASSUME NEW q
  PROVE  Sums(PlaybookVerdict(q))
<1>1. /\ \A reason : Sums(Deny(reason))
      /\ Sums(Verdict("allowed", TRUE, "granted_by_reverse_trial"))
  BY PlainVerdict DEF Deny
<1>2. \A kind, r, used, allowance : Sums(Shaped(kind, r, used, allowance))
  BY ShapedVerdict
<1>3. \A kind, b, p, cadence, used : Sums(Summed(kind, b, p, cadence, used))
  BY <1>1, <1>2 DEF Summed
<1> QED  BY <1>1, <1>2, <1>3 DEF PlaybookVerdict

LEMMA MergedSums ==
  ASSUME NEW v, Sums(v), NEW evaluated, NEW app, AppAddsUp(app), NEW wins
  PROVE  AppAddsUp(Merged(v, evaluated, app, wins))
<1> DEFINE base == IF app.status # "none" /\ (wins.status = "app" \/ ~evaluated)
                   THEN Verdict(app.status, app.status # "denied", "entitlement_mirrored")
                   ELSE v
           ofLimit == SourceOf(wins.limit, app.limit, v.limit)
           ofUsed  == SourceOf(wins.used, app.used, v.used)
           ofLeft  == SourceOf(wins.remaining, app.remaining, v.remaining)
           limit   == Picked(ofLimit, app.limit, v.limit)
           used    == Picked(ofUsed, app.used, v.used)
           mixed   == ofLeft # "neither" /\ \/ used # Absent /\ ofUsed # ofLeft
                                            \/ limit # Absent /\ ofLimit # ofLeft
           left    == Remaining(limit, used, Picked(ofLeft, app.remaining, v.remaining), mixed)
<1>1. Sums(base)
  BY PlainVerdict
<1>2. Merged(v, evaluated, app, wins) = [base EXCEPT !.limit = limit, !.used = used, !.remaining = left]
  BY DEF Merged
<1>3. ASSUME left # Absent, limit # Absent, used # Absent
      PROVE  left = Left(limit, used)
  <2>1. /\ ofLimit \in {"app", "playbook", "neither"} /\ ofUsed \in {"app", "playbook", "neither"}
        /\ ofLeft \in {"app", "playbook", "neither"}
        /\ ofLeft = "neither" => app.remaining = Absent /\ v.remaining = Absent
    BY DEF SourceOf
  <2> HIDE DEF ofLimit, ofUsed, ofLeft
  <2>2. CASE mixed
    BY <1>3, <2>2 DEF Remaining
  <2>3. CASE ~mixed
    <3>1. left = Picked(ofLeft, app.remaining, v.remaining)
      BY <2>3 DEF Remaining
    <3>2. ofLeft # "neither" /\ ofUsed = ofLeft /\ ofLimit = ofLeft
      BY <1>3, <2>1, <2>3, <3>1 DEF Picked
    <3> QED  BY <1>3, <2>1, <3>1, <3>2 DEF Picked, Sums, AppAddsUp
  <2> QED  BY <2>2, <2>3
<1> HIDE DEF base, left, limit, used
<1> QED  BY <1>1, <1>2, <1>3 DEF Sums, Fields, AppAddsUp

\* Every answer adds up, if what the app says does.
THEOREM AnswersAddUp == AskSpec => []NumbersAddUp
<1> DEFINE Inv == verdict = Unanswered \/ verdict = EffectiveEntitlement(question)
<1>1. AskInit => Inv
  BY DEF AskInit
<1>2. Inv /\ [CheckEntitlement]_questionVars => Inv'
  BY DEF CheckEntitlement, questionVars
<1>3. Inv => NumbersAddUp
  <2> SUFFICES ASSUME verdict = EffectiveEntitlement(question),
                      AppAddsUp(AppView(question.app.user, question.app.provider))
               PROVE  AppAddsUp(verdict)
    BY DEF NumbersAddUp
  <2>1. /\ \A q : Sums(PlaybookVerdict(q))
        /\ Sums(Deny("entitlement_not_in_playbook"))
    BY PlaybookSums, PlainVerdict DEF Deny
  <2>2. \A v, evaluated : Sums(v) =>
          AppAddsUp(Merged(v, evaluated, AppView(question.app.user, question.app.provider),
                           question.wins))
    BY MergedSums
  <2> QED  BY <2>1, <2>2 DEF EffectiveEntitlement, Sums
<1> QED  BY <1>1, <1>2, <1>3, PTL DEF AskSpec

----------------------------------------------------------------------------
(* Entitlements: the rule that governs                                     *)

\* Rules selected from a list, each of a shape that can be scored.
Selection(rules) ==
  /\ \E size \in Nat : DOMAIN rules \subseteq 0 .. size
  /\ \A i \in DOMAIN rules :
       /\ rules[i] # NoRule
       /\ rules[i].value \in Int
       /\ rules[i].enabled \in {"true", "false", "absent"}

LEMMA ScoreIsNumber ==
  ASSUME NEW kind, NEW rules, Selection(rules), NEW i \in DOMAIN rules
  PROVE  Score(kind, rules[i]) \in Int
<1>1. CASE kind \in {"usage_limit", "credits", "seat"}
  BY <1>1 DEF Score, Selection, Limit, Infinite
<1>2. CASE kind \notin {"usage_limit", "credits", "seat"}
  BY <1>2 DEF Score
<1> QED  BY <1>1, <1>2

\* What pick_most_permissive returns is one of the rules, and none scores higher.
LEMMA MostPermissiveIsBest ==
  ASSUME NEW kind, NEW rules, Selection(rules), ~Nothing(rules)
  PROVE  \E i \in DOMAIN rules :
           /\ MostPermissive(kind, rules) = rules[i]
           /\ \A j \in DOMAIN rules : Score(kind, rules[j]) <= Score(kind, rules[i])
<1> DEFINE f == [i \in DOMAIN rules |-> Score(kind, rules[i])]
           Best(i) == \A j \in DOMAIN rules :
                        /\ Score(kind, rules[j]) <= Score(kind, rules[i])
                        /\ Score(kind, rules[j]) = Score(kind, rules[i]) => i <= j
<1>1. \A i \in DOMAIN rules : f[i] \in Int /\ f[i] = Score(kind, rules[i])
  BY ScoreIsNumber
<1>2. PICK size \in Nat : DOMAIN rules \in SUBSET (0 .. size)
  BY DEF Selection
<1>3. DOMAIN rules # {}
  BY DEF Nothing
<1> HIDE DEF f
<1>4. \E i \in DOMAIN rules : \A j \in DOMAIN rules : f[j] <= f[i] /\ (f[j] = f[i] => i <= j)
  BY <1>1, <1>2, <1>3, BestExists
<1>5. \E i \in DOMAIN rules : Best(i)
  BY <1>1, <1>4
<1>6. MostPermissive(kind, rules) = rules[CHOOSE i \in DOMAIN rules : Best(i)]
  BY DEF MostPermissive, Nothing
<1> QED  BY <1>5, <1>6

LEMMA MostPermissiveOfNone ==
  ASSUME NEW kind, NEW rules
  PROVE  Nothing(rules) => MostPermissive(kind, rules) = NoRule
  BY DEF MostPermissive

\* The rules a list of holdings and a plan select, by position.
Matched(q, plan, holdings) ==
  {i \in DOMAIN q.rules :
     /\ SegmentsMatch(q.rules[i], q.segments)
     /\ \/ MatchesBaseline(q.rules[i], plan, q)
        \/ \E k \in DOMAIN holdings : MatchesHolding(q.rules[i], holdings[k])}

LEMMA MatchingRules ==
  ASSUME NEW q, NEW plan, NEW holdings
  PROVE  /\ DOMAIN Matching(q, plan, holdings) = Matched(q, plan, holdings)
         /\ \A i \in Matched(q, plan, holdings) : Matching(q, plan, holdings)[i] = q.rules[i]
  BY DEF Matching, Matched, RestrictValues, Restrict

LEMMA MatchingIsSelection ==
  ASSUME NEW q, QuestionFits(q), NEW plan, NEW holdings
  PROVE  Selection(Matching(q, plan, holdings))
<1>1. PICK n \in Nat : DOMAIN q.rules = 1 .. n
  BY DEF QuestionFits
<1>2. DOMAIN q.rules \subseteq 0 .. n
  BY <1>1
<1>3. Matched(q, plan, holdings) \subseteq DOMAIN q.rules
  BY DEF Matched
<1> QED  BY <1>2, <1>3, MatchingRules DEF QuestionFits, Selection

\* The limit a rule states by itself.
OwnLimit(kind, r) ==
  IF kind = "credits" /\ r.value = Absent THEN Limit(r.grant) ELSE Limit(r.value)

\* What a rule grants by itself, in the kinds that have a limit and in the others.
LEMMA LimitOfShaped ==
  ASSUME NEW kind, NEW r, NEW used
  PROVE  Shaped(kind, r, used, Absent).limit =
           IF kind \in {"usage_limit", "limit", "credits", "seat"} /\ OwnLimit(kind, r) < Infinite
           THEN OwnLimit(kind, r) ELSE Absent
<1> USE DEF ShapedKinds, DeferredKinds, MeteredKinds
<1> DEFINE own == OwnLimit(kind, r)
<1>1. FirstPresent(Absent, own) = own
  BY DEF FirstPresent
<1>2. /\ Allow.limit = Absent /\ \A reason : Deny(reason).limit = Absent
  BY PlainVerdict DEF Allow, Deny
<1>3. \A v, limit : Fields(v) => WithLimit(v, limit, used).limit = limit
  BY DEF WithLimit, Fields
<1>4. Fields(Allow) /\ \A over, e : Fields(Enforced(over, e))
  BY EnforcedVerdict, PlainVerdict DEF Sums, Allow
<1>5. Shaped(kind, r, used, Absent) =
        CASE kind = "feature" /\ r.enabled = "false" -> Deny("feature_not_enabled_for_plan")
          [] kind \in {"usage_limit", "limit", "credits"} /\ own < Infinite ->
               WithLimit(Enforced(used >= own, r.enforcement), own, used)
          [] kind = "seat" /\ own < Infinite -> WithLimit(Allow, own, used)
          [] kind \in MeteredKinds -> Deny("not_access_entitlement_kind")
          [] kind \notin ShapedKinds \cup DeferredKinds \cup MeteredKinds ->
               Deny("unknown_entitlement_kind")
          [] OTHER -> Allow
  BY <1>1 DEF Shaped, OwnLimit
<1>6. CASE kind \in {"usage_limit", "limit", "credits"} /\ own < Infinite
  BY <1>3, <1>4, <1>5, <1>6
<1>7. CASE kind = "seat" /\ own < Infinite
  BY <1>3, <1>4, <1>5, <1>7
<1>8. CASE ~(kind \in {"usage_limit", "limit", "credits", "seat"} /\ own < Infinite)
  BY <1>2, <1>5, <1>8
<1> QED  BY <1>6, <1>7, <1>8

\* A feature is allowed exactly by the rules that do not switch it off.
LEMMA FeatureIsSwitched ==
  ASSUME NEW r, NEW used
  PROVE  Shaped("feature", r, used, Absent) =
           IF r.enabled = "false" THEN Deny("feature_not_enabled_for_plan") ELSE Allow
  BY DEF Shaped, ShapedKinds, DeferredKinds, MeteredKinds

LEMMA WithoutPurchases ==
  ASSUME NEW q, QuestionFits(q), q.addons = <<>>, ~ q.trial.grants, q.plan # "none",
         NEW i \in DOMAIN q.rules, SegmentsMatch(q.rules[i], q.segments),
         MatchesBaseline(q.rules[i], q.plan, q)
  PROVE  \E k \in DOMAIN q.rules :
           /\ PlaybookVerdict(q) = Shaped(q.kind, q.rules[k], Used(q), Absent)
           /\ Score(q.kind, q.rules[i]) <= Score(q.kind, q.rules[k])
<1> DEFINE holdings == RestrictValues(q.addons, LAMBDA h :
                         h.quantity > 0 /\ h.addon \in KnownAddons /\ VariationKnown(h))
           matching == Matching(q, q.plan, holdings)
<1>1. Nothing(holdings) /\ ValidAddons(q.addons)
  BY DEF Nothing, RestrictValues, Restrict, ValidAddons
<1>2. MatchingPlan(q) = q.plan
  BY DEF MatchingPlan
<1> HIDE DEF holdings
<1>3. DOMAIN matching = Matched(q, q.plan, holdings)
  BY MatchingRules
<1>4. \A k \in Matched(q, q.plan, holdings) : matching[k] = q.rules[k]
  BY MatchingRules
<1> HIDE DEF matching
<1>5. /\ i \in DOMAIN matching
      /\ DOMAIN matching \subseteq DOMAIN q.rules
      /\ \A k \in DOMAIN matching : matching[k] = q.rules[k]
  BY <1>3, <1>4 DEF Matched
<1>6. Selection(matching) /\ ~Nothing(matching)
  BY <1>5, MatchingIsSelection DEF Nothing, matching
<1>7. PlaybookVerdict(q) =
        Shaped(q.kind, MostPermissive(q.kind, matching), Used(q), Absent)
  BY <1>1, <1>2, <1>6 DEF PlaybookVerdict, matching, holdings
<1>8. PICK k \in DOMAIN matching :
        /\ MostPermissive(q.kind, matching) = matching[k]
        /\ \A j \in DOMAIN matching : Score(q.kind, matching[j]) <= Score(q.kind, matching[k])
  BY <1>6, MostPermissiveIsBest
<1> QED  BY <1>5, <1>7, <1>8

LEMMA PlanRulePrevails ==
  ASSUME NEW q, QuestionFits(q), q.kind # "limit", SpelledOut(q),
         NEW i \in DOMAIN q.rules, NEW k \in DOMAIN q.rules,
         Score(q.kind, q.rules[i]) <= Score(q.kind, q.rules[k])
  PROVE  LET v == Shaped(q.kind, q.rules[k], Used(q), Absent)
             alone == Shaped(q.kind, q.rules[i], Used(q), Absent)
         IN /\ v.limit = Absent \/ (alone.limit # Absent /\ alone.limit <= v.limit)
            /\ q.kind = "feature" /\ alone.allowed => v.allowed
<1> DEFINE v == Shaped(q.kind, q.rules[k], Used(q), Absent)
           alone == Shaped(q.kind, q.rules[i], Used(q), Absent)
<1>1. \A j \in {i, k} :
        Shaped(q.kind, q.rules[j], Used(q), Absent).limit =
          IF q.kind \in {"usage_limit", "limit", "credits", "seat"}
               /\ OwnLimit(q.kind, q.rules[j]) < Infinite
          THEN OwnLimit(q.kind, q.rules[j]) ELSE Absent
  BY LimitOfShaped
<1>2. v.limit = Absent \/ (alone.limit # Absent /\ alone.limit <= v.limit)
  <2>1. CASE q.kind \in {"usage_limit", "credits", "seat"}
    <3>1. \A j \in {i, k} : /\ q.rules[j].value # Absent /\ q.rules[j].value \in Int
                            /\ OwnLimit(q.kind, q.rules[j]) = q.rules[j].value
                            /\ Score(q.kind, q.rules[j]) = q.rules[j].value
      BY <2>1 DEF SpelledOut, QuestionFits, OwnLimit, Score, Limit
    <3> QED  BY <1>1, <2>1, <3>1 DEF Infinite
  <2>2. CASE q.kind \notin {"usage_limit", "credits", "seat"}
    BY <1>1, <2>2
  <2> QED  BY <2>1, <2>2
<1>3. ASSUME q.kind = "feature", alone.allowed PROVE v.allowed
  <2>1. \A j \in {i, k} :
          /\ q.rules[j].enabled \in {"true", "false"}
          /\ Score(q.kind, q.rules[j]) = IF q.rules[j].enabled = "true" THEN 1 ELSE 0
    BY <1>3 DEF SpelledOut, QuestionFits, Score
  <2>2. /\ Allow.allowed = TRUE /\ \A reason : Deny(reason).allowed = FALSE
    BY DEF Deny, Allow, Verdict
  <2>3. \A j \in {i, k} : Shaped(q.kind, q.rules[j], Used(q), Absent)
          = IF q.rules[j].enabled = "false" THEN Deny("feature_not_enabled_for_plan") ELSE Allow
    BY <1>3, FeatureIsSwitched
  <2>4. q.rules[i].enabled = "true"
    <3>1. CASE q.rules[i].enabled = "false"
      BY <1>3, <2>2, <2>3, <3>1
    <3> QED  BY <2>1, <3>1
  <2>5. q.rules[k].enabled # "false"
    BY <2>1, <2>4
  <2> QED  BY <2>2, <2>3, <2>5
<1> QED  BY <1>2, <1>3

\* The most permissive of overlapping rules governs what a plan grants.
THEOREM RulesPrevail == AskSpec => []MostPermissivePrevails
<1>1. AskInit => question \in Questions
  BY DEF AskInit
<1>2. question \in Questions /\ [CheckEntitlement]_questionVars => (question \in Questions)'
  BY DEF CheckEntitlement, questionVars
<1>3. question \in Questions => MostPermissivePrevails
  <2> SUFFICES ASSUME question \in Questions, question.kind # "limit",
                      question.addons = <<>>, ~question.trial.grants, SpelledOut(question),
                      NEW r \in PlanRules(question)
               PROVE  LET v == PlaybookVerdict(question)
                          alone == Shaped(question.kind, r, Used(question), Absent)
                      IN /\ v.limit = Absent \/ (alone.limit # Absent /\ alone.limit <= v.limit)
                         /\ question.kind = "feature" /\ alone.allowed => v.allowed
    BY DEF MostPermissivePrevails
  <2>1. PICK i \in DOMAIN question.rules :
          /\ r = question.rules[i] /\ SegmentsMatch(r, question.segments)
          /\ MatchesBaseline(r, question.plan, question)
    BY DEF PlanRules
  <2>2. QuestionFits(question) /\ question.plan # "none"
    BY <2>1, QuestionsFit DEF MatchesBaseline
  <2>3. PICK k \in DOMAIN question.rules :
          /\ PlaybookVerdict(question)
               = Shaped(question.kind, question.rules[k], Used(question), Absent)
          /\ Score(question.kind, question.rules[i]) <= Score(question.kind, question.rules[k])
    BY <2>1, <2>2, WithoutPurchases
  <2> QED  BY <2>1, <2>2, <2>3, PlanRulePrevails
<1> QED  BY <1>1, <1>2, <1>3, PTL DEF AskSpec

----------------------------------------------------------------------------
(* Entitlements: the two evaluators                                        *)

\* What each evaluator selects of the holdings and rules, as it stands in
\* PlaybookVerdict and EngineVerdict.
PlaybookHoldings(q) ==
  RestrictValues(q.addons, LAMBDA h :
    h.quantity > 0 /\ h.addon \in KnownAddons /\ VariationKnown(h))
EngineHoldings(q) == RestrictValues(q.addons, LAMBDA h : h.quantity > 0 /\ VariationKnown(h))
InScope(q) == RestrictValues(q.rules, LAMBDA r : SegmentsMatch(r, q.segments))
Granted(q, rules) == RestrictValues(rules, LAMBDA r : MatchesBaseline(r, q.plan, q))
Owned(kind, rules, h) ==
  RestrictValues(rules, LAMBDA r : MatchesHolding(r, h) /\ Recurring(kind, r))
Matches(q) == Matching(q, q.plan, PlaybookHoldings(q))

LEMMA PlaybookHoldingsAre ==
  ASSUME NEW q
  PROVE  /\ DOMAIN PlaybookHoldings(q) = {k \in DOMAIN q.addons :
               /\ q.addons[k].quantity > 0
               /\ q.addons[k].addon \in KnownAddons
               /\ VariationKnown(q.addons[k])}
         /\ \A k \in DOMAIN PlaybookHoldings(q) : PlaybookHoldings(q)[k] = q.addons[k]
  BY DEF PlaybookHoldings, RestrictValues, Restrict

LEMMA EngineHoldingsAre ==
  ASSUME NEW q
  PROVE  /\ DOMAIN EngineHoldings(q) =
               {k \in DOMAIN q.addons : q.addons[k].quantity > 0 /\ VariationKnown(q.addons[k])}
         /\ \A k \in DOMAIN EngineHoldings(q) : EngineHoldings(q)[k] = q.addons[k]
  BY DEF EngineHoldings, RestrictValues, Restrict

LEMMA InScopeAre ==
  ASSUME NEW q
  PROVE  /\ DOMAIN InScope(q) = {i \in DOMAIN q.rules : SegmentsMatch(q.rules[i], q.segments)}
         /\ \A i \in DOMAIN InScope(q) : InScope(q)[i] = q.rules[i]
  BY DEF InScope, RestrictValues, Restrict

LEMMA GrantedAre ==
  ASSUME NEW q, NEW rules
  PROVE  Granted(q, rules) =
           [i \in {j \in DOMAIN rules : MatchesBaseline(rules[j], q.plan, q)} |-> rules[i]]
  BY DEF Granted, RestrictValues, Restrict

LEMMA OwnedAre ==
  ASSUME NEW kind, NEW rules, NEW h
  PROVE  Owned(kind, rules, h) =
           [i \in {j \in DOMAIN rules : MatchesHolding(rules[j], h) /\ Recurring(kind, rules[j])}
              |-> rules[i]]
  BY DEF Owned, RestrictValues, Restrict

LEMMA PurchasesAre ==
  ASSUME NEW kind, NEW rules, NEW holdings
  PROVE  Purchases(kind, rules, holdings) =
           [k \in {j \in DOMAIN holdings : ~Nothing(Owned(kind, rules, holdings[j]))} |->
              [rule |-> MostPermissive(kind, Owned(kind, rules, holdings[k])),
               quantity |-> holdings[k].quantity, cadence |-> CadenceOf(holdings[k])]]
  BY DEF Purchases, Owned, RestrictValues, Restrict

LEMMA MatchesAre ==
  ASSUME NEW q
  PROVE  /\ DOMAIN Matches(q) = Matched(q, q.plan, PlaybookHoldings(q))
         /\ \A i \in DOMAIN Matches(q) : Matches(q)[i] = q.rules[i]
         /\ DOMAIN Matches(q) \subseteq DOMAIN q.rules
<1>1. DOMAIN Matches(q) = Matched(q, q.plan, PlaybookHoldings(q))
  BY MatchingRules DEF Matches
<1>2. \A i \in Matched(q, q.plan, PlaybookHoldings(q)) : Matches(q)[i] = q.rules[i]
  BY MatchingRules DEF Matches
<1> QED  BY <1>1, <1>2 DEF Matched

\* A holding that a rule grants to is of an add-on of the Playbook.
LEMMA OwnersAreKnown ==
  ASSUME NEW q, TargetsKnown(q), NEW i \in DOMAIN q.rules,
         NEW h, VariationKnown(h), MatchesHolding(q.rules[i], h)
  PROVE  h.addon \in KnownAddons
  BY DEF TargetsKnown, MatchesHolding, VariationKnown

LEMMA MatchesInScope ==
  ASSUME NEW q
  PROVE  /\ DOMAIN Matches(q) \subseteq DOMAIN InScope(q)
         /\ \A i \in DOMAIN Matches(q) : Matches(q)[i] = InScope(q)[i]
         /\ \A i \in DOMAIN InScope(q) :
              (\/ MatchesBaseline(InScope(q)[i], q.plan, q)
               \/ \E k \in DOMAIN PlaybookHoldings(q) :
                    MatchesHolding(InScope(q)[i], PlaybookHoldings(q)[k]))
              => i \in DOMAIN Matches(q)
<1>1. DOMAIN Matches(q) \subseteq DOMAIN InScope(q)
  BY MatchesAre, InScopeAre DEF Matched
<1>2. \A i \in DOMAIN Matches(q) : Matches(q)[i] = InScope(q)[i]
  BY <1>1, MatchesAre, InScopeAre
<1>3. ASSUME NEW i \in DOMAIN InScope(q),
             \/ MatchesBaseline(InScope(q)[i], q.plan, q)
             \/ \E k \in DOMAIN PlaybookHoldings(q) :
                  MatchesHolding(InScope(q)[i], PlaybookHoldings(q)[k])
      PROVE  i \in DOMAIN Matches(q)
  <2>1. /\ i \in DOMAIN q.rules /\ SegmentsMatch(q.rules[i], q.segments)
        /\ InScope(q)[i] = q.rules[i]
    BY InScopeAre
  <2> QED  BY <1>3, <2>1, MatchesAre DEF Matched
<1> QED  BY <1>1, <1>2, <1>3

LEMMA SameGranted ==
  ASSUME NEW q
  PROVE  Granted(q, Matches(q)) = Granted(q, InScope(q))
<1> DEFINE M == Matches(q)
           I == InScope(q)
<1>1. /\ DOMAIN M \subseteq DOMAIN I /\ \A i \in DOMAIN M : M[i] = I[i]
      /\ \A i \in DOMAIN I : MatchesBaseline(I[i], q.plan, q) => i \in DOMAIN M
  BY MatchesInScope
<1> HIDE DEF M, I
<1>2. {j \in DOMAIN M : MatchesBaseline(M[j], q.plan, q)}
       = {j \in DOMAIN I : MatchesBaseline(I[j], q.plan, q)}
  BY <1>1
<1>3. Granted(q, M) = Granted(q, I)
  BY <1>1, <1>2, GrantedAre
<1> QED  BY <1>3 DEF M, I

LEMMA SameOwned ==
  ASSUME NEW q, NEW k \in DOMAIN PlaybookHoldings(q)
  PROVE  Owned(q.kind, Matches(q), PlaybookHoldings(q)[k])
           = Owned(q.kind, InScope(q), PlaybookHoldings(q)[k])
<1> DEFINE M == Matches(q)
           I == InScope(q)
           h == PlaybookHoldings(q)[k]
<1>1. /\ DOMAIN M \subseteq DOMAIN I /\ \A i \in DOMAIN M : M[i] = I[i]
      /\ \A i \in DOMAIN I : MatchesHolding(I[i], h) => i \in DOMAIN M
  BY MatchesInScope
<1> HIDE DEF M, I, h
<1>2. {j \in DOMAIN M : MatchesHolding(M[j], h) /\ Recurring(q.kind, M[j])}
       = {j \in DOMAIN I : MatchesHolding(I[j], h) /\ Recurring(q.kind, I[j])}
  BY <1>1
<1>3. Owned(q.kind, M, h) = Owned(q.kind, I, h)
  BY <1>1, <1>2, OwnedAre
<1> QED  BY <1>3 DEF M, I, h

LEMMA SamePurchases ==
  ASSUME NEW q, TargetsKnown(q)
  PROVE  Purchases(q.kind, Matches(q), PlaybookHoldings(q))
           = Purchases(q.kind, InScope(q), EngineHoldings(q))
<1> DEFINE M == Matches(q)
           I == InScope(q)
           H == PlaybookHoldings(q)
           G == EngineHoldings(q)
           kind == q.kind
<1>1. DOMAIN H \subseteq DOMAIN G /\ \A k \in DOMAIN H : H[k] = G[k]
  BY PlaybookHoldingsAre, EngineHoldingsAre
<1>2. \A k \in DOMAIN H : Owned(kind, M, H[k]) = Owned(kind, I, G[k])
  BY <1>1, SameOwned
<1>3. ASSUME NEW k \in DOMAIN G, ~Nothing(Owned(kind, I, G[k]))
      PROVE  k \in DOMAIN H
  <2>1. PICK i \in DOMAIN I : MatchesHolding(I[i], G[k])
    BY <1>3, OwnedAre DEF Nothing
  <2>2. MatchesHolding(q.rules[i], q.addons[k]) /\ i \in DOMAIN q.rules
    BY <2>1, InScopeAre, EngineHoldingsAre
  <2>3. VariationKnown(q.addons[k])
    BY EngineHoldingsAre
  <2>4. q.addons[k].addon \in KnownAddons
    BY <2>2, <2>3, OwnersAreKnown
  <2> QED  BY <2>4, EngineHoldingsAre, PlaybookHoldingsAre
<1> HIDE DEF M, I, H, G
<1>4. {j \in DOMAIN H : ~Nothing(Owned(kind, M, H[j]))}
       = {j \in DOMAIN G : ~Nothing(Owned(kind, I, G[j]))}
  BY <1>1, <1>2, <1>3
<1>5. Purchases(kind, M, H) = Purchases(kind, I, G)
  BY <1>1, <1>2, <1>4, PurchasesAre
<1> QED  BY <1>5 DEF M, I, H, G

\* The rules the engine picks from, the plan's ahead of the purchases'.
Candidates(baseline, purchases) ==
  [i \in (IF baseline = NoRule THEN {} ELSE {0}) \cup DOMAIN purchases |->
     IF i = 0 THEN baseline ELSE purchases[i].rule]

LEMMA PlaybookVerdictIs ==
  ASSUME NEW q, ValidAddons(q.addons), ~ q.trial.grants
  PROVE  LET H == PlaybookHoldings(q)
             M == Matches(q)
             P == Purchases(q.kind, M, H)
         IN PlaybookVerdict(q) =
              IF q.plan = "none" /\ Nothing(H) THEN Deny("no_plan_identity")
              ELSE IF Nothing(M) THEN Deny("no_matching_entitlement_rule")
              ELSE IF Nothing(H) \/ ~Additive(q.kind)
              THEN Shaped(q.kind, MostPermissive(q.kind, M), Used(q), Absent)
              ELSE Summed(q.kind, Baseline(q.kind, Granted(q, M), P), P, q.cadence, Used(q))
<1>1. MatchingPlan(q) = q.plan
  BY DEF MatchingPlan
<1> QED  BY <1>1 DEF PlaybookVerdict, PlaybookHoldings, Matches, Granted

LEMMA EngineVerdictIs ==
  ASSUME NEW q, ValidAddons(q.addons), q.used.usage = Absent
  PROVE  LET P == Purchases(q.kind, InScope(q), EngineHoldings(q))
             b == Baseline(q.kind, Granted(q, InScope(q)), P)
         IN EngineVerdict(q) =
              IF ~Nothing(Candidates(b, P)) /\ ~Additive(q.kind)
              THEN Shaped(q.kind, MostPermissive(q.kind, Candidates(b, P)), Used(q), Absent)
              ELSE Summed(q.kind, b, P, q.cadence, Used(q))
<1>1. Used(q) = FirstPresent(q.used.context, FirstPresent(q.used.balance, 0))
  BY DEF Used, FirstPresent
<1> QED  BY <1>1 DEF EngineVerdict, EngineHoldings, InScope, Granted, Candidates

\* What a baseline is, in words of the granted rules.
LEMMA BaselineIs ==
  ASSUME NEW kind, NEW rules, NEW purchases, Nothing(purchases) \/ kind # "credits"
  PROVE  Baseline(kind, rules, purchases) = MostPermissive(kind, [i \in DOMAIN rules |-> rules[i]])
<1>1. RestrictValues(rules, LAMBDA r : Nothing(purchases) \/ Recurring(kind, r))
       = [i \in DOMAIN rules |-> rules[i]]
  BY DEF RestrictValues, Restrict, Recurring
<1> QED  BY <1>1 DEF Baseline

LEMMA NothingToPick ==
  ASSUME NEW kind, NEW rules, Nothing(rules), NEW purchases
  PROVE  Baseline(kind, rules, purchases) = NoRule
<1>1. Nothing(RestrictValues(rules, LAMBDA r : Nothing(purchases) \/ Recurring(kind, r)))
  BY DEF Nothing, RestrictValues, Restrict
<1> QED  BY <1>1, MostPermissiveOfNone DEF Baseline

\* Kinds that purchases do not add to: what any of the rules grants is the same,
\* but for features, where it is the same for rules of the same score.
LEMMA ScoreDecides ==
  ASSUME NEW kind, ~Additive(kind), NEW used, NEW r, NEW t,
         kind = "feature" => r.enabled \in {"true", "false"} /\ t.enabled \in {"true", "false"},
         Score(kind, r) = Score(kind, t)
  PROVE  Shaped(kind, r, used, Absent) = Shaped(kind, t, used, Absent)
<1>1. CASE kind = "feature"
  <2>1. r.enabled = t.enabled
    BY <1>1 DEF Score
  <2> QED  BY <1>1, <2>1, FeatureIsSwitched
<1>2. CASE kind # "feature"
  BY <1>2 DEF Shaped, Additive, ShapedKinds, DeferredKinds, MeteredKinds
<1> QED  BY <1>1, <1>2

\* Questions that both evaluators answer.
Comparable(q) ==
  /\ QuestionFits(q) /\ TargetsKnown(q) /\ ~ q.trial.grants
  /\ q.used.usage = Absent /\ SpelledOut(q)

Agree(v, w) ==
  /\ v.status = w.status /\ v.allowed = w.allowed
  /\ v.limit = w.limit /\ v.used = w.used /\ v.remaining = w.remaining

\* No rule matches: both deny.
LEMMA NothingMatches ==
  ASSUME NEW q, Comparable(q), ValidAddons(q.addons), Nothing(Matches(q))
  PROVE  Agree(PlaybookVerdict(q), EngineVerdict(q))
<1> DEFINE H == PlaybookHoldings(q)
           M == Matches(q)
           P == Purchases(q.kind, InScope(q), EngineHoldings(q))
           g == Granted(q, InScope(q))
           b == Baseline(q.kind, g, P)
<1>1. P = Purchases(q.kind, M, H)
  BY SamePurchases DEF Comparable
<1>2. g = Granted(q, M)
  BY SameGranted
<1>3. Nothing(g)
  BY <1>2, GrantedAre DEF Nothing
<1>4. \A h : Nothing(Owned(q.kind, M, h))
  BY OwnedAre DEF Nothing
<1> HIDE DEF M, H, P, g
<1>5. Nothing(P)
  BY <1>1, <1>4, PurchasesAre DEF Nothing
<1>6. b = NoRule
  BY <1>3, NothingToPick
<1>7. Nothing(Candidates(b, P))
  BY <1>5, <1>6 DEF Candidates, Nothing
<1>8. EngineVerdict(q) = Deny("no_matching_entitlement_rule")
  <2>1. EngineVerdict(q) = Summed(q.kind, b, P, q.cadence, Used(q))
    BY <1>7, EngineVerdictIs DEF Comparable, P, g
  <2> QED  BY <1>5, <1>6, <2>1 DEF Summed
<1>9. PlaybookVerdict(q) \in {Deny("no_matching_entitlement_rule"), Deny("no_plan_identity")}
  BY PlaybookVerdictIs DEF Comparable
<1>10. \A c, d : Agree(Deny(c), Deny(d))
  BY DEF Agree, Deny, Verdict
<1> QED  BY <1>8, <1>9, <1>10

\* Purchases may add to what the plan grants: both sum the same up.
LEMMA SumsAgree ==
  ASSUME NEW q, Comparable(q), ValidAddons(q.addons), ~Nothing(Matches(q)), Additive(q.kind)
  PROVE  PlaybookVerdict(q) = EngineVerdict(q)
<1> DEFINE H == PlaybookHoldings(q)
           M == Matches(q)
           P == Purchases(q.kind, InScope(q), EngineHoldings(q))
           g == Granted(q, InScope(q))
           b == Baseline(q.kind, g, P)
<1>1. P = Purchases(q.kind, M, H)
  BY SamePurchases DEF Comparable
<1>2. g = Granted(q, M)
  BY SameGranted
<1>3. EngineVerdict(q) = Summed(q.kind, b, P, q.cadence, Used(q))
  BY EngineVerdictIs DEF Comparable
<1>4. ~(q.plan = "none" /\ Nothing(H))
  BY MatchesAre DEF Matched, MatchesBaseline, Nothing
<1>5. CASE Nothing(H)
  <2>1. Nothing(P)
    <3>1. DOMAIN H = {}
      BY <1>5 DEF Nothing
    <3> HIDE DEF H, M, P
    <3> QED  BY <1>1, <3>1, PurchasesAre DEF Nothing
  <2>2. PlaybookVerdict(q) = Shaped(q.kind, MostPermissive(q.kind, M), Used(q), Absent)
    BY <1>4, <1>5, PlaybookVerdictIs DEF Comparable
  <2>3. g = [i \in DOMAIN M |-> M[i]]
    <3>1. \A i \in DOMAIN M : MatchesBaseline(M[i], q.plan, q)
      <4>1. \A i \in Matched(q, q.plan, H) : MatchesBaseline(q.rules[i], q.plan, q)
        BY <1>5 DEF Matched, Nothing
      <4> QED  BY <4>1, MatchesAre
    <3> HIDE DEF M, g
    <3> QED  BY <1>2, <3>1, GrantedAre
  <2> HIDE DEF P
  <2>4. b = MostPermissive(q.kind, M)
    <3>1. M = [i \in DOMAIN M |-> M[i]]
      BY DEF Matches, Matching, RestrictValues, Restrict
    <3> HIDE DEF M, g
    <3>2. b = MostPermissive(q.kind, [i \in DOMAIN g |-> g[i]])
      BY <2>1, BaselineIs
    <3>3. g = M
      BY <2>3, <3>1
    <3> QED  BY <3>1, <3>2, <3>3
  <2>5. b # NoRule
    <3>1. Selection(M) /\ ~Nothing(M)
      BY MatchingIsSelection DEF Comparable, Matches
    <3> HIDE DEF M
    <3> QED  BY <2>4, <3>1, MostPermissiveIsBest DEF Selection
  <2> HIDE DEF b, M
  <2> QED  BY <1>3, <2>1, <2>2, <2>4, <2>5 DEF Summed
<1>6. CASE ~Nothing(H)
  <2>1. PlaybookVerdict(q) = Summed(q.kind, Baseline(q.kind, Granted(q, M), Purchases(q.kind, M, H)),
                                    Purchases(q.kind, M, H), q.cadence, Used(q))
    BY <1>4, <1>6, PlaybookVerdictIs DEF Comparable
  <2> HIDE DEF M, H, P, g
  <2> QED  BY <1>1, <1>2, <1>3, <2>1
<1> QED  BY <1>5, <1>6

\* Purchases add nothing: the best of the rules the engine picks from scores as
\* high as the best of all that match.
LEMMA PicksAgree ==
  ASSUME NEW q, Comparable(q), ValidAddons(q.addons), ~Nothing(Matches(q)), ~Additive(q.kind)
  PROVE  PlaybookVerdict(q) = EngineVerdict(q)
<1> DEFINE H == PlaybookHoldings(q)
           M == Matches(q)
           P == Purchases(q.kind, InScope(q), EngineHoldings(q))
           g == Granted(q, InScope(q))
           b == Baseline(q.kind, g, P)
           C == Candidates(b, P)
           kind == q.kind
<1>1. P = Purchases(kind, M, H)
  BY SamePurchases DEF Comparable
<1>2. g = [i \in {j \in DOMAIN M : MatchesBaseline(M[j], q.plan, q)} |-> M[i]]
  BY SameGranted, GrantedAre
<1>3. PlaybookVerdict(q) = Shaped(kind, MostPermissive(kind, M), Used(q), Absent)
  <2>1. ~(q.plan = "none" /\ Nothing(H))
    BY MatchesAre DEF Matched, MatchesBaseline, Nothing
  <2> QED  BY <2>1, PlaybookVerdictIs DEF Comparable
<1>4. ~Nothing(C) => EngineVerdict(q) = Shaped(kind, MostPermissive(kind, C), Used(q), Absent)
  BY EngineVerdictIs DEF Comparable
<1>5. /\ Selection(M) /\ ~Nothing(M)
      /\ \A i \in DOMAIN M : M[i].enabled \in {"true", "false"} \/ kind # "feature"
  <2>1. Selection(M)
    BY MatchingIsSelection DEF Comparable, Matches
  <2>2. \A i \in DOMAIN M : M[i] = q.rules[i] /\ i \in DOMAIN q.rules
    BY MatchesAre
  <2> QED  BY <2>1, <2>2 DEF Comparable, QuestionFits, SpelledOut
<1>6. /\ kind # "credits"
      /\ \A r : Recurring(kind, r)
  BY DEF Additive, Recurring
<1>7. \A i \in DOMAIN M : \/ MatchesBaseline(M[i], q.plan, q)
                          \/ \E k \in DOMAIN H : MatchesHolding(M[i], H[k])
  <2>1. \A i \in DOMAIN M : i \in Matched(q, q.plan, H) /\ M[i] = q.rules[i]
    BY MatchesAre
  <2> HIDE DEF M, H
  <2> QED  BY <2>1 DEF Matched
<1>8. DOMAIN P \subseteq DOMAIN H /\ \E n \in Nat : DOMAIN P \subseteq 1 .. n
  <2>1. DOMAIN H \subseteq DOMAIN q.addons
    BY PlaybookHoldingsAre
  <2>2. PICK n \in Nat : DOMAIN q.addons = 1 .. n
    BY DEF Comparable, QuestionFits
  <2> HIDE DEF M, H, P
  <2>3. DOMAIN P \subseteq DOMAIN H
    BY <1>1, PurchasesAre
  <2> QED  BY <2>1, <2>2, <2>3
<1>9. \A h : /\ DOMAIN Owned(kind, M, h) = {j \in DOMAIN M : MatchesHolding(M[j], h)}
             /\ \A j \in DOMAIN Owned(kind, M, h) : Owned(kind, M, h)[j] = M[j]
  BY <1>6, OwnedAre
<1> HIDE DEF M, H, P, g
\* A part of the matching rules that is not empty has a best rule.
<1>10. \A rules :
          DOMAIN rules \subseteq DOMAIN M /\ DOMAIN rules # {}
              /\ (\A i \in DOMAIN rules : rules[i] = M[i])
          => \E i \in DOMAIN rules :
               /\ MostPermissive(kind, rules) = M[i]
               /\ \A j \in DOMAIN rules : Score(kind, M[j]) <= Score(kind, M[i])
  <2> SUFFICES ASSUME NEW rules, DOMAIN rules \subseteq DOMAIN M, DOMAIN rules # {},
                      \A i \in DOMAIN rules : rules[i] = M[i]
               PROVE  \E i \in DOMAIN rules :
                        /\ MostPermissive(kind, rules) = M[i]
                        /\ \A j \in DOMAIN rules : Score(kind, M[j]) <= Score(kind, M[i])
    OBVIOUS
  <2>1. Selection(rules) /\ ~Nothing(rules)
    BY <1>5 DEF Selection, Nothing
  <2>2. PICK i \in DOMAIN rules :
          /\ MostPermissive(kind, rules) = rules[i]
          /\ \A j \in DOMAIN rules : Score(kind, rules[j]) <= Score(kind, rules[i])
    BY <2>1, MostPermissiveIsBest
  <2> QED  BY <2>2
\* The baseline is a best one of the plan's rules.
<1>11. /\ Nothing(g) => b = NoRule
       /\ ~Nothing(g) => \E i \in DOMAIN g :
            /\ b = M[i]
            /\ \A j \in DOMAIN g : Score(kind, M[j]) <= Score(kind, M[i])
  <2>1. Nothing(g) => b = NoRule
    BY NothingToPick
  <2>2. b = MostPermissive(kind, [i \in DOMAIN g |-> g[i]])
    BY <1>6, BaselineIs
  <2> HIDE DEF b
  <2>3. ~Nothing(g) => \E i \in DOMAIN g :
            /\ MostPermissive(kind, g) = M[i]
            /\ \A j \in DOMAIN g : Score(kind, M[j]) <= Score(kind, M[i])
    BY <1>2, <1>10 DEF Nothing
  <2>4. g = [i \in DOMAIN g |-> g[i]]
    BY <1>2
  <2> QED  BY <2>1, <2>2, <2>3, <2>4
\* A purchase counts by a best one of the rules that grant it.
<1>12. \A k \in DOMAIN P :
         \E i \in DOMAIN Owned(kind, M, H[k]) :
           /\ P[k].rule = M[i]
           /\ \A j \in DOMAIN Owned(kind, M, H[k]) : Score(kind, M[j]) <= Score(kind, M[i])
  <2> SUFFICES ASSUME NEW k \in DOMAIN P
               PROVE  \E i \in DOMAIN Owned(kind, M, H[k]) :
                        /\ P[k].rule = M[i]
                        /\ \A j \in DOMAIN Owned(kind, M, H[k]) : Score(kind, M[j]) <= Score(kind, M[i])
    OBVIOUS
  <2>1. P[k].rule = MostPermissive(kind, Owned(kind, M, H[k])) /\ ~Nothing(Owned(kind, M, H[k]))
    BY <1>1, PurchasesAre
  <2>2. DOMAIN Owned(kind, M, H[k]) \subseteq DOMAIN M
    BY <1>9
  <2> QED  BY <1>9, <1>10, <2>1, <2>2 DEF Nothing
<1>13. \A k \in DOMAIN H : DOMAIN Owned(kind, M, H[k]) # {} => k \in DOMAIN P
  BY <1>1, PurchasesAre DEF Nothing
<1>14. /\ DOMAIN C = (IF b = NoRule THEN {} ELSE {0}) \cup DOMAIN P
       /\ b # NoRule => C[0] = b
       /\ \A k \in DOMAIN P : C[k] = P[k].rule
  BY <1>8 DEF Candidates
<1> HIDE DEF b, C
<1>15. \A x \in DOMAIN C : \E i \in DOMAIN M : C[x] = M[i]
  <2>1. DOMAIN g \subseteq DOMAIN M
    BY <1>2
  <2> QED  BY <1>9, <1>11, <1>12, <1>14, <2>1
<1>16. ASSUME NEW i \in DOMAIN M
       PROVE  \E x \in DOMAIN C : Score(kind, M[i]) <= Score(kind, C[x])
  <2>1. CASE MatchesBaseline(M[i], q.plan, q)
    <3>1. i \in DOMAIN g
      BY <1>2, <2>1
    <3>2. PICK j \in DOMAIN g : b = M[j] /\ Score(kind, M[i]) <= Score(kind, M[j])
      BY <1>11, <3>1 DEF Nothing
    <3>3. b # NoRule
      BY <1>2, <1>5, <3>2 DEF Selection
    <3> QED  BY <1>14, <3>2, <3>3
  <2>2. CASE \E k \in DOMAIN H : MatchesHolding(M[i], H[k])
    <3>1. PICK k \in DOMAIN H : MatchesHolding(M[i], H[k])
      BY <2>2
    <3>2. i \in DOMAIN Owned(kind, M, H[k])
      BY <1>9, <3>1
    <3>3. k \in DOMAIN P
      BY <1>13, <3>2
    <3> QED  BY <1>12, <1>14, <3>2, <3>3
  <2> QED  BY <1>7, <2>1, <2>2
<1>17. Selection(C) /\ ~Nothing(C)
  <2>1. PICK n \in Nat : DOMAIN P \subseteq 1 .. n
    BY <1>8
  <2>2. DOMAIN C \subseteq 0 .. n
    BY <1>14, <2>1
  <2>3. DOMAIN C # {}
    BY <1>5, <1>16 DEF Nothing
  <2> QED  BY <1>5, <1>15, <2>2, <2>3 DEF Selection, Nothing
<1>18. PICK m \in DOMAIN M : /\ MostPermissive(kind, M) = M[m]
                            /\ \A j \in DOMAIN M : Score(kind, M[j]) <= Score(kind, M[m])
  BY <1>5, MostPermissiveIsBest
<1>19. PICK c \in DOMAIN C : /\ MostPermissive(kind, C) = C[c]
                            /\ \A x \in DOMAIN C : Score(kind, C[x]) <= Score(kind, C[c])
  BY <1>17, MostPermissiveIsBest
<1>20. PICK i \in DOMAIN M : C[c] = M[i]
  BY <1>15
<1>21. Score(kind, M[i]) = Score(kind, M[m])
  <2>1. PICK x \in DOMAIN C : Score(kind, M[m]) <= Score(kind, C[x])
    BY <1>16
  <2>2. /\ Score(kind, M[m]) \in Int /\ Score(kind, M[i]) \in Int
        /\ Score(kind, C[x]) \in Int /\ Score(kind, C[c]) \in Int
    BY <1>5, <1>17, ScoreIsNumber
  <2> QED  BY <1>18, <1>19, <1>20, <2>1, <2>2
<1>22. Shaped(kind, M[m], Used(q), Absent) = Shaped(kind, M[i], Used(q), Absent)
  BY <1>5, <1>21, ScoreDecides
<1> QED  BY <1>3, <1>4, <1>17, <1>18, <1>19, <1>20, <1>22

\* The evaluator over the Playbook and the engine's give the same answer to whatever
\* is asked, if the rules grant to no add-on that the Playbook does not have.
THEOREM SameOnEverySurface ==
  ASSUME \A q \in Questions : TargetsKnown(q)
  PROVE  AskSpec => []EvaluatorsAgree
<1>1. AskInit => question \in Questions
  BY DEF AskInit
<1>2. question \in Questions /\ [CheckEntitlement]_questionVars => (question \in Questions)'
  BY DEF CheckEntitlement, questionVars
<1>3. question \in Questions => EvaluatorsAgree
  <2> SUFFICES ASSUME question \in Questions, ~question.trial.grants,
                      question.used.usage = Absent, SpelledOut(question),
                      question.kind \notin DeferredKinds
               PROVE  Agree(PlaybookVerdict(question), EngineVerdict(question))
    BY DEF EvaluatorsAgree, Agree
  <2>1. Comparable(question)
    BY QuestionsFit DEF Comparable
  <2>2. CASE ~ValidAddons(question.addons)
    BY <2>2 DEF PlaybookVerdict, EngineVerdict, Agree
  <2>3. CASE ValidAddons(question.addons)
    <3>1. CASE Nothing(Matches(question))
      BY <2>1, <2>3, <3>1, NothingMatches
    <3>2. CASE ~Nothing(Matches(question))
      BY <2>1, <2>3, <3>2, SumsAgree, PicksAgree DEF Agree
    <3> QED  BY <3>1, <3>2
  <2> QED  BY <2>2, <2>3
<1> QED  BY <1>1, <1>2, <1>3, PTL DEF AskSpec

=============================================================================
