------------------------ MODULE StaticResolverProofs ------------------------
(***************************************************************************)
(* Facts about the operators of StaticResolver, for Playbooks of any       *)
(* length, any slot and any user: the sort order is a strict total order,  *)
(* so that a nonempty set of candidates has one first.                     *)
(***************************************************************************)
EXTENDS StaticResolver, TLAPS, WellFoundedInduction, SequenceTheorems

----------------------------------------------------------------------------
(* The order of keys: integer tuples of one length                         *)

Keys(length) == [1 .. length -> Int]

\* A nonempty set of naturals has a least one.
LEMMA LeastNatural ==
  ASSUME NEW S \in SUBSET Nat, S # {}
  PROVE  \E n \in S : \A m \in S : n <= m
<1> DEFINE Less == OpToRel(<, Nat)
<1>1. IsWellFoundedOn(Less, Nat)
  BY NatLessThanWellFounded
<1>2. \A x, y \in Nat : y < x => <<y, x>> \in Less
  BY DEF OpToRel
<1> HIDE DEF Less
<1>3. PICK n \in S : \A m \in S : ~ (<<m, n>> \in Less)
  BY <1>1, WFMin
<1>4. ASSUME NEW m \in S  PROVE n <= m
  <2>1. m \in Nat /\ n \in Nat /\ ~ (m < n)
    BY <1>2, <1>3
  <2> QED  BY <2>1
<1> QED  BY <1>4

\* Two keys that differ have a first place where they do.
LEMMA FirstDifference ==
  ASSUME NEW length \in Nat, NEW a \in Keys(length), NEW b \in Keys(length), a # b
  PROVE  \E n \in 1 .. length : a[n] # b[n] /\ \A m \in 1 .. n - 1 : a[m] = b[m]
<1> DEFINE D == {n \in 1 .. length : a[n] # b[n]}
<1>1. D # {} /\ D \in SUBSET Nat
  BY DEF Keys
<1>2. PICK n \in D : \A m \in D : n <= m
  BY <1>1, LeastNatural
<1>3. ASSUME NEW m \in 1 .. n - 1
      PROVE  a[m] = b[m]
  <2>1. m \in 1 .. length /\ m < n
    BY <1>2
  <2> QED  BY <1>2, <2>1
<1> QED  BY <1>2, <1>3

\* Of two keys that differ, one comes before the other.
LEMMA BeforeIsTotal ==
  ASSUME NEW length \in Nat, NEW a \in Keys(length), NEW b \in Keys(length), a # b
  PROVE  Before(a, b) \/ Before(b, a)
<1>1. PICK n \in 1 .. length : a[n] # b[n] /\ \A m \in 1 .. n - 1 : a[m] = b[m]
  BY FirstDifference
<1>2. DOMAIN a = 1 .. length /\ DOMAIN b = 1 .. length /\ a[n] \in Int /\ b[n] \in Int
  BY DEF Keys
<1>3. CASE a[n] < b[n]
  BY <1>1, <1>2, <1>3 DEF Before
<1>4. CASE b[n] < a[n]
  BY <1>1, <1>2, <1>4 DEF Before
<1> QED  BY <1>1, <1>2, <1>3, <1>4

LEMMA BeforeIsTransitive ==
  ASSUME NEW length \in Nat, NEW a \in Keys(length), NEW b \in Keys(length),
         NEW c \in Keys(length), Before(a, b), Before(b, c)
  PROVE  Before(a, c)
<1>1. /\ DOMAIN a = 1 .. length /\ DOMAIN b = 1 .. length
      /\ \A n \in 1 .. length : a[n] \in Int /\ b[n] \in Int /\ c[n] \in Int
  BY DEF Keys
<1>2. PICK n \in 1 .. length : a[n] < b[n] /\ \A m \in 1 .. n - 1 : a[m] = b[m]
  BY <1>1 DEF Before
<1>3. PICK k \in 1 .. length : b[k] < c[k] /\ \A m \in 1 .. k - 1 : b[m] = c[m]
  BY <1>1 DEF Before
<1>4. CASE n <= k
  <2>1. \A m \in 1 .. n - 1 : a[m] = c[m]
    BY <1>2, <1>3, <1>4
  <2>2. a[n] < c[n]
    <3>1. CASE n = k
      BY <1>1, <1>2, <1>3, <3>1
    <3>2. CASE n < k
      <4>1. b[n] = c[n]
        BY <1>3, <3>2
      <4> QED  BY <1>2, <4>1
    <3> QED  BY <1>4, <3>1, <3>2
  <2> QED  BY <1>1, <2>1, <2>2 DEF Before
<1>5. CASE k < n
  <2>1. \A m \in 1 .. k - 1 : a[m] = c[m]
    BY <1>2, <1>3, <1>5
  <2>2. a[k] = b[k]
    BY <1>2, <1>5
  <2>3. a[k] < c[k]
    BY <1>3, <2>2
  <2> QED  BY <1>1, <2>1, <2>3 DEF Before
<1> QED  BY <1>4, <1>5

\* No two keys come before each other.
LEMMA BeforeIsAsymmetric ==
  ASSUME NEW length \in Nat, NEW a \in Keys(length), NEW b \in Keys(length),
         Before(a, b)
  PROVE  ~ Before(b, a)
<1> SUFFICES ASSUME Before(b, a)  PROVE FALSE
  OBVIOUS
<1>1. Before(a, a)
  BY BeforeIsTransitive
<1>2. DOMAIN a = 1 .. length /\ \A n \in 1 .. length : a[n] \in Int
  BY DEF Keys
<1> QED  BY <1>1, <1>2 DEF Before

\* Candidates of pairwise different keys, numbered as a Playbook numbers them, have
\* a first, and only one.
LEMMA FirstExists ==
  ASSUME NEW size \in Nat, NEW S \in SUBSET (1 .. size), S # {},
         NEW length \in Nat, NEW key,
         \A i \in S : key[i] \in Keys(length),
         \A i, j \in S : i # j => key[i] # key[j]
  PROVE  \E i \in S : \A j \in S \ {i} : Before(key[i], key[j])
<1> DEFINE HasFirst(X) == \E i \in X : \A j \in X \ {i} : Before(key[i], key[j])
           Bad == {n \in Nat : \E X \in SUBSET S : /\ X # {} /\ ~ HasFirst(X)
                                                   /\ X \subseteq 1 .. n}
<1>1. SUFFICES ASSUME ~ HasFirst(S)  PROVE FALSE
  OBVIOUS
<1>2. \A n : n \in Bad <=> /\ n \in Nat
                          /\ \E X \in SUBSET S : /\ X # {} /\ ~ HasFirst(X)
                                                 /\ X \subseteq 1 .. n
  OBVIOUS
<1> HIDE DEF HasFirst, Bad
<1>3. PICK n \in Bad : \A m \in Bad : n <= m
  <2>1. Bad \in SUBSET Nat /\ size \in Bad
    BY <1>1, <1>2
  <2> QED  BY <2>1, LeastNatural
<1>4. PICK X \in SUBSET S : X # {} /\ ~ HasFirst(X) /\ X \subseteq 1 .. n
  BY <1>2, <1>3
<1>5. n \in Nat /\ n # 0
  <2>1. n \in Nat
    BY <1>2, <1>3
  <2>2. 1 .. 0 = {}
    OBVIOUS
  <2>3. n # 0
    BY <1>4, <2>2
  <2> QED  BY <2>1, <2>3
<1>6. \A Y \in SUBSET S : Y # {} /\ Y \subseteq 1 .. n - 1 => HasFirst(Y)
  <2>1. n - 1 \in Nat /\ ~ (n <= n - 1)
    BY <1>5
  <2> QED  BY <1>2, <1>3, <2>1
<1>7. n \in X
  <2>1. SUFFICES ASSUME n \notin X  PROVE FALSE
    OBVIOUS
  <2>2. X \subseteq 1 .. n - 1
    BY <1>4, <1>5, <2>1
  <2> QED  BY <1>4, <1>6, <2>2
<1>8. X \ {n} \subseteq 1 .. n - 1
  BY <1>4, <1>5
<1>9. CASE X \ {n} = {}
  BY <1>4, <1>7, <1>9 DEF HasFirst
<1>10. CASE X \ {n} # {}
  <2>1. HasFirst(X \ {n})
    BY <1>4, <1>6, <1>8, <1>10
  <2>2. PICK i \in X \ {n} : \A j \in (X \ {n}) \ {i} : Before(key[i], key[j])
    BY <2>1 DEF HasFirst
  <2>3. CASE Before(key[i], key[n])
    BY <1>4, <2>2, <2>3 DEF HasFirst
  <2>4. CASE Before(key[n], key[i])
    <3>1. ASSUME NEW j \in X \ {n}
          PROVE  Before(key[n], key[j])
      <4>1. key[n] \in Keys(length) /\ key[i] \in Keys(length) /\ key[j] \in Keys(length)
        BY <1>4, <1>7
      <4>2. CASE j = i
        BY <2>4, <4>2
      <4>3. CASE j # i
        <5>1. Before(key[i], key[j])
          BY <2>2, <4>3
        <5> QED  BY <2>4, <4>1, <5>1, BeforeIsTransitive
      <4> QED  BY <4>2, <4>3
    <3> QED  BY <1>4, <1>7, <3>1 DEF HasFirst
  <2>5. Before(key[i], key[n]) \/ Before(key[n], key[i])
    <3>1. key[n] \in Keys(length) /\ key[i] \in Keys(length) /\ key[i] # key[n]
      BY <1>4, <1>7
    <3> QED  BY <3>1, BeforeIsTotal
  <2> QED  BY <2>3, <2>4, <2>5
<1> QED  BY <1>9, <1>10

\* Keys that differ before their last place are ordered by their fronts: keys with
\* the same fronts cannot be ordered the other way.
LEMMA FrontDecides ==
  ASSUME NEW length \in Nat,
         NEW a \in Keys(length + 1), NEW b \in Keys(length + 1),
         NEW c \in Keys(length + 1), NEW d \in Keys(length + 1),
         \A n \in 1 .. length : a[n] = c[n] /\ b[n] = d[n],
         \E n \in 1 .. length : a[n] # b[n],
         Before(a, b)
  PROVE  ~ Before(d, c)
<1> SUFFICES ASSUME Before(d, c) PROVE FALSE
  OBVIOUS
<1>1. /\ DOMAIN a = 1 .. length + 1 /\ DOMAIN d = 1 .. length + 1
      /\ \A n \in 1 .. length + 1 : a[n] \in Int /\ b[n] \in Int /\ c[n] \in Int /\ d[n] \in Int
  BY DEF Keys
<1>2. PICK n \in 1 .. length + 1 : a[n] < b[n] /\ \A m \in 1 .. n - 1 : a[m] = b[m]
  BY <1>1 DEF Before
<1>3. PICK k \in 1 .. length + 1 : d[k] < c[k] /\ \A m \in 1 .. k - 1 : d[m] = c[m]
  BY <1>1 DEF Before
<1>4. n \in 1 .. length
  <2>1. CASE n = length + 1
    <3>1. n - 1 = length
      BY <2>1
    <3> QED  BY <1>2, <3>1
  <2> QED  BY <2>1
<1>5. k \in 1 .. length
  <2>1. CASE k = length + 1
    <3>1. k - 1 = length
      BY <2>1
    <3>2. \A m \in 1 .. length : a[m] = b[m]
      BY <1>3, <3>1
    <3> QED  BY <3>2
  <2> QED  BY <2>1
<1>6. CASE n < k
  <2>1. n \in 1 .. k - 1
    BY <1>6
  <2>2. a[n] = b[n]
    BY <1>3, <1>4, <2>1
  <2> QED  BY <1>1, <1>2, <2>2
<1>7. CASE k < n
  <2>1. k \in 1 .. n - 1
    BY <1>7
  <2>2. d[k] = c[k]
    BY <1>2, <1>5, <2>1
  <2> QED  BY <1>1, <1>3, <2>2
<1>8. CASE n = k
  <2>1. a[n] < b[n] /\ b[n] < a[n] /\ a[n] \in Int /\ b[n] \in Int
    BY <1>1, <1>2, <1>3, <1>4, <1>8
  <2> QED  BY <2>1
<1> QED  BY <1>6, <1>7, <1>8

\* Rows under other numbers, with the same fronts: w is first of the keys of S, and
\* v of the others.
SameFronts(D, r, S, length, key, other, w, v) ==
  /\ r \in [D -> D] /\ \A x \in D : \E i \in D : r[i] = x
  /\ S \subseteq D /\ w \in S /\ v \in D /\ r[v] \in S
  /\ \A i \in S : key[i] \in Keys(length + 1)
  /\ \A i \in D : r[i] \in S =>
       /\ other[i] \in Keys(length + 1)
       /\ \A n \in 1 .. length : other[i][n] = key[r[i]][n]
  /\ \A i, j \in S : i # j => \E n \in 1 .. length : key[i][n] # key[j][n]
  /\ \A j \in S \ {w} : Before(key[w], key[j])
  /\ \A j \in D \ {v} : r[j] \in S => Before(other[v], other[j])

\* They have the same first.
LEMMA SameFirst ==
  ASSUME NEW D, NEW r, NEW S, NEW length \in Nat, NEW key, NEW other, NEW w, NEW v,
         SameFronts(D, r, S, length, key, other, w, v)
  PROVE  r[v] = w
<1> SUFFICES ASSUME r[v] # w PROVE FALSE
  OBVIOUS
<1>1. PICK i \in D : r[i] = w
  BY DEF SameFronts
<1>2. Before(key[w], key[r[v]])
  BY DEF SameFronts
<1>3. Before(other[v], other[i])
  BY <1>1 DEF SameFronts
<1>4. \E n \in 1 .. length : key[w][n] # key[r[v]][n]
  BY DEF SameFronts
<1>5. /\ key[w] \in Keys(length + 1) /\ key[r[v]] \in Keys(length + 1)
      /\ other[i] \in Keys(length + 1) /\ other[v] \in Keys(length + 1)
      /\ \A n \in 1 .. length : key[w][n] = other[i][n] /\ key[r[v]][n] = other[v][n]
  BY <1>1 DEF SameFronts
<1> QED  BY <1>2, <1>3, <1>4, <1>5, FrontDecides

----------------------------------------------------------------------------
(* The keys candidates are ranked by                                                   *)

\* A candidate that is for one of a slot's templates.
Gathered(playbook, slot, i) ==
  /\ i \in DOMAIN playbook
  /\ SlotFits(slot)
  /\ \E n \in DOMAIN slot.templates : slot.templates[n] = playbook[i].template

LEMMA PositionIsKey ==
  ASSUME NEW playbook, NEW person, WellFormed(playbook, person), NEW slot, NEW i,
         Gathered(playbook, slot, i)
  PROVE  /\ Position(playbook, slot, i) \in Seq(Int)
         /\ Len(Position(playbook, slot, i)) = 4
         /\ Position(playbook, slot, i)[4] = i
<1> DEFINE t == TemplatePlace(playbook[i].template, slot)
<1>1. t \in DOMAIN slot.templates
  BY DEF TemplatePlace, Gathered
<1>2. t \in Int /\ i \in Int
  BY <1>1 DEF Gathered, SlotFits, WellFormed, IsList
<1>3. Position(playbook, slot, i) = <<playbook[i].order, playbook[i].payload, t, i>>
  BY DEF Position
<1> HIDE DEF t
<1> QED  BY <1>2, <1>3 DEF WellFormed, IsList, Gathered

LEMMA UrgencyIsPair ==
  ASSUME NEW playbook, NEW person, WellFormed(playbook, person), NEW i \in DOMAIN playbook
  PROVE  /\ Urgency(playbook[i], person)[1] \in Int
         /\ Urgency(playbook[i], person)[2] \in Int
<1>1. ElapsedPercent(person) \in Int
  BY DEF ElapsedPercent, WellFormed, None
<1>2. Consumed(playbook[i], person) \in Int
  BY DEF Consumed, WellFormed
<1> QED  BY <1>1, <1>2 DEF Urgency

\* Two parts of a key make one key.
LEMMA JoinedKey ==
  ASSUME NEW m \in Nat, NEW n \in Nat, n > 0,
         NEW s \in Seq(Int), Len(s) = m, NEW t \in Seq(Int), Len(t) = n
  PROVE  /\ s \o t \in Keys(m + n)
         /\ (s \o t)[m + n] = t[n]
<1>1. /\ s \o t \in Seq(Int) /\ Len(s \o t) = Len(s) + Len(t)
      /\ \A k \in 1 .. Len(s) + Len(t) :
           (s \o t)[k] = IF k <= Len(s) THEN s[k] ELSE t[k - Len(s)]
  BY ConcatProperties, Zenon
<1> DEFINE j == s \o t
<1>2. j \in Seq(Int) /\ Len(j) = m + n
  BY <1>1
<1>3. j[m + n] = t[n]
  <2>1. m + n \in 1 .. Len(s) + Len(t) /\ ~ (m + n <= Len(s)) /\ (m + n) - Len(s) = n
    OBVIOUS
  <2> QED  BY <1>1, <2>1
<1> HIDE DEF j
<1>4. j \in Keys(m + n)
  BY <1>2 DEF Keys
<1> QED  BY <1>3, <1>4 DEF j

LEMMA RankKeyIsKey ==
  ASSUME NEW playbook, NEW person, WellFormed(playbook, person), NEW slot, NEW i,
         Gathered(playbook, slot, i)
  PROVE  /\ RankKey(playbook, slot, person, i) \in Keys(10)
         /\ RankKey(playbook, slot, person, i)[10] = i
<1> DEFINE c == playbook[i]
           u == Urgency(c, person)
           s == <<Bucket(c.category), u[1], -u[2], c.order, SharedRank(c.category), c.payload>>
           t == Position(playbook, slot, i)
<1>1. u[1] \in Int /\ u[2] \in Int
  BY UrgencyIsPair DEF Gathered
<1>2. Bucket(c.category) \in Int /\ SharedRank(c.category) \in Int
  BY DEF Bucket, SharedRank
<1>3. s \in Seq(Int) /\ Len(s) = 6
  <2> HIDE DEF u
  <2> QED  BY <1>1, <1>2 DEF WellFormed, IsList, Gathered
<1>4. t \in Seq(Int) /\ Len(t) = 4 /\ t[4] = i
  BY PositionIsKey
<1>5. RankKey(playbook, slot, person, i) = s \o t
  BY DEF RankKey
<1> HIDE DEF s, t
<1>6. s \o t \in Keys(6 + 4) /\ (s \o t)[6 + 4] = t[4]
  <2>1. 6 \in Nat /\ 4 \in Nat /\ 4 > 0
    OBVIOUS
  <2> QED  BY <1>3, <1>4, <2>1, JoinedKey, Zenon
<1>7. 6 + 4 = 10
  OBVIOUS
<1> QED  BY <1>4, <1>5, <1>6, <1>7

\* All of it but the last place depends on the candidate alone, not on its row.
RowKey(c, slot, person) ==
  LET u == Urgency(c, person)
  IN <<Bucket(c.category), u[1], -u[2], c.order, SharedRank(c.category), c.payload,
       c.order, c.payload, TemplatePlace(c.template, slot)>>

LEMMA RankKeyFront ==
  ASSUME NEW playbook, NEW person, WellFormed(playbook, person), NEW slot, NEW i,
         Gathered(playbook, slot, i)
  PROVE  \A n \in 1 .. 9 :
           RankKey(playbook, slot, person, i)[n] = RowKey(playbook[i], slot, person)[n]
<1> DEFINE c == playbook[i]
           u == Urgency(c, person)
           t == TemplatePlace(c.template, slot)
           front == <<Bucket(c.category), u[1], -u[2], c.order, SharedRank(c.category), c.payload>>
           back  == <<c.order, c.payload, t, i>>
<1>1. RankKey(playbook, slot, person, i) = front \o back
  BY DEF RankKey, Position
<1>2. RowKey(playbook[i], slot, person) =
        <<Bucket(c.category), u[1], -u[2], c.order, SharedRank(c.category), c.payload,
          c.order, c.payload, t>>
  BY DEF RowKey
<1> HIDE DEF u, t
<1> QED  BY <1>1, <1>2

LEMMA BucketIsNumber == \A category : Bucket(category) \in Int
  BY DEF Bucket

\* The candidate a slot's ranking serves is one of those ranked, and no other comes
\* before it.
LEMMA RankedFirst ==
  ASSUME NEW playbook, NEW person, WellFormed(playbook, person), NEW slot, NEW S, S # {},
         \A i \in S : Gathered(playbook, slot, i)
  PROVE  LET Key(i) == RankKey(playbook, slot, person, i)
         IN  /\ FirstBy(Key, S) \in S
             /\ \A j \in S \ {FirstBy(Key, S)} : Before(Key(FirstBy(Key, S)), Key(j))
<1> DEFINE key == [i \in S |-> RankKey(playbook, slot, person, i)]
<1>1. PICK size \in Nat : S \in SUBSET (1 .. size)
  BY DEF WellFormed, IsList, Gathered
<1>2. \A i \in S : key[i] \in Keys(10) /\ key[i][10] = i
  BY RankKeyIsKey
<1>3. \A i, j \in S : i # j => key[i] # key[j]
  BY <1>2
<1>4. \A i \in S : key[i] = RankKey(playbook, slot, person, i)
  OBVIOUS
<1> HIDE DEF key
<1>5. \E i \in S : \A j \in S \ {i} : Before(key[i], key[j])
  BY <1>1, <1>2, <1>3, FirstExists
<1>6. \E i \in S : \A j \in S \ {i} :
         Before(RankKey(playbook, slot, person, i), RankKey(playbook, slot, person, j))
  BY <1>4, <1>5
<1> QED  BY <1>6 DEF FirstBy

\* So does the milestone that supersedes the others.
MilestoneKeyOf(playbook, slot, i) ==
  <<-playbook[i].trial.at>> \o Position(playbook, slot, i)

LEMMA MilestoneKey ==
  ASSUME NEW playbook, NEW person, WellFormed(playbook, person), NEW slot, NEW i,
         Gathered(playbook, slot, i)
  PROVE  LET key == MilestoneKeyOf(playbook, slot, i)
         IN key \in Keys(5) /\ key[5] = i
<1> DEFINE s == <<-playbook[i].trial.at>>
           t == Position(playbook, slot, i)
<1>1. s \in Seq(Int) /\ Len(s) = 1
  BY DEF WellFormed, Gathered
<1>2. t \in Seq(Int) /\ Len(t) = 4 /\ t[4] = i
  BY PositionIsKey
<1> HIDE DEF s, t
<1>3. s \o t \in Keys(1 + 4) /\ (s \o t)[1 + 4] = t[4]
  <2>1. 1 \in Nat /\ 4 \in Nat /\ 4 > 0
    OBVIOUS
  <2> QED  BY <1>1, <1>2, <2>1, JoinedKey, Zenon
<1>4. 1 + 4 = 5
  OBVIOUS
<1> QED  BY <1>2, <1>3, <1>4 DEF s, t, MilestoneKeyOf

MilestoneRow(c, slot) ==
  <<-c.trial.at, c.order, c.payload, TemplatePlace(c.template, slot)>>

LEMMA MilestoneFront ==
  ASSUME NEW playbook, NEW person, WellFormed(playbook, person), NEW slot, NEW i,
         Gathered(playbook, slot, i)
  PROVE  LET key == MilestoneKeyOf(playbook, slot, i)
         IN \A n \in 1 .. 4 : key[n] = MilestoneRow(playbook[i], slot)[n]
<1> DEFINE c == playbook[i]
           t == TemplatePlace(c.template, slot)
           front == <<-c.trial.at>>
           back  == <<c.order, c.payload, t, i>>
<1>1. Position(playbook, slot, i) = back
  BY DEF Position
<1>2. MilestoneRow(c, slot) = <<-c.trial.at, c.order, c.payload, t>>
  BY DEF MilestoneRow
<1> HIDE DEF t
<1>3. \A n \in 1 .. 4 : (front \o back)[n] = <<-c.trial.at, c.order, c.payload, t>>[n]
  OBVIOUS
<1> QED  BY <1>1, <1>2, <1>3 DEF MilestoneKeyOf

LEMMA MilestoneFirst ==
  ASSUME NEW playbook, NEW person, WellFormed(playbook, person), NEW slot, NEW S, S # {},
         \A i \in S : Gathered(playbook, slot, i)
  PROVE  LET w == MilestoneWinner(playbook, slot, S)
             Key(i) == MilestoneKeyOf(playbook, slot, i)
         IN w \in S /\ \A j \in S \ {w} : Before(Key(w), Key(j))
<1> DEFINE Key(i) == MilestoneKeyOf(playbook, slot, i)
           key == [i \in S |-> Key(i)]
<1>1. PICK size \in Nat : S \in SUBSET (1 .. size)
  BY DEF WellFormed, IsList, Gathered
<1>2. \A i \in S : key[i] \in Keys(5) /\ key[i][5] = i
  BY MilestoneKey
<1>3. \A i, j \in S : i # j => key[i] # key[j]
  BY <1>2
<1>4. \A i \in S : key[i] = Key(i)
  OBVIOUS
<1> HIDE DEF key
<1>5. \E i \in S : \A j \in S \ {i} : Before(key[i], key[j])
  BY <1>1, <1>2, <1>3, FirstExists
<1>6. \E i \in S : \A j \in S \ {i} : Before(Key(i), Key(j))
  BY <1>4, <1>5
<1> QED  BY <1>6 DEF MilestoneWinner, FirstBy, MilestoneKeyOf

----------------------------------------------------------------------------
(* What a request is served                                                *)

\* The candidates of a slot, stage by stage.
Taken(playbook, slot, person) ==
  ForSlot(playbook, slot, person,
          ForEntitlement(playbook, slot, ForTemplates(playbook, slot)))
Opened(playbook, slot, person, hidden) ==
  {i \in Taken(playbook, slot, person) \ hidden : Open(playbook[i], person)}
Standing(playbook, slot, person, hidden) ==
  TrialSuperseded(playbook, slot, person, Opened(playbook, slot, person, hidden))
Eligible(playbook, slot, person, hidden) ==
  {i \in Standing(playbook, slot, person, hidden) : Targeted(playbook[i])}
Ranked(playbook, slot, person, hidden) ==
  UsageSuperseded(playbook, Eligible(playbook, slot, person, hidden))

\* Every stage only leaves candidates out.
LEMMA TakenFrom ==
  ASSUME NEW playbook, NEW slot, NEW person, NEW i \in Taken(playbook, slot, person)
  PROVE  /\ i \in DOMAIN playbook
         /\ \E n \in DOMAIN slot.templates : slot.templates[n] = playbook[i].template
         /\ slot.handle # "none" => playbook[i].handle = slot.handle
         /\ GateRefusal(playbook[i], slot, person, TRUE) = "none"
         /\ slot.fixedOnly => playbook[i].category = "fixed"
         /\ slot.category = "triggered" => Bucket(playbook[i].category) \in {2, 4}
<1> DEFINE S == ForEntitlement(playbook, slot, ForTemplates(playbook, slot))
           hinted  == IF slot.id = "none" THEN S
                      ELSE Narrow(S, {j \in S : playbook[j].slot = slot.id})
           allowed == {j \in hinted : GateRefusal(playbook[j], slot, person, TRUE) = "none"}
           fixed   == IF ~slot.fixedOnly THEN allowed
                      ELSE {j \in allowed : playbook[j].category = "fixed"}
<1>1. Taken(playbook, slot, person) =
        CASE slot.category = "triggered" ->
               {j \in fixed : Bucket(playbook[j].category) \in {2, 4}}
          [] slot.category = "gated" ->
               Narrow(fixed, {j \in fixed : playbook[j].category = "gated"})
          [] OTHER -> fixed
  BY DEF Taken, ForSlot
<1>2. hinted \subseteq S
  BY DEF Narrow
<1> HIDE DEF S, hinted
<1>3. /\ i \in fixed
      /\ slot.category = "triggered" => Bucket(playbook[i].category) \in {2, 4}
  <2> HIDE DEF fixed
  <2> QED  BY <1>1 DEF Narrow
<1>4. /\ i \in hinted /\ GateRefusal(playbook[i], slot, person, TRUE) = "none"
      /\ slot.fixedOnly => playbook[i].category = "fixed"
  BY <1>3
<1>5. i \in ForTemplates(playbook, slot) /\ (slot.handle # "none" => playbook[i].handle = slot.handle)
  BY <1>2, <1>4 DEF S, ForEntitlement
<1> QED  BY <1>3, <1>4, <1>5 DEF ForTemplates

LEMMA RankedFrom ==
  ASSUME NEW playbook, NEW slot, NEW person, NEW hidden,
         NEW i \in Ranked(playbook, slot, person, hidden)
  PROVE  /\ i \in Eligible(playbook, slot, person, hidden)
         /\ i \in Standing(playbook, slot, person, hidden)
         /\ i \in Opened(playbook, slot, person, hidden)
         /\ i \in Taken(playbook, slot, person)
         /\ i \notin hidden
         /\ Open(playbook[i], person) /\ Targeted(playbook[i])
<1>1. i \in Eligible(playbook, slot, person, hidden)
  BY DEF Ranked, UsageSuperseded
<1>2. i \in Standing(playbook, slot, person, hidden) /\ Targeted(playbook[i])
  BY <1>1 DEF Eligible
<1>3. i \in Opened(playbook, slot, person, hidden)
  BY <1>2 DEF Standing, TrialSuperseded
<1> QED  BY <1>1, <1>2, <1>3 DEF Opened

\* A slot is served the first of those ranked, and nothing if there are none.
LEMMA SlotIsServed ==
  ASSUME NEW playbook, NEW slot, NEW person, NEW hidden,
         WellFormed(playbook, person), SlotFits(slot)
  PROVE  LET answer == ResolveSlot(playbook, slot, person, hidden)
             R      == Ranked(playbook, slot, person, hidden)
         IN  /\ answer.candidate = 0 <=> R = {}
             /\ answer.candidate # 0 =>
                  /\ answer.candidate \in R
                  /\ \A j \in R \ {answer.candidate} :
                       Before(RankKey(playbook, slot, person, answer.candidate),
                              RankKey(playbook, slot, person, j))
<1> DEFINE R == Ranked(playbook, slot, person, hidden)
           Key(i) == RankKey(playbook, slot, person, i)
           answer == ResolveSlot(playbook, slot, person, hidden)
<1>0. ASSUME NEW i \in R
      PROVE  /\ i \in DOMAIN playbook
             /\ \E n \in DOMAIN slot.templates : slot.templates[n] = playbook[i].template
             /\ slot.handle # "none" => playbook[i].handle = slot.handle
  <2>1. i \in Taken(playbook, slot, person)
    BY RankedFrom
  <2>2. /\ i \in DOMAIN playbook
        /\ \E n \in DOMAIN slot.templates : slot.templates[n] = playbook[i].template
        /\ slot.handle # "none" => playbook[i].handle = slot.handle
        /\ GateRefusal(playbook[i], slot, person, TRUE) = "none"
        /\ slot.fixedOnly => playbook[i].category = "fixed"
        /\ slot.category = "triggered" => Bucket(playbook[i].category) \in {2, 4}
    BY <2>1, TakenFrom, Zenon
  <2> QED  BY <2>2
<1>1. \A i \in R : Gathered(playbook, slot, i)
  <2> HIDE DEF R, answer
  <2> QED  BY <1>0 DEF Gathered
<1>2. R # {} => /\ ForTemplates(playbook, slot) # {}
                /\ ForEntitlement(playbook, slot, ForTemplates(playbook, slot)) # {}
  <2> HIDE DEF R, answer
  <2> QED  BY <1>0 DEF ForTemplates, ForEntitlement
<1>3. R # {} => answer = Served(FirstBy(Key, R))
  BY <1>2 DEF ResolveSlot, Ranked, Eligible, Standing, Opened, Taken
<1>4. R = {} => answer.candidate = 0
  BY DEF ResolveSlot, Ranked, Eligible, Standing, Opened, Taken, Refused
<1> HIDE DEF R, answer
<1>5. R # {} => /\ FirstBy(Key, R) \in R
                /\ \A j \in R \ {FirstBy(Key, R)} : Before(Key(FirstBy(Key, R)), Key(j))
  BY <1>1, RankedFirst
<1>6. 0 \notin R
  BY <1>1 DEF Gathered, SlotFits, WellFormed, IsList
<1>7. R # {} => answer.candidate = FirstBy(Key, R)
  BY <1>3 DEF Served
<1> QED  BY <1>4, <1>5, <1>6, <1>7 DEF R, answer

\* A lookup by name is served the first servable payload.
LEMMA NameIsServed ==
  ASSUME NEW playbook, NEW slot, NEW person, NEW hidden, WellFormed(playbook, person)
  PROVE  LET answer == ResolveName(playbook, slot, person, hidden)
             V      == ServableByName(playbook, slot, person, hidden)
         IN  /\ answer.candidate = 0 <=> V = {}
             /\ answer.candidate # 0 =>
                  answer.candidate \in V /\ \A j \in V : answer.candidate <= j
<1> DEFINE V == ServableByName(playbook, slot, person, hidden)
           answer == ResolveName(playbook, slot, person, hidden)
<1>1. V \subseteq Named(playbook, slot)
  BY DEF ServableByName
<1>2. V \in SUBSET Nat /\ 0 \notin V
  BY <1>1 DEF Named, WellFormed, IsList
<1>3. V # {} => answer = Served(FirstOf(V))
  BY <1>1 DEF ResolveName
<1>4. V = {} => answer.candidate = 0
  BY DEF ResolveName, Refused
<1> HIDE DEF V, answer
<1>5. V # {} => FirstOf(V) \in V /\ \A j \in V : FirstOf(V) <= j
  BY <1>2, LeastNatural DEF FirstOf
<1> QED  BY <1>2, <1>3, <1>4, <1>5 DEF Served, V, answer

\* What is served is a candidate of the Playbook that is not hidden, whose trigger
\* is met and whose targets are the user's.
LEMMA ServedIsFit ==
  ASSUME NEW playbook, NEW slot, NEW person, NEW hidden,
         WellFormed(playbook, person), SlotFits(slot)
  PROVE  LET i == Resolve(playbook, slot, person, hidden).candidate
         IN  i # 0 => /\ i \in DOMAIN playbook \ hidden
                      /\ Open(playbook[i], person) /\ Targeted(playbook[i])
<1> DEFINE i == Resolve(playbook, slot, person, hidden).candidate
<1> SUFFICES ASSUME i # 0
             PROVE  /\ i \in DOMAIN playbook \ hidden
                    /\ Open(playbook[i], person) /\ Targeted(playbook[i])
  OBVIOUS
<1>1. CASE slot.templates = <<>>
  <2>1. i = ResolveName(playbook, slot, person, hidden).candidate
    BY <1>1 DEF Resolve
  <2> HIDE DEF i
  <2>2. i \in ServableByName(playbook, slot, person, hidden)
    BY <2>1, NameIsServed
  <2>3. i \in DOMAIN playbook /\ Refusal(playbook, slot, person, hidden, i) = "none"
    BY <2>2 DEF ServableByName, Named
  <2> QED  BY <2>3 DEF Refusal, Open, Targeted
<1>2. CASE slot.templates # <<>>
  <2>1. i = ResolveSlot(playbook, slot, person, hidden).candidate
    BY <1>2 DEF Resolve
  <2> HIDE DEF i
  <2>2. i \in Ranked(playbook, slot, person, hidden)
    BY <2>1, SlotIsServed
  <2> QED  BY <2>2, RankedFrom, TakenFrom
<1> QED  BY <1>1, <1>2

=============================================================================
