----------------------- MODULE ImpressionHistoryProofs -----------------------
(***************************************************************************)
(* Proofs about ImpressionHistory: for any users, placements, durations,   *)
(* old windows and bounds.                                                 *)
(***************************************************************************)
EXTENDS ImpressionHistory, TLAPS, WellFoundedInduction

----------------------------------------------------------------------------
(* The newest record                                                       *)

\* A set of indices has a greatest one.
LEMMA Greatest ==
  ASSUME NEW n \in Nat, NEW S \in SUBSET (1 .. n), S # {}
  PROVE  \E i \in S : \A j \in S : j <= i
<1> DEFINE T == {n - j : j \in S}
           Less == OpToRel(<, Nat)
<1>1. T \in SUBSET Nat /\ T # {}
  <2>1. ASSUME NEW j \in S
        PROVE  n - j \in Nat
    OBVIOUS
  <2>2. T # {}
    OBVIOUS
  <2> QED  BY <2>1, <2>2
<1>2. IsWellFoundedOn(Less, Nat)
  BY NatLessThanWellFounded
<1>3. \A x, y \in Nat : y < x => <<y, x>> \in Less
  BY DEF OpToRel
<1> HIDE DEF Less
<1>4. PICK x \in T : \A y \in T : ~ (<<y, x>> \in Less)
  BY <1>1, <1>2, WFMin
<1>5. PICK i \in S : x = n - i
  BY <1>4
<1>6. ASSUME NEW j \in S, j > i
      PROVE  FALSE
  <2>1. n - j \in T /\ n - j \in Nat /\ x \in Nat /\ n - j < x
    BY <1>5, <1>6
  <2> QED  BY <1>3, <1>4, <2>1
<1> QED  BY <1>6

\* The window of placement p's newest record with one of these outcomes that
\* ends after the given time, in the history h.
Of(h, p, outcomes, after) ==
  {i \in DOMAIN h : h[i].placement = p /\ h[i].outcome \in outcomes /\ h[i].until > after}
Any(h, p, outcomes) ==
  {i \in DOMAIN h : h[i].placement = p /\ h[i].outcome \in outcomes}
Newest(h, S) == IF S = {} THEN None ELSE h[CHOOSE i \in S : \A j \in S : j <= i].until

\* The newest of several records is one of them, and no other comes after it.
LEMMA NewestIsThere ==
  ASSUME NEW h \in Seq(Records), NEW S \in SUBSET DOMAIN h, S # {}
  PROVE  \E i \in S : (\A j \in S : j <= i) /\ Newest(h, S) = h[i].until
<1> DEFINE i == CHOOSE i \in S : \A j \in S : j <= i
<1>1. S \in SUBSET (1 .. Len(h)) /\ Len(h) \in Nat
  OBVIOUS
<1>2. i \in S /\ \A j \in S : j <= i
  BY <1>1, Greatest
<1> QED  BY <1>2 DEF Newest

\* It is the only one that none comes after.
LEMMA NewestIs ==
  ASSUME NEW h \in Seq(Records), NEW S \in SUBSET DOMAIN h, NEW i \in S,
         \A j \in S : j <= i
  PROVE  Newest(h, S) = h[i].until
<1>1. PICK k \in S : (\A j \in S : j <= k) /\ Newest(h, S) = h[k].until
  BY NewestIsThere
<1>2. i = k
  BY <1>1
<1> QED  BY <1>1, <1>2

\* A later record is the newest of its placement, and of no other.
LEMMA NewestAfter ==
  ASSUME NEW h \in Seq(Records), NEW r \in Records, NEW p, NEW outcomes
  PROVE  /\ r.placement = p /\ r.outcome \in outcomes =>
              Newest(Append(h, r), Any(Append(h, r), p, outcomes)) = r.until
         /\ ~(r.placement = p /\ r.outcome \in outcomes) =>
              Newest(Append(h, r), Any(Append(h, r), p, outcomes))
                = Newest(h, Any(h, p, outcomes))
<1> DEFINE g == Append(h, r)
<1>1. /\ g \in Seq(Records) /\ Len(h) \in Nat
      /\ DOMAIN h = 1 .. Len(h) /\ DOMAIN g = 1 .. Len(h) + 1
      /\ \A i \in 1 .. Len(h) : g[i] = h[i]
      /\ g[Len(h) + 1] = r
  OBVIOUS
<1> HIDE DEF g
<1>2. CASE r.placement = p /\ r.outcome \in outcomes
  <2>1. /\ Any(g, p, outcomes) \in SUBSET DOMAIN g
        /\ Len(h) + 1 \in Any(g, p, outcomes)
        /\ \A j \in Any(g, p, outcomes) : j <= Len(h) + 1
    BY <1>1, <1>2 DEF Any
  <2>2. Newest(g, Any(g, p, outcomes)) = g[Len(h) + 1].until
    BY <1>1, <2>1, NewestIs
  <2> QED  BY <1>1, <1>2, <2>2 DEF g
<1>3. CASE ~(r.placement = p /\ r.outcome \in outcomes)
  <2>1. Any(g, p, outcomes) = Any(h, p, outcomes)
    BY <1>1, <1>3 DEF Any
  <2>2. CASE Any(h, p, outcomes) = {}
    BY <1>3, <2>1, <2>2 DEF Newest, g
  <2>3. CASE Any(h, p, outcomes) # {}
    <3>1. Any(h, p, outcomes) \in SUBSET DOMAIN h
      BY DEF Any
    <3>2. PICK i \in Any(h, p, outcomes) :
             /\ \A j \in Any(h, p, outcomes) : j <= i
             /\ Newest(h, Any(h, p, outcomes)) = h[i].until
      BY <2>3, <3>1, NewestIsThere
    <3>3. Newest(g, Any(h, p, outcomes)) = g[i].until
      BY <1>1, <3>1, <3>2, NewestIs
    <3> QED  BY <1>1, <1>3, <2>1, <3>1, <3>2, <3>3 DEF g
  <2> QED  BY <2>2, <2>3
<1> QED  BY <1>2, <1>3

\* What the two operators of the module compute.
LEMMA NewestRead ==
  ASSUME NEW p, NEW outcomes
  PROVE  /\ NewestWindow(p, outcomes)
              = Newest(records[user], Any(records[user], p, outcomes))
         /\ NewestOf(Running(p, outcomes))
              = Newest(records[user], Of(records[user], p, outcomes, now))
<1>1. NewestWindow(p, outcomes) = Newest(records[user], Any(records[user], p, outcomes))
  BY DEF NewestWindow, NewestOf, Newest, Any
<1>2. Running(p, outcomes) = Of(records[user], p, outcomes, now)
  BY DEF Running, Of
<1>3. NewestOf(Running(p, outcomes))
        = Newest(records[user], Of(records[user], p, outcomes, now))
  BY <1>2 DEF NewestOf, Newest
<1> QED  BY <1>1, <1>3

----------------------------------------------------------------------------
(* The invariant                                                           *)

\* An impression opens no window.
PlainImpressions ==
  \A u \in Users : \A i \in DOMAIN records[u] :
    records[u][i].outcome = "impressed" => records[u][i].until = None

Typed == TypeOK /\ PlainImpressions

\* A map over placements is not the map that is not there, if there is a placement.
LEMMA Warmed ==
  ASSUME NEW f \in [Placements -> Nat], NEW p \in Placements
  PROVE  f # Cold
<1>1. DOMAIN f # {}
  OBVIOUS
<1>2. DOMAIN Cold = {}
  BY DEF Cold
<1> QED  BY <1>1, <1>2

\* The caches hold ends of windows.
LEMMA CacheTypes ==
  ASSUME TypeOK
  PROVE  /\ Nothing \in [Placements -> Nat] /\ Warm \in [Placements -> Nat]
         /\ \A p \in Placements : explicitCache[p] \in Nat
         /\ \A p \in Placements : suppressedCache # Cold => suppressedCache[p] \in Nat
<1>1. Nothing \in [Placements -> Nat]
  BY DEF Nothing, None
<1>2. Warm \in [Placements -> Nat]
  BY <1>1 DEF Warm, TypeOK
<1> QED  BY <1>1, <1>2 DEF TypeOK

\* The window hydrate reads of a placement is one of the history, still running,
\* if it reads any.
LEMMA HydrateReads ==
  ASSUME Typed, NEW p \in Placements, NEW outcomes
  PROVE  LET S == Of(records[user], p, outcomes, now) IN
         /\ NewestOf(Running(p, outcomes)) \in Nat
         /\ S = {} => NewestOf(Running(p, outcomes)) = None
         /\ S # {} => \E i \in S : /\ \A j \in S : j <= i
                                   /\ NewestOf(Running(p, outcomes)) = records[user][i].until
<1> DEFINE h == records[user]
           S == Of(h, p, outcomes, now)
<1>1. h \in Seq(Records) /\ S \in SUBSET DOMAIN h
  BY DEF Typed, TypeOK, Of
<1>2. NewestOf(Running(p, outcomes)) = Newest(h, S)
  BY NewestRead
<1>3. CASE S = {}
  BY <1>2, <1>3 DEF Newest, None
<1>4. CASE S # {}
  <2>1. PICK i \in S : (\A j \in S : j <= i) /\ Newest(h, S) = h[i].until
    BY <1>1, <1>4, NewestIsThere
  <2>2. h[i].until \in Nat
    <3> HIDE DEF h, S
    <3>1. h[i] \in Records
      BY <1>1
    <3> QED  BY <3>1 DEF Records
  <2>3. NewestOf(Running(p, outcomes)) = h[i].until
    BY <1>2, <2>1
  <2> QED  BY <1>4, <2>1, <2>2, <2>3
<1> QED  BY <1>3, <1>4

\* Every record appended is one a history may hold.
LEMMA RecordsGrow ==
  ASSUME Typed, NEW p \in Placements, NEW outcome \in Outcomes, NEW until \in Nat,
         outcome = "impressed" => until = None, Append1(p, outcome, until)
  PROVE  /\ records' \in [Users -> Seq(Records)]
         /\ PlainImpressions'
         /\ records'[user] = Append(records[user],
              [placement |-> p, outcome |-> outcome, until |-> until])
<1> DEFINE r == [placement |-> p, outcome |-> outcome, until |-> until]
<1>1. r \in Records
  BY DEF Records
<1>2. records \in [Users -> Seq(Records)] /\ user \in Users
  BY DEF Typed, TypeOK
<1>3. records' = [records EXCEPT ![user] = Append(@, r)]
  BY DEF Append1
<1> HIDE DEF r
<1>4. records' \in [Users -> Seq(Records)] /\ records'[user] = Append(records[user], r)
  BY <1>1, <1>2, <1>3
<1>5. ASSUME NEW u \in Users, NEW i \in DOMAIN records'[u],
             records'[u][i].outcome = "impressed"
      PROVE  records'[u][i].until = None
  <2>1. CASE u # user
    BY <1>2, <1>3, <1>5, <2>1 DEF Typed, PlainImpressions
  <2>2. CASE u = user /\ i \in DOMAIN records[user]
    <3>1. records'[u][i] = records[u][i]
      BY <1>2, <1>4, <1>1, <2>2
    <3> QED  BY <1>2, <1>5, <2>2, <3>1 DEF Typed, PlainImpressions
  <2>3. CASE u = user /\ i \notin DOMAIN records[user]
    <3>1. records'[u][i] = r
      BY <1>1, <1>2, <1>4, <1>5, <2>3
    <3> QED  BY <1>5, <3>1 DEF r
  <2> QED  BY <2>1, <2>2, <2>3
<1> QED  BY <1>4, <1>5 DEF PlainImpressions, r

LEMMA TypedInit ==
  ASSUME ConstantsFit, Init
  PROVE  Typed
<1>1. ASSUME NEW h \in OldHistories
      PROVE  /\ h \in Seq(Records)
             /\ \A i \in DOMAIN h : h[i].outcome = "cta_completed"
  <2>1. CASE h = <<>>
    BY <2>1
  <2>2. CASE \E p \in Placements, w \in OldWindows :
               h = <<[placement |-> p, outcome |-> "cta_completed", until |-> w]>>
    <3>1. PICK p \in Placements, w \in OldWindows :
             h = <<[placement |-> p, outcome |-> "cta_completed", until |-> w]>>
      BY <2>2
    <3>2. [placement |-> p, outcome |-> "cta_completed", until |-> w] \in Records
      BY DEF Records, Outcomes, ConstantsFit
    <3> QED  BY <3>1, <3>2
  <2> QED  BY <1>1, <2>1, <2>2 DEF OldHistories
<1>2. TypeOK
  <2>1. records \in [Users -> Seq(Records)]
    BY <1>1 DEF Init
  <2> QED  BY <2>1 DEF Init, TypeOK, Nothing, None
<1>3. PlainImpressions
  BY <1>1 DEF Init, PlainImpressions
<1> QED  BY <1>2, <1>3 DEF Typed

\* A query leaves a map of window ends a map of window ends.
LEMMA AskTypes ==
  ASSUME TypeOK, NEW asked, Ask(asked)
  PROVE  /\ suppressedCache' \in [Placements -> Nat] \cup {Cold}
         /\ explicitCache' \in [Placements -> Nat]
BY DEF Ask, TypeOK, None

\* Any number of queries in a row leaves the types alone.
LEMMA AskedTyped ==
  ASSUME Typed, NEW asked, Ask(asked), UNCHANGED <<now, user, records, known>>
  PROVE  Typed'
  BY AskTypes DEF Typed, TypeOK, PlainImpressions

LEMMA TypedStep ==
  ASSUME ConstantsFit, Typed, [Next]_vars
  PROVE  Typed'
<1> USE DEF Typed
<1>1. ASSUME NEW p \in Placements, NEW outcome \in Outcomes \ Windowed, RecordPlain(p, outcome)
      PROVE  Typed'
  <2>1. None \in Nat
    BY DEF None
  <2>2. records' \in [Users -> Seq(Records)] /\ PlainImpressions'
    BY <1>1, <2>1, RecordsGrow DEF RecordPlain
  <2> QED  BY <1>1, <2>2 DEF RecordPlain, TypeOK, caches
<1>2. ASSUME NEW p \in Placements, NEW outcome \in Windowed, NEW ms \in Durations,
             RecordWindow(p, outcome, ms)
      PROVE  Typed'
  <2>1. now + ms \in Nat
    BY DEF TypeOK, ConstantsFit
  <2>2. Append1(p, outcome, now + ms) /\ outcome \in Outcomes /\ outcome # "impressed"
    BY <1>2 DEF RecordWindow, Windowed, Outcomes
  <2>3. records' \in [Users -> Seq(Records)] /\ PlainImpressions'
    BY <2>1, <2>2, RecordsGrow
  <2>4. explicitCache' \in [Placements -> Nat]
    BY <1>2, <2>1 DEF RecordWindow, Explicit, TypeOK
  <2>5. suppressedCache' \in [Placements -> Nat]
    BY <1>2, <2>1, CacheTypes DEF RecordWindow
  <2> QED  BY <1>2, <2>3, <2>4, <2>5 DEF RecordWindow, TypeOK
<1>3. ASSUME NEW p \in Placements, NEW c \in Categories, IsHidden(p, c)
      PROVE  Typed'
  BY <1>3, AskedTyped DEF IsHidden
<1>4. ASSUME NEW p \in Placements, IsSuppressed(p)
      PROVE  Typed'
  <2>1. suppressedCache' \in [Placements -> Nat] \cup {Cold}
    BY <1>4 DEF IsSuppressed, TypeOK, None
  <2> QED  BY <1>4, <2>1 DEF IsSuppressed, TypeOK, PlainImpressions
<1>5. CASE Hydrate
  <2>1. StoredWindows \in [Placements -> Nat] /\ StoredExplicit \in [Placements -> Nat]
    BY HydrateReads DEF StoredWindows, StoredExplicit
  <2> QED  BY <1>5, <2>1 DEF Hydrate, TypeOK, PlainImpressions
<1>6. CASE Reset
  BY <1>6, CacheTypes DEF Reset, TypeOK, PlainImpressions
<1>7. ASSUME NEW u \in Users, SetUserId(u)
      PROVE  Typed'
  BY <1>7, CacheTypes DEF SetUserId, TypeOK, PlainImpressions
<1>8. CASE Tick
  BY <1>8 DEF Tick, TypeOK, PlainImpressions, caches
<1>9. CASE UNCHANGED vars
  BY <1>9 DEF vars, caches, TypeOK, PlainImpressions
<1> QED  BY <1>1, <1>2, <1>3, <1>4, <1>5, <1>6, <1>7, <1>8, <1>9 DEF Next

\* Store and caches keep their shape, and impressions their lack of a window.
LEMMA AlwaysTyped ==
  ASSUME ConstantsFit
  PROVE  Spec => []Typed
<1>1. Init => Typed
  BY TypedInit
<1>2. Typed /\ [Next]_vars => Typed'
  BY TypedStep
<1> QED  BY <1>1, <1>2, PTL DEF Spec

\* The store and the caches hold records and window ends, whatever is recorded,
\* asked and read in whatever order.
THEOREM TypeCorrect ==
  ASSUME ConstantsFit
  PROVE  Spec => []TypeOK
<1>1. Typed => TypeOK
  BY DEF Typed
<1> QED  BY <1>1, AlwaysTyped, PTL

----------------------------------------------------------------------------
(* Whose windows hide                                                      *)

\* A window of the history h, and the one that may be cached for it.
Known(h, p, until, outcomes) ==
  \E i \in DOMAIN h : h[i].placement = p /\ h[i].outcome \in outcomes /\ h[i].until = until

LEMMA AccountedIs ==
  ASSUME NEW p, NEW until, NEW outcomes
  PROVE  Accounted(p, until, outcomes) <=> Known(records[user], p, until, outcomes)
BY DEF Accounted, Known

\* What is known stays known as the history grows.
LEMMA KnownGrows ==
  ASSUME NEW h \in Seq(Records), NEW r \in Records, NEW p, NEW until, NEW outcomes
  PROVE  /\ Known(h, p, until, outcomes) => Known(Append(h, r), p, until, outcomes)
         /\ r.outcome \in outcomes => Known(Append(h, r), r.placement, r.until, outcomes)
<1>1. /\ Len(h) \in Nat /\ DOMAIN h = 1 .. Len(h)
      /\ DOMAIN Append(h, r) = 1 .. Len(h) + 1
      /\ \A i \in 1 .. Len(h) : Append(h, r)[i] = h[i]
      /\ Append(h, r)[Len(h) + 1] = r
  OBVIOUS
<1>2. Len(h) + 1 \in DOMAIN Append(h, r)
  BY <1>1
<1>3. Known(h, p, until, outcomes) => Known(Append(h, r), p, until, outcomes)
  BY <1>1 DEF Known
<1>4. r.outcome \in outcomes => Known(Append(h, r), r.placement, r.until, outcomes)
  BY <1>1, <1>2 DEF Known
<1> QED  BY <1>3, <1>4

\* The window hydrate reads is one of the user's own.
LEMMA HydrateKnows ==
  ASSUME Typed, NEW p \in Placements
  PROVE  /\ StoredWindows[p] > now => Accounted(p, StoredWindows[p], Windowed)
         /\ StoredExplicit[p] > now => Accounted(p, StoredExplicit[p], {"suppressed"})
<1>1. /\ user \in Users /\ now \in Nat
      /\ StoredWindows[p] = NewestOf(Running(p, Outcomes \ {"cta_completed"}))
      /\ StoredExplicit[p] = NewestOf(Running(p, {"suppressed"}))
  BY DEF Typed, TypeOK, StoredWindows, StoredExplicit
<1>2. ~ (None > now)
  BY <1>1 DEF None
<1>3. ASSUME NEW outcomes, NewestOf(Running(p, outcomes)) > now
      PROVE  \E i \in Of(records[user], p, outcomes, now) :
                NewestOf(Running(p, outcomes)) = records[user][i].until
  BY <1>2, <1>3, HydrateReads
<1>4. StoredExplicit[p] > now => Accounted(p, StoredExplicit[p], {"suppressed"})
  BY <1>1, <1>3 DEF Of, Accounted
<1>5. ASSUME StoredWindows[p] > now
      PROVE  Accounted(p, StoredWindows[p], Windowed)
  <2>1. PICK i \in Of(records[user], p, Outcomes \ {"cta_completed"}, now) :
           StoredWindows[p] = records[user][i].until
    BY <1>1, <1>3, <1>5
  <2>2. /\ i \in DOMAIN records[user] /\ records[user][i].placement = p
        /\ records[user][i].outcome \in Outcomes \ {"cta_completed"}
        /\ records[user][i].until > now
    BY <2>1 DEF Of
  <2>3. records[user][i].outcome # "impressed"
    BY <1>1, <1>2, <2>2 DEF Typed, PlainImpressions
  <2> QED  BY <2>1, <2>2, <2>3 DEF Accounted, Outcomes, Windowed
<1> QED  BY <1>4, <1>5

LEMMA OwnStep ==
  ASSUME ConstantsFit, Typed, OnlyOwnWindowsHide, [Next]_vars
  PROVE  OnlyOwnWindowsHide'
<1> SUFFICES ASSUME NEW p \in Placements
             PROVE  /\ SuppressedAt(p, now)' => Accounted(p, suppressedCache[p], Windowed)'
                    /\ (explicitCache[p] > now)' => Accounted(p, explicitCache[p], {"suppressed"})'
  BY DEF OnlyOwnWindowsHide, SuppressedAt
<1>1. /\ now \in Nat /\ user \in Users /\ records[user] \in Seq(Records)
      /\ explicitCache[p] \in Nat
      /\ suppressedCache # Cold => suppressedCache[p] \in Nat
      /\ SuppressedAt(p, now) => Accounted(p, suppressedCache[p], Windowed)
      /\ explicitCache[p] > now => Accounted(p, explicitCache[p], {"suppressed"})
  BY CacheTypes DEF Typed, TypeOK, OnlyOwnWindowsHide
<1>2. ASSUME NEW q \in Placements, NEW outcome \in Outcomes \ Windowed, RecordPlain(q, outcome)
      PROVE  /\ SuppressedAt(p, now)' => Accounted(p, suppressedCache[p], Windowed)'
             /\ (explicitCache[p] > now)' => Accounted(p, explicitCache[p], {"suppressed"})'
  <2> DEFINE r == [placement |-> q, outcome |-> outcome, until |-> None]
  <2>1. r \in Records /\ records'[user] = Append(records[user], r)
    BY <1>2, RecordsGrow DEF RecordPlain, Records, None
  <2> HIDE DEF r
  <2>2. \A until, outcomes : Accounted(p, until, outcomes) =>
            Known(records'[user], p, until, outcomes)
    BY <1>1, <2>1, KnownGrows, AccountedIs
  <2>3. UNCHANGED <<now, user, caches>>
    BY <1>2 DEF RecordPlain
  <2> QED  BY <1>1, <2>2, <2>3 DEF Known, Accounted, SuppressedAt, caches
<1>3. ASSUME NEW q \in Placements, NEW outcome \in Windowed, NEW ms \in Durations,
             RecordWindow(q, outcome, ms)
      PROVE  /\ SuppressedAt(p, now)' => Accounted(p, suppressedCache[p], Windowed)'
             /\ (explicitCache[p] > now)' => Accounted(p, explicitCache[p], {"suppressed"})'
  <2> DEFINE r == [placement |-> q, outcome |-> outcome, until |-> now + ms]
  <2>1. now + ms \in Nat /\ outcome \in Outcomes /\ outcome # "impressed"
    <3>1. outcome \in Outcomes /\ outcome # "impressed"
      BY DEF Windowed, Outcomes
    <3>2. now + ms \in Nat
      BY <1>1 DEF ConstantsFit
    <3> QED  BY <3>1, <3>2
  <2>2. r \in Records /\ records'[user] = Append(records[user], r)
    BY <1>3, <2>1, RecordsGrow DEF RecordWindow, Records
  <2>3. /\ \A until, outcomes : Accounted(p, until, outcomes) =>
              Known(records'[user], p, until, outcomes)
        /\ \A outcomes : outcome \in outcomes =>
              Known(records'[user], q, now + ms, outcomes)
    <3>1. r.placement = q /\ r.outcome = outcome /\ r.until = now + ms
      OBVIOUS
    <3> HIDE DEF r
    <3> QED  BY <1>1, <2>2, <3>1, KnownGrows, AccountedIs
  <2> HIDE DEF r
  <2>4. /\ now' = now /\ user' = user
        /\ suppressedCache' = [Warm EXCEPT ![q] = now + ms]
        /\ explicitCache' = Explicit(q, outcome, now + ms)
    BY <1>3 DEF RecordWindow
  <2>5. (explicitCache[p] > now)' => Accounted(p, explicitCache[p], {"suppressed"})'
    <3>1. \/ explicitCache'[p] = explicitCache[p]
          \/ outcome = "suppressed" /\ p = q /\ explicitCache'[p] = now + ms
      BY <2>4 DEF Explicit, Typed, TypeOK
    <3>2. (explicitCache[p] > now)' =>
            Known(records'[user], p, explicitCache'[p], {"suppressed"})
      BY <1>1, <2>3, <2>4, <3>1
    <3> QED  BY <2>4, <3>2 DEF Known, Accounted
  <2>6. SuppressedAt(p, now)' => Accounted(p, suppressedCache[p], Windowed)'
    <3>1. \/ p = q /\ suppressedCache'[p] = now + ms
          \/ suppressedCache # Cold /\ suppressedCache'[p] = suppressedCache[p]
          \/ suppressedCache'[p] = None
      BY <2>4, CacheTypes DEF Warm, Typed, Nothing
    <3>2. SuppressedAt(p, now)' => Known(records'[user], p, suppressedCache'[p], Windowed)
      BY <1>1, <2>3, <2>4, <3>1 DEF SuppressedAt, None
    <3> QED  BY <2>4, <3>2 DEF Known, Accounted
  <2> QED  BY <2>5, <2>6
<1>4. ASSUME NEW asked, Ask(asked), UNCHANGED <<now, user, records>>
      PROVE  /\ SuppressedAt(p, now)' => Accounted(p, suppressedCache[p], Windowed)'
             /\ (explicitCache[p] > now)' => Accounted(p, explicitCache[p], {"suppressed"})'
  <2>1. explicitCache'[p] \in {explicitCache[p], None}
    BY <1>4 DEF Ask
  <2>2. suppressedCache' # Cold =>
           suppressedCache # Cold /\ suppressedCache'[p] \in {suppressedCache[p], None}
    BY <1>4 DEF Ask
  <2> QED  BY <1>1, <1>4, <2>1, <2>2 DEF SuppressedAt, Accounted, None
<1>5. ASSUME NEW q \in Placements, NEW c \in Categories, IsHidden(q, c)
      PROVE  /\ SuppressedAt(p, now)' => Accounted(p, suppressedCache[p], Windowed)'
             /\ (explicitCache[p] > now)' => Accounted(p, explicitCache[p], {"suppressed"})'
  BY <1>4, <1>5 DEF IsHidden
<1>6. ASSUME NEW q \in Placements, IsSuppressed(q)
      PROVE  /\ SuppressedAt(p, now)' => Accounted(p, suppressedCache[p], Windowed)'
             /\ (explicitCache[p] > now)' => Accounted(p, explicitCache[p], {"suppressed"})'
  <2>1. suppressedCache' # Cold =>
           suppressedCache # Cold /\ suppressedCache'[p] \in {suppressedCache[p], None}
    BY <1>6 DEF IsSuppressed, Typed, TypeOK
  <2> QED  BY <1>1, <1>6, <2>1 DEF IsSuppressed, SuppressedAt, Accounted, None
<1>7. CASE Hydrate
  <2>1. /\ now' = now /\ user' = user /\ records' = records
        /\ suppressedCache' = StoredWindows /\ explicitCache' = StoredExplicit
    BY <1>7 DEF Hydrate
  <2> QED  BY <2>1, HydrateKnows DEF SuppressedAt, Accounted
<1>8. CASE Reset
  <2>1. now' = now /\ suppressedCache'[p] = 0 /\ explicitCache'[p] = 0
    BY <1>8 DEF Reset, Nothing, None
  <2> QED  BY <1>1, <2>1 DEF SuppressedAt
<1>9. ASSUME NEW u \in Users, SetUserId(u)
      PROVE  /\ SuppressedAt(p, now)' => Accounted(p, suppressedCache[p], Windowed)'
             /\ (explicitCache[p] > now)' => Accounted(p, explicitCache[p], {"suppressed"})'
  <2>1. now' = now /\ suppressedCache' = Cold /\ explicitCache'[p] = 0
    BY <1>9 DEF SetUserId, Nothing, None
  <2> QED  BY <1>1, <2>1 DEF SuppressedAt, Cold
<1>10. CASE Tick
  <2>1. now' > now /\ user' = user /\ records' = records /\ UNCHANGED caches
    BY <1>1, <1>10 DEF Tick
  <2> QED  BY <1>1, <1>10, <2>1 DEF Tick, SuppressedAt, Accounted, caches
<1>11. CASE UNCHANGED vars
  BY <1>1, <1>11 DEF vars, caches, SuppressedAt, Accounted
<1> QED  BY <1>2, <1>3, <1>5, <1>6, <1>7, <1>8, <1>9, <1>10, <1>11 DEF Next

\* Nothing is hidden but by a window of the current user's own history: a change of
\* user, a reset and a conversion of an earlier release leave nothing that hides.
THEOREM OwnWindowsHide ==
  ASSUME ConstantsFit
  PROVE  Spec => []OnlyOwnWindowsHide
<1>1. Init => OnlyOwnWindowsHide
  BY DEF Init, OnlyOwnWindowsHide, SuppressedAt, Nothing, None
<1>2. Typed /\ OnlyOwnWindowsHide /\ [Next]_vars => OnlyOwnWindowsHide'
  BY OwnStep
<1> QED  BY <1>1, <1>2, AlwaysTyped, PTL DEF Spec

\* Reading the store again uncovers nothing that is hidden now.
THEOREM HydratesUncoverNothing ==
  ASSUME ConstantsFit
  PROVE  Spec => HydrateUncoversNothing
<1>1. ASSUME Typed, OnlyOwnWindowsHide, Hydrate,
             NEW p \in Placements, NEW c \in Categories, Hidden(p, c)
      PROVE  Hidden(p, c)'
  <2>1. /\ now' = now /\ now \in Nat
        /\ suppressedCache'[p] = NewestOf(Running(p, Outcomes \ {"cta_completed"}))
        /\ explicitCache'[p] = NewestOf(Running(p, {"suppressed"}))
        /\ suppressedCache' \in [Placements -> Nat]
    BY <1>1, HydrateReads DEF Hydrate, StoredWindows, StoredExplicit, Typed, TypeOK
  <2>2. ASSUME NEW outcomes, NEW until, until > now, Accounted(p, until, outcomes)
        PROVE  NewestOf(Running(p, outcomes)) > now
    <3>1. Of(records[user], p, outcomes, now) # {}
      BY <2>2 DEF Accounted, Of
    <3> QED  BY <1>1, <3>1, HydrateReads DEF Of
  <2>3. CASE explicitCache[p] > now
    BY <1>1, <2>1, <2>2, <2>3 DEF OnlyOwnWindowsHide, Hidden, HiddenAt
  <2>4. CASE c \notin Exempt /\ SuppressedAt(p, now)
    <3>1. suppressedCache[p] > now /\ Accounted(p, suppressedCache[p], Windowed)
      BY <1>1, <2>4 DEF OnlyOwnWindowsHide, SuppressedAt
    <3>2. Accounted(p, suppressedCache[p], Outcomes \ {"cta_completed"})
      BY <3>1 DEF Accounted, Windowed, Outcomes
    <3>3. suppressedCache'[p] > now
      BY <2>1, <2>2, <3>1, <3>2
    <3>4. suppressedCache' # Cold
      BY <2>1, Warmed
    <3> QED  BY <2>1, <2>4, <3>3, <3>4 DEF Hidden, HiddenAt, SuppressedAt, Cold
  <2> QED  BY <1>1, <2>3, <2>4 DEF Hidden, HiddenAt
<1>2. Typed /\ OnlyOwnWindowsHide /\ [Next]_vars =>
        [Hydrate => \A p \in Placements, c \in Categories : Hidden(p, c) => Hidden(p, c)']_vars
  BY <1>1
<1> QED  BY <1>2, AlwaysTyped, OwnWindowsHide, PTL DEF Spec, HydrateUncoversNothing

----------------------------------------------------------------------------
(* Asking                                                                  *)

\* A query answers as before, now and later: what it evicts has ended.
THEOREM AskingIsFree ==
  ASSUME ConstantsFit
  PROVE  Spec => AskingChangesNoAnswer
<1>1. ASSUME Typed, NEW p \in Placements,
             IsSuppressed(p) \/ \E c \in Categories : IsHidden(p, c)
      PROVE  SameAnswers
  <2> SUFFICES ASSUME NEW q \in Placements, NEW d \in Categories,
                      NEW t \in now .. 2 * MaxTime
               PROVE  HiddenAt(q, d, t)' = HiddenAt(q, d, t)
    BY DEF SameAnswers
  <2>1. t \in Int /\ now <= t /\ now \in Nat /\ explicitCache[q] \in Nat
    <3>1. explicitCache[q] \in Nat /\ now \in Nat
      BY <1>1, CacheTypes DEF Typed, TypeOK
    <3> QED  BY <3>1 DEF ConstantsFit
  <2>2. suppressedCache # Cold => suppressedCache[q] \in Nat
    BY <1>1, CacheTypes DEF Typed
  <2>3. suppressedCache \in [Placements -> Nat] \cup {Cold}
    BY <1>1 DEF Typed, TypeOK
  <2>4. /\ explicitCache'[q] = explicitCache[q] \/ (explicitCache[q] <= now /\ explicitCache'[q] = None)
        /\ suppressedCache = Cold => suppressedCache' = Cold
        /\ suppressedCache # Cold =>
             /\ suppressedCache' # Cold
             /\ \/ suppressedCache'[q] = suppressedCache[q]
                \/ suppressedCache[q] <= now /\ suppressedCache'[q] = None
    <3>1. CASE IsSuppressed(p)
      <4>1. CASE suppressedCache = Cold \/ SuppressedAt(p, now)
        BY <3>1, <4>1 DEF IsSuppressed
      <4>2. CASE ~ (suppressedCache = Cold \/ SuppressedAt(p, now))
        <5>1. /\ suppressedCache' = [suppressedCache EXCEPT ![p] = None]
              /\ ~ (suppressedCache[p] > now)
              /\ explicitCache' = explicitCache
          BY <3>1, <4>2 DEF IsSuppressed, SuppressedAt
        <5>2. suppressedCache \in [Placements -> Nat]
          BY <2>3, <4>2
        <5>3. suppressedCache' \in [Placements -> Nat]
          BY <5>1, <5>2 DEF None
        <5>4. suppressedCache' # Cold
          BY <5>3, Warmed
        <5>5. suppressedCache'[q] = IF q = p THEN None ELSE suppressedCache[q]
          BY <5>1, <5>2
        <5> QED  BY <2>1, <2>2, <4>2, <5>1, <5>2, <5>4, <5>5
      <4> QED  BY <4>1, <4>2
    <3>2. ASSUME NEW asked, Ask(asked)
          PROVE  /\ \/ explicitCache'[q] = explicitCache[q]
                    \/ explicitCache[q] <= now /\ explicitCache'[q] = None
                 /\ suppressedCache = Cold => suppressedCache' = Cold
                 /\ suppressedCache # Cold =>
                      /\ suppressedCache' # Cold
                      /\ \/ suppressedCache'[q] = suppressedCache[q]
                         \/ suppressedCache[q] <= now /\ suppressedCache'[q] = None
      <4>1. \/ explicitCache'[q] = explicitCache[q]
            \/ explicitCache[q] <= now /\ explicitCache'[q] = None
        BY <3>2 DEF Ask
      <4>2. suppressedCache = Cold => suppressedCache' = Cold
        BY <3>2 DEF Ask
      <4>3. ASSUME suppressedCache # Cold
            PROVE  suppressedCache' # Cold
        <5>1. DOMAIN suppressedCache' = Placements
          BY <3>2, <4>3 DEF Ask
        <5>2. DOMAIN Cold = {}
          BY DEF Cold
        <5> QED  BY <5>1, <5>2
      <4>4. suppressedCache # Cold =>
              \/ suppressedCache'[q] = suppressedCache[q]
              \/ suppressedCache[q] <= now /\ suppressedCache'[q] = None
        BY <3>2 DEF Ask
      <4> QED  BY <4>1, <4>2, <4>3, <4>4
    <3> QED  BY <1>1, <3>1, <3>2 DEF IsHidden
  <2>5. explicitCache'[q] > t <=> explicitCache[q] > t
    BY <2>1, <2>4 DEF None
  <2>6. SuppressedAt(q, t)' <=> SuppressedAt(q, t)
    BY <2>1, <2>2, <2>4 DEF SuppressedAt, None
  <2> QED  BY <2>5, <2>6 DEF HiddenAt
<1>2. Typed /\ [Next]_vars =>
        [\A p \in Placements :
           IsSuppressed(p) \/ (\E c \in Categories : IsHidden(p, c)) => SameAnswers]_vars
  BY <1>1
<1> QED  BY <1>2, AlwaysTyped, PTL DEF Spec, AskingChangesNoAnswer

----------------------------------------------------------------------------
(* What is known stays hidden                                              *)

\* The newest window of one of the user's placements, and of those that hide every
\* category, is the cached one as long as it runs.
NewestCached ==
  known =>
    \A p \in Placements :
      /\ NewestWindow(p, {"suppressed"}) > now =>
           explicitCache[p] = NewestWindow(p, {"suppressed"})
      /\ NewestWindow(p, Windowed) > now =>
           suppressedCache # Cold /\ suppressedCache[p] = NewestWindow(p, Windowed)

\* A window that runs is read by a hydrate as the newest.
LEMMA HydrateReadsNewest ==
  ASSUME Typed, NEW p \in Placements, NEW some, NEW all, some \subseteq all,
         \A i \in DOMAIN records[user] :
           records[user][i].outcome \in all \ some => ~ (records[user][i].until > now),
         NewestWindow(p, some) > now
  PROVE  NewestOf(Running(p, all)) = NewestWindow(p, some)
<1> DEFINE h == records[user]
<1>1. h \in Seq(Records) /\ now \in Nat
  BY DEF Typed, TypeOK
<1>2. NewestWindow(p, some) = Newest(h, Any(h, p, some))
      /\ NewestOf(Running(p, all)) = Newest(h, Of(h, p, all, now))
  BY NewestRead
<1>3. Any(h, p, some) # {}
  BY <1>1, <1>2 DEF Newest, None
<1>4. Any(h, p, some) \in SUBSET DOMAIN h /\ Of(h, p, all, now) \in SUBSET DOMAIN h
  BY DEF Any, Of
<1>5. PICK i \in Any(h, p, some) :
         (\A j \in Any(h, p, some) : j <= i) /\ Newest(h, Any(h, p, some)) = h[i].until
  BY <1>1, <1>3, <1>4, NewestIsThere
<1>6. i \in Of(h, p, all, now)
  BY <1>2, <1>5 DEF Any, Of
<1>7. Of(h, p, all, now) \subseteq Any(h, p, some)
  BY DEF Any, Of
<1>8. Newest(h, Of(h, p, all, now)) = h[i].until
  <2>1. \A j \in Of(h, p, all, now) : j <= i
    BY <1>5, <1>7
  <2> HIDE DEF h
  <2> QED  BY <1>1, <1>4, <1>6, <2>1, NewestIs
<1> QED  BY <1>2, <1>5, <1>8

\* It is the end of a window, or none.
LEMMA NewestType ==
  ASSUME Typed, NEW p, NEW outcomes
  PROVE  NewestWindow(p, outcomes) \in Nat
<1> DEFINE h == records[user]
           S == Any(h, p, outcomes)
<1>1. h \in Seq(Records) /\ S \in SUBSET DOMAIN h
  BY DEF Typed, TypeOK, Any
<1>2. NewestWindow(p, outcomes) = Newest(h, S)
  BY NewestRead
<1> HIDE DEF h, S
<1>3. CASE S = {}
  BY <1>2, <1>3 DEF Newest, None
<1>4. CASE S # {}
  <2>1. PICK i \in S : Newest(h, S) = h[i].until
    BY <1>1, <1>4, NewestIsThere
  <2>2. h[i] \in Records
    BY <1>1
  <2> QED  BY <1>2, <2>1, <2>2 DEF Records
<1> QED  BY <1>3, <1>4

\* Any number of queries in a row keeps what runs.
LEMMA AskedCached ==
  ASSUME Typed, NewestCached, NEW asked, Ask(asked), UNCHANGED <<now, user, records, known>>
  PROVE  NewestCached'
<1> SUFFICES ASSUME known', NEW p \in Placements
             PROVE  /\ NewestWindow(p, {"suppressed"})' > now' =>
                         explicitCache'[p] = NewestWindow(p, {"suppressed"})'
                    /\ NewestWindow(p, Windowed)' > now' =>
                         /\ suppressedCache' # Cold
                         /\ suppressedCache'[p] = NewestWindow(p, Windowed)'
  BY DEF NewestCached
<1>1. /\ explicitCache \in [Placements -> Nat]
      /\ suppressedCache \in [Placements -> Nat] \cup {Cold}
      /\ now \in Nat
  BY DEF Typed, TypeOK
<1>2. \A outcomes : NewestWindow(p, outcomes)' = NewestWindow(p, outcomes)
  BY DEF NewestWindow, NewestOf
<1>3. explicitCache[p] > now => explicitCache'[p] = explicitCache[p]
  BY <1>1 DEF Ask
<1>4. ASSUME suppressedCache # Cold, suppressedCache[p] > now
      PROVE  suppressedCache' # Cold /\ suppressedCache'[p] = suppressedCache[p]
  <2>1. suppressedCache'[p] = suppressedCache[p]
    BY <1>1, <1>4 DEF Ask
  <2>2. DOMAIN suppressedCache' = Placements
    BY <1>4 DEF Ask
  <2>3. DOMAIN Cold = {}
    BY DEF Cold
  <2> QED  BY <2>1, <2>2, <2>3
<1> QED  BY <1>1, <1>2, <1>3, <1>4 DEF NewestCached

LEMMA CachedStep ==
  ASSUME ConstantsFit, Typed, NewestCached, [Next]_vars
  PROVE  NewestCached'
<1> DEFINE Cached(p) ==
      /\ NewestWindow(p, {"suppressed"}) > now =>
           explicitCache[p] = NewestWindow(p, {"suppressed"})
      /\ NewestWindow(p, Windowed) > now =>
           suppressedCache # Cold /\ suppressedCache[p] = NewestWindow(p, Windowed)
<1> SUFFICES ASSUME known', NEW p \in Placements
             PROVE  Cached(p)'
  BY DEF NewestCached
<1>1. /\ now \in Nat /\ user \in Users /\ records[user] \in Seq(Records)
      /\ explicitCache \in [Placements -> Nat]
      /\ suppressedCache \in [Placements -> Nat] \cup {Cold}
      /\ known => Cached(p)
  BY DEF Typed, TypeOK, NewestCached
<1>2. \A outcomes : records' = records /\ user' = user =>
         NewestWindow(p, outcomes)' = NewestWindow(p, outcomes)
  BY DEF NewestWindow, NewestOf
<1>3. ASSUME NEW q \in Placements, NEW outcome \in Outcomes \ Windowed, RecordPlain(q, outcome)
      PROVE  Cached(p)'
  <2> DEFINE r == [placement |-> q, outcome |-> outcome, until |-> None]
  <2>1. r \in Records /\ records'[user] = Append(records[user], r) /\ r.outcome = outcome
    BY <1>3, RecordsGrow DEF RecordPlain, Records, None
  <2> HIDE DEF r
  <2>2. user' = user /\ UNCHANGED <<now, suppressedCache, explicitCache, known>>
    BY <1>3 DEF RecordPlain, caches
  <2>3. /\ NewestWindow(p, Windowed)' = NewestWindow(p, Windowed)
        /\ NewestWindow(p, {"suppressed"})' = NewestWindow(p, {"suppressed"})
    <3>1. outcome \notin Windowed /\ outcome \notin {"suppressed"}
      BY DEF Windowed
    <3>2. ASSUME NEW outcomes, outcome \notin outcomes
          PROVE  Newest(records'[user'], Any(records'[user'], p, outcomes))
                   = Newest(records[user], Any(records[user], p, outcomes))
      <4>1. records'[user'] = Append(records[user], r) /\ r.outcome \notin outcomes
        BY <2>1, <2>2, <3>2
      <4> QED  BY <1>1, <2>1, <4>1, NewestAfter
    <3>3. ASSUME NEW outcomes
          PROVE  /\ NewestWindow(p, outcomes)
                      = Newest(records[user], Any(records[user], p, outcomes))
                 /\ NewestWindow(p, outcomes)'
                      = Newest(records'[user'], Any(records'[user'], p, outcomes))
      BY DEF NewestWindow, NewestOf, Newest, Any
    <3> QED  BY <3>1, <3>2, <3>3
  <2> QED  BY <1>1, <2>2, <2>3
<1>4. ASSUME NEW q \in Placements, NEW outcome \in Windowed, NEW ms \in Durations,
             RecordWindow(q, outcome, ms)
      PROVE  Cached(p)'
  <2> DEFINE r == [placement |-> q, outcome |-> outcome, until |-> now + ms]
  <2>1. now + ms \in Nat /\ outcome \in Outcomes /\ outcome # "impressed"
    <3>1. outcome \in Outcomes /\ outcome # "impressed"
      BY DEF Windowed, Outcomes
    <3>2. now + ms \in Nat
      BY <1>1 DEF ConstantsFit
    <3> QED  BY <3>1, <3>2
  <2>2. r \in Records /\ records'[user] = Append(records[user], r)
    BY <1>4, <2>1, RecordsGrow DEF RecordWindow, Records
  <2>3. r.placement = q /\ r.outcome = outcome /\ r.until = now + ms
    OBVIOUS
  <2> HIDE DEF r
  <2>4. /\ now' = now /\ user' = user /\ known' = known
        /\ suppressedCache' = [Warm EXCEPT ![q] = now + ms]
        /\ explicitCache' = Explicit(q, outcome, now + ms)
    BY <1>4 DEF RecordWindow
  <2>5. ASSUME NEW outcomes
        PROVE  /\ q = p /\ outcome \in outcomes => NewestWindow(p, outcomes)' = now + ms
               /\ ~ (q = p /\ outcome \in outcomes) =>
                    NewestWindow(p, outcomes)' = NewestWindow(p, outcomes)
    <3>1. /\ NewestWindow(p, outcomes)
                = Newest(records[user], Any(records[user], p, outcomes))
          /\ NewestWindow(p, outcomes)'
                = Newest(records'[user'], Any(records'[user'], p, outcomes))
      BY DEF NewestWindow, NewestOf, Newest, Any
    <3>2. records'[user'] = Append(records[user], r)
      BY <2>2, <2>4
    <3> QED  BY <1>1, <2>2, <2>3, <3>1, <3>2, NewestAfter
  <2>6. explicitCache'[p] = IF outcome = "suppressed" /\ q = p THEN now + ms ELSE explicitCache[p]
    BY <1>1, <2>4 DEF Explicit
  <2>7. /\ suppressedCache' \in [Placements -> Nat] /\ suppressedCache' # Cold
        /\ q = p => suppressedCache'[p] = now + ms
        /\ q # p /\ suppressedCache # Cold => suppressedCache'[p] = suppressedCache[p]
    <3>1. Warm \in [Placements -> Nat]
      BY CacheTypes DEF Typed
    <3>2. suppressedCache' \in [Placements -> Nat]
      BY <2>1, <2>4, <3>1
    <3>3. suppressedCache' # Cold
      BY <3>2, Warmed
    <3> QED  BY <2>4, <3>1, <3>2, <3>3 DEF Warm
  <2> QED  BY <1>1, <2>4, <2>5, <2>6, <2>7
<1>5. ASSUME NEW q \in Placements, NEW c \in Categories, IsHidden(q, c)
      PROVE  Cached(p)'
  BY <1>5, AskedCached DEF IsHidden, NewestCached
<1>6. ASSUME NEW q \in Placements, IsSuppressed(q)
      PROVE  Cached(p)'
  <2>1. UNCHANGED <<now, user, records, explicitCache, known>>
    BY <1>6 DEF IsSuppressed
  <2>2. ASSUME suppressedCache # Cold, suppressedCache[p] > now
        PROVE  suppressedCache' # Cold /\ suppressedCache'[p] = suppressedCache[p]
    <3>1. CASE SuppressedAt(q, now)
      BY <1>6, <2>2, <3>1 DEF IsSuppressed
    <3>2. CASE ~ SuppressedAt(q, now)
      <4>1. suppressedCache' = [suppressedCache EXCEPT ![q] = None] /\ q # p
        BY <1>6, <2>2, <3>2 DEF IsSuppressed, SuppressedAt
      <4>2. suppressedCache \in [Placements -> Nat]
        BY <1>1, <2>2
      <4>3. suppressedCache' \in [Placements -> Nat]
        BY <4>1, <4>2 DEF None
      <4> QED  BY <4>1, <4>2, <4>3, Warmed
    <3> QED  BY <3>1, <3>2
  <2> QED  BY <1>1, <1>2, <2>1, <2>2
<1>7. CASE Hydrate
  <2>1. /\ UNCHANGED <<now, user, records>>
        /\ suppressedCache' \in [Placements -> Nat]
        /\ suppressedCache'[p] = NewestOf(Running(p, Outcomes \ {"cta_completed"}))
        /\ explicitCache'[p] = NewestOf(Running(p, {"suppressed"}))
    BY <1>7, HydrateReads DEF Hydrate, StoredWindows, StoredExplicit
  <2>2. suppressedCache' # Cold
    BY <2>1, Warmed
  <2>3. NewestWindow(p, {"suppressed"}) > now =>
          explicitCache'[p] = NewestWindow(p, {"suppressed"})
    BY <2>1, HydrateReadsNewest
  <2>4. ASSUME NEW i \in DOMAIN records[user],
               records[user][i].outcome \in (Outcomes \ {"cta_completed"}) \ Windowed
        PROVE  ~ (records[user][i].until > now)
    <3>1. records[user][i].outcome = "impressed"
      BY <2>4 DEF Outcomes
    <3> QED  BY <1>1, <3>1 DEF Typed, PlainImpressions, None
  <2>5. Windowed \subseteq Outcomes \ {"cta_completed"}
    BY DEF Windowed, Outcomes
  <2>6. NewestWindow(p, Windowed) > now =>
          suppressedCache'[p] = NewestWindow(p, Windowed)
    BY <2>1, <2>4, <2>5, HydrateReadsNewest
  <2> QED  BY <1>2, <2>1, <2>2, <2>3, <2>6
<1>8. CASE Reset
  <2>1. now' = now /\ user' = user /\ records'[user] = <<>>
    BY <1>1, <1>8 DEF Reset, Typed, TypeOK
  <2>2. ASSUME NEW outcomes
        PROVE  NewestWindow(p, outcomes)' = 0
    <3>1. NewestWindow(p, outcomes)'
            = Newest(records'[user'], Any(records'[user'], p, outcomes))
      BY DEF NewestWindow, NewestOf, Newest, Any
    <3>2. Any(<<>>, p, outcomes) = {}
      BY DEF Any
    <3> QED  BY <2>1, <3>1, <3>2 DEF Newest, None
  <2> QED  BY <1>1, <2>1, <2>2
<1>9. ASSUME NEW u \in Users, SetUserId(u)
       PROVE  Cached(p)'
  BY <1>9 DEF SetUserId
<1>10. CASE Tick
  <2>1. now' = now + 1 /\ UNCHANGED <<user, records, suppressedCache, explicitCache, known>>
    BY <1>10 DEF Tick, caches
  <2>2. ASSUME NEW w \in Nat, w > now'
        PROVE  w > now
    BY <1>1, <2>1, <2>2
  <2> QED  BY <1>1, <1>2, <2>1, <2>2, NewestType
<1>11. CASE UNCHANGED vars
  BY <1>1, <1>2, <1>11 DEF vars, caches
<1> QED  BY <1>3, <1>4, <1>5, <1>6, <1>7, <1>8, <1>9, <1>10, <1>11 DEF Next

\* Once a user's history has been read, its newest window hides the placement until
\* it ends, and an explicit one in every category, through every query, later
\* record and further hydrate.
THEOREM NewestWindowsHide ==
  ASSUME ConstantsFit
  PROVE  Spec => []KnownWindowsHide
<1>1. Init => NewestCached
  BY DEF Init, NewestCached
<1>2. Typed /\ NewestCached /\ [Next]_vars => NewestCached'
  BY CachedStep
<1>3. Typed /\ NewestCached => KnownWindowsHide
  BY DEF NewestCached, KnownWindowsHide, Hidden, HiddenAt, SuppressedAt
<1> QED  BY <1>1, <1>2, <1>3, AlwaysTyped, PTL DEF Spec

\* Both together: the user's own windows, and they alone, decide what is hidden.
THEOREM OwnWindowsAlwaysDecide ==
  ASSUME ConstantsFit
  PROVE  Spec => []OwnWindowsDecide
<1>1. OnlyOwnWindowsHide /\ KnownWindowsHide => OwnWindowsDecide
  BY DEF OwnWindowsDecide
<1> QED  BY <1>1, OwnWindowsHide, NewestWindowsHide, PTL

\* A query and a further hydrate leave hidden what is hidden.
THEOREM ReadsUncoverNothing ==
  ASSUME ConstantsFit
  PROVE  Spec => ReadingUncoversNothing
<1> QED  BY AskingIsFree, HydratesUncoverNothing DEF ReadingUncoversNothing

=============================================================================
