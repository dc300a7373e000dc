-------------------------- MODULE CapEnforcerProofs --------------------------
(***************************************************************************)
(* Proofs about CapEnforcer, for every set of outputs, every authored cap, *)
(* every window length and every bound.                                    *)
(***************************************************************************)
EXTENDS CapEnforcer, FiniteSetTheorems, TLAPS

----------------------------------------------------------------------------
(* A policy list has a first and a greatest element.                       *)

HasGreatest(S, f) == S = {} \/ \E i \in S : \A j \in S : f[j] <= f[i]

LEMMA GreatestExtends ==
  ASSUME NEW S \in SUBSET Roots, NEW f \in [Roots -> Int], NEW x \in Roots,
         HasGreatest(S, f)
  PROVE  HasGreatest(S \cup {x}, f)
<1>1. CASE S = {}
  BY <1>1 DEF HasGreatest
<1>2. CASE S # {}
  <2>1. PICK i \in S : \A j \in S : f[j] <= f[i]
    BY <1>2 DEF HasGreatest
  <2>2. f[x] \in Int /\ \A j \in S : f[j] \in Int
    OBVIOUS
  <2>3. CASE f[x] <= f[i]
    BY <2>1, <2>3 DEF HasGreatest
  <2>4. CASE f[i] <= f[x]
    <3>1. \A j \in S \cup {x} : f[j] <= f[x]
      BY <2>1, <2>2, <2>4
    <3> QED BY <3>1 DEF HasGreatest
  <2> QED BY <2>1, <2>2, <2>3, <2>4
<1> QED BY <1>1, <1>2

\* Every nonempty set of roots has an element that maximises a given function.
LEMMA GreatestOfRoots ==
  ASSUME NEW P \in SUBSET Roots, P # {}, NEW f \in [Roots -> Int]
  PROVE  \E i \in P : \A j \in P : f[j] <= f[i]
<1> DEFINE Upto(n) == {i \in P : i <= n}
<1>0. P \subseteq 1 .. 5
  BY DEF Roots
<1>1. ASSUME NEW n \in Roots, HasGreatest(Upto(n-1), f)
      PROVE  HasGreatest(Upto(n), f)
  <2>1. CASE n \in P
    <3>0. \A i \in P : i <= n <=> (i <= n-1 \/ i = n)
      BY <1>0 DEF Roots
    <3>1. Upto(n) = Upto(n-1) \cup {n}
      BY <2>1, <3>0
    <3>2. Upto(n-1) \in SUBSET Roots
      OBVIOUS
    <3> HIDE DEF Upto
    <3> QED BY <1>1, <3>1, <3>2, GreatestExtends
  <2>2. CASE n \notin P
    <3>0. \A i \in P : i <= n <=> i <= n-1
      BY <1>0, <2>2 DEF Roots
    <3>1. Upto(n) = Upto(n-1)
      BY <3>0
    <3> QED BY <1>1, <3>1
  <2> QED BY <2>1, <2>2
<1>2. HasGreatest(Upto(0), f)
  <2>0. \A i \in P : ~(i <= 0)
    BY <1>0
  <2>1. Upto(0) = {}
    BY <2>0
  <2> QED BY <2>1 DEF HasGreatest
<1>3. Upto(5) = P
  <2>1. \A i \in P : i <= 5
    BY <1>0
  <2> QED BY <2>1
<1> HIDE DEF Upto
<1>4. HasGreatest(Upto(1), f)
  BY <1>1, <1>2 DEF Roots
<1>5. HasGreatest(Upto(2), f)
  BY <1>1, <1>4 DEF Roots
<1>6. HasGreatest(Upto(3), f)
  BY <1>1, <1>5 DEF Roots
<1>7. HasGreatest(Upto(4), f)
  BY <1>1, <1>6 DEF Roots
<1>8. HasGreatest(Upto(5), f)
  BY <1>1, <1>7 DEF Roots
<1> QED BY <1>3, <1>8 DEF HasGreatest

LEMMA LeastRoot ==
  ASSUME NEW P \in SUBSET Roots, P # {}
  PROVE  \E i \in P : \A j \in P : i <= j
<1> DEFINE f == [i \in Roots |-> 0 - i]
<1>1. f \in [Roots -> Int]
  BY DEF Roots
<1>2. PICK i \in P : \A j \in P : f[j] <= f[i]
  <2> HIDE DEF f
  <2> QED BY <1>1, GreatestOfRoots
<1>3. \A j \in P : f[j] = 0 - j /\ j \in Int
  BY DEF Roots
<1> HIDE DEF f
<1>4. \A j \in P : i <= j
  BY <1>2, <1>3
<1> QED BY <1>4

\* MaxCooldown is a bound on the cooldowns of an output's policies.
LEMMA MaxCooldownNat ==
  ASSUME NEW o \in Outputs
  PROVE  MaxCooldown(o) \in Nat
<1>1. CASE Cooldowns(o) \subseteq {0}
  BY <1>1 DEF MaxCooldown
<1>2. CASE ~(Cooldowns(o) \subseteq {0})
  <2> DEFINE f == [i \in Roots |-> Caps[o][i].cooldownMs]
  <2>1. \A i \in Roots : Caps[o][i] \in Blocks \cup {NoBlock}
    BY ConstantsAssumption
  <2>2. f \in [Roots -> Int]
    BY <2>1 DEF Blocks, NoBlock
  <2>3. Policies(o) \in SUBSET Roots /\ Policies(o) # {}
    BY <1>2 DEF Policies, Cooldowns
  <2>4. PICK i \in Policies(o) : \A j \in Policies(o) : f[j] <= f[i]
    <3> HIDE DEF f
    <3> QED BY <2>2, <2>3, GreatestOfRoots
  <2>5. \A j \in Policies(o) : Caps[o][j].cooldownMs <= Caps[o][i].cooldownMs
    BY <2>3, <2>4
  <2>6. \E c \in Cooldowns(o) : \A d \in Cooldowns(o) : d <= c
    BY <2>5 DEF Cooldowns
  <2>7. Cooldowns(o) \subseteq Nat
    BY <2>1 DEF Cooldowns, Policies, Blocks
  <2>8. MaxCooldown(o) \in Cooldowns(o)
    BY <1>2, <2>6 DEF MaxCooldown
  <2> QED BY <2>7, <2>8
<1> QED BY <1>1, <1>2

\* A denial by a cap names a policy of the output that has a rule.
LEMMA FirstDenyingIsOne ==
  ASSUME NEW o, NEW seen, DenyingPolicies(o, seen) # {}
  PROVE  FirstDenying(o, seen) \in DenyingPolicies(o, seen)
<1>1. DenyingPolicies(o, seen) \in SUBSET Roots
  BY DEF DenyingPolicies, Policies
<1>2. \E i \in DenyingPolicies(o, seen) :
        \A j \in DenyingPolicies(o, seen) : i <= j
  BY <1>1, LeastRoot
<1> QED BY <1>2 DEF FirstDenying

LEMMA RuleTypes ==
  ASSUME NEW o \in Outputs, NEW i \in Policies(o), Rule(o, i) # NoRule
  PROVE  Rule(o, i) \in Rules /\ Rule(o, i) \in RulesOf(o)
<1>1. Caps[o][i] \in Blocks
  BY ConstantsAssumption DEF Policies
<1> QED BY <1>1 DEF Blocks, Rule, RulesOf

----------------------------------------------------------------------------
(* Type correctness                                                        *)

Entries == [seenAt : SUBSET Presentations, cooldownUntil : Nat]

LEMMA HydratedType ==
  ASSUME TypeOK, NEW base \in [Keys -> Entries]
  PROVE  Hydrated(base) \in [Keys -> Entries]
<1>1. CASE storage = Malformed
  BY <1>1 DEF Hydrated
<1>2. CASE storage # Malformed
  <2>1. storage \in [Keys -> Entries]
    BY <1>2 DEF TypeOK, Entries
  <2>2. ASSUME NEW k \in Keys
        PROVE  [seenAt |-> Valid(storage[k].seenAt),
           cooldownUntil |-> storage[k].cooldownUntil] \in Entries
    BY <2>1 DEF Entries, Valid
  <2> QED BY <1>2, <2>1, <2>2 DEF Hydrated
<1> QED BY <1>1, <1>2

LEMMA NoHistoryType == NoHistory \in [Keys -> Entries]
  BY DEF NoHistory, EmptyEntry, Entries

LEMMA TypeInit == Init => TypeOK
  BY ConstantsAssumption, NoHistoryType DEF Init, TypeOK, Entries

LEMMA TypeStep == TypeOK /\ [Next]_vars => TypeOK'
<1> SUFFICES ASSUME TypeOK, [Next]_vars PROVE TypeOK'
  OBVIOUS
<1>c. capsByKey \in [Keys -> Entries]
  BY DEF TypeOK, Entries
<1>k. \A o \in Outputs : CapKey[o] \in Keys
  BY ConstantsAssumption
<1>r. ASSUME NEW k \in Keys, NEW seen \in SUBSET Presentations, NEW until \in Nat,
             Remember(k, seen, until)
      PROVE  capsByKey' \in [Keys -> Entries]
  BY <1>c, <1>r DEF Remember, Entries
<1>e. \A k \in Keys : /\ Valid(capsByKey[k].seenAt) \in SUBSET Presentations
                      /\ capsByKey[k].cooldownUntil \in Nat
  BY <1>c DEF Valid, Entries
<1>1. ASSUME NEW o \in Outputs, EnforceUncapped(o) PROVE TypeOK'
  BY <1>1 DEF EnforceUncapped, Answer, TypeOK
<1>2. ASSUME NEW o \in Outputs, EnforceCooldown(o) PROVE TypeOK'
  <2>1. capsByKey' \in [Keys -> Entries]
    BY <1>2, <1>r, <1>e, <1>k DEF EnforceCooldown
  <2>2. verdict' = Answer(o, "cooldown")
    BY <1>2 DEF EnforceCooldown
  <2> QED BY <1>2, <2>1, <2>2 DEF EnforceCooldown, Answer, TypeOK, Entries
<1>3. ASSUME NEW o \in Outputs, EnforceCap(o) PROVE TypeOK'
  <2> DEFINE k == CapKey[o]
             seen == Valid(capsByKey[k].seenAt)
             i == FirstDenying(o, seen)
  <2>1. i \in DenyingPolicies(o, seen)
    BY <1>3, FirstDenyingIsOne DEF EnforceCap
  <2>2. Rule(o, i) \in Rules
    BY <2>1, RuleTypes DEF DenyingPolicies
  <2>3. Rule(o, i).period \in Periods
    BY <2>2 DEF Rules
  <2>4. Within(seen, Rule(o, i).period, now) \in SUBSET Presentations
    BY <1>e, <1>k DEF Within
  <2>5. Remember(k, Within(seen, Rule(o, i).period, now), capsByKey[k].cooldownUntil)
    BY <1>3 DEF EnforceCap
  <2>6. verdict' = Answer(o, Rule(o, i).period)
    BY <1>3 DEF EnforceCap
  <2>7. UNCHANGED <<now, storage, shown, nextId>>
    BY <1>3 DEF EnforceCap
  <2>8. capsByKey' \in [Keys -> Entries]
    <3> HIDE DEF seen, i
    <3> QED BY <1>e, <1>k, <1>r, <2>4, <2>5
  <2> HIDE DEF seen, i
  <2> QED BY <2>3, <2>6, <2>7, <2>8 DEF Answer, TypeOK, Entries
<1>4. ASSUME NEW o \in Outputs, EnforcePresent(o) PROVE TypeOK'
  <2> DEFINE k == CapKey[o]
             p == [id |-> nextId, at |-> now, by |-> o]
             until == IF MaxCooldown(o) > 0 THEN now + MaxCooldown(o) ELSE 0
             seen == Valid(capsByKey[k].seenAt)
  <2>1. p \in Presentations /\ k \in Keys
    BY <1>k DEF Presentations, TypeOK
  <2>2. seen \in SUBSET Presentations
    BY <1>e, <2>1
  <2>3. until \in Nat
    BY MaxCooldownNat DEF TypeOK
  <2>4. Remember(k, seen \cup {p}, until)
    BY <1>4 DEF EnforcePresent
  <2>5. capsByKey' \in [Keys -> Entries]
    <3> HIDE DEF p, seen, until
    <3> QED BY <1>r, <2>1, <2>2, <2>3, <2>4
  <2>6. shown' = [shown EXCEPT ![k] = @ \cup {p}]
    BY <1>4 DEF EnforcePresent
  <2>7. storage' = capsByKey' /\ nextId' = nextId + 1 /\ UNCHANGED now
    BY <1>4 DEF EnforcePresent
  <2>8. verdict' = Answer(o, "none")
    BY <1>4 DEF EnforcePresent
  <2>9. shown' \in [Keys -> SUBSET Presentations]
    BY <2>1, <2>6 DEF TypeOK
  <2> HIDE DEF p, seen, until
  <2> QED BY <2>5, <2>7, <2>8, <2>9 DEF TypeOK, Answer, Entries
<1>d. DropMalformed => storage' \in [Keys -> Entries] \cup {Malformed}
  BY NoHistoryType DEF DropMalformed, TypeOK, Entries
<1>5. CASE Hydrate
  BY <1>5, <1>c, <1>d, HydratedType DEF Hydrate, TypeOK, Entries
<1>6. CASE Restart
  <2>1. capsByKey' \in [Keys -> Entries]
    BY <1>6, NoHistoryType, HydratedType DEF Restart
  <2>2. shown' \in [Keys -> SUBSET Presentations]
    BY <1>6 DEF Restart, TypeOK
  <2> QED BY <1>6, <1>d, <2>1, <2>2 DEF Restart, TypeOK, Entries
<1>7. CASE CorruptStorage
  BY <1>7 DEF CorruptStorage, TypeOK
<1>8. CASE Tick
  BY <1>8 DEF Tick, TypeOK
<1>9. CASE UNCHANGED vars
  BY <1>9 DEF vars, TypeOK
<1> QED BY <1>1, <1>2, <1>3, <1>4, <1>5, <1>6, <1>7, <1>8, <1>9 DEF Next, Enforce

\* The maps, the storage and the answers keep their shape, for every output
\* and every caps block an output carries.
THEOREM TypeCorrect == Spec => []TypeOK
  BY TypeInit, TypeStep, PTL DEF Spec


----------------------------------------------------------------------------
(* The inductive invariant.  What is shown is dated and numbered in order, *)
(* and both maps remember what the narrowest windows and the cooldowns of  *)
(* their keys depend on.                                                   *)

ShownInOrder ==
  /\ 0 < now
  /\ \A k \in Keys : \A p \in shown[k] :
       p.id < nextId /\ 0 < p.at /\ p.at <= now /\ CapKey[p.by] = k

IInv == TypeOK /\ ShownInOrder /\ HistoryRetained


LEMMA ShownPresentations ==
  ASSUME TypeOK, NEW k \in Keys, NEW p \in shown[k]
  PROVE  p \in Presentations /\ p.id \in Nat /\ p.at \in Nat /\ MaxCooldown(p.by) \in Nat
<1>1. p \in Presentations
  BY DEF TypeOK
<1>2. p.by \in Outputs /\ p.id \in Nat /\ p.at \in Nat
  BY <1>1 DEF Presentations
<1> QED BY <1>1, <1>2, MaxCooldownNat

LEMMA KeyRulesAreRules ==
  ASSUME NEW k \in Keys
  PROVE  KeyRules(k) \subseteq Rules
<1>1. ASSUME NEW o \in Outputs, NEW r \in RulesOf(o) PROVE r \in Rules
  <2>1. PICK i \in Policies(o) : r = Rule(o, i) /\ Rule(o, i) # NoRule
    BY <1>1 DEF RulesOf
  <2> QED BY <2>1, RuleTypes
<1> QED BY <1>1 DEF KeyRules

LEMMA WindowStartMonotone ==
  ASSUME NEW q \in Periods, NEW s \in Nat, NEW t \in Nat, s <= t
  PROVE  /\ WindowStart(q, s) \in Int
         /\ WindowStart(q, s) <= WindowStart(q, t)
<1>1. CASE q \in Whole
  BY <1>1 DEF WindowStart
<1>2. CASE q \notin Whole
  <2>1. q \in Bounded
    BY <1>2 DEF Periods
  <2>2. PeriodLength[q] \in Nat
    BY <2>1, ConstantsAssumption
  <2> QED BY <1>2, <2>2 DEF WindowStart
<1> QED BY <1>1, <1>2

\* The clean-up on read drops nothing that is remembered.
LEMMA ValidKeepsShown ==
  ASSUME ShownInOrder, NEW k \in Keys, NEW seen \in SUBSET shown[k]
  PROVE  Valid(seen) = seen
  BY DEF ShownInOrder, Valid

\* Remembers with the state it speaks of as parameters.
Recalls(k, e, sh, t) ==
  /\ IsFiniteSet(e.seenAt)
  /\ e.seenAt \subseteq sh
  /\ \A p \in sh :
       /\ (\A r \in KeyRules(k) : WindowStart(r.period, t) <= p.at) => p \in e.seenAt
       /\ t < p.at + MaxCooldown(p.by) => p.at + MaxCooldown(p.by) <= e.cooldownUntil

LEMMA RetainedIsRecalled ==
  /\ HistoryRetained <=>
       /\ \A k \in Keys : Recalls(k, capsByKey[k], shown[k], now)
       /\ storage # Malformed =>
            \A k \in Keys : storage[k] # EmptyEntry => Recalls(k, storage[k], shown[k], now)
  /\ HistoryRetained' <=>
       /\ \A k \in Keys : Recalls(k, capsByKey'[k], shown'[k], now')
       /\ storage' # Malformed =>
            \A k \in Keys : storage'[k] # EmptyEntry => Recalls(k, storage'[k], shown'[k], now')
  BY DEF HistoryRetained, Remembers, Recalls, InEveryWindow

\* What is remembered now is remembered once the clock has moved on.
LEMMA RecalledLater ==
  ASSUME NEW k \in Keys, NEW e, NEW sh \in SUBSET Presentations, NEW t \in Nat,
         Recalls(k, e, sh, t)
  PROVE  Recalls(k, e, sh, t + 1)
<1>1. ASSUME NEW p \in sh, \A r \in KeyRules(k) : WindowStart(r.period, t + 1) <= p.at
      PROVE  p \in e.seenAt
  <2>1. ASSUME NEW r \in KeyRules(k) PROVE WindowStart(r.period, t) <= p.at
    <3>1. r.period \in Periods
      BY KeyRulesAreRules DEF Rules
    <3>2. p.at \in Nat
      BY DEF Presentations
    <3>3. /\ WindowStart(r.period, t) <= WindowStart(r.period, t + 1)
          /\ WindowStart(r.period, t) \in Int /\ WindowStart(r.period, t + 1) \in Int
      BY <3>1, WindowStartMonotone
    <3> QED BY <1>1, <3>2, <3>3
  <2> QED BY <2>1 DEF Recalls
<1>2. ASSUME NEW p \in sh, t + 1 < p.at + MaxCooldown(p.by)
      PROVE  p.at + MaxCooldown(p.by) <= e.cooldownUntil
  <2>1. p.at \in Nat /\ MaxCooldown(p.by) \in Nat
    BY MaxCooldownNat DEF Presentations
  <2>2. t < p.at + MaxCooldown(p.by)
    BY <1>2, <2>1
  <2> QED BY <2>2 DEF Recalls
<1> QED BY <1>1, <1>2 DEF Recalls

\* Trimming to the window of a rule of the key forgets nothing that matters.
LEMMA RecalledTrimmed ==
  ASSUME NEW k \in Keys, NEW seen, NEW until, NEW sh, NEW t, NEW r \in KeyRules(k),
         Recalls(k, [seenAt |-> seen, cooldownUntil |-> until], sh, t),
         \A p \in sh : p.at <= t
  PROVE  Recalls(k, [seenAt |-> Within(seen, r.period, t), cooldownUntil |-> until], sh, t)
<1>1. Within(seen, r.period, t) \subseteq seen
  BY DEF Within
<1>2. IsFiniteSet(Within(seen, r.period, t))
  BY <1>1, FS_Subset DEF Recalls
<1>3. ASSUME NEW p \in sh, \A q \in KeyRules(k) : WindowStart(q.period, t) <= p.at
      PROVE  p \in Within(seen, r.period, t)
  BY <1>3 DEF Recalls, Within
<1> QED BY <1>1, <1>2, <1>3 DEF Recalls

\* A presentation allowed once every cooldown has run out is remembered too.
LEMMA RecalledPresented ==
  ASSUME NEW k \in Keys, NEW seen, NEW until \in Nat,
         NEW sh \in SUBSET Presentations, NEW t \in Nat, NEW p \in Presentations,
         Recalls(k, [seenAt |-> seen, cooldownUntil |-> until], sh, t),
         until <= t, p.at = t,
         NEW next, next = IF MaxCooldown(p.by) > 0 THEN t + MaxCooldown(p.by) ELSE 0
  PROVE  Recalls(k, [seenAt |-> seen \cup {p}, cooldownUntil |-> next], sh \cup {p}, t)
<1>1. IsFiniteSet(seen \cup {p})
  BY FS_AddElement DEF Recalls
<1>2. ASSUME NEW q \in sh PROVE ~(t < q.at + MaxCooldown(q.by))
  <2>1. q.at \in Nat /\ MaxCooldown(q.by) \in Nat
    BY MaxCooldownNat DEF Presentations
  <2>2. t < q.at + MaxCooldown(q.by) => q.at + MaxCooldown(q.by) <= until
    BY DEF Recalls
  <2> QED BY <2>1, <2>2
<1>3. t < p.at + MaxCooldown(p.by) => p.at + MaxCooldown(p.by) <= next
  <2>1. MaxCooldown(p.by) \in Nat
    BY MaxCooldownNat DEF Presentations
  <2> QED BY <2>1
<1> QED BY <1>1, <1>2, <1>3 DEF Recalls


----------------------------------------------------------------------------
(* The invariant is inductive.                                             *)

LEMMA OrderStep == TypeOK /\ ShownInOrder /\ [Next]_vars => ShownInOrder'
<1> SUFFICES ASSUME TypeOK, ShownInOrder, [Next]_vars PROVE ShownInOrder'
  OBVIOUS
<1>0. now \in Nat /\ nextId \in Nat
  BY DEF TypeOK
<1>1. CASE UNCHANGED <<now, shown, nextId>>
  BY <1>1 DEF ShownInOrder
<1>2. ASSUME NEW o \in Outputs, EnforcePresent(o) PROVE ShownInOrder'
  <2> DEFINE p == [id |-> nextId, at |-> now, by |-> o]
  <2>1. /\ shown' = [shown EXCEPT ![CapKey[o]] = @ \cup {p}]
        /\ nextId' = nextId + 1 /\ now' = now
    BY <1>2 DEF EnforcePresent
  <2>2. 0 < now /\ CapKey[o] \in Keys
    BY ConstantsAssumption DEF ShownInOrder
  <2>3. ASSUME NEW k \in Keys, NEW q \in shown'[k]
        PROVE  q.id < nextId' /\ 0 < q.at /\ q.at <= now' /\ CapKey[q.by] = k
    <3>1. CASE q \in shown[k]
      <4>1. q.id \in Nat
        BY <3>1, ShownPresentations
      <4> QED BY <1>0, <2>1, <3>1, <4>1 DEF ShownInOrder
    <3>2. CASE q \notin shown[k]
      <4>1. k = CapKey[o] /\ q = p
        BY <2>1, <3>2 DEF TypeOK
      <4> QED BY <1>0, <2>1, <2>2, <4>1
    <3> QED BY <3>1, <3>2
  <2> QED BY <2>1, <2>2, <2>3 DEF ShownInOrder
<1>3. CASE Restart
  <2>1. UNCHANGED <<now, nextId>> /\ \A k \in Keys : shown'[k] \subseteq shown[k]
    BY <1>3 DEF Restart
  <2> QED BY <2>1 DEF ShownInOrder
<1>4. CASE Tick
  <2>1. now' = now + 1 /\ UNCHANGED <<shown, nextId>>
    BY <1>4 DEF Tick
  <2>2. ASSUME NEW k \in Keys, NEW p \in shown[k] PROVE p.at <= now'
    BY <1>0, <2>1, ShownPresentations DEF ShownInOrder
  <2> QED BY <1>0, <2>1, <2>2 DEF ShownInOrder
<1> QED BY <1>1, <1>2, <1>3, <1>4
        DEF Next, Enforce, EnforceUncapped, EnforceCooldown, EnforceCap,
            Hydrate, CorruptStorage, vars


LEMMA HistoryStep == IInv /\ [Next]_vars => HistoryRetained'
<1> SUFFICES ASSUME IInv, [Next]_vars PROVE HistoryRetained'
  OBVIOUS
<1>t. /\ now \in Nat
      /\ capsByKey \in [Keys -> Entries]
      /\ storage # Malformed => storage \in [Keys -> Entries]
      /\ shown \in [Keys -> SUBSET Presentations]
  BY DEF IInv, TypeOK, Entries
<1>m. \A k \in Keys : Recalls(k, capsByKey[k], shown[k], now)
  BY RetainedIsRecalled DEF IInv
<1>s. storage # Malformed =>
        \A k \in Keys : storage[k] # EmptyEntry => Recalls(k, storage[k], shown[k], now)
  BY RetainedIsRecalled DEF IInv
<1>v. \A k \in Keys : \A seen \in SUBSET shown[k] : Valid(seen) = seen
  BY ValidKeepsShown DEF IInv
<1>x. \A k \in Keys : /\ Valid(capsByKey[k].seenAt) = capsByKey[k].seenAt
                      /\ capsByKey[k] = [seenAt |-> capsByKey[k].seenAt,
                                         cooldownUntil |-> capsByKey[k].cooldownUntil]
  <2>1. \A k \in Keys : capsByKey[k].seenAt \in SUBSET shown[k]
    BY <1>m DEF Recalls
  <2>2. \A k \in Keys : capsByKey[k] \in Entries
    BY <1>t
  <2> QED BY <1>v, <2>1, <2>2 DEF Entries
<1>k. \A o \in Outputs : CapKey[o] \in Keys
  BY ConstantsAssumption
<1>1. CASE UNCHANGED <<now, capsByKey, storage, shown>>
  BY <1>1, <1>m, <1>s, RetainedIsRecalled
<1>2. ASSUME NEW o \in Outputs, EnforceCooldown(o) PROVE HistoryRetained'
  <2>1. capsByKey' = [capsByKey EXCEPT ![CapKey[o]] =
          [seenAt |-> Valid(capsByKey[CapKey[o]].seenAt),
           cooldownUntil |-> capsByKey[CapKey[o]].cooldownUntil]]
    BY <1>2 DEF EnforceCooldown, Remember
  <2>2. capsByKey' = capsByKey
    BY <1>k, <1>t, <1>x, <2>1
  <2>3. UNCHANGED <<now, storage, shown>>
    BY <1>2 DEF EnforceCooldown
  <2> QED BY <1>1, <2>2, <2>3
<1>3. ASSUME NEW o \in Outputs, EnforceCap(o) PROVE HistoryRetained'
  <2> DEFINE k == CapKey[o]
             seen == capsByKey[k].seenAt
             until == capsByKey[k].cooldownUntil
             r == Rule(o, FirstDenying(o, seen))
  <2>0. k \in Keys
    BY <1>k
  <2>1. Valid(capsByKey[k].seenAt) = seen
    BY <1>x, <2>0
  <2>2. /\ DenyingPolicies(o, seen) # {}
        /\ Remember(k, Within(seen, r.period, now), until)
        /\ UNCHANGED <<now, storage, shown>>
    BY <1>3, <2>1 DEF EnforceCap
  <2>3. r \in RulesOf(o)
    BY <2>2, FirstDenyingIsOne, RuleTypes DEF DenyingPolicies
  <2>4. r \in KeyRules(k)
    BY <2>3 DEF KeyRules
  <2>5. \A p \in shown[k] : p.at <= now
    BY <2>0 DEF IInv, ShownInOrder
  <2>6. Recalls(k, [seenAt |-> seen, cooldownUntil |-> until], shown[k], now)
    BY <1>m, <1>x, <2>0
  <2>7. Recalls(k, [seenAt |-> Within(seen, r.period, now), cooldownUntil |-> until],
                shown[k], now)
    <3> HIDE DEF r, seen, until
    <3> QED BY <2>0, <2>4, <2>5, <2>6, RecalledTrimmed
  <2>8. ASSUME NEW j \in Keys PROVE Recalls(j, capsByKey'[j], shown[j], now)
    <3> HIDE DEF r, seen, until
    <3>1. capsByKey' = [capsByKey EXCEPT ![k] =
            [seenAt |-> Within(seen, r.period, now), cooldownUntil |-> until]]
      BY <2>2 DEF Remember
    <3>2. CASE j = k
      BY <1>t, <2>0, <2>7, <3>1, <3>2
    <3>3. CASE j # k
      BY <1>m, <1>t, <3>1, <3>3
    <3> QED BY <3>2, <3>3
  <2> QED BY <1>s, <2>2, <2>8, RetainedIsRecalled
<1>4. ASSUME NEW o \in Outputs, EnforcePresent(o) PROVE HistoryRetained'
  <2> DEFINE k == CapKey[o]
             seen == capsByKey[k].seenAt
             until == capsByKey[k].cooldownUntil
             next == IF MaxCooldown(o) > 0 THEN now + MaxCooldown(o) ELSE 0
             p == [id |-> nextId, at |-> now, by |-> o]
  <2>0. k \in Keys
    BY <1>k
  <2>1. Valid(capsByKey[k].seenAt) = seen
    BY <1>x, <2>0
  <2>2. /\ ~(until > now)
        /\ Remember(k, seen \cup {p}, next)
        /\ shown' = [shown EXCEPT ![k] = @ \cup {p}]
        /\ storage' = capsByKey'
        /\ now' = now
    BY <1>4, <2>1 DEF EnforcePresent, CoolingDown
  <2>3. p \in Presentations /\ p.at = now /\ p.by = o
    BY DEF Presentations, IInv, TypeOK
  <2>4. until \in Nat
    BY <1>t, <2>0 DEF Entries
  <2>5. Recalls(k, [seenAt |-> seen, cooldownUntil |-> until], shown[k], now)
    BY <1>m, <1>x, <2>0
  <2>6. Recalls(k, [seenAt |-> seen \cup {p}, cooldownUntil |-> next],
                shown[k] \cup {p}, now)
    <3>1. until <= now
      BY <1>t, <2>2, <2>4
    <3>2. shown[k] \in SUBSET Presentations
      BY <1>t, <2>0
    <3>3. next = IF MaxCooldown(p.by) > 0 THEN now + MaxCooldown(p.by) ELSE 0
      BY <2>3
    <3> HIDE DEF seen, until, next, p
    <3> QED BY <1>t, <2>0, <2>3, <2>4, <2>5, <3>1, <3>2, <3>3, RecalledPresented
  <2>7. ASSUME NEW j \in Keys PROVE Recalls(j, capsByKey'[j], shown'[j], now)
    <3> HIDE DEF seen, until, next, p
    <3>1. capsByKey' = [capsByKey EXCEPT ![k] =
            [seenAt |-> seen \cup {p}, cooldownUntil |-> next]]
      BY <2>2 DEF Remember
    <3>2. CASE j = k
      BY <1>t, <2>0, <2>2, <2>6, <3>1, <3>2
    <3>3. CASE j # k
      BY <1>m, <1>t, <2>2, <3>1, <3>3
    <3> QED BY <3>2, <3>3
  <2> QED BY <2>2, <2>7, RetainedIsRecalled
<1>h. ASSUME NEW base, NEW k \in Keys
      PROVE  Hydrated(base)[k] = IF storage = Malformed \/ storage[k] = EmptyEntry
                                 THEN base[k] ELSE storage[k]
  <2>1. CASE storage = Malformed \/ storage[k] = EmptyEntry
    BY <2>1 DEF Hydrated
  <2>2. CASE ~(storage = Malformed \/ storage[k] = EmptyEntry)
    <3>1. storage[k].seenAt \in SUBSET shown[k] /\ storage[k] \in Entries
      BY <1>s, <1>t, <2>2 DEF Recalls
    <3>2. Valid(storage[k].seenAt) = storage[k].seenAt
      BY <1>v, <3>1
    <3>3. Hydrated(base)[k] =
            [seenAt |-> Valid(storage[k].seenAt), cooldownUntil |-> storage[k].cooldownUntil]
      BY <2>2 DEF Hydrated
    <3> QED BY <2>2, <3>1, <3>2, <3>3 DEF Entries
  <2> QED BY <2>1, <2>2
<1>d. ASSUME DropMalformed, NEW k \in Keys, storage'[k] # EmptyEntry
      PROVE  storage # Malformed /\ storage'[k] = storage[k]
  BY <1>d DEF DropMalformed, NoHistory
<1>5. CASE Hydrate
  <2>1. \A k \in Keys : Recalls(k, capsByKey'[k], shown[k], now)
    BY <1>5, <1>h, <1>m, <1>s DEF Hydrate
  <2>2. \A k \in Keys : storage'[k] # EmptyEntry => Recalls(k, storage'[k], shown[k], now)
    BY <1>5, <1>d, <1>s DEF Hydrate
  <2> QED BY <1>5, <2>1, <2>2, RetainedIsRecalled DEF Hydrate
<1>6. CASE Restart
  <2>0. /\ now' = now
        /\ capsByKey' = Hydrated(NoHistory)
        /\ DropMalformed
        /\ shown' = [k \in Keys |-> IF capsByKey'[k] = EmptyEntry THEN {} ELSE shown[k]]
    BY <1>6 DEF Restart
  <2>1. ASSUME NEW k \in Keys PROVE Recalls(k, capsByKey'[k], shown'[k], now)
    <3>1. CASE capsByKey'[k] = EmptyEntry
      <4>1. shown'[k] = {}
        BY <2>0, <3>1
      <4> QED BY <3>1, <4>1, FS_EmptySet DEF Recalls, EmptyEntry
    <3>2. CASE capsByKey'[k] # EmptyEntry
      <4>1. shown'[k] = shown[k]
        BY <2>0, <3>2
      <4>2. storage # Malformed /\ storage[k] # EmptyEntry /\ capsByKey'[k] = storage[k]
        BY <1>h, <2>0, <3>2 DEF NoHistory
      <4> QED BY <1>s, <4>1, <4>2
    <3> QED BY <3>1, <3>2
  <2>2. ASSUME NEW k \in Keys, storage'[k] # EmptyEntry
        PROVE  Recalls(k, storage'[k], shown'[k], now)
    <3>1. storage # Malformed /\ storage'[k] = storage[k]
      BY <1>d, <2>0, <2>2
    <3>2. capsByKey'[k] = storage[k]
      BY <1>h, <2>0, <2>2, <3>1
    <3> QED BY <2>1, <3>1, <3>2
  <2> QED BY <2>0, <2>1, <2>2, RetainedIsRecalled
<1>7. CASE CorruptStorage
  BY <1>7, <1>m, RetainedIsRecalled DEF CorruptStorage
<1>8. CASE Tick
  <2>0. now' = now + 1 /\ UNCHANGED <<capsByKey, storage, shown>>
    BY <1>8 DEF Tick
  <2>1. ASSUME NEW k \in Keys, NEW e, Recalls(k, e, shown[k], now)
        PROVE  Recalls(k, e, shown[k], now')
    BY <1>t, <2>0, <2>1, RecalledLater
  <2> QED BY <1>m, <1>s, <2>0, <2>1, RetainedIsRecalled
<1> QED BY <1>1, <1>2, <1>3, <1>4, <1>5, <1>6, <1>7, <1>8
        DEF Next, Enforce, EnforceUncapped, vars

LEMMA InvInit == Init => IInv
<1> SUFFICES ASSUME Init PROVE IInv
  OBVIOUS
<1>1. TypeOK
  BY TypeInit
<1>2. ShownInOrder
  BY ConstantsAssumption DEF Init, ShownInOrder
<1>3. \A k \in Keys : Remembers(k, EmptyEntry)
  BY FS_EmptySet DEF Init, Remembers, EmptyEntry
<1>4. HistoryRetained
  BY <1>3 DEF Init, HistoryRetained, NoHistory
<1> QED BY <1>1, <1>2, <1>4 DEF IInv

LEMMA InvStep == IInv /\ [Next]_vars => IInv'
  BY TypeStep, OrderStep, HistoryStep DEF IInv

LEMMA Invariance == Spec => []IInv
  BY InvInit, InvStep, PTL DEF Spec

\* Memory and storage always remember what the narrowest window and the
\* cooldown of each key depend on, through any denials, trims and restarts.
THEOREM HistoryIsRetained == Spec => []HistoryRetained
<1>1. IInv => HistoryRetained
  BY DEF IInv
<1> QED BY <1>1, Invariance, PTL


----------------------------------------------------------------------------
(* What the invariant gives: cooldowns and the narrowest caps are kept.    *)

\* What EnforcePresent adds to the history of the output's key, and to no other.
LEMMA PresentAdds ==
  ASSUME IInv, NEW o \in Outputs, EnforcePresent(o), NEW k \in Keys, NEW q \in shown'[k],
         q \notin shown[k]
  PROVE  q = [id |-> nextId, at |-> now, by |-> o] /\ k = CapKey[o]
<1>1. shown' = [shown EXCEPT ![CapKey[o]] = @ \cup {[id |-> nextId, at |-> now, by |-> o]}]
  BY DEF EnforcePresent
<1> QED BY <1>1 DEF IInv, TypeOK

\* Only EnforcePresent adds to a history.
LEMMA OthersAddNothing ==
  ASSUME IInv, [Next]_vars, \A o \in Outputs : ~EnforcePresent(o), NEW k \in Keys
  PROVE  shown'[k] \subseteq shown[k]
  BY DEF Next, Enforce, EnforceUncapped, EnforceCooldown, EnforceCap, Hydrate,
         Restart, CorruptStorage, Tick, vars

LEMMA CooldownStep == IInv /\ CooldownKept /\ [Next]_vars => CooldownKept'
<1> SUFFICES ASSUME IInv, CooldownKept, [Next]_vars,
                    NEW k \in Keys, NEW p \in shown'[k], NEW q \in shown'[k], p.id < q.id
             PROVE  q.at >= p.at + MaxCooldown(p.by)
  BY DEF CooldownKept
<1>1. CASE \A o \in Outputs : ~EnforcePresent(o)
  <2>1. p \in shown[k] /\ q \in shown[k]
    BY <1>1, OthersAddNothing
  <2> QED BY <2>1 DEF CooldownKept
<1>2. ASSUME NEW o \in Outputs, EnforcePresent(o) PROVE q.at >= p.at + MaxCooldown(p.by)
  <2>0. nextId \in Nat /\ now \in Nat
    BY DEF IInv, TypeOK
  <2>1. CASE p \in shown[k] /\ q \in shown[k]
    BY <2>1 DEF CooldownKept
  <2>2. CASE p \notin shown[k]
    <3>1. p.id = nextId
      BY <1>2, <2>2, PresentAdds
    <3>2. q.id = nextId \/ q.id < nextId
      BY <1>2, PresentAdds DEF IInv, ShownInOrder
    <3>3. q.id \in Nat
      BY <1>2, <2>0, PresentAdds, ShownPresentations DEF IInv
    <3> QED BY <2>0, <3>1, <3>2, <3>3
  <2>3. CASE p \in shown[k] /\ q \notin shown[k]
    <3>1. q.at = now /\ k = CapKey[o]
      BY <1>2, <2>3, PresentAdds
    <3>2. ~(capsByKey[k].cooldownUntil > now)
      BY <1>2, <3>1 DEF EnforcePresent, CoolingDown
    <3>3. now < p.at + MaxCooldown(p.by) =>
            p.at + MaxCooldown(p.by) <= capsByKey[k].cooldownUntil
      BY <2>3 DEF IInv, HistoryRetained, Remembers
    <3>4. p.at \in Nat /\ MaxCooldown(p.by) \in Nat
      BY <2>3, ShownPresentations DEF IInv
    <3>5. capsByKey[k].cooldownUntil \in Nat
      BY DEF IInv, TypeOK
    <3> QED BY <2>0, <3>1, <3>2, <3>3, <3>4, <3>5
  <2> QED BY <2>1, <2>2, <2>3
<1> QED BY <1>1, <1>2

\* A cooldown is kept for every set of outputs that share a key, whatever the
\* policies they carry and whenever the process restarts.
THEOREM CooldownsAreKept == Spec => []CooldownKept
<1>1. Init => CooldownKept
  BY DEF Init, CooldownKept
<1> QED BY <1>1, CooldownStep, Invariance, PTL DEF Spec

\* Over the narrowest window of a key, enforce sees everything that was shown.
LEMMA NarrowestSeesAll ==
  ASSUME IInv, NEW o \in Outputs, NEW r \in NarrowestRules(o),
         NEW p \in shown[CapKey[o]], WindowStart(r.period, now) <= p.at
  PROVE  p \in capsByKey[CapKey[o]].seenAt
<1> DEFINE k == CapKey[o]
<1>0. k \in Keys /\ now \in Nat
  BY ConstantsAssumption DEF IInv, TypeOK
<1>1. ASSUME NEW q \in KeyRules(k) PROVE WindowStart(q.period, now) <= p.at
  <2>1. Wider(q.period, r.period)
    BY DEF NarrowestRules
  <2>2. r \in KeyRules(k)
    BY DEF NarrowestRules, KeyRules
  <2>3. q.period \in Periods /\ r.period \in Periods
    BY <1>0, <2>2, KeyRulesAreRules DEF Rules
  <2>4. p.at \in Nat
    BY <1>0, ShownPresentations DEF IInv
  <2>5. CASE q.period \in Whole
    BY <2>4, <2>5 DEF WindowStart
  <2>6. CASE q.period \notin Whole
    <3>1. /\ q.period \in Bounded /\ r.period \in Bounded
          /\ PeriodLength[r.period] <= PeriodLength[q.period]
      BY <2>1, <2>3, <2>6 DEF Wider, Periods
    <3>2. r.period \notin Whole
      BY <3>1 DEF Bounded, Whole
    <3>3. PeriodLength[r.period] \in Nat /\ PeriodLength[q.period] \in Nat
      BY <3>1, ConstantsAssumption
    <3>4. WindowStart(r.period, now) = now - PeriodLength[r.period]
      BY <3>2 DEF WindowStart
    <3>5. WindowStart(q.period, now) = now - PeriodLength[q.period]
      BY <2>6 DEF WindowStart
    <3> QED BY <1>0, <2>4, <3>1, <3>3, <3>4, <3>5
  <2> QED BY <2>5, <2>6
<1> QED BY <1>0, <1>1 DEF IInv, HistoryRetained, Remembers, InEveryWindow

\* enforce lets an output through only while each of its narrowest rules still
\* has room, counted over everything shown under its key.
LEMMA PresentHasRoom ==
  ASSUME IInv, NEW o \in Outputs, EnforcePresent(o), NEW r \in NarrowestRules(o)
  PROVE  /\ IsFiniteSet(Within(shown[CapKey[o]], r.period, now))
         /\ Cardinality(Within(shown[CapKey[o]], r.period, now)) < r.count
<1> DEFINE k == CapKey[o]
           seen == capsByKey[k].seenAt
<1>0. k \in Keys
  BY ConstantsAssumption
<1>1. IsFiniteSet(seen) /\ seen \subseteq shown[k]
  BY <1>0 DEF IInv, HistoryRetained, Remembers
<1>2. Valid(seen) = seen
  BY <1>0, <1>1, ValidKeepsShown DEF IInv
<1>3. DenyingPolicies(o, seen) = {}
  BY <1>2 DEF EnforcePresent
<1>4. PICK i \in Policies(o) : r = Rule(o, i) /\ r # NoRule
  BY DEF NarrowestRules, RulesOf
<1>5. ~Full(r, seen)
  BY <1>3, <1>4 DEF DenyingPolicies
<1>6. Within(shown[k], r.period, now) = Within(seen, r.period, now)
  <2>1. ASSUME NEW p \in shown[k], WindowStart(r.period, now) <= p.at PROVE p \in seen
    BY <2>1, NarrowestSeesAll
  <2> QED BY <1>1, <2>1 DEF Within
<1>7. IsFiniteSet(Within(seen, r.period, now))
  <2>1. Within(seen, r.period, now) \subseteq seen
    BY DEF Within
  <2> QED BY <1>1, <2>1, FS_Subset
<1>8. Cardinality(Within(seen, r.period, now)) \in Nat
  BY <1>7, FS_CardinalityType
<1>9. r.count \in Nat
  BY <1>4, RuleTypes DEF Rules
<1>10. ~(Cardinality(Within(seen, r.period, now)) >= r.count)
  BY <1>5 DEF Full
<1> HIDE DEF seen
<1> QED BY <1>6, <1>7, <1>8, <1>9, <1>10

LEMMA NarrowestStep == IInv /\ NarrowestCapKept /\ [Next]_vars => NarrowestCapKept'
<1> SUFFICES ASSUME IInv, NarrowestCapKept, [Next]_vars,
                    NEW k \in Keys, NEW p \in shown'[k], NEW r \in NarrowestRules(p.by)
             PROVE  Cardinality(EarlierInWindow(k, p, r)') < r.count
  BY DEF NarrowestCapKept, KeptWithin
<1>1. CASE \A o \in Outputs : ~EnforcePresent(o)
  <2>1. CASE shown'[k] = shown[k]
    <3>1. EarlierInWindow(k, p, r)' = EarlierInWindow(k, p, r)
      BY <2>1 DEF EarlierInWindow, Within
    <3> QED BY <2>1, <3>1 DEF NarrowestCapKept, KeptWithin
  <2>2. CASE shown'[k] # shown[k]
    <3>1. shown'[k] = {}
      BY <1>1, <2>2 DEF Next, Enforce, EnforceUncapped, EnforceCooldown, EnforceCap,
            Hydrate, Restart, CorruptStorage, Tick, vars
    <3> QED BY <3>1
  <2> QED BY <2>1, <2>2
<1>2. ASSUME NEW o \in Outputs, EnforcePresent(o)
      PROVE  Cardinality(EarlierInWindow(k, p, r)') < r.count
  <2> DEFINE new == [id |-> nextId, at |-> now, by |-> o]
  <2>0. shown' = [shown EXCEPT ![CapKey[o]] = @ \cup {new}]
    BY <1>2 DEF EnforcePresent
  <2>1. \A q \in shown[k] : q.id < nextId /\ q.id \in Nat /\ q.at <= now
    BY ShownPresentations DEF IInv, ShownInOrder
  <2>2. nextId \in Nat
    BY DEF IInv, TypeOK
  <2>3. shown'[k] = shown[k] \/ shown'[k] = shown[k] \cup {new}
    BY <2>0 DEF IInv, TypeOK
  <2>4. CASE p \in shown[k]
    <3>1. \A q \in shown'[k] : q.id < p.id => q \in shown[k]
      BY <2>1, <2>2, <2>3, <2>4
    <3>2. EarlierInWindow(k, p, r)' = EarlierInWindow(k, p, r)
      BY <2>3, <3>1 DEF EarlierInWindow, Within
    <3> QED BY <2>4, <3>2 DEF NarrowestCapKept, KeptWithin
  <2>5. CASE p \notin shown[k]
    <3>1. p = new /\ k = CapKey[o]
      BY <1>2, <2>5, PresentAdds
    <3>2. r \in NarrowestRules(o)
      BY <3>1
    <3>3. \A q \in shown'[k] : q.id < p.id => q \in shown[k]
      BY <2>2, <2>3, <3>1
    <3>4. EarlierInWindow(k, p, r)' \in SUBSET Within(shown[k], r.period, now)
      BY <3>1, <3>3 DEF EarlierInWindow, Within
    <3>5. /\ IsFiniteSet(Within(shown[k], r.period, now))
          /\ Cardinality(Within(shown[k], r.period, now)) < r.count
      BY <1>2, <3>1, <3>2, PresentHasRoom
    <3>6. /\ IsFiniteSet(EarlierInWindow(k, p, r)')
          /\ Cardinality(EarlierInWindow(k, p, r)') <= Cardinality(Within(shown[k], r.period, now))
      BY <3>4, <3>5, FS_Subset
    <3>7. /\ Cardinality(EarlierInWindow(k, p, r)') \in Nat
          /\ Cardinality(Within(shown[k], r.period, now)) \in Nat
      BY <3>5, <3>6, FS_CardinalityType
    <3>8. r.count \in Nat
      <4>1. PICK i \in Policies(o) : r = Rule(o, i) /\ r # NoRule
        BY <3>2 DEF NarrowestRules, RulesOf
      <4> QED BY <4>1, RuleTypes DEF Rules
    <3> QED BY <3>5, <3>6, <3>7, <3>8
  <2> QED BY <2>4, <2>5
<1> QED BY <1>1, <1>2

\* The cap over the narrowest window of a key is never exceeded, counted over
\* everything shown, for any number of outputs, policies and restarts.
THEOREM NarrowestCapsAreKept == Spec => []NarrowestCapKept
<1>1. Init => NarrowestCapKept
  BY DEF Init, NarrowestCapKept
<1> QED BY <1>1, NarrowestStep, Invariance, PTL DEF Spec

----------------------------------------------------------------------------
(* What the refinement needs besides: every cooldown was started by a       *)
(* presentation of its key, and a storage that cannot be corrupted never    *)
(* forgets a key that has a history.                                        *)

\* The end of a cooldown is one a presentation remembered of its key started.
Started(e, sh) ==
  e.cooldownUntil # 0 => \E p \in sh : e.cooldownUntil = p.at + MaxCooldown(p.by)

\* A key with a history has an entry with timestamps, in memory and stored.
Kept(e, sh) == sh # {} => e.seenAt # {}

Founded ==
  /\ \A k \in Keys : IsFiniteSet(shown[k]) /\ Started(capsByKey[k], shown[k])
  /\ storage # Malformed => \A k \in Keys : Started(storage[k], shown[k])
  /\ ~StorageMayCorrupt =>
       /\ storage # Malformed
       /\ \A k \in Keys : Kept(capsByKey[k], shown[k]) /\ Kept(storage[k], shown[k])

LEMMA FoundedInit == Init => Founded
<1> SUFFICES ASSUME Init PROVE Founded
  OBVIOUS
<1>1. \A k \in Keys : shown[k] = {} /\ capsByKey[k] = EmptyEntry /\ storage[k] = EmptyEntry
  BY DEF Init, NoHistory
<1>2. storage # Malformed
  <2>1. DOMAIN storage = Keys /\ DOMAIN Malformed = {"malformed"}
    BY DEF Init, NoHistory, Malformed
  <2> QED BY <2>1, ConstantsAssumption
<1> QED BY <1>1, <1>2, FS_EmptySet DEF Founded, Started, Kept, EmptyEntry

\* A rule that is full has a presentation in its window.
LEMMA FullHasOne ==
  ASSUME NEW r \in Rules, NEW seen, Full(r, seen)
  PROVE  Within(seen, r.period, now) # {}
<1>1. Cardinality({}) = 0
  BY FS_EmptySet
<1>2. r.count \in Nat \ {0}
  BY DEF Rules
<1> QED BY <1>1, <1>2 DEF Full

\* What one key's entry and history may become in a step of the enforcer.
LEMMA EnforceChanges ==
  ASSUME IInv, NEW o \in Outputs, Enforce(o), NEW k \in Keys
  PROVE  \/ /\ UNCHANGED <<storage, shown>>
            /\ capsByKey'[k].cooldownUntil = capsByKey[k].cooldownUntil
            /\ capsByKey'[k] = capsByKey[k] \/ capsByKey'[k].seenAt # {}
         \/ /\ EnforcePresent(o) /\ k = CapKey[o]
            /\ shown'[k] = shown[k] \cup {[id |-> nextId, at |-> now, by |-> o]}
            /\ capsByKey'[k].seenAt # {}
            /\ capsByKey'[k].cooldownUntil =
                 IF MaxCooldown(o) > 0 THEN now + MaxCooldown(o) ELSE 0
         \/ /\ EnforcePresent(o) /\ k # CapKey[o]
            /\ shown'[k] = shown[k] /\ capsByKey'[k] = capsByKey[k]
<1>k. CapKey[o] \in Keys
  BY ConstantsAssumption
<1>t. capsByKey \in [Keys -> Entries] /\ shown \in [Keys -> SUBSET Presentations]
  BY DEF IInv, TypeOK, Entries
<1>v. /\ capsByKey[CapKey[o]].seenAt \in SUBSET shown[CapKey[o]]
      /\ Valid(capsByKey[CapKey[o]].seenAt) = capsByKey[CapKey[o]].seenAt
  <2>1. capsByKey[CapKey[o]].seenAt \in SUBSET shown[CapKey[o]]
    BY <1>k DEF IInv, HistoryRetained, Remembers
  <2> QED BY <1>k, <2>1, ValidKeepsShown DEF IInv
<1>e. capsByKey[CapKey[o]] = [seenAt |-> capsByKey[CapKey[o]].seenAt,
                              cooldownUntil |-> capsByKey[CapKey[o]].cooldownUntil]
  BY <1>k, <1>t DEF Entries
<1>1. CASE EnforceUncapped(o)
  BY <1>1 DEF EnforceUncapped
<1>2. CASE EnforceCooldown(o)
  <2>1. capsByKey' = [capsByKey EXCEPT ![CapKey[o]] =
          [seenAt |-> Valid(capsByKey[CapKey[o]].seenAt),
           cooldownUntil |-> capsByKey[CapKey[o]].cooldownUntil]]
    BY <1>2 DEF EnforceCooldown, Remember
  <2>2. capsByKey' = capsByKey
    BY <1>k, <1>t, <1>v, <1>e, <2>1
  <2> QED BY <1>2, <2>2 DEF EnforceCooldown
<1>3. CASE EnforceCap(o)
  <2> DEFINE c == CapKey[o]
             seen == capsByKey[c].seenAt
             r == Rule(o, FirstDenying(o, seen))
             kept == Within(seen, r.period, now)
  <2>1. /\ DenyingPolicies(o, seen) # {}
        /\ capsByKey' = [capsByKey EXCEPT ![c] =
             [seenAt |-> kept, cooldownUntil |-> capsByKey[c].cooldownUntil]]
        /\ UNCHANGED <<storage, shown>>
    BY <1>3, <1>v DEF EnforceCap, Remember
  <2>2. r \in Rules /\ Full(r, seen)
    BY <2>1, FirstDenyingIsOne, RuleTypes DEF DenyingPolicies
  <2>3. kept # {}
    BY <2>2, FullHasOne
  <2> HIDE DEF kept
  <2> QED BY <1>k, <1>t, <2>1, <2>3
<1>4. CASE EnforcePresent(o)
  <2> DEFINE c == CapKey[o]
             p == [id |-> nextId, at |-> now, by |-> o]
             until == IF MaxCooldown(o) > 0 THEN now + MaxCooldown(o) ELSE 0
             seen == Valid(capsByKey[c].seenAt)
  <2>1. /\ capsByKey' = [capsByKey EXCEPT ![c] =
             [seenAt |-> seen \cup {p}, cooldownUntil |-> until]]
        /\ shown' = [shown EXCEPT ![c] = @ \cup {p}]
    BY <1>4 DEF EnforcePresent, Remember
  <2> HIDE DEF seen, until
  <2> SUFFICES /\ k = c => /\ shown'[k] = shown[k] \cup {p}
                           /\ capsByKey'[k].seenAt # {}
                           /\ capsByKey'[k].cooldownUntil = until
               /\ k # c => shown'[k] = shown[k] /\ capsByKey'[k] = capsByKey[k]
    BY <1>4 DEF until
  <2> QED BY <1>k, <1>t, <2>1
<1> QED BY <1>1, <1>2, <1>3, <1>4 DEF Enforce

LEMMA FoundedStep == IInv /\ Founded /\ [Next]_vars => Founded'
<1> SUFFICES ASSUME IInv, Founded, [Next]_vars PROVE Founded'
  OBVIOUS
<1>t. /\ capsByKey \in [Keys -> Entries] /\ shown \in [Keys -> SUBSET Presentations]
      /\ storage \in [Keys -> Entries] \cup {Malformed}
      /\ now \in Nat
  BY DEF IInv, TypeOK, Entries
<1>m. Malformed \notin [Keys -> Entries]
  <2>1. DOMAIN Malformed = {"malformed"}
    BY DEF Malformed
  <2> QED BY <2>1, ConstantsAssumption
<1>1. ASSUME NEW o \in Outputs, Enforce(o) PROVE Founded'
  <2>1. ASSUME NEW k \in Keys
        PROVE  /\ IsFiniteSet(shown'[k])
               /\ Started(capsByKey'[k], shown'[k])
               /\ Kept(capsByKey[k], shown[k]) => Kept(capsByKey'[k], shown'[k])
    <3>1. CASE /\ UNCHANGED <<storage, shown>>
               /\ capsByKey'[k].cooldownUntil = capsByKey[k].cooldownUntil
               /\ capsByKey'[k] = capsByKey[k] \/ capsByKey'[k].seenAt # {}
      BY <3>1 DEF Founded, Started, Kept
    <3>2. CASE /\ shown'[k] = shown[k] \cup {[id |-> nextId, at |-> now, by |-> o]}
               /\ capsByKey'[k].seenAt # {}
               /\ capsByKey'[k].cooldownUntil =
                    IF MaxCooldown(o) > 0 THEN now + MaxCooldown(o) ELSE 0
      <4> DEFINE p == [id |-> nextId, at |-> now, by |-> o]
      <4>1. IsFiniteSet(shown'[k])
        BY <3>2, FS_AddElement DEF Founded
      <4>2. capsByKey'[k].cooldownUntil # 0 =>
              capsByKey'[k].cooldownUntil = p.at + MaxCooldown(p.by)
        BY <3>2
      <4>3. p \in shown'[k]
        BY <3>2
      <4> QED BY <3>2, <4>1, <4>2, <4>3 DEF Started, Kept
    <3>3. CASE shown'[k] = shown[k] /\ capsByKey'[k] = capsByKey[k]
      BY <3>3 DEF Founded
    <3> QED BY <1>1, <3>1, <3>2, <3>3, EnforceChanges
  <2>2. UNCHANGED <<storage, shown>> \/ storage' = capsByKey'
    BY <1>1 DEF Enforce, EnforceUncapped, EnforceCooldown, EnforceCap, EnforcePresent
  <2>3. capsByKey' \in [Keys -> Entries]
    <3>1. TypeOK'
      BY TypeStep DEF IInv
    <3> QED BY <3>1 DEF TypeOK, Entries
  <2>4. CASE UNCHANGED <<storage, shown>>
    BY <2>1, <2>4 DEF Founded
  <2>5. CASE storage' = capsByKey'
    BY <1>m, <2>1, <2>3, <2>5 DEF Founded
  <2> QED BY <2>2, <2>4, <2>5
<1>v. ASSUME storage # Malformed, NEW k \in Keys
      PROVE  Valid(storage[k].seenAt) = storage[k].seenAt
  <2>1. CASE storage[k] = EmptyEntry
    BY <2>1 DEF EmptyEntry, Valid
  <2>2. CASE storage[k] # EmptyEntry
    <3>1. storage[k].seenAt \in SUBSET shown[k]
      BY <1>v, <2>2 DEF IInv, HistoryRetained, Remembers
    <3> QED BY <3>1, ValidKeepsShown DEF IInv
  <2> QED BY <2>1, <2>2
<1>h. ASSUME NEW base \in [Keys -> Entries], NEW k \in Keys
      PROVE  \/ Hydrated(base)[k] = base[k]
             \/ storage # Malformed /\ Hydrated(base)[k] = storage[k]
  <2>1. CASE storage = Malformed \/ storage[k] = EmptyEntry
    BY <2>1 DEF Hydrated
  <2>2. CASE ~(storage = Malformed \/ storage[k] = EmptyEntry)
    <3>1. storage[k] \in Entries
      BY <1>t, <2>2
    <3>2. Hydrated(base)[k] =
            [seenAt |-> storage[k].seenAt, cooldownUntil |-> storage[k].cooldownUntil]
      BY <1>v, <2>2 DEF Hydrated
    <3> QED BY <2>2, <3>1, <3>2 DEF Entries
  <2> QED BY <2>1, <2>2
<1>d. DropMalformed =>
        IF storage = Malformed THEN storage' = NoHistory ELSE storage' = storage
  BY DEF DropMalformed
<1>n. \A k \in Keys : \A sh : Started(NoHistory[k], sh)
  BY DEF NoHistory, EmptyEntry, Started
<1>2. CASE Hydrate
  <2>1. ASSUME NEW k \in Keys
        PROVE  /\ Started(capsByKey'[k], shown[k])
               /\ storage # Malformed /\ Kept(capsByKey[k], shown[k])
                    /\ Kept(storage[k], shown[k]) => Kept(capsByKey'[k], shown[k])
    BY <1>2, <1>h, <1>t DEF Hydrate, Founded
  <2>2. ASSUME NEW k \in Keys PROVE Started(storage'[k], shown[k])
    BY <1>2, <1>d, <1>n DEF Hydrate, Founded
  <2>3. ~StorageMayCorrupt => storage' = storage
    BY <1>2, <1>d DEF Hydrate, Founded
  <2> QED BY <1>2, <2>1, <2>2, <2>3 DEF Hydrate, Founded
<1>3. CASE Restart
  <2>0. /\ capsByKey' = Hydrated(NoHistory)
        /\ DropMalformed
        /\ shown' = [k \in Keys |-> IF capsByKey'[k] = EmptyEntry THEN {} ELSE shown[k]]
    BY <1>3 DEF Restart
  <2>1. ASSUME NEW k \in Keys
        PROVE  /\ IsFiniteSet(shown'[k])
               /\ Started(capsByKey'[k], shown'[k])
               /\ storage' # Malformed => Started(storage'[k], shown'[k])
               /\ ~StorageMayCorrupt =>
                    Kept(capsByKey'[k], shown'[k]) /\ Kept(storage'[k], shown'[k])
    <3>1. CASE capsByKey'[k] = EmptyEntry
      <4>1. shown'[k] = {}
        BY <2>0, <3>1
      <4>2. storage'[k].cooldownUntil = 0
        <5>1. CASE storage = Malformed
          BY <1>d, <2>0, <5>1 DEF NoHistory, EmptyEntry
        <5>2. CASE storage # Malformed
          BY <1>d, <1>t, <2>0, <3>1, <5>2 DEF Hydrated, EmptyEntry
        <5> QED BY <5>1, <5>2
      <4> QED BY <3>1, <4>1, <4>2, FS_EmptySet DEF Started, Kept, EmptyEntry
    <3>2. CASE capsByKey'[k] # EmptyEntry
      <4>1. shown'[k] = shown[k]
        BY <2>0, <3>2
      <4>2. storage # Malformed /\ capsByKey'[k] = storage[k]
        BY <1>h, <2>0, <3>2, NoHistoryType DEF NoHistory
      <4>3. storage' = storage
        BY <1>d, <2>0, <4>2
      <4> QED BY <4>1, <4>2, <4>3 DEF Founded
    <3> QED BY <3>1, <3>2
  <2>2. ~StorageMayCorrupt => storage' # Malformed
    BY <1>d, <2>0 DEF Founded
  <2> QED BY <2>1, <2>2 DEF Founded
<1>4. CASE CorruptStorage
  BY <1>4 DEF CorruptStorage, Founded
<1>5. CASE Tick \/ UNCHANGED vars
  BY <1>5 DEF Tick, vars, Founded
<1> QED BY <1>1, <1>2, <1>3, <1>4, <1>5 DEF Next

----------------------------------------------------------------------------
(* The refinement                                                          *)


\* A cooldown runs, as far as the enforcer knows, exactly when a presentation
\* ever shown started one that runs.
LEMMA CoolingIsKnown ==
  ASSUME IInv, Founded, NEW k \in Keys
  PROVE  Promise!Cooling(k) <=> CoolingDown(k)
<1>1. /\ capsByKey[k].cooldownUntil \in Nat
      /\ now \in Nat /\ shown[k] \in SUBSET Presentations
      /\ \A p \in shown[k] : p.by \in Outputs /\ p.at \in Nat /\ MaxCooldown(p.by) \in Nat
  BY MaxCooldownNat DEF IInv, TypeOK, Presentations
<1>2. Promise!Cooling(k) <=> \E p \in shown[k] : now < p.at + MaxCooldown(p.by)
  BY <1>1 DEF Promise!Cooling
<1>3. ASSUME NEW p \in shown[k], now < p.at + MaxCooldown(p.by)
      PROVE  CoolingDown(k)
  <2>1. p.at + MaxCooldown(p.by) <= capsByKey[k].cooldownUntil
    BY <1>3 DEF IInv, HistoryRetained, Remembers
  <2> QED BY <1>1, <1>3, <2>1 DEF CoolingDown
<1>4. ASSUME CoolingDown(k)
      PROVE  \E p \in shown[k] : now < p.at + MaxCooldown(p.by)
  <2>1. capsByKey[k].cooldownUntil # 0
    BY <1>1, <1>4 DEF CoolingDown
  <2>2. PICK p \in shown[k] : capsByKey[k].cooldownUntil = p.at + MaxCooldown(p.by)
    BY <2>1 DEF Founded, Started
  <2> QED BY <1>1, <1>4, <2>2 DEF CoolingDown
<1> QED BY <1>2, <1>3, <1>4

\* A rule that is full over the timestamps kept is used up over the whole history.
LEMMA FullIsUsedUp ==
  ASSUME IInv, Founded, NEW k \in Keys, NEW r \in Rules, Full(r, capsByKey[k].seenAt)
  PROVE  Promise!UsedUp(r, k)
<1> DEFINE all == {p \in shown[k] : WindowStart(r.period, now) <= p.at /\ p.at <= now}
           some == Within(capsByKey[k].seenAt, r.period, now)
<1>1. some \subseteq all
  BY DEF IInv, HistoryRetained, Remembers, Within
<1>2. IsFiniteSet(all)
  <2>1. IsFiniteSet(shown[k]) /\ all \subseteq shown[k]
    BY DEF Founded
  <2> QED BY <2>1, FS_Subset
<1>3. /\ Cardinality(some) <= Cardinality(all)
      /\ Cardinality(some) \in Nat /\ Cardinality(all) \in Nat
  BY <1>1, <1>2, FS_Subset, FS_CardinalityType
<1>4. Cardinality(some) >= r.count /\ r.count \in Nat
  BY DEF Full, Rules
<1> HIDE DEF all, some
<1>5. Cardinality(all) >= r.count
  BY <1>3, <1>4
<1>6. Promise!Cardinality(all) = Cardinality(all)
  BY DEF Promise!Cardinality, Cardinality
<1> QED BY <1>5, <1>6 DEF all, Promise!UsedUp

\* Within the narrowest windows nothing is used up that is not full.
LEMMA NarrowestHasRoom ==
  ASSUME IInv, NEW o \in Outputs, EnforcePresent(o), NEW r \in NarrowestRules(o)
  PROVE  ~Promise!UsedUp(r, CapKey[o])
<1> DEFINE all == {p \in shown[CapKey[o]] : WindowStart(r.period, now) <= p.at /\ p.at <= now}
<1>1. IsFiniteSet(all) /\ Cardinality(all) < r.count
  BY PresentHasRoom DEF Within
<1>2. Cardinality(all) \in Nat
  BY <1>1, FS_CardinalityType
<1>3. r.count \in Nat
  <2>1. CapKey[o] \in Keys
    BY ConstantsAssumption
  <2>2. r \in KeyRules(CapKey[o])
    BY DEF NarrowestRules, KeyRules
  <2> QED BY <2>1, <2>2, KeyRulesAreRules DEF Rules
<1>4. Promise!Cardinality(all) = Cardinality(all)
  BY DEF Promise!Cardinality, Cardinality
<1>5. Promise!UsedUp(r, CapKey[o]) <=> Promise!Cardinality(all) >= r.count
  BY DEF Promise!UsedUp
<1> HIDE DEF all
<1> QED BY <1>1, <1>2, <1>3, <1>4, <1>5

\* Every step of the enforcer is one the policy allows, or none.
LEMMA StepAllowed ==
  IInv /\ Founded /\ [Next]_vars => [Promise!Next]_(Promise!pvars)
<1> SUFFICES ASSUME IInv, Founded, [Next]_vars
             PROVE  Promise!Next \/ UNCHANGED Promise!pvars
  OBVIOUS
<1>k. \A o \in Outputs : CapKey[o] \in Keys
  BY ConstantsAssumption
<1>1. ASSUME NEW o \in Outputs, EnforceUncapped(o) PROVE Promise!Allow(o)
  BY <1>1 DEF EnforceUncapped, Promise!Allow, Promise!Reply, Answer
<1>2. ASSUME NEW o \in Outputs, EnforceCooldown(o) PROVE Promise!Deny(o)
  <2>1. Promise!Cooling(CapKey[o])
    BY <1>2, <1>k, CoolingIsKnown DEF EnforceCooldown
  <2>2. "cooldown" \in Promise!Refusals(o, RulesOf(o))
    BY <2>1 DEF Promise!Refusals
  <2>3. verdict' = Promise!Reply(o, "cooldown")
    BY <1>2 DEF EnforceCooldown, Answer, Promise!Reply
  <2> QED BY <1>2, <2>2, <2>3 DEF EnforceCooldown, Promise!Deny
<1>3. ASSUME NEW o \in Outputs, EnforceCap(o) PROVE Promise!Deny(o)
  <2> DEFINE k == CapKey[o]
             seen == capsByKey[k].seenAt
             r == Rule(o, FirstDenying(o, seen))
  <2>0. Valid(capsByKey[k].seenAt) = seen
    <3>1. seen \in SUBSET shown[k]
      BY <1>k DEF IInv, HistoryRetained, Remembers
    <3> QED BY <1>k, <3>1, ValidKeepsShown DEF IInv
  <2>1. /\ Policies(o) # {} /\ ~CoolingDown(k)
        /\ DenyingPolicies(o, seen) # {}
        /\ verdict' = Answer(o, r.period)
        /\ UNCHANGED <<now, shown, nextId>>
    BY <1>3, <2>0 DEF EnforceCap
  <2>2. r \in Rules /\ r \in RulesOf(o) /\ Full(r, seen)
    BY <2>1, FirstDenyingIsOne, RuleTypes DEF DenyingPolicies
  <2>3. Promise!UsedUp(r, k)
    BY <1>k, <2>2, FullIsUsedUp
  <2>4. ~Promise!Cooling(k)
    BY <1>k, <2>1, CoolingIsKnown
  <2> HIDE DEF r
  <2>5. r.period \in Promise!Refusals(o, RulesOf(o))
    BY <2>2, <2>3, <2>4 DEF Promise!Refusals
  <2>6. verdict' = Promise!Reply(o, r.period)
    BY <2>1 DEF Answer, Promise!Reply
  <2> QED BY <2>1, <2>5, <2>6 DEF Promise!Deny
<1>4. ASSUME NEW o \in Outputs, EnforcePresent(o) PROVE Promise!Allow(o)
  <2> DEFINE k == CapKey[o]
  <2>1. ~Promise!Cooling(k)
    BY <1>4, <1>k, CoolingIsKnown DEF EnforcePresent
  <2>2. Promise!Refusals(o, NarrowestRules(o)) = {}
    BY <1>4, <2>1, NarrowestHasRoom DEF Promise!Refusals
  <2>3. verdict' = Promise!Reply(o, "none")
    BY <1>4 DEF EnforcePresent, Answer, Promise!Reply
  <2> QED BY <1>4, <2>2, <2>3 DEF EnforcePresent, Promise!Allow
<1>5. CASE Restart
  <2> DEFINE lost == {k \in Keys : capsByKey'[k] = EmptyEntry}
  <2>1. /\ capsByKey' = Hydrated(NoHistory)
        /\ shown' = [k \in Keys |-> IF capsByKey'[k] = EmptyEntry THEN {} ELSE shown[k]]
        /\ UNCHANGED <<now, nextId, verdict>>
    BY <1>5 DEF Restart
  <2>2. CASE StorageMayCorrupt
    <3>1. lost \in SUBSET Keys
      OBVIOUS
    <3>2. shown' = [k \in Keys |-> IF k \in lost THEN {} ELSE shown[k]]
      BY <2>1
    <3>3. Promise!Forget
      BY <2>1, <2>2, <3>1, <3>2 DEF Promise!Forget
    <3> QED BY <3>3 DEF Promise!Next
  <2>3. CASE ~StorageMayCorrupt
    <3>1. ASSUME NEW k \in Keys, capsByKey'[k] = EmptyEntry PROVE shown[k] = {}
      <4>1. storage # Malformed /\ (shown[k] # {} => storage[k].seenAt # {})
        BY <2>3 DEF Founded, Kept
      <4>2. storage[k] # EmptyEntry =>
              Valid(storage[k].seenAt) = storage[k].seenAt
        BY <4>1, ValidKeepsShown DEF IInv, HistoryRetained, Remembers
      <4>3. storage[k] # EmptyEntry => capsByKey'[k].seenAt = storage[k].seenAt
        BY <2>1, <4>1, <4>2 DEF Hydrated
      <4> QED BY <3>1, <4>1, <4>3 DEF EmptyEntry
    <3>2. shown \in [Keys -> SUBSET Presentations]
      BY DEF IInv, TypeOK
    <3>3. shown' = shown
      BY <2>1, <3>1, <3>2
    <3> QED BY <2>1, <3>3 DEF Promise!pvars
  <2> QED BY <2>2, <2>3
<1>6. CASE Hydrate \/ CorruptStorage \/ UNCHANGED vars
  BY <1>6 DEF Hydrate, CorruptStorage, vars, Promise!pvars
<1>7. CASE Tick
  BY <1>7 DEF Tick, Promise!Tick, Promise!Next
<1> QED BY <1>1, <1>2, <1>3, <1>4, <1>5, <1>6, <1>7 DEF Next, Enforce, Promise!Next

\* The enforcer implements the policy: whatever it trims, persists and reads
\* back, each of its answers is one that the whole history of the key gives.
THEOREM AnswersAreThePolicys == Spec => AnswersFromWholeHistory
<1>1. Init => Promise!Init
  BY DEF Init, NotAsked, Promise!Init
<1> QED BY <1>1, FoundedInit, FoundedStep, Invariance, StepAllowed, PTL
        DEF Spec, AnswersFromWholeHistory, Promise!Spec

=============================================================================
