---------------------------- MODULE CapEnforcer ----------------------------
(***************************************************************************)
(* Presentation caps and cooldowns: src/server-rust/src/state/             *)
(* cap_enforcer.rs, with the cap windows of helpers.rs.                    *)
(*                                                                         *)
(* An enforcer keeps, per cap key, the instants of earlier presentations   *)
(* and the end of a cooldown (caps_by_key), answers enforce(output), and   *)
(* writes the whole map to a storage from which a later instance hydrates. *)
(* The enforcer is synchronous, so one call is one step.                   *)
(*                                                                         *)
(* Data abstractions.  A presentation is a record: "at" is the timestamp   *)
(* the code keeps, "id" tells two presentations of one millisecond apart   *)
(* (the code's Vec keeps duplicates) and "by" remembers the output for the *)
(* properties; the code reads neither.  A missing map entry is the empty   *)
(* entry (every entry the code inserts holds a timestamp), and a missing   *)
(* cooldown_until is 0.  Timestamps are positive (Start > 0), so the       *)
(* "ts > 0" clean-up of malformed data never drops one of them.            *)
(*                                                                         *)
(* An operator named Faulty... is a slip that could be made in the         *)
(* operator it precedes; it models no code and nothing uses it.            *)
(***************************************************************************)
EXTENDS Integers, FiniteSets

CONSTANTS
  Outputs,            \* placement outputs handed to enforce
  Keys,               \* tenant:user:surface:output cap keys
  CapKey,             \* output -> its key
  Caps,               \* output -> root -> the caps block found there
  PeriodLength,       \* bounded period -> length of its window
  Start,              \* the clock at construction
  MaxTime,            \* bound on the clock
  MaxPresentations,   \* bound on the number of recorded presentations
  StorageMayCorrupt   \* whether the external storage may turn to malformed JSON

Whole   == {"session", "lifetime"}       \* windows that start at 0
Bounded == {"day", "week", "month"}
Periods == Whole \cup Bounded            \* CAP_PERIODS

NoRule  == [count |-> 0, period |-> "none"]
Rules   == [count : Nat \ {0}, period : Periods]
NoBlock == [rule |-> NoRule, cooldownMs |-> -1]
Blocks  == [rule : Rules \cup {NoRule}, cooldownMs : Nat]

\* The places extract_policies walks, in its order: the output, its content,
\* and content.payload, content.placement, content.surface.
Roots == 1 .. 5

\* A cap key joins its parts with colons: none is the mark of a malformed storage.
ASSUME ConstantsAssumption ==
  /\ "malformed" \notin Keys
  /\ CapKey \in [Outputs -> Keys]
  /\ Caps \in [Outputs -> [Roots -> Blocks \cup {NoBlock}]]
  /\ PeriodLength \in [Bounded -> Nat]
  /\ Start \in Nat \ {0}
  /\ MaxTime \in Nat
  /\ MaxPresentations \in Nat
  /\ StorageMayCorrupt \in BOOLEAN

VARIABLES
  now,         \* the injected clock, which never steps back here
  capsByKey,   \* in-memory map
  storage,     \* the persisted map, or Malformed
  shown,       \* ghost: key -> every presentation since its history was lost
  nextId,      \* ghost: id of the next presentation
  verdict      \* what the last enforce answered

vars == <<now, capsByKey, storage, shown, nextId, verdict>>

Presentations == [id : Nat, at : Nat, by : Outputs]
FaultyEmptyEntry == [seenAt |-> {}, cooldownUntil |-> -1]   \* another sentinel
EmptyEntry    == [seenAt |-> {}, cooldownUntil |-> 0]
Malformed     == [malformed |-> TRUE]

----------------------------------------------------------------------------
(* Policies of an output and their windows.                                *)

\* extract_policies: the roots that carry a caps block.
Policies(o) == {i \in Roots : Caps[o][i] # NoBlock}

Rule(o, i)   == Caps[o][i].rule
RulesOf(o)   == {Rule(o, i) : i \in Policies(o)} \ {NoRule}
Cooldowns(o) == {Caps[o][i].cooldownMs : i \in Policies(o)}

\* max_cooldown; 0 when no policy carries a positive one.
MaxCooldown(o) ==
  IF Cooldowns(o) \subseteq {0} THEN 0
  ELSE CHOOSE c \in Cooldowns(o) : \A d \in Cooldowns(o) : d <= c

\* period_window_start
WindowStart(period, t) == IF period \in Whole THEN 0 ELSE t - PeriodLength[period]

\* The window's first instant is left out.
FaultyWithin(seen, period, t) ==
  {p \in seen : WindowStart(period, t) < p.at /\ p.at <= t}

Within(seen, period, t) ==
  {p \in seen : WindowStart(period, t) <= p.at /\ p.at <= t}

\* One presentation too many.
FaultyFull(r, seen) == Cardinality(Within(seen, r.period, now)) > r.count

Full(r, seen) == Cardinality(Within(seen, r.period, now)) >= r.count

\* The policy whose rule refuses: the first, in root order, that is full.
DenyingPolicies(o, seen) ==
  {i \in Policies(o) : Rule(o, i) # NoRule /\ Full(Rule(o, i), seen)}
FirstDenying(o, seen) ==
  CHOOSE i \in DenyingPolicies(o, seen) :
    \A j \in DenyingPolicies(o, seen) : i <= j

Valid(seen) == {p \in seen : p.at > 0}

Answer(o, reason) ==
  [output |-> o, allowed |-> reason = "none", reason |-> reason]
NotAsked == [allowed |-> TRUE, reason |-> "none"]

----------------------------------------------------------------------------
(* enforce                                                                 *)

\* No policy at any root: allowed, and nothing is recorded.
EnforceUncapped(o) ==
  /\ Policies(o) = {}
  /\ verdict' = Answer(o, "none")
  /\ UNCHANGED <<now, capsByKey, storage, shown, nextId>>

Remember(k, seen, until) ==
  capsByKey' = [capsByKey EXCEPT ![k] = [seenAt |-> seen, cooldownUntil |-> until]]

\* The cooldown ends an instant early.
FaultyCoolingDown(k) == capsByKey[k].cooldownUntil > now + 1

CoolingDown(k) == capsByKey[k].cooldownUntil > now

EnforceCooldown(o) ==
  LET k == CapKey[o] IN
  /\ Policies(o) # {}
  /\ CoolingDown(k)
  /\ Remember(k, Valid(capsByKey[k].seenAt), capsByKey[k].cooldownUntil)
  /\ verdict' = Answer(o, "cooldown")
  /\ UNCHANGED <<now, storage, shown, nextId>>

\* A full rule denies, and memory keeps only that rule's window.
EnforceCap(o) ==
  LET k    == CapKey[o]
      seen == Valid(capsByKey[k].seenAt)
      rule == Rule(o, FirstDenying(o, seen))
  IN
  /\ Policies(o) # {}
  /\ ~CoolingDown(k)
  /\ DenyingPolicies(o, seen) # {}
  /\ Remember(k, Within(seen, rule.period, now), capsByKey[k].cooldownUntil)
  /\ verdict' = Answer(o, rule.period)
  /\ UNCHANGED <<now, storage, shown, nextId>>

\* Allowed: the presentation is recorded and the whole map persisted.
EnforcePresent(o) ==
  LET k    == CapKey[o]
      seen == Valid(capsByKey[k].seenAt)
      p    == [id |-> nextId, at |-> now, by |-> o]
      cool == MaxCooldown(o)
  IN
  /\ Policies(o) # {}
  /\ ~CoolingDown(k)
  /\ DenyingPolicies(o, seen) = {}
  /\ nextId < MaxPresentations
  /\ Remember(k, seen \cup {p}, IF cool > 0 THEN now + cool ELSE 0)
  /\ storage' = capsByKey'
  /\ shown' = [shown EXCEPT ![k] = @ \cup {p}]
  /\ nextId' = nextId + 1
  /\ verdict' = Answer(o, "none")
  /\ UNCHANGED now

Enforce(o) ==
  \/ EnforceUncapped(o)
  \/ EnforceCooldown(o)
  \/ EnforceCap(o)
  \/ EnforcePresent(o)

----------------------------------------------------------------------------
(* hydrate, the clock and the storage's environment                        *)

\* The timestamps are not read back.
FaultyHydratedHistory(base) ==
  IF storage = Malformed THEN base
  ELSE [k \in Keys |->
          IF storage[k] = EmptyEntry THEN base[k]
          ELSE [seenAt |-> {}, cooldownUntil |-> storage[k].cooldownUntil]]

\* hydrate over the map "base": stored entries replace the ones in memory,
\* with the clean-up of their timestamps; malformed JSON removes the item.
Hydrated(base) ==
  IF storage = Malformed THEN base
  ELSE [k \in Keys |->
          IF storage[k] = EmptyEntry THEN base[k]
          ELSE [seenAt |-> Valid(storage[k].seenAt),
                cooldownUntil |-> storage[k].cooldownUntil]]

NoHistory == [k \in Keys |-> EmptyEntry]

DropMalformed == storage' = IF storage = Malformed THEN NoHistory ELSE storage

\* hydrate called on a live enforcer.
Hydrate ==
  /\ capsByKey' = Hydrated(capsByKey)
  /\ DropMalformed
  /\ UNCHANGED <<now, shown, nextId, verdict>>

\* The process ends and a new enforcer is built over the same storage.  A key
\* the storage does not hold has lost its history.
Restart ==
  /\ capsByKey' = Hydrated(NoHistory)
  /\ DropMalformed
  /\ shown' = [k \in Keys |-> IF capsByKey'[k] = EmptyEntry THEN {} ELSE shown[k]]
  /\ UNCHANGED <<now, nextId, verdict>>

CorruptStorage ==
  /\ StorageMayCorrupt
  /\ storage' = Malformed
  /\ UNCHANGED <<now, capsByKey, shown, nextId, verdict>>

Tick ==
  /\ now < MaxTime
  /\ now' = now + 1
  /\ UNCHANGED <<capsByKey, storage, shown, nextId, verdict>>

Init ==
  /\ now = Start
  /\ capsByKey = NoHistory
  /\ storage = NoHistory
  /\ shown = [k \in Keys |-> {}]
  /\ nextId = 0
  /\ verdict = NotAsked

Next ==
  \/ \E o \in Outputs : Enforce(o)
  \/ Hydrate
  \/ Restart
  \/ CorruptStorage
  \/ Tick

Spec == Init /\ [][Next]_vars

----------------------------------------------------------------------------
(* Properties                                                              *)

\* The state has the shape caps_by_key, the storage and the answers have.
TypeOK ==
  LET Entries == [seenAt : SUBSET Presentations, cooldownUntil : Nat] IN
  /\ now \in Nat
  /\ capsByKey \in [Keys -> Entries]
  /\ storage \in [Keys -> Entries] \cup {Malformed}
  /\ shown \in [Keys -> SUBSET Presentations]
  /\ nextId \in Nat
  /\ verdict \in {NotAsked} \cup
       [output : Outputs, allowed : BOOLEAN, reason : Periods \cup {"none", "cooldown"}]

\* At least as wide a window, at every instant.
Wider(p, q) ==
  \/ p \in Whole
  \/ q \in Bounded /\ PeriodLength[q] <= PeriodLength[p]

KeyRules(k) == UNION {RulesOf(o) : o \in {x \in Outputs : CapKey[x] = k}}

InEveryWindow(k, p) ==
  \A r \in KeyRules(k) : WindowStart(r.period, now) <= p.at

\* An entry holds presentations of its key only, every one that all the windows
\* of the key still reach, and the end of every cooldown that still runs.
Remembers(k, e) ==
  /\ IsFiniteSet(e.seenAt)
  /\ e.seenAt \subseteq shown[k]
  /\ \A p \in shown[k] :
       /\ InEveryWindow(k, p) => p \in e.seenAt
       /\ now < p.at + MaxCooldown(p.by) =>
            p.at + MaxCooldown(p.by) <= e.cooldownUntil

\* Whatever was denied, trimmed, persisted or rehydrated, memory and storage
\* remember of each key what its narrowest window and its cooldown depend on.
HistoryRetained ==
  /\ \A k \in Keys : Remembers(k, capsByKey[k])
  /\ storage # Malformed =>
       \A k \in Keys : storage[k] # EmptyEntry => Remembers(k, storage[k])

\* The rules of an output over the narrowest window of any rule of its key.
NarrowestRules(o) ==
  {r \in RulesOf(o) : \A q \in KeyRules(CapKey[o]) : Wider(q.period, r.period)}

\* What had been shown under k, before p, in the window of r that ends at p.
EarlierInWindow(k, p, r) ==
  {q \in Within(shown[k], r.period, p.at) : q.id < p.id}

KeptWithin(k, p, rules) ==
  \A r \in rules : Cardinality(EarlierInWindow(k, p, r)) < r.count

\* No presentation was allowed that its narrowest rule forbids, counted over
\* everything really shown and not over the trimmed list enforce consults:
\* trimming, persisting and rehydrating never lose what such a rule counts.
NarrowestCapKept ==
  \A k \in Keys : \A p \in shown[k] : KeptWithin(k, p, NarrowestRules(p.by))

\* The same of every rule of the output: "rules that must all pass".
EveryCapKept ==
  \A k \in Keys : \A p \in shown[k] : KeptWithin(k, p, RulesOf(p.by))

\* After a presentation whose policies carry a cooldown, nothing else is shown
\* under its key before the longest of them has passed, restarts included.
CooldownKept ==
  \A k \in Keys : \A p, q \in shown[k] :
    p.id < q.id => q.at >= p.at + MaxCooldown(p.by)

\* What the answers and the presentations amount to, as a caller who knows
\* everything that was ever shown would compute them.
Promise == INSTANCE CapPolicy WITH
  Capped      <- {o \in Outputs : Policies(o) # {}},
  OutputRules <- [o \in Outputs |-> RulesOf(o)],
  FirmRules   <- [o \in Outputs |-> NarrowestRules(o)],
  Cooldown    <- [o \in Outputs |-> MaxCooldown(o)],
  MayForget   <- StorageMayCorrupt,
  history     <- shown

\* Every answer of the enforcer is one the whole history gives: neither trimming
\* nor a restart shows through a refusal, or through a presentation that a rule
\* of the narrowest window forbids, and only a corrupted storage forgets.  Where
\* the rules of a key have one window length, the answer is the only one.
AnswersFromWholeHistory == Promise!Spec

=============================================================================
