------------------------- MODULE InteractionTracker -------------------------
(***************************************************************************)
(* Interaction suppression: src/server-rust/src/state/                     *)
(* interaction_tracker.rs and interaction.rs.                              *)
(*                                                                         *)
(* A dismissal, a click or "remind me later" opens a window in which the   *)
(* placement stays hidden; a conversion opens none; a system suppression   *)
(* hides every category, the exempt ones included.  State is kept per      *)
(* (tenant, user, placement, treatment) key and written through to storage *)
(* by every call, so that a later instance starts from it.                 *)
(*                                                                         *)
(* Data abstractions.  A key is a model value.  A missing window is 0 and  *)
(* a missing entry is the entry without windows, which every check treats  *)
(* alike.  updated_at is left out: nothing reads it.  Interaction types    *)
(* the code does not name are "other", e.g. an impression.                 *)
(*                                                                         *)
(* An operator named Faulty... is a slip that could be made in the         *)
(* operator it precedes; it models no code and nothing uses it.            *)
(***************************************************************************)
EXTENDS Integers

CONSTANTS
  Slots,            \* interaction_state_key values
  Durations,        \* windows a dismissal, click or reminder may ask for
  LoadedWindows,    \* windows found in records written by an earlier release
  MaxTime           \* bound on the clock

Types      == {"dismiss", "cta_clicked", "remind_me_later", "cta_completed",
               "suppress", "other"}
Categories == {"gated", "fixed", "triggered"}

\* category_bucket(category) <= 1: access gates and fixed content are not
\* subject to interaction cooldowns.
Exempt == {"gated", "fixed"}

ASSUME ConstantsAssumption ==
  /\ Durations \subseteq Nat \ {0}
  /\ LoadedWindows \subseteq Nat \ {0}
  /\ MaxTime \in Nat

VARIABLES
  now,        \* the injected clock
  state,      \* in-memory map
  storage,    \* the persisted map, or Malformed
  system      \* ghost: slot -> end of the system suppression it was loaded with

vars == <<now, state, storage, system>>

FaultyNone == -1                      \* another sentinel
None      == 0
NoEntry   == [suppressedUntil |-> None, explicitUntil |-> None, last |-> "none"]
Empty     == [s \in Slots |-> NoEntry]
Malformed == [malformed |-> TRUE]
Entries   == [suppressedUntil : Nat, explicitUntil : Nat, last : Types \cup {"none"}]

----------------------------------------------------------------------------
(* The pure check: suppression_for_state_for_category.                     *)

\* The reason an entry suppresses a category at time t, or "allowed".
Suppression(e, t, category) ==
  IF e.explicitUntil > t THEN "suppressed_by_dismiss_cooldown"
  ELSE IF \/ e.suppressedUntil = None
          \/ e.last = "cta_completed"
          \/ category \in Exempt /\ e.last # "suppress"
          \/ e.suppressedUntil <= t
       THEN "allowed"
  ELSE IF e.last = "remind_me_later" THEN "suppressed_until_remind_window"
  ELSE "suppressed_by_dismiss_cooldown"

Suppressed(s, category) == Suppression(state[s], now, category) # "allowed"

----------------------------------------------------------------------------
(* track and clear_suppression                                             *)

\* A system suppression is not told from a window of the user's.
FaultyCarried(e) ==
  IF e.last = "cta_completed" THEN [e EXCEPT !.suppressedUntil = None] ELSE e

\* What track carries over from the entry it finds: a completed conversion's
\* window is dropped, a system suppression's becomes the explicit one.
Carried(e) ==
  LET until == IF e.last = "cta_completed" THEN None ELSE e.suppressedUntil IN
  [e EXCEPT !.suppressedUntil = until,
            !.explicitUntil = IF e.last = "suppress" /\ @ = None THEN until ELSE @]

\* Every interaction becomes the type of the window.
FaultyNextType(carried, type) == type

\* A conversion over a running window keeps the type that opened the window.
NextType(carried, type) ==
  IF type = "cta_completed" /\ carried.suppressedUntil # None
  THEN carried.last ELSE type

OpensWindow == {"dismiss", "cta_clicked", "remind_me_later"}

\* Every interaction opens a window.
FaultyTracked(e, type, ms) ==
  LET carried == Carried(e) IN
  [carried EXCEPT !.last = NextType(carried, type), !.suppressedUntil = now + ms]

Tracked(e, type, ms) ==
  LET carried == Carried(e) IN
  [carried EXCEPT
     !.last = NextType(carried, type),
     !.suppressedUntil = IF type \in OpensWindow THEN now + ms ELSE @]

\* Not persisted.
FaultyPut(s, entry) ==
  /\ state' = [state EXCEPT ![s] = entry]
  /\ UNCHANGED storage

\* state.insert or state.remove, then persist.
Put(s, entry) ==
  /\ state' = [state EXCEPT ![s] = entry]
  /\ storage' = state'

\* ms is the interaction's own window or the default; it matters to the types
\* that open one.
Track(s, type, ms) ==
  /\ Put(s, Tracked(state[s], type, ms))
  /\ UNCHANGED <<now, system>>

\* Clearing lifts the system suppression with everything else.
ClearSuppression(s) ==
  /\ Put(s, NoEntry)
  /\ system' = [system EXCEPT ![s] = None]
  /\ UNCHANGED now

----------------------------------------------------------------------------
(* hydrate, restarts and time                                              *)

Loaded(e) == IF e.last = "cta_completed" THEN [e EXCEPT !.suppressedUntil = None] ELSE e

Hydrated(base) ==
  IF storage = Malformed THEN base
  ELSE [s \in Slots |-> IF storage[s] = NoEntry THEN base[s] ELSE Loaded(storage[s])]

DropMalformed == storage' = IF storage = Malformed THEN Empty ELSE storage

\* A new instance over the same storage.
Restart ==
  /\ state' = Hydrated(Empty)
  /\ DropMalformed
  /\ system' = [s \in Slots |-> IF state'[s] = NoEntry THEN None ELSE system[s]]
  /\ UNCHANGED now

CorruptStorage ==
  /\ storage' = Malformed
  /\ UNCHANGED <<now, state, system>>

Tick ==
  /\ now < MaxTime
  /\ now' = now + 1
  /\ UNCHANGED <<state, storage, system>>

\* Records an earlier release may have left: system suppressions and completed
\* conversions, both with a window of their own, or none.
LegacyEntries ==
  {NoEntry} \cup
  {[suppressedUntil |-> w, explicitUntil |-> None, last |-> type] :
     w \in LoadedWindows, type \in {"suppress", "cta_completed"}}

Init ==
  /\ now = 1
  /\ storage \in [Slots -> LegacyEntries]
  /\ state = [s \in Slots |-> Loaded(storage[s])]
  /\ system = [s \in Slots |->
                 IF storage[s].last = "suppress" THEN storage[s].suppressedUntil ELSE None]

Next ==
  \/ \E s \in Slots, type \in Types, ms \in Durations : Track(s, type, ms)
  \/ \E s \in Slots : ClearSuppression(s)
  \/ Restart
  \/ CorruptStorage
  \/ Tick

Spec == Init /\ [][Next]_vars

----------------------------------------------------------------------------
(* Properties                                                              *)

\* The maps hold interaction records.
TypeOK ==
  /\ now \in Nat
  /\ state \in [Slots -> Entries]
  /\ storage \in [Slots -> Entries] \cup {Malformed}
  /\ system \in [Slots -> Nat]

\* A system suppression found at start hides the placement in every category,
\* gated and fixed ones too, until its own end: no sequence of dismissals,
\* reminders, clicks, conversions and restarts shortens it.
SystemSuppressionHolds ==
  \A s \in Slots, c \in Categories : now < system[s] => Suppressed(s, c)

SameAnswers(s, cats) ==
  \A c \in cats : \A t \in now .. 2 * MaxTime :
    Suppression(state[s], t, c)' = Suppression(state[s], t, c)

Tracking(s, types) == \E type \in types, ms \in Durations : Track(s, type, ms)

\* A completed conversion is analytics: it neither hides the placement nor
\* brings a hidden one back, now or at any later time, for any category.
ConversionChangesNoAnswer ==
  [][\A s \in Slots : Tracking(s, {"cta_completed"}) => SameAnswers(s, Categories)]_vars

\* A placement that may be shown stays so until somebody hides it: no window
\* that ended, was cleared or belongs to a conversion comes back by itself,
\* through a stray event, a restart or the passing of time.
NoWindowComesBack ==
  [][\A s \in Slots, c \in Categories :
       ~Suppressed(s, c) /\ Suppressed(s, c)' =>
         Tracking(s, OpensWindow \cup {"suppress"})]_vars

\* A restart over an intact storage changes no answer, now or later.
RestartChangesNoAnswer ==
  [][storage # Malformed /\ storage' = storage /\ Restart =>
       \A s \in Slots : SameAnswers(s, Categories)]_vars

=============================================================================
