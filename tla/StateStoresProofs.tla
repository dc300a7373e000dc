-------------------------- MODULE StateStoresProofs --------------------------
(***************************************************************************)
(* Proofs about the two stores a decision consults: about                  *)
(* InteractionTracker, for any slots, windows and clock, and, with what    *)
(* ImpressionHistoryProofs shows of the impression history, about both.    *)
(***************************************************************************)
EXTENDS StateStoresMC, FiniteSets, Sequences, TLAPS

\* What the map and the storage hold: no window of a completed conversion is in
\* memory, and what would be loaded is what is there.
StoredAsHeld ==
  /\ now \in Nat
  /\ state \in [Slots -> Entries]
  /\ storage \in [Slots -> Entries] \cup {Malformed}
  /\ system \in [Slots -> Nat]
  /\ \A s \in Slots : state[s].last = "cta_completed" => state[s].suppressedUntil = None
  /\ storage # Malformed => \A s \in Slots : state[s] = Loaded(storage[s])

\* Where the end of a system suppression is kept: in the window of the entry it
\* was loaded with or, once the user has interacted, in the explicit one.
SystemKept ==
  \A s \in Slots : system[s] # None =>
    \/ state[s].explicitUntil = system[s]
    \/ /\ state[s].last = "suppress" /\ state[s].explicitUntil = None
       /\ state[s].suppressedUntil = system[s]

Inv == StoredAsHeld /\ SystemKept

----------------------------------------------------------------------------
(* Entries                                                                 *)

\* The fields of an entry.
LEMMA EntryFields ==
  ASSUME NEW e \in Entries
  PROVE  /\ e.suppressedUntil \in Nat /\ e.explicitUntil \in Nat
         /\ e.last \in Types \cup {"none"}
BY DEF Entries

\* When an entry hides its placement.
LEMMA HiddenIff ==
  ASSUME NEW e \in Entries, NEW t \in Nat, NEW c
  PROVE  Suppression(e, t, c) # "allowed" <=>
           \/ e.explicitUntil > t
           \/ /\ e.suppressedUntil # None /\ e.suppressedUntil > t
              /\ e.last # "cta_completed"
              /\ c \in Exempt => e.last = "suppress"
BY EntryFields DEF Suppression

\* What an interaction carries over.
LEMMA CarriedFields ==
  ASSUME NEW e \in Entries
  PROVE  /\ Carried(e) \in Entries
         /\ Carried(e).last = e.last
         /\ Carried(e).suppressedUntil
              = (IF e.last = "cta_completed" THEN None ELSE e.suppressedUntil)
         /\ Carried(e).explicitUntil
              = (IF e.last = "suppress" /\ e.explicitUntil = None
                 THEN e.suppressedUntil ELSE e.explicitUntil)
<1>1. e.last = "suppress" => e.last # "cta_completed"
  OBVIOUS
<1> QED  BY <1>1 DEF Carried, Entries, None

\* The entry an interaction leaves.
LEMMA TrackedFields ==
  ASSUME NEW e \in Entries, NEW type \in Types, NEW ms \in Nat, now \in Nat
  PROVE  /\ Tracked(e, type, ms) \in Entries
         /\ Tracked(e, type, ms).last = NextType(Carried(e), type)
         /\ Tracked(e, type, ms).explicitUntil = Carried(e).explicitUntil
         /\ type \notin OpensWindow =>
              Tracked(e, type, ms).suppressedUntil = Carried(e).suppressedUntil
<1>1. NextType(Carried(e), type) \in Types \cup {"none"}
  BY CarriedFields DEF NextType, Entries
<1>2. Carried(e) \in Entries
  BY CarriedFields
<1>3. now + ms \in Nat
  OBVIOUS
<1>4. CASE type \in OpensWindow
  <2>1. Tracked(e, type, ms) = [Carried(e) EXCEPT !.last = NextType(Carried(e), type),
                                                  !.suppressedUntil = now + ms]
    BY <1>4 DEF Tracked
  <2> QED  BY <1>1, <1>2, <1>3, <1>4, <2>1 DEF Entries
<1>5. CASE type \notin OpensWindow
  <2>1. Tracked(e, type, ms) = [Carried(e) EXCEPT !.last = NextType(Carried(e), type),
                                                  !.suppressedUntil = @]
    BY <1>5 DEF Tracked
  <2> QED  BY <1>1, <1>2, <1>5, <2>1 DEF Entries
<1> QED  BY <1>4, <1>5

\* A conversion is the last interaction only where no window runs.
LEMMA ConversionsLeaveNoWindow ==
  ASSUME NEW e \in Entries, NEW type \in Types, NEW ms \in Nat, now \in Nat,
         Tracked(e, type, ms).last = "cta_completed"
  PROVE  Tracked(e, type, ms).suppressedUntil = None
<1>1. NextType(Carried(e), type) = "cta_completed"
  BY TrackedFields
<1>2. type = "cta_completed" /\ Carried(e).suppressedUntil = None
  BY <1>1, CarriedFields DEF NextType
<1> QED  BY <1>2, TrackedFields DEF OpensWindow

\* A conversion gives the same answers before and after, at every time.
LEMMA ConversionGivesSameAnswers ==
  ASSUME NEW e \in Entries, NEW ms \in Nat, now \in Nat, NEW t \in Nat, NEW c
  PROVE  Suppression(Tracked(e, "cta_completed", ms), t, c) = Suppression(e, t, c)
<1> DEFINE d == Tracked(e, "cta_completed", ms)
<1>1. "cta_completed" \in Types /\ "cta_completed" \notin OpensWindow
  BY DEF Types, OpensWindow
<1>2. /\ d.suppressedUntil = (IF e.last = "cta_completed" THEN None ELSE e.suppressedUntil)
      /\ d.explicitUntil = (IF e.last = "suppress" /\ e.explicitUntil = None
                            THEN e.suppressedUntil ELSE e.explicitUntil)
      /\ d.last = (IF d.suppressedUntil # None THEN e.last ELSE "cta_completed")
  BY <1>1, TrackedFields, CarriedFields DEF NextType
<1> HIDE DEF d
<1>3. e.suppressedUntil \in Nat /\ e.explicitUntil \in Nat
  BY EntryFields
<1>4. e.last = "suppress" => Suppression(d, t, c) = Suppression(e, t, c)
  BY <1>2, <1>3 DEF Suppression, None
<1>5. e.last # "suppress" => Suppression(d, t, c) = Suppression(e, t, c)
  BY <1>2, <1>3 DEF Suppression, None
<1> QED  BY <1>4, <1>5 DEF d

----------------------------------------------------------------------------
(* The invariant                                                           *)

LEMMA NoEntryType ==
  /\ NoEntry \in Entries /\ Loaded(NoEntry) = NoEntry
  /\ NoEntry.suppressedUntil = None /\ NoEntry.explicitUntil = None /\ NoEntry.last = "none"
BY DEF NoEntry, Entries, Loaded, None

LEMMA LoadedType ==
  ASSUME NEW e \in Entries
  PROVE  /\ Loaded(e) \in Entries
         /\ Loaded(e).last = e.last
         /\ e.last = "cta_completed" => Loaded(e).suppressedUntil = None
         /\ e.last # "cta_completed" => Loaded(e) = e
BY DEF Loaded, Entries, None

LEMMA InitInv ==
  Init => Inv
<1> SUFFICES ASSUME Init PROVE Inv
  OBVIOUS
<1>1. LegacyEntries \subseteq Entries
  BY NoEntryType, ConstantsAssumption DEF LegacyEntries, Entries, Types, None
<1>2. storage \in [Slots -> Entries]
  BY <1>1 DEF Init
<1>3. \A s \in Slots : storage[s] \in LegacyEntries /\ state[s] = Loaded(storage[s])
  BY DEF Init
<1>4. state \in [Slots -> Entries]
  BY <1>2, LoadedType DEF Init
<1>5. system \in [Slots -> Nat]
  BY <1>2, EntryFields DEF Init, None
<1>6. \A s \in Slots : state[s].last = "cta_completed" => state[s].suppressedUntil = None
  BY <1>2, <1>3, LoadedType
<1>7. StoredAsHeld
  BY <1>2, <1>3, <1>4, <1>5, <1>6 DEF StoredAsHeld, Init
<1>8. ASSUME NEW s \in Slots, system[s] # None
      PROVE  /\ state[s].last = "suppress" /\ state[s].explicitUntil = None
             /\ state[s].suppressedUntil = system[s]
  <2>1. storage[s].last = "suppress" /\ system[s] = storage[s].suppressedUntil
    BY <1>8 DEF Init
  <2>2. state[s] = storage[s]
    BY <1>2, <1>3, <2>1, LoadedType
  <2>3. storage[s].explicitUntil = None
    BY <1>3, NoEntryType DEF LegacyEntries
  <2> QED  BY <2>1, <2>2, <2>3
<1> QED  BY <1>7, <1>8 DEF Inv, SystemKept

\* An entry put over another.
LEMMA TrackKeeps ==
  ASSUME Inv, NEW s \in Slots, NEW type \in Types, NEW ms \in Durations, Track(s, type, ms)
  PROVE  Inv'
<1> DEFINE d == Tracked(state[s], type, ms)
<1>1. ms \in Nat /\ now \in Nat /\ state \in [Slots -> Entries] /\ state[s] \in Entries
  BY ConstantsAssumption DEF Inv, StoredAsHeld
<1>2. /\ state' = [state EXCEPT ![s] = d] /\ storage' = state'
      /\ UNCHANGED <<now, system>>
  BY DEF Track, Put
<1>3. d \in Entries /\ (d.last = "cta_completed" => d.suppressedUntil = None)
  BY <1>1, TrackedFields, ConversionsLeaveNoWindow
<1>4. system[s] # None => d.explicitUntil = system[s]
  <2>1. d.explicitUntil = Carried(state[s]).explicitUntil
    BY <1>1, TrackedFields
  <2>2. system[s] # None =>
          \/ state[s].explicitUntil = system[s]
          \/ /\ state[s].last = "suppress" /\ state[s].explicitUntil = None
             /\ state[s].suppressedUntil = system[s]
    BY DEF Inv, SystemKept
  <2> QED  BY <1>1, <2>1, <2>2, CarriedFields
<1> HIDE DEF d
<1>5. /\ state' \in [Slots -> Entries]
      /\ \A r \in Slots : state'[r] = IF r = s THEN d ELSE state[r]
  BY <1>1, <1>2, <1>3
<1>6. \A r \in Slots : state'[r].last = "cta_completed" => state'[r].suppressedUntil = None
  BY <1>3, <1>5 DEF Inv, StoredAsHeld
<1>7. \A r \in Slots : state'[r] = Loaded(state'[r])
  <2>1. ASSUME NEW e \in Entries, e.last = "cta_completed" => e.suppressedUntil = None
        PROVE  e = Loaded(e)
    BY <2>1 DEF Loaded, Entries, None
  <2> QED  BY <1>5, <1>6, <2>1
<1>8. StoredAsHeld'
  BY <1>1, <1>2, <1>5, <1>6, <1>7 DEF Inv, StoredAsHeld
<1>9. SystemKept'
  BY <1>2, <1>4, <1>5 DEF Inv, SystemKept
<1> QED  BY <1>8, <1>9 DEF Inv

LEMMA ClearKeeps ==
  ASSUME Inv, NEW s \in Slots, ClearSuppression(s)
  PROVE  Inv'
<1>1. /\ state' = [state EXCEPT ![s] = NoEntry] /\ storage' = state'
      /\ system' = [system EXCEPT ![s] = None] /\ UNCHANGED now
  BY DEF ClearSuppression, Put
<1>2. state' \in [Slots -> Entries] /\ system' \in [Slots -> Nat]
  BY <1>1, NoEntryType DEF Inv, StoredAsHeld, None
<1>3. \A r \in Slots : state'[r] = IF r = s THEN NoEntry ELSE state[r]
  BY <1>1 DEF Inv, StoredAsHeld
<1>4. \A r \in Slots : system'[r] = IF r = s THEN None ELSE system[r]
  BY <1>1 DEF Inv, StoredAsHeld
<1>5. \A r \in Slots : state'[r].last = "cta_completed" => state'[r].suppressedUntil = None
  BY <1>3, NoEntryType DEF Inv, StoredAsHeld
<1>6. \A r \in Slots : state'[r] = Loaded(state'[r])
  <2>1. ASSUME NEW e \in Entries, e.last = "cta_completed" => e.suppressedUntil = None
        PROVE  e = Loaded(e)
    BY <2>1 DEF Loaded, Entries, None
  <2> QED  BY <1>2, <1>5, <2>1
<1>7. StoredAsHeld'
  BY <1>1, <1>2, <1>5, <1>6 DEF Inv, StoredAsHeld
<1>8. SystemKept'
  BY <1>3, <1>4 DEF Inv, SystemKept
<1> QED  BY <1>7, <1>8 DEF Inv

\* A restart finds what was held, or nothing at all.
LEMMA RestartFinds ==
  ASSUME StoredAsHeld, Restart
  PROVE  \/ state' = state /\ storage' = storage /\ storage # Malformed
         \/ state' = Empty /\ storage' = Empty
<1>1. CASE storage = Malformed
  BY <1>1 DEF Restart, DropMalformed, Hydrated
<1>2. CASE storage # Malformed
  <2>1. state' = [s \in Slots |-> IF storage[s] = NoEntry THEN Empty[s] ELSE Loaded(storage[s])]
    BY <1>2 DEF Restart, Hydrated
  <2>2. \A s \in Slots : state'[s] = state[s]
    BY <1>2, <2>1, NoEntryType DEF StoredAsHeld, Empty
  <2>3. state' = state
    BY <2>1, <2>2 DEF StoredAsHeld
  <2> QED  BY <1>2, <2>3 DEF Restart, DropMalformed
<1> QED  BY <1>1, <1>2

LEMMA RestartKeeps ==
  ASSUME Inv, Restart
  PROVE  Inv'
<1>1. /\ system' = [s \in Slots |-> IF state'[s] = NoEntry THEN None ELSE system[s]]
      /\ UNCHANGED now
  BY DEF Restart
<1>2. system' \in [Slots -> Nat]
  BY <1>1 DEF Inv, StoredAsHeld, None
<1>3. CASE state' = state /\ storage' = storage
  BY <1>1, <1>2, <1>3 DEF Inv, StoredAsHeld, SystemKept
<1>4. CASE state' = Empty /\ storage' = Empty
  <2>1. \A s \in Slots : state'[s] = NoEntry
    BY <1>4 DEF Empty
  <2>2. Empty \in [Slots -> Entries]
    BY NoEntryType DEF Empty
  <2> QED  BY <1>1, <1>2, <1>4, <2>1, <2>2, NoEntryType DEF Inv, StoredAsHeld, SystemKept
<1> QED  BY <1>3, <1>4, RestartFinds DEF Inv

LEMMA NextInv ==
  Inv /\ [Next]_vars => Inv'
<1> SUFFICES ASSUME Inv, [Next]_vars PROVE Inv'
  OBVIOUS
<1>1. CASE \E s \in Slots, type \in Types, ms \in Durations : Track(s, type, ms)
  BY <1>1, TrackKeeps
<1>2. CASE \E s \in Slots : ClearSuppression(s)
  BY <1>2, ClearKeeps
<1>3. CASE Restart
  BY <1>3, RestartKeeps
<1>4. CASE CorruptStorage
  BY <1>4 DEF CorruptStorage, Inv, StoredAsHeld, SystemKept
<1>5. CASE Tick \/ UNCHANGED vars
  BY <1>5 DEF Tick, vars, Inv, StoredAsHeld, SystemKept
<1> QED  BY <1>1, <1>2, <1>3, <1>4, <1>5 DEF Next

LEMMA Invariance ==
  Spec => []Inv
BY InitInv, NextInv, PTL DEF Spec

----------------------------------------------------------------------------
(* Theorems                                                                *)

\* The maps hold interaction records, whatever was loaded, tracked or lost.
THEOREM TypeCorrect ==
  Spec => []TypeOK
<1>1. Inv => TypeOK
  BY DEF Inv, StoredAsHeld, TypeOK
<1> QED  BY <1>1, Invariance, PTL

\* A system suppression found at start hides its placement in every category
\* until its own end, whatever the user and the application do meanwhile, short
\* of clearing it.
THEOREM SystemSuppressionsHold ==
  Spec => []SystemSuppressionHolds
<1>1. Inv => SystemSuppressionHolds
  <2> SUFFICES ASSUME Inv, NEW s \in Slots, NEW c \in Categories, now < system[s]
               PROVE  Suppressed(s, c)
    BY DEF SystemSuppressionHolds
  <2>1. state[s] \in Entries /\ now \in Nat /\ system[s] \in Nat
    BY DEF Inv, StoredAsHeld
  <2>2. system[s] # None
    BY <2>1 DEF None
  <2>3. \/ state[s].explicitUntil > now
        \/ /\ state[s].suppressedUntil # None /\ state[s].suppressedUntil > now
           /\ state[s].last = "suppress"
    BY <2>1, <2>2 DEF Inv, SystemKept
  <2> QED  BY <2>1, <2>3, HiddenIff DEF Suppressed
<1> QED  BY <1>1, Invariance, PTL

\* A completed conversion is analytics: it changes no answer, now or later.
THEOREM ConversionsAreAnalytics ==
  Spec => ConversionChangesNoAnswer
<1>1. ASSUME Inv, NEW s \in Slots, Tracking(s, {"cta_completed"})
      PROVE  SameAnswers(s, Categories)
  <2>1. PICK ms \in Durations : Track(s, "cta_completed", ms)
    BY <1>1 DEF Tracking
  <2>2. ms \in Nat /\ now \in Nat /\ state[s] \in Entries
    BY <1>1, ConstantsAssumption DEF Inv, StoredAsHeld
  <2>3. state'[s] = Tracked(state[s], "cta_completed", ms)
    BY <1>1, <2>1 DEF Track, Put, Inv, StoredAsHeld
  <2>4. \A t \in now .. 2 * MaxTime : t \in Nat
    BY <2>2
  <2>5. ASSUME NEW c \in Categories, NEW t \in now .. 2 * MaxTime
        PROVE  Suppression(state'[s], t, c) = Suppression(state[s], t, c)
    BY <2>2, <2>3, <2>4, ConversionGivesSameAnswers
  <2> QED  BY <2>5 DEF SameAnswers
<1>2. Inv /\ [Next]_vars
        => [\A s \in Slots : Tracking(s, {"cta_completed"}) => SameAnswers(s, Categories)]_vars
  BY <1>1
<1> QED  BY <1>2, Invariance, PTL DEF Spec, ConversionChangesNoAnswer

\* A restart over an intact storage changes no answer, now or later.
THEOREM RestartsChangeNothing ==
  Spec => RestartChangesNoAnswer
<1>1. ASSUME Inv, storage # Malformed, Restart
      PROVE  \A s \in Slots : SameAnswers(s, Categories)
  <2>1. state' = [s \in Slots |-> IF storage[s] = NoEntry THEN Empty[s] ELSE Loaded(storage[s])]
    BY <1>1 DEF Restart, Hydrated
  <2>2. \A s \in Slots : state'[s] = state[s]
    BY <1>1, <2>1, NoEntryType DEF Inv, StoredAsHeld, Empty
  <2> QED  BY <2>2 DEF SameAnswers
<1>2. Inv /\ [Next]_vars
        => [storage # Malformed /\ storage' = storage /\ Restart =>
              \A s \in Slots : SameAnswers(s, Categories)]_vars
  BY <1>1
<1> QED  BY <1>2, Invariance, PTL DEF Spec, RestartChangesNoAnswer

\* No window comes back by itself: what hides a placement that may be shown is
\* an interaction that opens one, or a system suppression.
THEOREM NoWindowComesBackEver ==
  Spec => NoWindowComesBack
<1>1. ASSUME Inv, [Next]_vars, NEW s \in Slots, NEW c \in Categories,
             ~Suppressed(s, c), Suppressed(s, c)'
      PROVE  Tracking(s, OpensWindow \cup {"suppress"})
  <2>1. state \in [Slots -> Entries] /\ state' \in [Slots -> Entries]
        /\ now \in Nat /\ now' \in Nat
    BY <1>1, NextInv DEF Inv, StoredAsHeld
  <2>2. Suppression(state[s], now, c) = "allowed" /\ Suppression(state'[s], now', c) # "allowed"
    BY <1>1 DEF Suppressed
  <2>3. now' = now \/ now' = now + 1
    BY <1>1 DEF Next, vars, Track, ClearSuppression, Restart, CorruptStorage, Tick
  <2>4. state'[s] # state[s] /\ state'[s] # NoEntry
    <3>1. Suppression(NoEntry, now', c) = "allowed"
      BY <2>1, NoEntryType DEF Suppression, None
    <3>2. Suppression(state[s], now', c) = "allowed"
      BY <2>1, <2>2, <2>3, HiddenIff, EntryFields
    <3> QED  BY <2>2, <3>1, <3>2
  <2>5. PICK type \in Types, ms \in Durations : Track(s, type, ms)
    <3>1. ~(Tick \/ CorruptStorage \/ UNCHANGED vars)
      BY <2>4 DEF Tick, CorruptStorage, vars
    <3>2. ~Restart
      BY <1>1, <2>4, RestartFinds DEF Inv, Empty
    <3>3. \A r \in Slots : ~ClearSuppression(r)
      BY <2>1, <2>4 DEF ClearSuppression, Put
    <3>4. PICK r \in Slots, type \in Types, ms \in Durations : Track(r, type, ms)
      BY <1>1, <3>1, <3>2, <3>3 DEF Next
    <3>5. r = s
      BY <2>1, <2>4, <3>4 DEF Track, Put
    <3> QED  BY <3>4, <3>5
  <2>6. now' = now /\ state'[s] = Tracked(state[s], type, ms)
    BY <2>1, <2>5 DEF Track, Put
  <2>7. ms \in Nat
    BY ConstantsAssumption
  <2>8. type # "cta_completed"
    BY <2>1, <2>2, <2>6, <2>7, ConversionGivesSameAnswers
  <2>9. type # "other"
    <3> SUFFICES ASSUME type = "other" PROVE FALSE
      OBVIOUS
    <3> DEFINE e == state[s]
               d == state'[s]
    <3>1. e \in Entries /\ d \in Entries
      BY <2>1
    <3>2. /\ d.last = "other"
          /\ d.suppressedUntil = (IF e.last = "cta_completed" THEN None ELSE e.suppressedUntil)
          /\ d.explicitUntil = (IF e.last = "suppress" /\ e.explicitUntil = None
                                THEN e.suppressedUntil ELSE e.explicitUntil)
      BY <2>1, <2>6, <2>7, <3>1, TrackedFields, CarriedFields DEF NextType, OpensWindow
    <3> HIDE DEF e, d
    <3>3. /\ e.suppressedUntil \in Nat /\ e.explicitUntil \in Nat
      BY <3>1, EntryFields
    <3>4. d.explicitUntil > now \/ (/\ d.suppressedUntil # None /\ d.suppressedUntil > now
                                    /\ c \notin Exempt)
      BY <2>1, <2>2, <2>6, <3>1, <3>2, HiddenIff DEF d
    <3>5. e.explicitUntil > now \/ (/\ e.suppressedUntil # None /\ e.suppressedUntil > now
                                    /\ e.last # "cta_completed"
                                    /\ c \in Exempt => e.last = "suppress")
      BY <2>1, <3>2, <3>3, <3>4 DEF None
    <3> QED  BY <2>1, <2>2, <3>1, <3>5, HiddenIff DEF e
  <2>10. type \in OpensWindow \cup {"suppress"}
    BY <2>8, <2>9 DEF Types, OpensWindow
  <2> QED  BY <2>5, <2>10 DEF Tracking
<1>2. Inv /\ [Next]_vars
        => [\A s \in Slots, c \in Categories :
              ~Suppressed(s, c) /\ Suppressed(s, c)'
                => Tracking(s, OpensWindow \cup {"suppress"})]_vars
  BY <1>1
<1> QED  BY <1>2, Invariance, PTL DEF Spec, NoWindowComesBack

----------------------------------------------------------------------------
(* Both stores                                                             *)

\* What is proved of the impression history.
Facts == INSTANCE ImpressionHistoryProofs WITH
  Durations <- HistoryDurations, MaxTime <- HistoryTime

\* Its calls are those of the history of this module.
LEMMA SameNames ==
  /\ History!None = Facts!None /\ History!Cold = Facts!Cold
  /\ History!Nothing = Facts!Nothing /\ History!caches = Facts!caches
  /\ History!vars = Facts!vars /\ History!Warm = Facts!Warm
  /\ History!Outcomes = Facts!Outcomes /\ History!Windowed = Facts!Windowed
  /\ History!Categories = Facts!Categories /\ History!Exempt = Facts!Exempt
  BY DEF History!None, Facts!None, History!Cold, Facts!Cold, History!Nothing, Facts!Nothing,
         History!caches, Facts!caches, History!vars, Facts!vars, History!Warm, Facts!Warm,
         History!Outcomes, Facts!Outcomes, History!Windowed, Facts!Windowed,
         History!Categories, Facts!Categories, History!Exempt, Facts!Exempt

LEMMA SameInit == History!Init => Facts!Init
  BY SameNames DEF History!Init, Facts!Init, History!OldHistories, Facts!OldHistories

LEMMA SameAppend ==
  ASSUME NEW p, NEW outcome, NEW until, History!Append1(p, outcome, until)
  PROVE  Facts!Append1(p, outcome, until)
  BY DEF Facts!Append1, History!Append1, Facts!Cardinality, History!Cardinality, Cardinality

LEMMA SameRecordPlain ==
  ASSUME NEW p, NEW outcome, History!RecordPlain(p, outcome)
  PROVE  Facts!RecordPlain(p, outcome)
<1>1. History!Append1(p, outcome, Facts!None) /\ UNCHANGED <<now, user, Facts!caches, known>>
  BY SameNames DEF History!RecordPlain, History!caches, Facts!caches
<1> QED  BY <1>1, SameAppend DEF Facts!RecordPlain

LEMMA SameRecordWindow ==
  ASSUME NEW p, NEW outcome, NEW ms, History!RecordWindow(p, outcome, ms)
  PROVE  Facts!RecordWindow(p, outcome, ms)
<1>1. History!Explicit(p, outcome, now + ms) = Facts!Explicit(p, outcome, now + ms)
  BY DEF Facts!Explicit, History!Explicit
<1>2. Facts!Append1(p, outcome, now + ms)
  BY SameAppend DEF History!RecordWindow
<1> QED  BY SameNames, <1>1, <1>2 DEF Facts!RecordWindow, History!RecordWindow

LEMMA SameIsHidden ==
  ASSUME NEW p, NEW c, History!IsHidden(p, c)
  PROVE  Facts!IsHidden(p, c)
  BY DEF Facts!IsHidden, History!IsHidden, Facts!Ask, History!Ask, Facts!Exempt,
         History!Exempt, Facts!Categories, History!Categories, Facts!None, History!None,
         Facts!Cold, History!Cold

LEMMA SameIsSuppressed ==
  ASSUME NEW p, History!IsSuppressed(p)
  PROVE  Facts!IsSuppressed(p)
  BY SameNames DEF Facts!IsSuppressed, History!IsSuppressed, Facts!SuppressedAt,
                   History!SuppressedAt

LEMMA SameHydrate == History!Hydrate => Facts!Hydrate
  BY DEF Facts!Hydrate, History!Hydrate, Facts!StoredWindows, History!StoredWindows,
         Facts!StoredExplicit, History!StoredExplicit, Facts!NewestOf, History!NewestOf,
         Facts!Running, History!Running, Facts!None, History!None,
         Facts!Outcomes, History!Outcomes, Facts!Windowed, History!Windowed

LEMMA SameLifecycle ==
  /\ History!Reset => Facts!Reset
  /\ History!Tick => Facts!Tick
  /\ \A u : History!SetUserId(u) => Facts!SetUserId(u)
<1>1. History!Reset => Facts!Reset
  BY SameNames DEF Facts!Reset, History!Reset
<1>2. History!Tick => Facts!Tick
  BY DEF Facts!Tick, History!Tick, Facts!caches, History!caches
<1>3. \A u : History!SetUserId(u) => Facts!SetUserId(u)
  BY SameNames DEF Facts!SetUserId, History!SetUserId
<1> QED  BY <1>1, <1>2, <1>3

LEMMA SameNext == [History!Next]_(History!vars) => [Facts!Next]_(Facts!vars)
<1>1. History!Next => Facts!Next
  <2> SUFFICES ASSUME History!Next PROVE Facts!Next
    OBVIOUS
  <2>1. CASE \E p \in Placements, outcome \in History!Outcomes \ History!Windowed :
               History!RecordPlain(p, outcome)
    BY <2>1, SameNames, SameRecordPlain DEF Facts!Next
  <2>2. CASE \E p \in Placements, outcome \in History!Windowed, ms \in HistoryDurations :
               History!RecordWindow(p, outcome, ms)
    BY <2>2, SameNames, SameRecordWindow DEF Facts!Next
  <2>3. CASE \E p \in Placements, c \in History!Categories : History!IsHidden(p, c)
    BY <2>3, SameNames, SameIsHidden DEF Facts!Next
  <2>4. CASE \E p \in Placements : History!IsSuppressed(p)
    BY <2>4, SameIsSuppressed DEF Facts!Next
  <2>5. CASE History!Hydrate \/ History!Reset \/ History!Tick
               \/ \E u \in Users : History!SetUserId(u)
    BY <2>5, SameHydrate, SameLifecycle DEF Facts!Next
  <2> QED  BY <2>1, <2>2, <2>3, <2>4, <2>5 DEF History!Next
<1>2. UNCHANGED History!vars => UNCHANGED Facts!vars
  BY DEF History!vars, Facts!vars, History!caches, Facts!caches
<1> QED  BY <1>1, <1>2

LEMMA SameConstants == Facts!ConstantsFit
  BY HistoryConstants DEF Facts!ConstantsFit, History!ConstantsFit

\* What hides in the history is a window of the current user's own records and, once
\* they have been read, the newest one of a placement hides it until it ends.
THEOREM OwnWindowsAlwaysDecide ==
  History!Spec => []OwnWindowsDecide
<1>1. Facts!Spec => []Facts!OwnWindowsDecide
  BY SameConstants, Facts!OwnWindowsAlwaysDecide
<1>2. Facts!OwnWindowsDecide => OwnWindowsDecide
  <2>1. Facts!OnlyOwnWindowsHide => History!OnlyOwnWindowsHide
    BY DEF Facts!OnlyOwnWindowsHide, History!OnlyOwnWindowsHide, Facts!SuppressedAt,
           History!SuppressedAt, Facts!Accounted, History!Accounted, Facts!Cold, History!Cold,
           Facts!Windowed, History!Windowed
  <2>2. Facts!KnownWindowsHide => History!KnownWindowsHide
    BY DEF Facts!KnownWindowsHide, History!KnownWindowsHide, Facts!Hidden, History!Hidden,
           Facts!HiddenAt, History!HiddenAt, Facts!SuppressedAt, History!SuppressedAt,
           Facts!NewestWindow, History!NewestWindow, Facts!NewestOf, History!NewestOf,
           Facts!None, History!None, Facts!Cold, History!Cold, Facts!Windowed,
           History!Windowed, Facts!Exempt, History!Exempt, Facts!Categories,
           History!Categories
  <2> QED  BY <2>1, <2>2 DEF OwnWindowsDecide, History!OwnWindowsDecide, Facts!OwnWindowsDecide
<1> QED  BY <1>1, <1>2, SameInit, SameNext, PTL DEF History!Spec, Facts!Spec

\* A query of the history changes no answer, now or later, and reading the store again
\* uncovers nothing that is hidden.
THEOREM ReadsUncoverNothing ==
  History!Spec => ReadingUncoversNothing
<1>1. /\ Facts!Spec => Facts!AskingChangesNoAnswer
      /\ Facts!Spec => Facts!HydrateUncoversNothing
  BY SameConstants, Facts!AskingIsFree, Facts!HydratesUncoverNothing
<1>2. [\A p \in Placements :
          Facts!IsSuppressed(p) \/ (\E c \in Facts!Categories : Facts!IsHidden(p, c))
            => Facts!SameAnswers]_(Facts!vars)
      => [\A p \in Placements :
            History!IsSuppressed(p) \/ (\E c \in History!Categories : History!IsHidden(p, c))
              => History!SameAnswers]_(History!vars)
  <2>1. Facts!SameAnswers => History!SameAnswers
    BY Zenon DEF Facts!SameAnswers, History!SameAnswers, Facts!HiddenAt, History!HiddenAt,
           Facts!SuppressedAt, History!SuppressedAt, Facts!Cold, History!Cold,
           Facts!Exempt, History!Exempt, Facts!Categories, History!Categories
  <2>2. UNCHANGED Facts!vars => UNCHANGED History!vars
    BY DEF History!vars, Facts!vars, History!caches, Facts!caches
  <2> QED  BY <2>1, <2>2, SameNames, SameIsHidden, SameIsSuppressed
<1>3. [Facts!Hydrate =>
          \A p \in Placements, c \in Facts!Categories :
            Facts!Hidden(p, c) => Facts!Hidden(p, c)']_(Facts!vars)
      => [History!Hydrate =>
            \A p \in Placements, c \in History!Categories :
              History!Hidden(p, c) => History!Hidden(p, c)']_(History!vars)
  <2>1. ASSUME NEW p, NEW c
        PROVE  /\ History!Hidden(p, c) => Facts!Hidden(p, c)
               /\ Facts!Hidden(p, c)' => History!Hidden(p, c)'
    BY DEF Facts!Hidden, History!Hidden, Facts!HiddenAt, History!HiddenAt,
           Facts!SuppressedAt, History!SuppressedAt, Facts!Cold, History!Cold,
           Facts!Exempt, History!Exempt
  <2>2. UNCHANGED Facts!vars => UNCHANGED History!vars
    BY DEF History!vars, Facts!vars, History!caches, Facts!caches
  <2> QED  BY <2>1, <2>2, SameNames, SameHydrate
<1> QED  BY <1>1, <1>2, <1>3, SameInit, SameNext, PTL
         DEF History!Spec, Facts!Spec, ReadingUncoversNothing,
             History!ReadingUncoversNothing, History!AskingChangesNoAnswer,
             History!HydrateUncoversNothing, Facts!AskingChangesNoAnswer,
             Facts!HydrateUncoversNothing

\* The one of the two that does not act stays as it began.
StoresInv ==
  \/ part = "interactions" /\ Inv /\ History!TypeOK
  \/ part = "history" /\ TypeOK /\ Facts!Typed

\* The two stores hold entries, records and window ends, whichever of them acts.
THEOREM StoresTypeCorrect ==
  StoresSpec => []StoresTypeOK
<1>1. StoresInit => StoresInv
  <2> SUFFICES ASSUME StoresInit PROVE StoresInv
    OBVIOUS
  <2>1. CASE /\ part = "interactions" /\ Init
             /\ user \in Users
             /\ records = [u \in Users |-> <<>>]
             /\ suppressedCache = History!Cold /\ explicitCache = History!Nothing
             /\ known = FALSE
    <3>1. Inv
      BY <2>1, InitInv
    <3>2. records \in [Users -> Seq(History!Records)]
      BY <2>1
    <3>3. explicitCache \in [Placements -> Nat]
      BY <2>1 DEF History!Nothing, History!None
    <3> QED  BY <2>1, <3>1, <3>2, <3>3 DEF StoresInv, History!TypeOK, Inv, StoredAsHeld
  <2>2. CASE /\ part = "history" /\ History!Init
             /\ state = Empty /\ storage = Empty /\ system = [s \in Slots |-> None]
    <3>1. Facts!Typed
      BY <2>2, SameInit, SameConstants, Facts!TypedInit
    <3>2. Empty \in [Slots -> Entries] /\ None \in Nat
      BY NoEntryType DEF Empty, None
    <3> QED  BY <2>2, <3>1, <3>2 DEF StoresInv, TypeOK, Facts!Typed, Facts!TypeOK
  <2> QED  BY <2>1, <2>2 DEF StoresInit
<1>2. StoresInv /\ [StoresNext]_allVars => StoresInv'
  <2> SUFFICES ASSUME StoresInv, [StoresNext]_allVars PROVE StoresInv'
    OBVIOUS
  <2>1. CASE part = "interactions" /\ Next /\ UNCHANGED <<part, historyVars>>
    <3>1. Inv'
      BY <2>1, NextInv DEF StoresInv
    <3>2. History!TypeOK'
      BY <2>1, <3>1 DEF StoresInv, History!TypeOK, historyVars, Inv, StoredAsHeld
    <3> QED  BY <2>1, <3>1, <3>2 DEF StoresInv
  <2>2. CASE part = "history" /\ History!Next /\ UNCHANGED <<part, state, storage, system>>
    <3>1. Facts!Typed'
      BY <2>2, SameNext, SameConstants, Facts!TypedStep DEF StoresInv
    <3>2. TypeOK'
      BY <2>2, <3>1 DEF StoresInv, TypeOK, Facts!Typed, Facts!TypeOK
    <3> QED  BY <2>2, <3>1, <3>2 DEF StoresInv
  <2>3. CASE UNCHANGED allVars
    <3>1. UNCHANGED vars /\ UNCHANGED Facts!vars /\ UNCHANGED <<part, historyVars>>
      BY <2>3 DEF allVars, vars, historyVars, Facts!vars, Facts!caches
    <3> QED  BY <3>1, NextInv, SameConstants, Facts!TypedStep
             DEF StoresInv, TypeOK, History!TypeOK, vars, historyVars
  <2> QED  BY <2>1, <2>2, <2>3 DEF StoresNext
<1>3. StoresInv => StoresTypeOK
  BY DEF StoresInv, StoresTypeOK, Inv, StoredAsHeld, TypeOK, Facts!Typed, Facts!TypeOK,
         History!TypeOK, Facts!Records, History!Records, Facts!Outcomes, History!Outcomes,
         Facts!Windowed, History!Windowed, Facts!Cold, History!Cold
<1> QED  BY <1>1, <1>2, <1>3, PTL DEF StoresSpec

=============================================================================
