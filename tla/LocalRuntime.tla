---------------------------- MODULE LocalRuntime ----------------------------
(***************************************************************************)
(* Placement decisions of the headless runtime: src/server-rust/src/       *)
(* runtime.rs.  The composition of the static resolver, the interaction    *)
(* tracker, the impression history and the cap enforcer: a decision is     *)
(* resolver -> interaction suppression -> caps, each of which can veto.    *)
(*                                                                         *)
(* The runtime is synchronous and owned by one caller, so a call is one    *)
(* step.  Its storages are in memory and private: nothing restarts over    *)
(* them, and a new runtime is a new behaviour.  The Playbook and the       *)
(* provider context are fixed at construction.  "decision" holds the last  *)
(* answer until the next call or tick, so that a property about a decision *)
(* is a property of the state it was made in.                              *)
(*                                                                         *)
(* An operator named Faulty... is a slip that could be made in the         *)
(* operator it precedes; it models no code and nothing uses it.            *)
(***************************************************************************)
EXTENDS StaticResolver

CONSTANTS
  Users,             \* acting users of decisions and interactions
  RuntimeUser,       \* the user the runtime was constructed for
  Requests,          \* placement ids
  SlotOf,            \* placement id -> the slot it resolves with once registered
  Treatments,        \* treatment ids of interactions, "default" for none
  InteractionKey(_, _, _),   \* user, placement, treatment -> tracker key
  Playbook, Person,  \* what the resolver was built from and decides on
  CapsEnabled,       \* enable_caps_enforcement
  CapKey, Caps, PeriodLength,
                     \* see CapEnforcer; the roots are those of the resolver's
                     \* output, whose content holds the surface's fields.  A
                     \* payload's own caps ride there as __caps, which no root is
  InteractionTypes,  \* the interactions callers track
  Durations,         \* windows interactions ask for
  MaxTime, MaxPresentations, MaxRecords     \* bounds

VARIABLES
  now,
  registered,                                           \* registered slots
  trackerState, trackerStorage, trackerSystem,          \* interaction_tracker
  historyUser, records, suppressedCache, explicitCache, known,
                                                        \* impression_history
  capsByKey, capStorage, capShown, capNext, verdict,    \* cap_enforcer
  decision,     \* the last answer
  quiet         \* ghost: user, placement -> end of the window its last
                \* dismissal, click or reminder asked for

trackerVars == <<trackerState, trackerStorage, trackerSystem>>
historyVars == <<historyUser, records, suppressedCache, explicitCache, known>>
capVars     == <<capsByKey, capStorage, capShown, capNext, verdict>>
vars == <<now, registered, trackerVars, historyVars, capVars, decision, quiet>>

Candidates == DOMAIN Playbook
Entries    == {Playbook[i].rule : i \in Candidates}

InteractionKeys ==
  {InteractionKey(u, r, t) : u \in Users, r \in Requests, t \in Treatments}

Tracker == INSTANCE InteractionTracker WITH
  Slots <- InteractionKeys, LoadedWindows <- {},
  state <- trackerState, storage <- trackerStorage, system <- trackerSystem

History == INSTANCE ImpressionHistory WITH
  Placements <- Entries, OldWindows <- {}, user <- historyUser

Enforcer == INSTANCE CapEnforcer WITH
  Outputs <- Candidates, Keys <- {CapKey[i] : i \in Candidates}, Start <- 1,
  StorageMayCorrupt <- FALSE,
  storage <- capStorage, shown <- capShown, nextId <- capNext

\* What the parameters must be: those of the resolver, the tracker, the history
\* and the enforcer, whose cap key, of parts joined with colons, is no mark of a
\* malformed storage.
RuntimeConstants ==
  /\ RuntimeUser \in Users /\ "default" \in Treatments
  /\ WellFormed(Playbook, Person)
  /\ \A r \in Requests : SlotFits(SlotOf[r])
  /\ InteractionTypes \subseteq Tracker!Types
  /\ Durations \subseteq Nat \ {0}
  /\ MaxTime \in Nat /\ MaxPresentations \in Nat /\ MaxRecords \in Nat
  /\ \A i \in Candidates : CapKey[i] # "malformed"
  /\ DOMAIN CapKey = Candidates
  /\ Caps \in [Candidates -> [Enforcer!Roots -> Enforcer!Blocks \cup {Enforcer!NoBlock}]]
  /\ PeriodLength \in [Enforcer!Bounded -> Nat]

----------------------------------------------------------------------------
(* get_placement_decision                                                  *)

\* The category, as far as cooldowns tell categories apart.
Cooling(i) ==
  CASE Bucket(Playbook[i].category) = 0 -> "gated"
    [] Bucket(Playbook[i].category) = 1 -> "fixed"
    [] OTHER                            -> "triggered"

\* A placement that is not registered is looked up by its id.
ById(r) ==
  [templates |-> <<>>, name |-> r, id |-> "none", handle |-> "none",
   category |-> "none", status |-> "none", fixedOnly |-> FALSE]

\* Explicit suppressions and their reach are forgotten.
FaultyHiddenCandidates ==
  {i \in Candidates : /\ Cooling(i) \notin History!Exempt
                      /\ History!SuppressedAt(Playbook[i].rule, now)}

\* What the impression history hides from the resolver.
HiddenCandidates ==
  {i \in Candidates : History!Hidden(Playbook[i].rule, Cooling(i))}

\* The runtime's user instead of the acting one.
FaultyDecisionKey(u, r) == InteractionKey(RuntimeUser, r, "default")

\* The key the decision checks: always the default treatment's.
DecisionKey(u, r) == InteractionKey(u, r, "default")

NoDecision == [candidate |-> 0, vetoedBy |-> "nothing asked"]

Answered(u, r, i, veto) ==
  decision' = [user |-> u, request |-> r, candidate |-> i, vetoedBy |-> veto]

\* Caps, then interaction suppression.
FaultyPresent(u, r, i) ==
  /\ Enforcer!Enforce(i)
  /\ Answered(u, r, i,
       IF ~verdict'.allowed THEN "cap"
       ELSE IF Tracker!Suppressed(DecisionKey(u, r), Cooling(i)) THEN "interaction"
       ELSE "none")

\* Interaction suppression, then caps, for a candidate the resolver serves.
Present(u, r, i) ==
  IF Tracker!Suppressed(DecisionKey(u, r), Cooling(i))
  THEN /\ Answered(u, r, i, "interaction")
       /\ UNCHANGED capVars
  ELSE IF ~CapsEnabled
  THEN /\ Answered(u, r, i, "none")
       /\ UNCHANGED capVars
  ELSE /\ Enforcer!Enforce(i)
       /\ Answered(u, r, i, IF verdict'.allowed THEN "none" ELSE "cap")

\* The pipeline for user u, with these slots registered.
Decide(u, r, slots) ==
  LET slot   == IF r \in slots THEN SlotOf[r] ELSE ById(r)
      answer == Resolve(Playbook, slot, Person, HiddenCandidates)
      asked  == AskedAbout(Playbook, slot, Person, HiddenCandidates)
  IN
  /\ History!Ask({<<Playbook[i].rule, Cooling(i)>> : i \in asked})
  /\ IF answer.candidate = 0
     THEN /\ Answered(u, r, 0, "resolver")
          /\ UNCHANGED capVars
     ELSE Present(u, r, answer.candidate)
  /\ registered' = slots
  /\ UNCHANGED <<now, trackerVars, historyUser, records, known, quiet>>

GetPlacementDecision(u, r) == Decide(u, r, registered)

\* get_placement: the slot is registered and decided for the runtime's user.
GetPlacement(r) == Decide(RuntimeUser, r, registered \cup {r})

----------------------------------------------------------------------------
(* The other calls                                                         *)

RegisterPlacement(r) ==
  /\ registered' = registered \cup {r}
  /\ decision' = NoDecision
  /\ UNCHANGED <<now, trackerVars, historyVars, capVars, quiet>>

\* track_interaction
TrackInteraction(u, r, treatment, type, ms) ==
  /\ Tracker!Track(InteractionKey(u, r, treatment), type, ms)
  /\ quiet' = IF type \in Tracker!OpensWindow
              THEN [quiet EXCEPT ![<<u, r>>] = now + ms] ELSE quiet
  /\ decision' = NoDecision
  /\ UNCHANGED <<registered, historyVars, capVars>>

ClearSuppression(u, r) ==
  /\ Tracker!ClearSuppression(DecisionKey(u, r))
  /\ quiet' = [quiet EXCEPT ![<<u, r>>] = 0]
  /\ decision' = NoDecision
  /\ UNCHANGED <<registered, historyVars, capVars>>

\* impression_history_mut: the caller records, reads and resets it directly.
UseHistory ==
  /\ \/ \E p \in Entries, outcome \in History!Outcomes \ History!Windowed :
          History!RecordPlain(p, outcome)
     \/ \E p \in Entries, outcome \in History!Windowed, ms \in Durations :
          History!RecordWindow(p, outcome, ms)
     \/ History!Hydrate
     \/ History!Reset
     \/ \E u \in Users : History!SetUserId(u)
  /\ decision' = NoDecision
  /\ UNCHANGED <<registered, trackerVars, capVars, quiet>>

Tick ==
  /\ now < MaxTime
  /\ now' = now + 1
  /\ decision' = NoDecision
  /\ UNCHANGED <<registered, trackerVars, historyVars, capVars, quiet>>

\* new: empty storages, nothing registered.
Init ==
  /\ now = 1
  /\ registered = {}
  /\ trackerState = Tracker!Empty
  /\ trackerStorage = Tracker!Empty
  /\ trackerSystem = [s \in InteractionKeys |-> 0]
  /\ historyUser = RuntimeUser
  /\ records = [u \in Users |-> <<>>]
  /\ suppressedCache = History!Cold
  /\ explicitCache = History!Nothing
  /\ known = FALSE
  /\ Enforcer!Init
  /\ decision = NoDecision
  /\ quiet = [ur \in Users \X Requests |-> 0]

Next ==
  \/ \E u \in Users, r \in Requests : GetPlacementDecision(u, r)
  \/ \E r \in Requests : GetPlacement(r)
  \/ \E r \in Requests : RegisterPlacement(r)
  \/ \E u \in Users, r \in Requests, treatment \in Treatments,
        type \in InteractionTypes, ms \in Durations :
       TrackInteraction(u, r, treatment, type, ms)
  \/ \E u \in Users, r \in Requests : ClearSuppression(u, r)
  \/ UseHistory
  \/ Tick

Spec == Init /\ [][Next]_vars

----------------------------------------------------------------------------
(* Properties                                                              *)

Decided == decision # NoDecision
Shown   == Decided /\ decision.vetoedBy = "none"

\* A user who dismissed, clicked or postponed a placement is not shown it again
\* before the window of that interaction has passed, whatever is tracked of
\* other users, decided, registered or recorded meanwhile; only exempt
\* categories may appear.
DismissedStaysAway ==
  Shown /\ Cooling(decision.candidate) \notin Tracker!Exempt =>
    quiet[<<decision.user, decision.request>>] <= now

\* An explicit suppression in the stored history that has been read keeps its
\* entry out of every decision until it ends, through store, cache, resolver
\* and pipeline, gates and fixed content included.
StoredSuppressionHides ==
  known /\ Shown =>
    History!NewestWindow(Playbook[decision.candidate].rule, {"suppressed"}) <= now

\* A capped placement is shown exactly when its presentation is counted, so a
\* shown one is never free, and one the interactions veto, which are asked first,
\* never spends the budget.
Capped(i) == CapsEnabled /\ Enforcer!Policies(i) # {}
ShownIffCounted ==
  [][capShown' # capShown <=>
       /\ decision' # NoDecision
       /\ decision'.vetoedBy = "none"
       /\ Capped(decision'.candidate)]_vars

=============================================================================
