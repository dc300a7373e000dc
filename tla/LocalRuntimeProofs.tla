------------------------- MODULE LocalRuntimeProofs -------------------------
(***************************************************************************)
(* Proofs about LocalRuntime: any Playbook, users, placements, caps,       *)
(* windows and bounds.                                                     *)
(***************************************************************************)
EXTENDS LocalRuntime, StaticResolverProofs

----------------------------------------------------------------------------
(* What a decision does to its parts                                       *)

\* A decision answers about a candidate of the Playbook that is not hidden, or
\* about none.
LEMMA DecisionCases ==
  ASSUME RuntimeConstants, NEW u, NEW r \in Requests, NEW slots, Decide(u, r, slots)
  PROVE  /\ \E asked : History!Ask(asked)
         /\ UNCHANGED <<now, trackerVars, historyUser, records, known, quiet>>
         /\ \/ Answered(u, r, 0, "resolver") /\ UNCHANGED capVars
            \/ \E i \in Candidates \ HiddenCandidates : Present(u, r, i)
<1> DEFINE slot   == IF r \in slots THEN SlotOf[r] ELSE ById(r)
           answer == Resolve(Playbook, slot, Person, HiddenCandidates)
<1>1. SlotFits(slot)
  <2>1. SlotFits(ById(r))
    BY DEF SlotFits, IsList, ById
  <2> QED  BY <2>1 DEF RuntimeConstants
<1> HIDE DEF slot
<1>2. answer.candidate # 0 => answer.candidate \in Candidates \ HiddenCandidates
  BY <1>1, ServedIsFit DEF RuntimeConstants, Candidates
<1>3. IF answer.candidate = 0
      THEN Answered(u, r, 0, "resolver") /\ UNCHANGED capVars
      ELSE Present(u, r, answer.candidate)
  BY DEF Decide, slot
<1>4. /\ \E asked : History!Ask(asked)
      /\ UNCHANGED <<now, trackerVars, historyUser, records, known, quiet>>
  BY DEF Decide
<1> QED  BY <1>2, <1>3, <1>4

\* The steps of the runtime, as its parts see them: what decides is a decision, and
\* every other call forgets the last answer.
LEMMA StepCases ==
  ASSUME RuntimeConstants, [Next]_vars
  PROVE  \/ \E u \in Users, r \in Requests : \E slots : Decide(u, r, slots)
         \/ \E u \in Users, r \in Requests, treatment \in Treatments,
               type \in InteractionTypes, ms \in Durations :
              TrackInteraction(u, r, treatment, type, ms)
         \/ \E u \in Users, r \in Requests : ClearSuppression(u, r)
         \/ \E r \in Requests : RegisterPlacement(r)
         \/ UseHistory
         \/ Tick
         \/ UNCHANGED vars
<1>1. ASSUME NEW u \in Users, NEW r \in Requests, GetPlacementDecision(u, r)
      PROVE  \E slots : Decide(u, r, slots)
  BY <1>1 DEF GetPlacementDecision
<1>2. ASSUME NEW r \in Requests, GetPlacement(r)
      PROVE  RuntimeUser \in Users /\ \E slots : Decide(RuntimeUser, r, slots)
  BY <1>2 DEF GetPlacement, RuntimeConstants
<1> QED  BY <1>1, <1>2 DEF Next

\* Nothing the caller does to the history directly takes time.
LEMMA HistoryKeepsTime == UseHistory => now' = now
  BY DEF UseHistory, History!RecordPlain, History!RecordWindow, History!Hydrate,
         History!Reset, History!SetUserId

----------------------------------------------------------------------------
(* The runtime uses its tracker and its enforcer as they are specified     *)

LEMMA TrackerInit ==
  ASSUME Init
  PROVE  Tracker!Init
<1>1. /\ now = 1 /\ trackerState = Tracker!Empty /\ trackerStorage = Tracker!Empty
      /\ trackerSystem = [s \in InteractionKeys |-> 0]
  BY DEF Init
<1>2. Tracker!NoEntry.last = "none" /\ Tracker!Loaded(Tracker!NoEntry) = Tracker!NoEntry
  BY DEF Tracker!NoEntry, Tracker!Loaded
<1>3. \A s \in InteractionKeys : trackerStorage[s] = Tracker!NoEntry
  BY <1>1 DEF Tracker!Empty
<1>4. trackerStorage \in [InteractionKeys -> Tracker!LegacyEntries]
  BY <1>1 DEF Tracker!Empty, Tracker!LegacyEntries
<1>5. trackerState = [s \in InteractionKeys |-> Tracker!Loaded(trackerStorage[s])]
  BY <1>1, <1>2, <1>3 DEF Tracker!Empty
<1>6. trackerSystem = [s \in InteractionKeys |->
         IF trackerStorage[s].last = "suppress" THEN trackerStorage[s].suppressedUntil
         ELSE Tracker!None]
  BY <1>1, <1>2, <1>3 DEF Tracker!None
<1> QED  BY <1>1, <1>4, <1>5, <1>6 DEF Tracker!Init

LEMMA TrackerStep ==
  ASSUME RuntimeConstants, [Next]_vars
  PROVE  [Tracker!Next]_(Tracker!vars)
<1>1. ASSUME NEW u \in Users, NEW r \in Requests, NEW slots, Decide(u, r, slots)
      PROVE  UNCHANGED Tracker!vars
  BY <1>1, DecisionCases DEF trackerVars, Tracker!vars
<1>2. ASSUME NEW u \in Users, NEW r \in Requests, NEW treatment \in Treatments,
             NEW type \in InteractionTypes, NEW ms \in Durations,
             TrackInteraction(u, r, treatment, type, ms)
      PROVE  Tracker!Next
  <2>1. InteractionKey(u, r, treatment) \in InteractionKeys /\ type \in Tracker!Types
    BY DEF InteractionKeys, RuntimeConstants
  <2>2. Tracker!Track(InteractionKey(u, r, treatment), type, ms)
    BY <1>2 DEF TrackInteraction
  <2> QED  BY <2>1, <2>2 DEF Tracker!Next
<1>3. ASSUME NEW u \in Users, NEW r \in Requests, ClearSuppression(u, r)
      PROVE  Tracker!Next
  <2>1. DecisionKey(u, r) \in InteractionKeys
    BY DEF DecisionKey, InteractionKeys, RuntimeConstants
  <2>2. Tracker!ClearSuppression(DecisionKey(u, r))
    BY <1>3 DEF ClearSuppression
  <2> QED  BY <2>1, <2>2 DEF Tracker!Next
<1>4. ASSUME NEW r \in Requests, RegisterPlacement(r)
      PROVE  UNCHANGED Tracker!vars
  BY <1>4 DEF RegisterPlacement, trackerVars, Tracker!vars
<1>5. ASSUME UseHistory
      PROVE  UNCHANGED Tracker!vars
  BY <1>5, HistoryKeepsTime DEF UseHistory, trackerVars, Tracker!vars
<1>6. ASSUME Tick
      PROVE  Tracker!Next
  BY <1>6 DEF Tick, trackerVars, Tracker!Next, Tracker!Tick
<1>7. ASSUME UNCHANGED vars
      PROVE  UNCHANGED Tracker!vars
  BY <1>7 DEF vars, trackerVars, Tracker!vars
<1> QED  BY <1>1, <1>2, <1>3, <1>4, <1>5, <1>6, <1>7, StepCases

LEMMA EnforcerInit ==
  ASSUME Init
  PROVE  Enforcer!Init
  BY DEF Init

LEMMA EnforcerStep ==
  ASSUME RuntimeConstants, [Next]_vars
  PROVE  [Enforcer!Next]_(Enforcer!vars)
<1> USE DEF capVars, Enforcer!vars
<1>1. ASSUME NEW u \in Users, NEW r \in Requests, NEW slots, Decide(u, r, slots)
      PROVE  [Enforcer!Next]_(Enforcer!vars)
  <2>1. now' = now
    BY <1>1, DecisionCases
  <2>2. CASE UNCHANGED capVars
    BY <2>1, <2>2
  <2>3. ASSUME NEW i \in Candidates, Present(u, r, i)
        PROVE  [Enforcer!Next]_(Enforcer!vars)
    <3>1. UNCHANGED capVars \/ Enforcer!Enforce(i)
      BY <2>3 DEF Present
    <3> QED  BY <2>2, <3>1 DEF Enforcer!Next
  <2> QED  BY <1>1, <2>2, <2>3, DecisionCases
<1>2. ASSUME NEW u \in Users, NEW r \in Requests, NEW treatment \in Treatments,
             NEW type \in InteractionTypes, NEW ms \in Durations,
             TrackInteraction(u, r, treatment, type, ms)
      PROVE  UNCHANGED Enforcer!vars
  BY <1>2 DEF TrackInteraction, Tracker!Track
<1>3. ASSUME NEW u \in Users, NEW r \in Requests, ClearSuppression(u, r)
      PROVE  UNCHANGED Enforcer!vars
  BY <1>3 DEF ClearSuppression, Tracker!ClearSuppression
<1>4. ASSUME NEW r \in Requests, RegisterPlacement(r)
      PROVE  UNCHANGED Enforcer!vars
  BY <1>4 DEF RegisterPlacement
<1>5. ASSUME UseHistory
      PROVE  UNCHANGED Enforcer!vars
  BY <1>5, HistoryKeepsTime DEF UseHistory
<1>6. ASSUME Tick
      PROVE  Enforcer!Next
  BY <1>6 DEF Tick, Enforcer!Next, Enforcer!Tick
<1>7. ASSUME UNCHANGED vars
      PROVE  UNCHANGED Enforcer!vars
  BY <1>7 DEF vars
<1> QED  BY <1>1, <1>2, <1>3, <1>4, <1>5, <1>6, <1>7, StepCases

\* Within the runtime, the tracker and the enforcer each go through one of their own
\* behaviours: what is proved of them alone holds of them here.
THEOREM PartsBehave ==
  ASSUME RuntimeConstants
  PROVE  Spec => Tracker!Spec /\ Enforcer!Spec
<1>1. Init => Tracker!Init /\ Enforcer!Init
  BY TrackerInit, EnforcerInit
<1>2. [Next]_vars => [Tracker!Next]_(Tracker!vars) /\ [Enforcer!Next]_(Enforcer!vars)
  BY TrackerStep, EnforcerStep
<1> QED  BY <1>1, <1>2, PTL DEF Spec, Tracker!Spec, Enforcer!Spec

----------------------------------------------------------------------------
(* Shown and counted                                                       *)

\* The ids of what was presented are used up.
IdsUsed ==
  /\ capNext \in Nat
  /\ DOMAIN capShown = {CapKey[i] : i \in Candidates}
  /\ \A k \in DOMAIN capShown : \A p \in capShown[k] : p.id \in Nat /\ p.id < capNext

\* A cap that refuses has a period of its own to name.
LEMMA RefusingRuleHasPeriod ==
  ASSUME RuntimeConstants, NEW i \in Candidates, NEW seen,
         Enforcer!DenyingPolicies(i, seen) # {}
  PROVE  Enforcer!Rule(i, Enforcer!FirstDenying(i, seen)).period # "none"
<1> DEFINE D == Enforcer!DenyingPolicies(i, seen)
           j == Enforcer!FirstDenying(i, seen)
<1>1. D \in SUBSET Nat
  BY DEF Enforcer!DenyingPolicies, Enforcer!Policies, Enforcer!Roots
<1>2. j \in D
  <2> HIDE DEF D
  <2>1. \E n \in D : \A m \in D : n <= m
    BY <1>1, LeastNatural DEF D
  <2> QED  BY <2>1 DEF Enforcer!FirstDenying, D
<1>3. /\ j \in Enforcer!Roots /\ Caps[i][j] # Enforcer!NoBlock
      /\ Enforcer!Rule(i, j) # Enforcer!NoRule
  BY <1>2 DEF Enforcer!DenyingPolicies, Enforcer!Policies
<1> HIDE DEF j
<1>4. Caps[i][j] \in Enforcer!Blocks
  BY <1>3 DEF RuntimeConstants
<1>5. Enforcer!Rule(i, j) \in Enforcer!Rules
  BY <1>3, <1>4 DEF Enforcer!Blocks, Enforcer!Rule
<1> QED  BY <1>5 DEF Enforcer!Rules, Enforcer!Periods, Enforcer!Whole, Enforcer!Bounded, j

\* The enforcer counts a presentation exactly when it allows a capped output.
LEMMA CountedIffAllowed ==
  ASSUME RuntimeConstants, IdsUsed, NEW i \in Candidates, Enforcer!Enforce(i)
  PROVE  /\ capShown' # capShown <=> verdict'.allowed /\ Enforcer!Policies(i) # {}
         /\ IdsUsed'
<1>1. CASE Enforcer!EnforceUncapped(i)
  BY <1>1 DEF Enforcer!EnforceUncapped, IdsUsed
<1>2. CASE Enforcer!EnforceCooldown(i)
  BY <1>2 DEF Enforcer!EnforceCooldown, Enforcer!Answer, IdsUsed
<1>3. CASE Enforcer!EnforceCap(i)
  <2> DEFINE seen   == Enforcer!Valid(capsByKey[CapKey[i]].seenAt)
             period == Enforcer!Rule(i, Enforcer!FirstDenying(i, seen)).period
  <2>1. /\ UNCHANGED <<capShown, capNext>>
        /\ Enforcer!DenyingPolicies(i, seen) # {}
        /\ verdict' = Enforcer!Answer(i, period)
    BY <1>3 DEF Enforcer!EnforceCap
  <2> HIDE DEF seen
  <2>2. period # "none"
    BY <2>1, RefusingRuleHasPeriod
  <2> HIDE DEF period
  <2> QED  BY <2>1, <2>2 DEF Enforcer!Answer, IdsUsed
<1>4. CASE Enforcer!EnforcePresent(i)
  <2> DEFINE k == CapKey[i]
             p == [id |-> capNext, at |-> now, by |-> i]
  <2>1. /\ capShown' = [capShown EXCEPT ![k] = @ \cup {p}]
        /\ capNext' = capNext + 1
        /\ verdict' = Enforcer!Answer(i, "none")
        /\ Enforcer!Policies(i) # {}
    BY <1>4 DEF Enforcer!EnforcePresent
  <2>2. k \in DOMAIN capShown /\ p.id = capNext
    BY DEF IdsUsed
  <2> HIDE DEF k, p
  <2>3. p \notin capShown[k] /\ p \in capShown'[k]
    BY <2>1, <2>2 DEF IdsUsed
  <2>4. IdsUsed'
    <3>1. DOMAIN capShown' = DOMAIN capShown
      BY <2>1
    <3>2. capNext' \in Nat /\ \A n \in Nat : n < capNext => n < capNext'
      BY <2>1 DEF IdsUsed
    <3>3. ASSUME NEW l \in DOMAIN capShown, NEW q \in capShown'[l]
          PROVE  q.id \in Nat /\ q.id < capNext'
      <4>1. CASE q \in capShown[l]
        BY <3>2, <4>1 DEF IdsUsed
      <4>2. CASE q = p
        BY <2>1, <2>2, <3>2, <4>2 DEF IdsUsed
      <4> QED  BY <2>1, <3>3, <4>1, <4>2
    <3> QED  BY <3>1, <3>2, <3>3 DEF IdsUsed
  <2> QED  BY <2>1, <2>3, <2>4 DEF Enforcer!Answer
<1> QED  BY <1>1, <1>2, <1>3, <1>4 DEF Enforcer!Enforce

LEMMA CountedStep ==
  ASSUME RuntimeConstants, IdsUsed, [Next]_vars
  PROVE  /\ IdsUsed'
         /\ capShown' # capShown <=>
              /\ decision' # NoDecision
              /\ decision'.vetoedBy = "none"
              /\ Capped(decision'.candidate)
         \/ UNCHANGED vars
<1> USE DEF capVars
<1>1. ASSUME NEW u \in Users, NEW r \in Requests, NEW slots, Decide(u, r, slots)
      PROVE  /\ IdsUsed'
             /\ capShown' # capShown <=>
                  /\ decision' # NoDecision
                  /\ decision'.vetoedBy = "none"
                  /\ Capped(decision'.candidate)
  <2>1. CASE Answered(u, r, 0, "resolver") /\ UNCHANGED capVars
    BY <2>1 DEF Answered, IdsUsed
  <2>2. ASSUME NEW i \in Candidates, Present(u, r, i)
        PROVE  /\ IdsUsed'
               /\ capShown' # capShown <=>
                    /\ decision' # NoDecision
                    /\ decision'.vetoedBy = "none"
                    /\ Capped(decision'.candidate)
    <3>1. CASE Tracker!Suppressed(DecisionKey(u, r), Cooling(i))
      BY <2>2, <3>1 DEF Present, Answered, IdsUsed
    <3>2. CASE ~ Tracker!Suppressed(DecisionKey(u, r), Cooling(i)) /\ ~ CapsEnabled
      BY <2>2, <3>2 DEF Present, Answered, Capped, IdsUsed
    <3>3. CASE ~ Tracker!Suppressed(DecisionKey(u, r), Cooling(i)) /\ CapsEnabled
      <4>1. /\ Enforcer!Enforce(i)
            /\ decision'.candidate = i
            /\ decision'.vetoedBy = IF verdict'.allowed THEN "none" ELSE "cap"
        BY <2>2, <3>3 DEF Present, Answered
      <4>2. decision'.vetoedBy = "none" => decision' # NoDecision
        <5>1. NoDecision.vetoedBy # "none"
          BY DEF NoDecision
        <5> QED  BY <5>1
      <4>3. decision'.vetoedBy = "none" <=> verdict'.allowed
        BY <4>1
      <4>4. Capped(decision'.candidate) <=> Enforcer!Policies(i) # {}
        BY <3>3, <4>1 DEF Capped
      <4> QED  BY <4>1, <4>2, <4>3, <4>4, CountedIffAllowed
    <3> QED  BY <3>1, <3>2, <3>3
  <2> QED  BY <1>1, <2>1, <2>2, DecisionCases
<1>2. ASSUME UNCHANGED capVars, decision' = NoDecision
      PROVE  /\ IdsUsed'
             /\ capShown' # capShown <=>
                  /\ decision' # NoDecision
                  /\ decision'.vetoedBy = "none"
                  /\ Capped(decision'.candidate)
  BY <1>2 DEF IdsUsed
<1>3. CASE UNCHANGED vars
  BY <1>3 DEF vars, IdsUsed
<1> QED  BY <1>1, <1>2, <1>3, StepCases
         DEF TrackInteraction, ClearSuppression, RegisterPlacement, UseHistory, Tick

\* A capped placement is shown exactly when the enforcer counts it: none is shown
\* for free, and one the resolver or the interactions refuse costs nothing.
THEOREM ShownAreCounted ==
  ASSUME RuntimeConstants
  PROVE  Spec => ShownIffCounted
<1>1. Init => IdsUsed
  BY DEF Init, Enforcer!Init, IdsUsed
<1>2. IdsUsed /\ [Next]_vars => IdsUsed'
  BY CountedStep DEF IdsUsed, vars, capVars
<1>3. IdsUsed /\ [Next]_vars =>
        [capShown' # capShown <=>
           /\ decision' # NoDecision
           /\ decision'.vetoedBy = "none"
           /\ Capped(decision'.candidate)]_vars
  BY CountedStep
<1> QED  BY <1>1, <1>2, <1>3, PTL DEF Spec, ShownIffCounted

----------------------------------------------------------------------------
(* What a user has dismissed                                               *)

\* The keys decisions look up tell users and placements apart: no id has a colon in it.
KeysTellApart ==
  \A u, v \in Users, r, q \in Requests :
    DecisionKey(u, r) = DecisionKey(v, q) => u = v /\ r = q

\* The window an interaction asked for is the one its entry holds, and no conversion
\* stands over it.
Stands(e, w) == e.suppressedUntil = w /\ e.last # "cta_completed"

QuietIsKept ==
  /\ now \in Nat
  /\ trackerState \in [InteractionKeys -> Tracker!Entries]
  /\ quiet \in [Users \X Requests -> Nat]
  /\ \A u \in Users, r \in Requests :
       quiet[<<u, r>>] # 0 => Stands(trackerState[DecisionKey(u, r)], quiet[<<u, r>>])

\* What an interaction makes of an entry.
LEMMA TrackedEntry ==
  ASSUME NEW e \in Tracker!Entries, NEW type \in Tracker!Types, NEW ms \in Nat, now \in Nat
  PROVE  /\ Tracker!Tracked(e, type, ms) \in Tracker!Entries
         /\ type \in Tracker!OpensWindow => Stands(Tracker!Tracked(e, type, ms), now + ms)
         /\ \A w \in Nat : w # 0 /\ type \notin Tracker!OpensWindow /\ Stands(e, w) =>
              Stands(Tracker!Tracked(e, type, ms), w)
<1> DEFINE c == Tracker!Carried(e)
           d == Tracker!Tracked(e, type, ms)
<1>1. /\ e.suppressedUntil \in Nat /\ e.explicitUntil \in Nat
      /\ e.last \in Tracker!Types \cup {"none"}
  BY DEF Tracker!Entries
<1>2. /\ c \in Tracker!Entries /\ c.last = e.last
      /\ c.suppressedUntil = (IF e.last = "cta_completed" THEN 0 ELSE e.suppressedUntil)
  BY <1>1 DEF Tracker!Carried, Tracker!Entries, Tracker!None
<1>3. Tracker!NextType(c, type) \in Tracker!Types \cup {"none"}
  BY <1>1, <1>2 DEF Tracker!NextType
<1>4. /\ d = [c EXCEPT !.last = Tracker!NextType(c, type),
                       !.suppressedUntil = IF type \in Tracker!OpensWindow
                                           THEN now + ms ELSE c.suppressedUntil]
      /\ now + ms \in Nat
  BY DEF Tracker!Tracked
<1> HIDE DEF c, d
<1>5. /\ d \in Tracker!Entries /\ d.last = Tracker!NextType(c, type)
      /\ d.suppressedUntil = IF type \in Tracker!OpensWindow THEN now + ms
                             ELSE c.suppressedUntil
  BY <1>2, <1>3, <1>4 DEF Tracker!Entries
<1>6. type \in Tracker!OpensWindow => d.last # "cta_completed"
  BY <1>5 DEF Tracker!NextType, Tracker!OpensWindow
<1>7. ASSUME NEW w \in Nat, w # 0, type \notin Tracker!OpensWindow, Stands(e, w)
      PROVE  Stands(d, w)
  <2>1. c.suppressedUntil = w /\ c.last # "cta_completed"
    BY <1>2, <1>7 DEF Stands
  <2>2. d.suppressedUntil = w /\ d.last # "cta_completed"
    BY <1>5, <1>7, <2>1 DEF Tracker!NextType, Tracker!None
  <2> QED  BY <2>2 DEF Stands
<1> QED  BY <1>5, <1>6, <1>7 DEF Stands, d

LEMMA QuietInit ==
  ASSUME RuntimeConstants, Init
  PROVE  QuietIsKept
<1>1. Tracker!NoEntry \in Tracker!Entries
  BY DEF Tracker!NoEntry, Tracker!Entries, Tracker!None
<1> QED  BY <1>1 DEF Init, QuietIsKept, Tracker!Empty

LEMMA QuietStep ==
  ASSUME RuntimeConstants, Treatments = {"default"}, KeysTellApart, QuietIsKept, [Next]_vars
  PROVE  QuietIsKept'
<1>1. \A u \in Users, r \in Requests : DecisionKey(u, r) \in InteractionKeys
  BY DEF DecisionKey, InteractionKeys, RuntimeConstants
<1>2. ASSUME UNCHANGED <<trackerState, quiet>>, now' \in Nat
      PROVE  QuietIsKept'
  BY <1>2 DEF QuietIsKept, DecisionKey
<1>3. ASSUME NEW u \in Users, NEW r \in Requests, NEW slots, Decide(u, r, slots)
      PROVE  QuietIsKept'
  BY <1>2, <1>3, DecisionCases DEF QuietIsKept, trackerVars
<1>4. ASSUME NEW u \in Users, NEW r \in Requests, NEW type \in InteractionTypes,
             NEW ms \in Durations, TrackInteraction(u, r, "default", type, ms)
      PROVE  QuietIsKept'
  <2> DEFINE k == DecisionKey(u, r)
             d == Tracker!Tracked(trackerState[k], type, ms)
  <2>1. k \in InteractionKeys /\ trackerState[k] \in Tracker!Entries
    BY <1>1 DEF QuietIsKept
  <2>2. /\ trackerState' = [trackerState EXCEPT ![k] = d] /\ now' = now
        /\ quiet' = IF type \in Tracker!OpensWindow
                    THEN [quiet EXCEPT ![<<u, r>>] = now + ms] ELSE quiet
    BY <1>4 DEF TrackInteraction, Tracker!Track, Tracker!Put, DecisionKey
  <2>3. /\ type \in Tracker!Types /\ ms \in Nat /\ now \in Nat /\ now + ms \in Nat
        /\ <<u, r>> \in Users \X Requests
    BY DEF RuntimeConstants, QuietIsKept
  <2>4. /\ d \in Tracker!Entries
        /\ type \in Tracker!OpensWindow => Stands(d, now + ms)
        /\ \A w \in Nat : w # 0 /\ type \notin Tracker!OpensWindow
                            /\ Stands(trackerState[k], w) => Stands(d, w)
    BY <2>1, <2>3, TrackedEntry
  <2> HIDE DEF k, d
  <2>5. /\ trackerState' \in [InteractionKeys -> Tracker!Entries]
        /\ quiet' \in [Users \X Requests -> Nat]
    BY <2>1, <2>2, <2>3, <2>4 DEF QuietIsKept
  <2>6. ASSUME NEW v \in Users, NEW q \in Requests, quiet'[<<v, q>>] # 0
        PROVE  Stands(trackerState'[DecisionKey(v, q)], quiet'[<<v, q>>])
    <3>1. CASE v = u /\ q = r
      <4>1. trackerState'[DecisionKey(v, q)] = d
        BY <2>1, <2>2, <3>1 DEF k, QuietIsKept
      <4>2. quiet'[<<v, q>>] = IF type \in Tracker!OpensWindow THEN now + ms
                               ELSE quiet[<<u, r>>]
        BY <2>2, <2>3, <3>1 DEF QuietIsKept
      <4>3. quiet[<<u, r>>] \in Nat
        BY <2>3 DEF QuietIsKept
      <4>4. quiet[<<u, r>>] # 0 => Stands(trackerState[k], quiet[<<u, r>>])
        BY DEF QuietIsKept, k
      <4> QED  BY <2>4, <2>6, <4>1, <4>2, <4>3, <4>4
    <3>2. CASE ~ (v = u /\ q = r)
      <4>1. DecisionKey(v, q) # k
        BY <3>2 DEF KeysTellApart, k
      <4>2. trackerState'[DecisionKey(v, q)] = trackerState[DecisionKey(v, q)]
        BY <1>1, <2>2, <4>1 DEF QuietIsKept
      <4>3. quiet'[<<v, q>>] = quiet[<<v, q>>]
        BY <2>2, <3>2 DEF QuietIsKept
      <4> QED  BY <2>6, <4>2, <4>3 DEF QuietIsKept
    <3> QED  BY <3>1, <3>2
  <2>7. \A v \in Users, q \in Requests : DecisionKey(v, q)' = DecisionKey(v, q)
    BY DEF DecisionKey
  <2> QED  BY <2>2, <2>3, <2>5, <2>6, <2>7 DEF QuietIsKept, DecisionKey
<1>5. ASSUME NEW u \in Users, NEW r \in Requests, ClearSuppression(u, r)
      PROVE  QuietIsKept'
  <2> DEFINE k == DecisionKey(u, r)
  <2>1. /\ trackerState' = [trackerState EXCEPT ![k] = Tracker!NoEntry] /\ now' = now
        /\ quiet' = [quiet EXCEPT ![<<u, r>>] = 0]
    BY <1>5 DEF ClearSuppression, Tracker!ClearSuppression, Tracker!Put
  <2>2. Tracker!NoEntry \in Tracker!Entries
    BY DEF Tracker!NoEntry, Tracker!Entries, Tracker!None
  <2>3. k \in InteractionKeys
    BY <1>1
  <2>4. \A v \in Users, q \in Requests : ~ (v = u /\ q = r) => DecisionKey(v, q) # k
    BY DEF KeysTellApart
  <2> HIDE DEF k
  <2>5. /\ trackerState' \in [InteractionKeys -> Tracker!Entries]
        /\ quiet' \in [Users \X Requests -> Nat]
    BY <2>1, <2>2, <2>3 DEF QuietIsKept
  <2>6. ASSUME NEW v \in Users, NEW q \in Requests, quiet'[<<v, q>>] # 0
        PROVE  Stands(trackerState'[DecisionKey(v, q)], quiet'[<<v, q>>])
    <3>1. quiet'[<<v, q>>] = quiet[<<v, q>>] /\ ~ (v = u /\ q = r)
      BY <2>1, <2>6 DEF QuietIsKept
    <3>2. trackerState'[DecisionKey(v, q)] = trackerState[DecisionKey(v, q)]
      BY <1>1, <2>1, <2>4, <3>1 DEF QuietIsKept
    <3> QED  BY <2>6, <3>1, <3>2 DEF QuietIsKept
  <2> QED  BY <2>1, <2>5, <2>6 DEF QuietIsKept, DecisionKey
<1>6. ASSUME NEW r \in Requests, RegisterPlacement(r)
      PROVE  QuietIsKept'
  BY <1>2, <1>6 DEF RegisterPlacement, trackerVars, QuietIsKept
<1>7. ASSUME UseHistory
      PROVE  QuietIsKept'
  BY <1>2, <1>7, HistoryKeepsTime DEF UseHistory, trackerVars, QuietIsKept
<1>8. ASSUME Tick
      PROVE  QuietIsKept'
  BY <1>2, <1>8 DEF Tick, trackerVars, QuietIsKept
<1>9. ASSUME UNCHANGED vars
      PROVE  QuietIsKept'
  BY <1>2, <1>9 DEF vars, trackerVars, QuietIsKept
<1> QED  BY <1>3, <1>4, <1>5, <1>6, <1>7, <1>8, <1>9, StepCases

\* A decision that shows a placement found no window of the user's over it.
LEMMA ShownIsNotQuiet ==
  ASSUME RuntimeConstants, QuietIsKept, NEW u \in Users, NEW r \in Requests, NEW slots,
         Decide(u, r, slots)
  PROVE  DismissedStaysAway'
<1> SUFFICES ASSUME Shown', Cooling(decision'.candidate) \notin Tracker!Exempt
             PROVE  quiet'[<<decision'.user, decision'.request>>] <= now'
  BY DEF DismissedStaysAway, Cooling
<1>1. PICK i \in Candidates : Present(u, r, i)
  <2>1. ~ Answered(u, r, 0, "resolver")
    BY DEF Answered, Shown
  <2> QED  BY <2>1, DecisionCases
<1>2. /\ decision'.user = u /\ decision'.request = r /\ decision'.candidate = i
      /\ ~ Tracker!Suppressed(DecisionKey(u, r), Cooling(i))
  <2>1. decision'.vetoedBy = "none"
    BY DEF Shown
  <2>2. CASE Tracker!Suppressed(DecisionKey(u, r), Cooling(i))
    BY <1>1, <2>1, <2>2 DEF Present, Answered
  <2>3. CASE ~ Tracker!Suppressed(DecisionKey(u, r), Cooling(i))
    BY <1>1, <2>3 DEF Present, Answered
  <2> QED  BY <2>2, <2>3
<1> DEFINE e == trackerState[DecisionKey(u, r)]
<1>3. /\ Tracker!Suppression(e, now, Cooling(i)) = "allowed"
      /\ Cooling(i) \notin Tracker!Exempt
  BY <1>2 DEF Tracker!Suppressed
<1>4. \/ e.suppressedUntil = 0
      \/ e.last = "cta_completed"
      \/ e.suppressedUntil <= now
  <2> HIDE DEF e
  <2> QED  BY <1>3 DEF Tracker!Suppression, Tracker!None
<1>5. quiet' = quiet /\ now' = now
  BY DecisionCases
<1>6. quiet[<<u, r>>] \in Nat /\ now \in Nat
  BY DEF QuietIsKept
<1>7. quiet[<<u, r>>] # 0 => e.suppressedUntil = quiet[<<u, r>>] /\ e.last # "cta_completed"
  BY DEF QuietIsKept, Stands
<1> HIDE DEF e
<1> QED  BY <1>2, <1>4, <1>5, <1>6, <1>7

\* What a user dismissed, clicked or postponed is not shown to that user before the
\* window has passed, whatever the other parts of the runtime do.
THEOREM DismissalsAreKept ==
  ASSUME RuntimeConstants, Treatments = {"default"}, KeysTellApart
  PROVE  Spec => []DismissedStaysAway
<1>1. Init => QuietIsKept /\ DismissedStaysAway
  BY QuietInit DEF Init, DismissedStaysAway, Shown, Decided
<1>2. QuietIsKept /\ DismissedStaysAway /\ [Next]_vars => QuietIsKept' /\ DismissedStaysAway'
  <2> SUFFICES ASSUME QuietIsKept, DismissedStaysAway, [Next]_vars
               PROVE  DismissedStaysAway'
    BY QuietStep
  <2>1. CASE decision' = NoDecision
    BY <2>1 DEF DismissedStaysAway, Shown, Decided
  <2>2. CASE UNCHANGED vars
    BY <2>2 DEF vars, DismissedStaysAway, Shown, Decided, Cooling
  <2> QED  BY <2>1, <2>2, ShownIsNotQuiet, StepCases
           DEF TrackInteraction, ClearSuppression, RegisterPlacement, UseHistory, Tick
<1> QED  BY <1>1, <1>2, PTL DEF Spec

----------------------------------------------------------------------------
(* What the stored history hides                                           *)

\* What is proved of the impression history, of the runtime's own.
Stored == INSTANCE ImpressionHistoryProofs WITH
  Placements <- Entries, OldWindows <- {}, user <- historyUser

HistoryIsKept == Stored!Typed /\ Stored!NewestCached

\* The runtime's calls are the history's.
LEMMA SameAsk ==
  ASSUME NEW asked, History!Ask(asked)
  PROVE  Stored!Ask(asked)
  BY DEF Stored!Ask, History!Ask, Stored!Exempt, History!Exempt, Stored!Categories,
         History!Categories, Stored!None, History!None, Stored!Cold, History!Cold

LEMMA SameRecordPlain ==
  ASSUME NEW p, NEW outcome, History!RecordPlain(p, outcome)
  PROVE  Stored!RecordPlain(p, outcome)
  BY DEF Stored!RecordPlain, History!RecordPlain, Stored!Append1, History!Append1,
         Stored!None, History!None, Stored!caches, History!caches,
         Stored!Cardinality, History!Cardinality, Cardinality

LEMMA SameRecordWindow ==
  ASSUME NEW p, NEW outcome, NEW ms, History!RecordWindow(p, outcome, ms)
  PROVE  Stored!RecordWindow(p, outcome, ms)
<1>1. History!Warm = Stored!Warm
  BY DEF Stored!Warm, History!Warm, Stored!Cold, History!Cold, Stored!Nothing,
         History!Nothing, Stored!None, History!None
<1>2. History!Explicit(p, outcome, now + ms) = Stored!Explicit(p, outcome, now + ms)
  BY DEF Stored!Explicit, History!Explicit
<1>3. History!Append1(p, outcome, now + ms) => Stored!Append1(p, outcome, now + ms)
  BY DEF Stored!Append1, History!Append1, Stored!Cardinality, History!Cardinality, Cardinality
<1> QED  BY <1>1, <1>2, <1>3 DEF Stored!RecordWindow, History!RecordWindow

LEMMA SameHydrate == History!Hydrate => Stored!Hydrate
  BY DEF Stored!Hydrate, History!Hydrate, Stored!StoredWindows, History!StoredWindows,
         Stored!StoredExplicit, History!StoredExplicit, Stored!NewestOf, History!NewestOf,
         Stored!Running, History!Running, Stored!None, History!None,
         Stored!Outcomes, History!Outcomes, Stored!Windowed, History!Windowed

LEMMA SameReset == History!Reset => Stored!Reset
  BY DEF Stored!Reset, History!Reset, Stored!Nothing, History!Nothing,
         Stored!None, History!None

LEMMA SameSetUserId ==
  ASSUME NEW u, History!SetUserId(u)
  PROVE  Stored!SetUserId(u)
  BY DEF Stored!SetUserId, History!SetUserId, Stored!Nothing, History!Nothing,
         Stored!None, History!None, Stored!Cold, History!Cold

LEMMA SameNewestWindow ==
  ASSUME NEW p, NEW outcomes
  PROVE  History!NewestWindow(p, outcomes) = Stored!NewestWindow(p, outcomes)
  BY DEF Stored!NewestWindow, History!NewestWindow, Stored!NewestOf, History!NewestOf,
         Stored!None, History!None

LEMMA HistoryInit ==
  ASSUME RuntimeConstants, Init
  PROVE  HistoryIsKept
<1>1. Stored!ConstantsFit
  BY DEF Stored!ConstantsFit, RuntimeConstants
<1>2. Stored!Init
  <2>1. records \in [Users -> Stored!OldHistories]
    BY DEF Init, Stored!OldHistories
  <2>2. suppressedCache = Stored!Cold /\ explicitCache = Stored!Nothing
    BY DEF Init, Stored!Cold, History!Cold, Stored!Nothing, History!Nothing,
           Stored!None, History!None
  <2> QED  BY <2>1, <2>2 DEF Init, Stored!Init, RuntimeConstants
<1>3. Stored!Typed
  BY <1>1, <1>2, Stored!TypedInit
<1>4. Stored!NewestCached
  BY DEF Init, Stored!NewestCached
<1> QED  BY <1>3, <1>4 DEF HistoryIsKept

LEMMA HistoryStep ==
  ASSUME RuntimeConstants, HistoryIsKept, [Next]_vars
  PROVE  HistoryIsKept'
<1>c. Stored!ConstantsFit
  BY DEF Stored!ConstantsFit, RuntimeConstants
<1>1. ASSUME [Stored!Next]_(Stored!vars)
      PROVE  HistoryIsKept'
  BY <1>c, <1>1, Stored!TypedStep, Stored!CachedStep DEF HistoryIsKept
<1>2. ASSUME UNCHANGED historyVars, now' = now
      PROVE  HistoryIsKept'
  BY <1>1, <1>2 DEF historyVars, Stored!vars
<1>3. ASSUME NEW u \in Users, NEW r \in Requests, NEW slots, Decide(u, r, slots)
      PROVE  HistoryIsKept'
  <2>1. PICK asked : History!Ask(asked)
    BY <1>3, DecisionCases
  <2>2. Stored!Ask(asked) /\ UNCHANGED <<now, historyUser, records, known>>
    BY <1>3, <2>1, SameAsk, DecisionCases
  <2> QED  BY <2>2, Stored!AskedTyped, Stored!AskedCached DEF HistoryIsKept
<1>4. ASSUME NEW u \in Users, NEW r \in Requests, NEW treatment \in Treatments,
             NEW type \in InteractionTypes, NEW ms \in Durations,
             TrackInteraction(u, r, treatment, type, ms)
      PROVE  HistoryIsKept'
  BY <1>2, <1>4 DEF TrackInteraction, Tracker!Track
<1>5. ASSUME NEW u \in Users, NEW r \in Requests, ClearSuppression(u, r)
      PROVE  HistoryIsKept'
  BY <1>2, <1>5 DEF ClearSuppression, Tracker!ClearSuppression
<1>6. ASSUME NEW r \in Requests, RegisterPlacement(r)
      PROVE  HistoryIsKept'
  BY <1>2, <1>6 DEF RegisterPlacement
<1>7. ASSUME UseHistory
      PROVE  HistoryIsKept'
  <2>1. /\ History!Outcomes = Stored!Outcomes
        /\ History!Windowed = Stored!Windowed
    BY DEF History!Outcomes, Stored!Outcomes, History!Windowed, Stored!Windowed
  <2>2. Stored!Next
    BY <1>7, <2>1, SameRecordPlain, SameRecordWindow, SameHydrate, SameReset, SameSetUserId
       DEF UseHistory, Stored!Next
  <2> QED  BY <1>1, <2>2
<1>8. ASSUME Tick
      PROVE  HistoryIsKept'
  <2>1. Stored!Next
    BY <1>8 DEF Tick, historyVars, Stored!Next, Stored!Tick, Stored!caches
  <2> QED  BY <1>1, <2>1
<1>9. ASSUME UNCHANGED vars
      PROVE  HistoryIsKept'
  BY <1>2, <1>9 DEF vars
<1> QED  BY <1>3, <1>4, <1>5, <1>6, <1>7, <1>8, <1>9, StepCases

\* A decision that shows a candidate asked the history about it.
LEMMA ShownIsNotStored ==
  ASSUME RuntimeConstants, HistoryIsKept, NEW u \in Users, NEW r \in Requests, NEW slots,
         Decide(u, r, slots)
  PROVE  StoredSuppressionHides'
<1> SUFFICES ASSUME known', Shown'
             PROVE  StoredSuppressionHides'
  BY DEF StoredSuppressionHides
<1>1. PICK i \in Candidates \ HiddenCandidates : Present(u, r, i)
  <2>1. ~ Answered(u, r, 0, "resolver")
    BY DEF Answered, Shown
  <2> QED  BY <2>1, DecisionCases
<1>2. decision'.candidate = i
  BY <1>1 DEF Present, Answered
<1> DEFINE p == Playbook[i].rule
<1>3. p \in Entries /\ ~ History!Hidden(p, Cooling(i))
  BY <1>1 DEF HiddenCandidates, Entries
<1> HIDE DEF p
<1>4. ~ (explicitCache[p] > now)
  BY <1>3 DEF History!Hidden, History!HiddenAt
<1>5. UNCHANGED <<now, historyUser, records, known>>
  BY DecisionCases
<1>6. Stored!NewestWindow(p, {"suppressed"}) \in Nat /\ now \in Nat
  BY Stored!NewestType DEF HistoryIsKept, Stored!Typed, Stored!TypeOK
<1>7. Stored!NewestWindow(p, {"suppressed"}) > now =>
        explicitCache[p] = Stored!NewestWindow(p, {"suppressed"})
  BY <1>3, <1>5 DEF HistoryIsKept, Stored!NewestCached
<1>8. History!NewestWindow(p, {"suppressed"}) <= now
  BY <1>4, <1>6, <1>7, SameNewestWindow
<1> QED  BY <1>2, <1>5, <1>8 DEF p, StoredSuppressionHides, History!NewestWindow, History!NewestOf

\* A suppression in the stored history, once read, keeps its entry out of every
\* decision until it ends.
THEOREM StoredSuppressionsHide ==
  ASSUME RuntimeConstants
  PROVE  Spec => []StoredSuppressionHides
<1>1. Init => HistoryIsKept /\ StoredSuppressionHides
  BY HistoryInit DEF Init, StoredSuppressionHides
<1>2. HistoryIsKept /\ StoredSuppressionHides /\ [Next]_vars =>
        HistoryIsKept' /\ StoredSuppressionHides'
  <2> SUFFICES ASSUME HistoryIsKept, StoredSuppressionHides, [Next]_vars
               PROVE  StoredSuppressionHides'
    BY HistoryStep
  <2>1. CASE decision' = NoDecision
    BY <2>1 DEF StoredSuppressionHides, Shown, Decided
  <2>2. CASE UNCHANGED vars
    BY <2>2 DEF vars, historyVars, StoredSuppressionHides, Shown, Decided,
                History!NewestWindow, History!NewestOf
  <2> QED  BY <2>1, <2>2, ShownIsNotStored, StepCases
           DEF TrackInteraction, ClearSuppression, RegisterPlacement, UseHistory, Tick
<1> QED  BY <1>1, <1>2, PTL DEF Spec

=============================================================================
