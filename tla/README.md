# RevTurbine SDK: a TLA+ verification project

RevTurbine decides, inside a host application, which *placement* (a banner, a
modal, an access gate) a user sees and what a user may use. A *Playbook* holds
the authored placements and entitlement rules; the SDK resolves a request to one
payload, withholds it when the user dismissed it, when the application suppressed
it or when its presentation caps are used up, and remembers what was shown. In
the browser the SDK also fetches the Playbook and what the server knows of the
identified user, asks the application's providers, and reports events, while the
application names users, signs them out and converts them. This project models
that decision core and the concurrent parts of the browser SDK as TLA+ modules,
checks them with TLC on small instances and proves the central facts for every
instance with TLAPS.

The reference for decisions is the Rust crate `server-rust`, which the
repository keeps in parity with the TypeScript, Python, Java and C# ports; for
the concurrent parts it is the web SDK (`web-sdk/customer-side.ts`,
`web-sdk/controllers.ts`, `web-sdk/telemetry/delivery.ts`).

## 1. The system

| Component | State it keeps | Operations | Hard behaviour |
|---|---|---|---|
| Presentation caps (`state/cap_enforcer.rs`) | per cap key, instants of presentations and the end of a cooldown; a storage item | `enforce`, `hydrate` | several rules, windows and cooldowns over one list that denials trim; restarts from a storage that lags behind memory |
| Interaction suppression (`state/interaction_tracker.rs`, `interaction.rs`) | per (user, placement, treatment), a window, an explicit window, the last type; a storage item | `track`, `clear_suppression`, `hydrate`, two checks | sequences of interactions over one entry; records of an earlier release |
| Impression history (`state/impression_history*.rs`) | a store of records per user; two caches of window ends | five `record_`s, three queries, `hydrate`, `reset`, `set_user_id` | queries evict; caches go cold on a switch of user; overlapping windows |
| Static resolver (`placements/static_resolver.rs` and the gates beside it) | candidates indexed once | `resolve` | a chain of filters, two supersessions and a ranking whose order matters |
| Entitlements (`entitlements/`) | none | two evaluators of Playbook rules, purchased allowances, the merge with the app's data | overlapping rules, scores, sums that overflow, fields taken from three sides |
| Headless runtime (`runtime.rs`) | registered slots and the components above | `get_placement_decision(s)`, `get_placement`, `register_placement`, `track_interaction`, `clear_suppression`, `impression_history_mut`, entitlement checks | which veto comes first, for which user and under which key |
| Web SDK delivery (`ServerLaunchedPlaybookProvider`, load state) | cached Playbook, etag, TTL, failure, the load in flight | `refresh`, `refreshPlaybookSnapshot`, `getPlaybookLoadState` | two paths with a manifest window, refusals and 304s; shared loads |
| Web SDK slots (`PlacementController`, `getPlacementDecision`, `whenPlaybookSettled`) | per slot a decision, `isLoading`, a subscription and a retry budget | `load`, `refresh`, `reset`, `dispose`, the settlement of a load | a decision waits for a load or a timer, and a slot for a settlement that must come |
| Web SDK client context (`fetchClientContext` and the verbs around it) | the user and the plan held, the token, the last hash, a pending conversion, the fetches in flight | `identify`, `setUserContext`, `update`, `hydrate`, `reset`, `convert`, `fetchClientContext` | verbs run between the awaits of a fetch; a switch of user with a fetch in flight; retries that share a flag |
| Web SDK effective context (`resolveEffectiveProviderContext`, `invalidateEffectiveContext`) | a revision, what was last composed, a snapshot of the providers | compositions, `checkEntitlement`, invalidation by every verb and by a load | providers that answer late, for a user or a Playbook that is gone |
| Web SDK queues (`captureRaw`, `sendEvents`, `flushInteractionQueue`, `dispose`) | buffered events, queued interactions, batches in flight | `capture`, `flushEvents`, `trackTreatmentInteraction`, `dispose`, consent | batches in flight, retries and lost answers, a change of user between enqueue and flush |
| Trials, plans, segment derivation, formats, ports | none | pure functions | see section 5 |

How they interact. The runtime calls the resolver, which asks the impression
history which entries it hides (and so makes it evict); for a candidate the
runtime asks the interaction tracker, and last the cap enforcer, which counts
what it allows. The tracker and the enforcer write through to a key-value
storage. Callers track interactions and use the impression history between
decisions. In Rust all of it is synchronous under `&mut self`: one call is one
step, and what is hard are sequences of calls, time, restarts, and which user,
key and window each part looks at.

The web SDK is single-threaded and asynchronous: whatever runs between two awaits
is one step, and every await is a point where the application's verbs and other
requests come in. A slot awaits the composed context, then the Playbook's load;
the end of a load notifies the slots and invalidates the context; a verb
invalidates the context and starts or redirects a fetch of the client context;
events are stamped with what was last composed and wait in a buffer for the
user, or the account, of a later moment. `PROJECT.json` lists every component,
the hazards at their lines, and the lines each definition models.

What makes each part correct, in a sentence: caps and cooldowns hold over
everything really shown; a suppression hides until its own end and nothing
brings an ended one back; caches never disagree with the user's own history;
the resolver serves the most urgent showable candidate and is empty only if there
is none; the most permissive rule prevails, on every surface, and stated numbers
add up; a decision counts exactly what it shows, and respects every window of its
own user; the Playbook in force was live during the load that brought it, and a
slot stops loading; the client context and the composed context follow the
identified user; an event becomes one row and an interaction is not lost.

## 2. The modules

| Module | Models |
|---|---|
| `CapEnforcer` | `cap_enforcer.rs` and the windows of `helpers.rs`. One action per outcome of `enforce` (uncapped, cooldown, cap, presented), `Hydrate`, `Restart`, `CorruptStorage`, `Tick`. |
| `CapPolicy` | The abstract specification of caps: answers computed from everything ever shown, no cache, no storage, no trimming. `FirmRules` gives the rules of an output that bind every presentation, `Refusals` the reasons a denial may give. |
| `InteractionTracker` | `interaction_tracker.rs` and `interaction.rs`. |
| `ImpressionHistory` | `impression_history.rs` over the in-memory store. |
| `StaticResolver` | `resolve` as operators: `ResolveSlot`, `ResolveName`, and the gates, supersessions and ranking they use. No variable. |
| `ResolverDecisions` | A behaviour is one Playbook, slot, user and set of hidden candidates, and the decision. |
| `Entitlements` | `entitlements/` as operators: `PlaybookVerdict` (`entitlement_check.rs`), `EngineVerdict` (`rules.rs`), the purchases and their sum (`purchased_allowance.rs`), the app's view and the merge (`EffectiveEntitlement`). No variable. |
| `EntitlementDecisions` | A behaviour is one question (kind, rules, user, holdings, app data) and its verdict. |
| `LocalRuntime` | The composition: INSTANCEs of the tracker, history and enforcer over one clock, the resolver's operators, and the runtime's own calls. |
| `ClientContext` | The client context of the web SDK. One action per verb, and per await of a fetch one for each way it settles: `Minted`, `Serve`, `Refuse` (401), `Fail`, `Reminted`, `Read`, `Apply`; `Continue` is the continuation a switch leaves behind a fetch in flight. |
| `PlaybookDelivery` | The server-launched provider: one action per answer a load awaits (`Bootstrap`, `Bundle`, `Legacy` with 200, 304, a refused format or a failure), `WindowCloses`, `Expire` of the TTL, `Launch` of a version. |
| `PlacementSlots` | `PlacementController` over `PlaybookDelivery`: `Decide` is one await of `getPlacementDecision`, `LoadStep` a step of the load with the settlement it notifies, and an action per call of the application. |
| `EventQueues` | Both reporting lanes: capture, buffer, timer, flush, attempts and their answers, the interaction queue with its re-queue, consent, `dispose` and the verbs that change who acts. |
| `EffectiveContext` | The composition of the providers' answers with its revision, the snapshot that checks are evaluated on, invalidation, and the stamp on events. |
| `CapEnforcerMC`, `StateStoresMC`, `ResolverMC`, `DecisionsMC`, `LocalRuntimeMC`, `ClientContextMC`, `EventQueuesMC`, `BrowserMC` | Values of the constants for TLC. `StateStoresMC`, `DecisionsMC` and `BrowserMC` let one run check several parts that do not act on each other: `part`, or an answer not asked for, says which acts, and the rest stays as it began. |
| `CapEnforcerProofs`, `ImpressionHistoryProofs`, `LocalRuntimeProofs`, `ClientContextProofs` | TLAPS proofs about the module each is named after. |
| `StaticResolverProofs` | What the resolver's operators compute: the sort order, the front of a set of candidates, what each stage of the chain keeps. |
| `DecisionsProofs` | Proofs about `ResolverDecisions`, over `StaticResolverProofs`, and about `EntitlementDecisions`. |
| `StateStoresProofs` | Proofs about `InteractionTracker` and, over `ImpressionHistoryProofs`, about the two stores of `StateStoresMC`. |
| `BrowserProofs` | Proofs about the parts of `BrowserMC`: `PlacementSlots` with its delivery, `EventQueues` and `EffectiveContext`. |

Operators named `Faulty...` are slips a maintainer could make in the operator
they precede. Nothing uses them: they are the mutants that show each property
able to fail, and `PROJECT.json` pairs them.

### Abstractions

- Time is a counter; windows keep their order (day < week < month) and shrink
  to a few ticks. The clock never steps back.
- A presentation is a record with its instant, an id that keeps two of one
  millisecond apart (the code keeps a list), and the output it showed. The id and
  the output are for the properties; no guard reads them.
- An absent window, entry or cooldown is the value every comparison treats as
  ended (0, or the entry without windows).
- A storage item holds the component's whole map, or is malformed. Storage
  corruption is a step of the environment, as the code's handling of malformed
  JSON expects it.
- A candidate carries *verdicts* for the checks that depend on one user's
  context and nothing else in the decision (qualifier, plan and segment targets,
  known trigger type, the tier's place on the gate's ladder). The trial and
  threshold gates and supersession are modelled by what they compute, as they
  compare candidates. How much of an entitlement is used is a number per kind of
  threshold and handle: a credit threshold goes by what is left, and the counters
  of one entitlement need not add up.
- The runtime's Playbook and provider state are fixed at construction, as in
  the code. `get_placement` registers one slot per placement id;
  a configuration that matches no slot changes nothing and is left out, as are
  the reads without effect. A gate category never enters through `get_placement`,
  which sets no slot category.
- The caps the runtime's enforcer sees are those in the content of the
  resolver's output. A payload's own caps ride there as `__caps`, where
  `extract_policies` does not look.
- What the code selects from a list keeps its positions (`RestrictValues`): a
  selection of rules or holdings is a function on the positions it took, the first of
  them is the one of the least position, and what is picked or added up is the same as
  from the shorter list the code builds.
- An entitlement question is about one handle. Handles are compared as they are,
  numbers are integers up to `MaxSafe`, a field that is not there is -1 and the
  unlimited sentinel is also infinity. Legacy spellings of fields and values that
  are not numbers are left out. A kind that is not recognised is denied. What the
  engine says of a provider-deferred kind (`seats`, `tiered`) is the provider's
  entry, which is left out: `EvaluatorsAgree` does not speak of these kinds.
- Of the user context the client context's module holds, the plan stands for all
  that a fetch delivers (trial, add-ons, billing, dimensions are merged beside it,
  field by field). It carries its owner and the server's version of it for the
  properties. The `traits:server` snapshot taken from the same answer is left out.
- A token is the user it was minted for, and the minter answers for the user held
  when it is called. The control plane answers for the token's user, as of the
  moment it answers; the answer is read later. `mints` is an auxiliary counter: the
  mints for the held user, less those that failed and the tokens of the held user
  that were refused. A retry's mint makes up for the token it was refused with and
  is not counted.
- A continuation runs a few microtasks after its fetch landed. Application code
  may run in that gap, an answer of the network may not.
- `verbs` (`habits` in `EffectiveContext`) fixes what one application does; a
  server that moves its users' plans counts as one of its habits.
- A Playbook is its version, launched in ascending order; a signature or integrity
  failure is the failure of its step. Timers have no length: a wait for a load may
  end before the load does. What a slot decides is left to the resolver: its
  decision is made, or missing.
- An event is an id with its user; a tracked interaction and its
  `placement_interaction` event share one. Buffer, queue and batches are sets:
  requests overlap, and no order is promised. The stamp of the Playbook release,
  redaction and counters are left out.
- A composed context is its user and the Playbook its segments were evaluated
  with. A provider answers for the user it was asked about, or fails. The few
  microtasks between a Playbook's arrival and the invalidation it causes belong
  to the step that ends the load.

## 3. The runs

Every bound is a constant of the cfg. Passing runs:

| Run | Shows | Bounds, and why they suffice |
|---|---|---|
| `Caps` | `NarrowestCapKept`, `HistoryRetained`, `CooldownKept`, and `AnswersFromWholeHistory`: the enforcer implements `CapPolicy` | three keys that share the storage: two outputs with one window length and different counts and cooldowns, two with day, month and session windows in both root orders, a lifetime cap beside an uncapped output; five presentations, one more than the highest count, and time for a window to slide past a presentation twice. `KeysApart` leaves out states in which the keys, which share nothing but the storage item, are all in use |
| `StateStores` | tracker: system suppressions hold, conversions change no answer, no window comes back, restarts change no answer; history: `OwnWindowsDecide` (only the user's own windows hide, and once read they do), `ReadingUncoversNothing` (neither a query nor a second hydrate) | every interaction type, durations shorter and longer than each other, legacy records with windows of their own, answers compared at every later instant up to the last window's end; two users, two placements and three records: two overlapping windows of one placement and one of another placement or user. Symmetry over users and placements is sound: no property names a member, and none is a liveness property |
| `Decisions` | resolver: the most urgent candidate, row order irrelevant, empty only if nothing is showable, a lookup by name serves nothing a slot would refuse; entitlements: `MostPermissivePrevails`, `EvaluatorsAgree`, `NumbersAddUp` | every Playbook of up to three of two pools of candidates chosen around each tie, supersession and check, over slots of every kind and users in and out of trials; up to three overlapping rules in every order, with baskets of holdings, trials, segments, every enforcement, sums past `MaxSafe` and the app's own numbers on two sides |
| `Runtime` | dismissals hold per user, a stored explicit suppression reaches every decision, shown exactly when counted | two users, a capped triggered offer and fixed content, two presentations, two records. `HistoryApartFromOthers` bounds the combination: with a window in the history only the runtime's user interacts, and with a second one nobody has |
| `ClientContext` | a token of another user is on its way out; a user is minted for once, losses aside; a conversion waits only for its own user; deliveries never step back; every fetch ends | two users, two plans, one move of each on the server; the automatic fetch and one other at a time, the least that races; three kinds of application, whose verbs meet the fetches in different ways |
| `Browser` | delivery and slots: `LoadedWasLive`, `UnavailableHasCause`, `AwaitsALoad`, `StopsLoading`; lanes: `OneRowPerEvent`, `InteractionAccountKept`, `NoInteractionLost`, `EveryEventSettles`; context: `ComposedIsCurrent`, `SnapshotIsReplaced` | two slots, a second version of a format to refuse, a shipped Playbook or none, the code's budget of two retries and four calls of the application, so that a slot can outlive its budget, be reset and reload; two users, one with an account, a buffer of two, two envelopes and one retry (two in the code: the loop is the same); two requests at a time, two Playbooks and four changes of the context, a switch there and back with a load between |

`Decisions` (and `MilestoneEarly`) decide once and stop, and a page whose slots are
disposed and whose calls are used up has nothing left to do: hence
`CHECK_DEADLOCK FALSE` in `Decisions.cfg`, `MilestoneEarly.cfg` and `Browser.cfg`.
All others may always take a step.

Runs that TLC finds violated, each a disagreement between what the repository
says and what its code does (`PROJECT.json` "findings" quotes the lines):

| Run | What happens |
|---|---|
| `CapsDaily` | An output with a daily and a lifetime cap: the daily denial trims the list to the day, and the lifetime rule no longer counts what it lost. |
| `MilestoneEarly` | A progress milestone that is the only candidate fires before its percentage. |
| `RuntimeTreatments` | A dismissal tracked with a treatment id hides nothing. |
| `ClientContextSwitch` | `identify(bob)` while ann's fetch is in flight: her answer lands after the switch and is merged into bob's context. The continuation replaces the token and fetches for bob, but until then, or for good if that fails, he is on her plan. |
| `EventAccounts` | ann acts for acme and tracks an interaction; `identify(bob)`; the flush builds the event's row with bob's account, and the interaction's row carries acme: the two lanes no longer join. |
| `EventStamps` | `identify(bob, { custom })` after ann reports bob's field names before it invalidates the context: an event of bob is stamped with ann's segments and experiments. |

The properties of the passing runs are stated around these: `EveryCapKept`
fails where a key has windows of several lengths, and `NarrowestCapKept` is what
remains; `EmptyOnlyIfNothingShowable` assumes milestones targeted at this user;
`DismissedStaysAway` holds where interactions carry no treatment. Of the client
context, the token, the mints, the order of deliveries and the end of fetches are
stated for *plain* applications, which name users and leave the fetching to the
SDK. Outside them the code behaves otherwise, and the model with it: a sign-out
while a fetch mints leaves the previous user's token behind it, `hydrate` keeps
the token, and the retries of concurrent fetches put down each other's flag.
`StopsLoading` is stated while the user stays, `SnapshotIsReplaced` for
applications that only decide, and the properties of entitlements for rules that
spell out what they grant and for app data that adds up by itself.

Fairness. The decision core is synchronous and answers every call; no run of it
assumes any. `ClientContext` assumes weak fairness of each fetch's next step and
of the continuation, `PlacementSlots` of each request's next step and of the
load's, `EventQueues` of the interval's flush and of the answer to a batch. None
assumes any of the application, of launches or of the server's moves. The
minter, the providers, `fetch` and the hash are promises the code awaits without
a timeout of its own, so that they settle, one way or another, is what it relies
on; that timers fire and microtasks run is the language's promise. A fetch may
still be refused or fail every time. `EveryFetchEnds` needs the bound on retries:
without it TLC finds the loop of mints and refusals. `EveryEventSettles` needs the
flush of `dispose`, since a disposed SDK has no interval.

### Modelled or met on the way, without a run

- Trial milestones supersede each other before targeting is applied, so a crossed
  milestone meant for others can empty the slot; a slot hint narrows to candidates
  that later fail their gates (`static_resolver.rs:995`).
- A runtime counts the decisions for all users in the one enforcer it was built
  with (`runtime.rs:250`).
- A hydrate of the history steps over newer windows that ended and caches an older
  one still running.
- A load that settles after a sign-out is answered by `load()`, which returns at
  once without a user: a slot that waited keeps `isLoading` (`controllers.ts:349`).
  `dispose()` does not keep a load in flight from subscribing again.
- `getPlacementDecision` composes the context and then waits for the Playbook
  (`customer-side.ts:8949`): on a cold start the first decision is made with
  segments evaluated without it.
- A check whose providers fail is evaluated on the last snapshot, which after a
  sign-out, or after a late answer to another check, is another user's
  (`customer-side.ts:6507`, `11545`). In server mode a check awaits the load without
  a bound (`9882`).
- `rule_permissiveness` scores the shorthand kind `limit`, and a feature whose
  `enabled` is left out, as 0; a credit rule without an allowance scores as
  unlimited. A provider's fields laid over a user context's leave the remainder of
  one side beside the use of the other (`effective_entitlement.rs:97`). An
  allowance without a period drops out of the baseline once a recurring add-on is
  bought.

## 4. The proofs

Every safety property of the passing runs is proved. All theorems hold for every
value of the constants that fits the assumptions named below; TLC evaluates each
assumption on its instance. No set is assumed finite, except the slots of
`ClientContext` (below).

**Caps** (`CapEnforcerProofs`: `TypeCorrect`, `HistoryIsRetained`,
`CooldownsAreKept`, `NarrowestCapsAreKept`, `AnswersAreThePolicys`), with storage
corruption or without. What the enforcer consults is a list that denials trim and
restarts replace, so a cap is not inductive by itself. The inductive invariant is
`IInv == TypeOK /\ ShownInOrder /\ HistoryRetained`: presentations are numbered in
the order of their instants, none in the future, and for every key both memory
and storage, when it holds the key, contain every presentation that all windows
of the key still reach, hold nothing never shown, and remember the end of each
running cooldown. A trim keeps it, because what the denying rule's window drops
is outside a window of the key, and windows only move forward
(`WindowStartMonotone`). A restart keeps it, because the storage satisfies the
same condition as memory. Given `IInv`, what a narrowest rule counts in the
trimmed list is what it counts in the whole history (`NarrowestSeesAll`), so
`EnforcePresent` finds room for one more (`PresentHasRoom`), and a running
cooldown is remembered, so it refuses in time (`CooldownStep`).

The refinement (`AnswersAreThePolicys`: the enforcer implements `CapPolicy` under the
mapping that forgets memory and storage) goes outcome by outcome. A refusal must be
one that the whole history gives, so it needs what bounds the memory from the other
side, `Founded`: a remembered cooldown was started by a presentation of its key, the
history of a key is finite (so counts can be compared), and a storage that cannot be
corrupted forgets no key that was shown.

**Interactions** (`StateStoresProofs`: `TypeCorrect`, `SystemSuppressionsHold`,
`ConversionsAreAnalytics`, `RestartsChangeNothing`, `NoWindowComesBackEver`). The
invariant adds to the types that memory is what loading the storage would give
and holds no window of a conversion (`StoredAsHeld`), and that the end of a
system suppression is in the entry's window or, once the user interacted, in its
explicit one (`SystemKept`).

**Impression history** (`ImpressionHistoryProofs`: `TypeCorrect`, `OwnWindowsHide`,
`NewestWindowsHide`, `AskingIsFree`, `HydratesUncoverNothing`), for histories of any
length, under `ConstantsFit`. Needed besides the properties themselves: plain
impressions carry no window (`Typed`), and once the history has been read, a running
newest window is what the cache holds (`NewestCached`). `StateStoresProofs` carries
these over to the history of `StateStoresMC`, where the run checks them as
`OwnWindowsAlwaysDecide` and `ReadsUncoverNothing`; `StoresTypeCorrect` is the type
invariant of the two stores together.

**Runtime** (`LocalRuntimeProofs`), under `RuntimeConstants`: the Playbook's numbers
are numbers, its lists lists, durations are positive, and no cap key is the word that
stands for a malformed storage item. `PartsBehave` shows that within the runtime the
tracker and the enforcer each go through a behaviour of their own specification, so that
what is proved of them holds of the composition. `ShownAreCounted` needs that the ids
of presentations are used up (`IdsUsed`): then the count of a key changes exactly when
the enforcer allows. `DismissalsAreKept` carries the window through the tracker's
entries (`QuietIsKept`): what an interaction asked for stands until a later one of the
same key replaces it. It has two hypotheses that the code does not enforce and the
repository takes for granted: interactions carry no treatment (with one, the run
`RuntimeTreatments` finds it false), and `KeysTellApart`, since keys are ids joined by
colons and an id with a colon in it may collide. `StoredSuppressionsHide` instantiates
the invariant of the history's proofs on the runtime's own (`HistoryIsKept`).

**Resolver** (`StaticResolverProofs`, `DecisionsProofs`: `SlotsAreFilled`,
`MostUrgentIsShown`, `NamesAreNoBackDoor`, `RowsDoNotDecide`), for Playbooks of any
length, under `ScenariosFit`. Sort keys are integer tuples of one length, compared
lexicographically: a strict total order (`LeastNatural`, `FirstDifference`), so a
nonempty set has a front. A chain of filters is traced stage by stage (`Taken`,
`Opened`, `Standing`, `Eligible`, `Ranked`). A slot is not emptied because each
supersession keeps the one it is in favour of. That any reordering of rows shows the
same candidate follows without sorting anything: each stage of the reordered Playbook
is the image of the original's (`TakenRows` to `RankedRows`), rows enter a key only at
its last place, and fronts that differ elsewhere are fronts in both (`FrontsDiffer`).
Two properties were too strong for arbitrary Playbooks and now say what holds: a
candidate of an earlier category may be passed over when a higher milestone of its own
line fired too (`Outdone`), and places must be distinct among milestones even across
categories (`DistinctPlaces`), since supersession compares those.

**Entitlements** (`DecisionsProofs`: `AnswersAddUp`, `RulesPrevail`,
`SameOnEverySurface`), for any number of rules and holdings, under `QuestionsFit`. The
two evaluators select rules, purchases and baseline by code of their own; the proof
shows that the selections agree one by one (`SameGranted`, `SameOwned`,
`SamePurchases`), that sums of the same contributions are the same
(`SumsAgree`), and that where nothing is summed and the two pick different rules, these
score alike and so shape the same answer (`PicksAgree`, `ScoreDecides`). What a sum
amounts to is not reasoned about. `SameOnEverySurface` assumes `TargetsKnown`: rules
grant only to add-ons that the Playbook has. The engine does not check it, so for a
Playbook whose rules name a missing add-on it would count a holding that the other
evaluator ignores; proving the agreement is what brought this out.

**Browser** (`BrowserProofs`).
- Slots and delivery: `SlotsTypeCorrect`, `LoadsAreInTime`,
  `NoSilentUnavailability`, `WaitersHaveALoad`. A 304 confirms the etag, not the
  cache; that it confirms what is held needs `EtagBehindCache` (an etag is never newer
  than the cache, nor the cache than what is live) and `LoadInTime` (a load began with
  an etag no newer than what was live then). An empty cache after an attempt has a
  cause (`EmptyHasCause`).
- Lanes: `QueuesTypeCorrect`, `EventsStoredOnce`, `InteractionsKeepTheirAccount`,
  `InteractionsReachTheEndpoint`. The invariant places each event in the buffer or in
  one row (`OnePlace`), bounds every id by the next (`IdsTaken`), and keeps accounts in
  queue, flight and store (`AccountsKept`).
- Context: `CompositionsAreCurrent`, `SnapshotsAreReplaced`. No request carries a
  revision that is yet to come, and one that carries the current revision asks about
  the user held (`Dated`); an app that only decides has no checks under way
  (`OnlyDecides`).

**Client context** (`ClientContextProofs`: `TypeCorrect`, `ConversionsAreOwn`,
`TokensAreReplaced`, `OneMint`, `PlansArriveInOrder`). For plain applications there is
one fetch (`OneFetch`), nothing is asked for nobody, a mint under way is the held user's
or flagged to be replaced, and so is the token a retry asks with (`RetryIsOwn`: a
refusal that is not retried loses a token of the held user, or one that is to be
replaced, and only the first takes back a mint); an answer on its way is no older
than what is held (`Ordered`). `TypeCorrect` is for all applications, and says more than types: the
automatic fetch is one under way and finds a slot whenever it starts, which is where
`Slots`, the model's bound on fetches at one time, is assumed finite (`SlotKept`, kept
by the guard `Room`); and the count of mints never falls below -1, as a lost mint is
lost once (`Compensated`).

Only model-checked, because out of the prover's reach: liveness under fairness
(`EveryFetchEnds`, `StopsLoading`, `EveryEventSettles`), and with it ENABLED. What a
fold over a list computes for every input is not proved either; no theorem depends on
it.

## 5. Not modelled, and why

- Trial status and revisions, plans and add-ons offered, segment predicates,
  trigger readers and payload inheritance: pure functions without state, whose
  verdicts enter the resolver and the entitlements.
- The decision cache, exposure tracking and `EntitlementGate` of the web SDK; what
  is decided from a composed context.
- Formats (canonical JSON, hashes, number rendering), parsing and normalisation of
  inputs: matters of test vectors. `types.rs`, which is most of the crate's lines,
  is generated from the JSON schema, holds no behaviour and is why the mapped share
  of the implementation's lines is small.
- React bindings, theming, the documentation site; the other language ports, which
  the repository's shared corpus keeps equal to the modelled one.
- Two enforcers over one storage and a clock that steps back: nothing in the crate
  produces them.

## 6. What is left

1. The decision cache over `EffectiveContext` and `PlacementSlots`: the context
   composed before the wait for a Playbook, and cache writes after an invalidation.
2. `EntitlementGate`, whose checks overtake each other without a sequence guard.
3. The `traits:server` snapshot and the hash that outlives a switch of user, beside
   `ClientContext`.
4. Proofs of what the runtime's answers say of the resolver's (a decision by slot or by
   name within the composition), and of `CapPolicy`'s own promises, of which the
   enforcer's would then follow by refinement.
