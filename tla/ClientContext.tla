--------------------------- MODULE ClientContext ---------------------------
(***************************************************************************)
(* The server-derived context of the identified user, in the web SDK:      *)
(* src/web-sdk/customer-side.ts, fetchClientContext and the verbs around   *)
(* it.                                                                     *)
(*                                                                         *)
(* A fetch of the client context awaits the app's minter when the client   *)
(* holds no token, then the control plane, then a hash; a 401 makes it     *)
(* mint once more and ask again.  The app's verbs run between any two of   *)
(* these awaits: they name another user, sign out, convert, and start      *)
(* fetches of their own.  identify and setUserContext keep one automatic   *)
(* fetch in flight (inFlight); a switch of user during it leaves a         *)
(* continuation behind it that discards its token and fetches again.       *)
(*                                                                         *)
(* Data abstractions.  Of the user context only the plan is kept: trial,   *)
(* billing, add-ons and dimensions are delivered and merged with it, field *)
(* by field.  A token is the user it was minted for; the minter answers    *)
(* for the user of the moment it is called.  A hash is what it is taken    *)
(* of.  The owner and version of a plan are for the properties; no guard   *)
(* reads them.                                                             *)
(*                                                                         *)
(* An operator named Faulty... is a slip that could be made in the         *)
(* operator it precedes; it models no code and nothing uses it.            *)
(***************************************************************************)
EXTENDS Integers, FiniteSets

CONSTANTS
  Users,        \* user ids the app can name
  Plans,        \* plan handles
  AppPlans,     \* those the app may supply
  ServerPlans,  \* what the server may begin with: plans of the users
  None,         \* no user, no plan, no token, no fetch
  HasMinter,    \* the app supplied a clientSession minter
  Habits,       \* what an app may be one to do: sets of verbs
  Slots,        \* bound on the fetches at one time
  MaxVersion    \* bound on the moves of one user's plan on the server

Verbs == {"identify", "setUserContext", "update", "hydrate", "reset", "convert",
          "fetch", "purchase"}

ASSUME ConstantsAssumption ==
  /\ None \notin Users \cup Plans \cup Slots
  /\ AppPlans \subseteq Plans
  /\ ServerPlans \subseteq [Users -> Plans \cup {None}]
  /\ HasMinter \in BOOLEAN
  /\ Habits \subseteq SUBSET Verbs
  /\ Slots \subseteq Nat /\ IsFiniteSet(Slots)
  /\ MaxVersion \in Nat \ {0}

VARIABLES
  verbs,      \* the verbs this app uses, fixed
  user,       \* userContext.id
  started,    \* userRuntimeStarted
  plan,       \* userContext.plan_handle, whose it is, and its server version
  token,      \* clientContextToken: the user it was minted for
  lastHash,   \* lastServerContextHash
  pending,    \* pendingConversionPlan, and whose conversion it is
  retried,    \* retriedClientContextAfterMint
  calls,      \* the fetches under way
  inFlight,   \* clientContextFetchInFlight: the automatic one
  due,        \* a landed fetch's continuation has not run yet
  server,     \* the plan the control plane knows each user to be on
  mints       \* ghost: tokens minted for this user, less those lost

held  == <<user, started, plan, pending>>
loading == <<token, retried, calls, inFlight, due>>
vars  == <<verbs, held, lastHash, loading, server, mints>>

NoPlan == [handle |-> None, owner |-> None, version |-> 0]
AppPlan(p, u) == [handle |-> p, owner |-> u, version |-> 0]
NotYet == [hash |-> None]               \* nothing was applied yet
Hash(p) == [hash |-> p, of |-> "context"]
NoConversion == [from |-> None, to |-> None, owner |-> None]

Idle == [phase |-> "idle", who |-> None, plan |-> NoPlan, retrying |-> FALSE, remint |-> FALSE]
Phases == {"idle", "minting", "asking", "answered", "reminting", "hashing"}
Busy(s) == calls[s].phase # "idle"
Free    == {s \in Slots : ~Busy(s)}
FreeSlot == CHOOSE s \in Free : TRUE

Uses(verb) == verb \in verbs

\* An app that names its users and leaves the fetching to the SDK; only its
\* mints are counted.
Plain == verbs \subseteq {"identify", "setUserContext", "update", "purchase"}
Counted(n) == IF Plain THEN n ELSE 0

----------------------------------------------------------------------------
(* Starting a fetch                                                        *)

\* fetchClientContext up to its first await: it uses the token it finds, or
\* asks the minter for one of the user's.
Opening(u, t) ==
  [Idle EXCEPT !.phase = IF t = None THEN "minting" ELSE "asking",
               !.who   = IF t = None THEN u ELSE t]

MayOpen(u, t) == u # None /\ (t # None \/ HasMinter)
Minting(t) == IF t = None THEN 1 ELSE 0

\* autoFetchClientContext, for the user and token the verb leaves: one at a
\* time.  count is the number of mints the verb leaves.
FaultyAutoFetch(u, t, count) ==           \* without the fetch in flight
  IF HasMinter /\ Free # {} /\ u # None
  THEN /\ calls' = [calls EXCEPT ![FreeSlot] = Opening(u, t)]
       /\ inFlight' = FreeSlot
       /\ mints' = Counted(count + Minting(t))
  ELSE UNCHANGED <<calls, inFlight>> /\ mints' = count
AutoFetch(u, t, count) ==
  IF HasMinter /\ inFlight = None /\ u # None
  THEN /\ calls' = [calls EXCEPT ![FreeSlot] = Opening(u, t)]
       /\ inFlight' = FreeSlot
       /\ mints' = Counted(count + Minting(t))
  ELSE UNCHANGED <<calls, inFlight>> /\ mints' = count

\* startUserRuntime: the first user after an init without one fetches.
Start(u, count) ==
  IF started THEN UNCHANGED <<calls, inFlight>> /\ mints' = count
  ELSE AutoFetch(u, token, count)

\* remintClientContextForSwitch: the held token goes; behind a fetch in flight
\* the new one waits for it to land.  So it does behind the fetch with the old
\* token that the switch itself starts, if the runtime had not started.
FaultyRemint(u) ==                        \* the one in flight will do
  /\ token' = IF HasMinter THEN None ELSE token
  /\ AutoFetch(u, token', 0)
Remint(u) ==
  /\ token' = IF HasMinter THEN None ELSE token
  /\ IF HasMinter /\ inFlight # None
     THEN /\ calls' = [calls EXCEPT ![inFlight].remint = TRUE]
          /\ mints' = 0
          /\ UNCHANGED inFlight
     ELSE IF HasMinter /\ ~started
     THEN /\ calls' = [calls EXCEPT ![FreeSlot] = [Opening(u, token) EXCEPT !.remint = TRUE]]
          /\ mints' = Counted(Minting(token))
          /\ inFlight' = FreeSlot
     ELSE AutoFetch(u, token', 0)

\* A fetch the app or a conversion starts beside the automatic one, while
\* there is room: a slot is kept for that one.
Room == Cardinality(Free) > IF inFlight = None THEN 1 ELSE 0
Fetch(u, t) ==
  IF MayOpen(u, t)
  THEN /\ calls' = [calls EXCEPT ![FreeSlot] = Opening(u, t)]
       /\ mints' = Counted(mints + Minting(t))
  ELSE UNCHANGED <<calls, mints>>

----------------------------------------------------------------------------
(* The app's verbs                                                         *)

\* isIdentifiedUserSwitch
Switches(u) == user \notin {None, u}

\* What naming a user leaves of the held plan: dropPreviousUserState on a
\* switch, then the merge of the plan the app supplied, if any.
Merged(u, p) ==
  IF p # None THEN AppPlan(p, u)
  ELSE IF Switches(u) THEN NoPlan ELSE plan

Count(u) == IF u = user THEN mints ELSE 0

Identify(u, p) ==
  /\ Uses("identify")
  /\ user' = u /\ started' = TRUE
  /\ plan' = Merged(u, p)
  /\ pending' = NoConversion
  /\ IF Switches(u) THEN Remint(u)
     ELSE token' = token /\ AutoFetch(u, token, Count(u))
  /\ UNCHANGED <<verbs, lastHash, retried, due, server>>

\* setUserContext({ id, plan_handle }): a first user starts the runtime, a
\* switch re-mints; otherwise nothing is fetched.
SetUserContext(u, p) ==
  /\ Uses("setUserContext")
  /\ user' = u /\ started' = TRUE
  /\ plan' = Merged(u, p)
  /\ pending' = IF Switches(u) THEN NoConversion ELSE pending
  /\ IF Switches(u) THEN Remint(u)
     ELSE token' = token /\ Start(u, Count(u))
  /\ UNCHANGED <<verbs, lastHash, retried, due, server>>

\* update({ plan_handle }), or setUserContext without an id.  It starts the
\* runtime for a user that only hydrate named.
Update(p) ==
  /\ Uses("update")
  /\ plan' = AppPlan(p, user)
  /\ started' = (started \/ user # None)
  /\ Start(user, mints)
  /\ UNCHANGED <<verbs, user, pending, lastHash, token, retried, due, server>>

\* hydrate(payload) with a user: it drops the previous user's state, and
\* touches neither the token nor the fetches, and starts nothing.
HydrateFrom(u) ==
  /\ Uses("hydrate")
  /\ user' = u
  /\ plan' = Merged(u, None)
  /\ pending' = IF Switches(u) THEN NoConversion ELSE pending
  /\ mints' = Count(u)
  /\ UNCHANGED <<verbs, started, lastHash, loading, server>>

\* resetIdentity and resetUserContext.
FaultyReset ==                            \* the conversion is forgotten
  /\ Uses("reset")
  /\ user' = None
  /\ plan' = NoPlan
  /\ token' = None
  /\ mints' = 0
  /\ UNCHANGED <<verbs, started, pending, lastHash, retried, calls, inFlight, due, server>>
Reset ==
  /\ Uses("reset")
  /\ user' = None
  /\ plan' = NoPlan
  /\ pending' = NoConversion
  /\ token' = None
  /\ mints' = 0
  /\ UNCHANGED <<verbs, started, lastHash, retried, calls, inFlight, due, server>>

\* convert, once the interaction is tracked: the plan the output's CTA names,
\* if it is known and another, is held at once; then the server is asked.
Convert(p) ==
  /\ Uses("convert") /\ Room
  /\ p # None => user # None        \* no user, no index of outputs
  /\ LET moves == p # None /\ p # plan.handle
     IN /\ plan' = IF moves THEN AppPlan(p, user) ELSE plan
        /\ pending' = IF moves THEN [from |-> plan.handle, to |-> p, owner |-> user]
                      ELSE pending
  /\ Fetch(user, token)
  /\ UNCHANGED <<verbs, user, started, lastHash, token, retried, inFlight, due, server>>

\* fetchClientContext, with a token of the app's or without.
FetchClientContext(t) ==
  /\ Uses("fetch") /\ Room /\ user # None
  /\ token' = IF t # None THEN t ELSE token
  /\ Fetch(user, token')
  /\ UNCHANGED <<verbs, held, lastHash, retried, inFlight, due, server>>

----------------------------------------------------------------------------
(* A fetch, await by await                                                 *)

\* The end of a fetch: the finally of every retry it is in, then the one of
\* the automatic fetch, whose continuations are then due.
FaultyLandAs(s, flag) ==                  \* no finally
  /\ calls' = [calls EXCEPT ![s] = Idle]
  /\ retried' = flag
  /\ due' = (due \/ calls[s].remint)
  /\ UNCHANGED inFlight
LandAs(s, flag) ==
  /\ calls' = [calls EXCEPT ![s] = Idle]
  /\ retried' = flag
  /\ inFlight' = IF inFlight = s THEN None ELSE inFlight
  /\ due' = (due \/ calls[s].remint)

AfterRetries(s) == retried /\ ~calls[s].retrying

Land(s) == LandAs(s, AfterRetries(s))

\* A mint or a token that came to nothing is made up for by another.
Lost(u) == mints' = IF u = user THEN Counted(mints - 1) ELSE mints

Minted(s) ==
  /\ calls[s].phase = "minting"
  /\ \/ /\ token' = calls[s].who
        /\ calls' = [calls EXCEPT ![s].phase = "asking"]
        /\ UNCHANGED <<retried, inFlight, due, mints>>
     \/ /\ token' = None                  \* the minter threw, or gave nothing
        /\ Land(s)
        /\ Lost(calls[s].who)
  /\ UNCHANGED <<verbs, held, lastHash, server>>

\* The control plane answers for the token's user.  The answer is read later.
Serve(s) ==
  /\ calls[s].phase = "asking"
  /\ LET w == calls[s].who
     IN calls' = [calls EXCEPT ![s].phase = "answered",
                    ![s].plan = [handle |-> server[w].handle, owner |-> w,
                                 version |-> server[w].version]]
  /\ UNCHANGED <<verbs, held, lastHash, token, retried, inFlight, due, server, mints>>

\* 401: the token goes, and a new one is asked for unless some fetch is in a
\* retry already.  A retry's mint makes up for the token it replaces, and is not
\* counted; without a retry, a token of the user's is lost.
FaultyRetries == HasMinter                \* every time
Retries == HasMinter /\ ~retried
Refuse(s) ==
  /\ calls[s].phase = "asking"
  /\ token' = None
  /\ IF Retries
     THEN /\ calls' = [calls EXCEPT ![s].phase = "reminting", ![s].who = user]
          /\ UNCHANGED <<retried, inFlight, due, mints>>
     ELSE Land(s) /\ Lost(calls[s].who)
  /\ UNCHANGED <<verbs, held, lastHash, server>>

\* The retry's mint: a token starts the nested fetch, which ends at once when
\* nobody is identified any more.
Reminted(s) ==
  /\ calls[s].phase = "reminting"
  /\ \/ /\ Land(s)
        /\ Lost(calls[s].who)
        /\ UNCHANGED token
     \/ /\ calls[s].who # None /\ user = None
        /\ LandAs(s, FALSE)
        /\ UNCHANGED <<token, mints>>
     \/ /\ calls[s].who # None /\ user # None
        /\ retried' = TRUE
        /\ token' = calls[s].who
        /\ calls' = [calls EXCEPT ![s].phase = "asking",
                                  ![s].retrying = TRUE]
        /\ UNCHANGED <<inFlight, due, mints>>
  /\ UNCHANGED <<verbs, held, lastHash, server>>

\* The network or the server failed.
Fail(s) ==
  /\ calls[s].phase = "asking"
  /\ Land(s)
  /\ UNCHANGED <<verbs, held, lastHash, token, server, mints>>

\* dropStalePostConversionPlan
Stale(p) == pending # NoConversion /\ p # None /\ p = pending.from

\* The answer is read: a stale plan is dropped from it, any other plan ends
\* the conversion, and traits:server holds it, unless nothing is left of it.
Read(s) ==
  /\ calls[s].phase = "answered"
  /\ LET p == calls[s].plan.handle
         patch == IF Stale(p) THEN None ELSE p
     IN /\ pending' = IF p = None \/ Stale(p) THEN pending ELSE NoConversion
        /\ \/ /\ patch = None             \* and no other field
              /\ Land(s)
           \/ /\ calls' = [calls EXCEPT ![s].phase = "hashing", ![s].plan.handle = patch]
              /\ UNCHANGED <<retried, inFlight, due>>
  /\ UNCHANGED <<verbs, user, started, plan, lastHash, token, server, mints>>

\* The hash is there: a context that hashes as the last applied one is
\* skipped, any other is merged into the user context held now.
Apply(s) ==
  /\ calls[s].phase = "hashing"
  /\ LET patch == calls[s].plan
     IN IF Hash(patch.handle) = lastHash THEN UNCHANGED <<lastHash, plan>>
        ELSE /\ lastHash' = Hash(patch.handle)
             /\ plan' = IF patch.handle = None THEN plan ELSE patch
  /\ Land(s)
  /\ UNCHANGED <<verbs, user, started, pending, token, server, mints>>

\* What remintClientContextForSwitch left behind the fetch in flight.  It runs
\* a few microtasks after the fetch landed: code of the app's may come first,
\* an answer of the minter or the network may not.
FaultyContinue ==                         \* beside the fetch that code started
  /\ due /\ HasMinter /\ user # None /\ Free # {}
  /\ due' = FALSE /\ token' = None
  /\ calls' = [calls EXCEPT ![FreeSlot] = Opening(user, None)]
  /\ inFlight' = FreeSlot
  /\ mints' = Counted(mints + 1)
  /\ UNCHANGED <<verbs, held, lastHash, retried, server>>
Continue ==
  /\ due
  /\ due' = FALSE /\ token' = None
  /\ AutoFetch(user, None, mints)
  /\ UNCHANGED <<verbs, held, lastHash, retried, server>>

Progress(s) ==
  /\ ~due
  /\ \/ Minted(s)
     \/ Serve(s) \/ Refuse(s) \/ Fail(s)
     \/ Reminted(s)
     \/ Read(s)
     \/ Apply(s)

\* A purchase, a webhook: the server moves a user to another plan, or to none.
ServerMoves(u, p) ==
  /\ Uses("purchase") /\ server[u].version < MaxVersion
  /\ server[u].handle # p
  /\ server' = [server EXCEPT ![u] = [handle |-> p, version |-> @.version + 1]]
  /\ UNCHANGED <<verbs, held, lastHash, loading, mints>>

----------------------------------------------------------------------------
Init ==
  /\ verbs \in Habits
  /\ \E u \in Users \cup {None}, s \in Slots :
       /\ user = u /\ started = (u # None)
       /\ IF u # None /\ HasMinter        \* startUserRuntimeTelemetry
          THEN /\ calls = [t \in Slots |-> IF t = s THEN Opening(u, None) ELSE Idle]
               /\ inFlight = s /\ mints = Counted(1)
          ELSE calls = [t \in Slots |-> Idle] /\ inFlight = None /\ mints = 0
       /\ \E p \in AppPlans \cup {None} :
            plan = IF p = None THEN NoPlan ELSE AppPlan(p, u)
  /\ \E f \in ServerPlans : server = [u \in Users |-> [handle |-> f[u], version |-> 1]]
  /\ token = None /\ retried = FALSE /\ due = FALSE
  /\ lastHash = NotYet /\ pending = NoConversion

Next ==
  \/ \E u \in Users, p \in AppPlans \cup {None} : Identify(u, p) \/ SetUserContext(u, p)
  \/ \E p \in AppPlans : Update(p)
  \/ \E u \in Users : HydrateFrom(u)
  \/ Reset
  \/ \E p \in Plans \cup {None} : Convert(p)
  \/ \E t \in {None, user} : FetchClientContext(t)
  \/ \E s \in Slots : Progress(s)
  \/ Continue
  \/ \E u \in Users, p \in Plans \cup {None} : ServerMoves(u, p)

\* The app's minter, the control plane and the hash settle sooner or later,
\* and microtasks run.
Fairness ==
  /\ \A s \in Slots : WF_vars(Progress(s))
  /\ WF_vars(Continue)

Spec == Init /\ [][Next]_vars /\ Fairness

----------------------------------------------------------------------------
(* Properties                                                              *)

\* Types of the client's state, of its fetches and of the server's.
TypeOK ==
  /\ verbs \in Habits
  /\ user \in Users \cup {None} /\ started \in BOOLEAN
  /\ plan \in [handle : Plans \cup {None}, owner : Users \cup {None},
               version : 0..MaxVersion]
  /\ token \in Users \cup {None}
  /\ lastHash \in {NotYet} \cup {Hash(p) : p \in Plans \cup {None}}
  /\ pending \in [from : Plans \cup {None}, to : Plans \cup {None},
                  owner : Users \cup {None}]
  /\ retried \in BOOLEAN /\ due \in BOOLEAN
  /\ calls \in [Slots -> [phase : Phases, who : Users \cup {None},
                          plan : [handle : Plans \cup {None}, owner : Users \cup {None},
                                  version : 0..MaxVersion],
                          retrying : BOOLEAN, remint : BOOLEAN]]
  /\ inFlight \in Slots \cup {None}
  /\ inFlight # None => Busy(inFlight)
  /\ server \in [Users -> [handle : Plans \cup {None}, version : 1..MaxVersion]]
  /\ mints \in -1..2

\* The client holds a token of someone else's only while what replaces it is
\* on its way: behind the fetch in flight, or about to run.
TokenIsOwnOrReplaced ==
  Plain => \/ token \in {None, user}
           \/ due
           \/ \E s \in Slots : calls[s].remint

\* "Now mints once per user: overlapping triggers share one request": beyond
\* its first, a user's token is minted only to make up for one that was lost: the
\* user's own, or the one a retry was refused with.
OneMintPerUser == Plain => mints <= 1

\* A user whose plan came from the server is never put back on an older one by
\* an answer that was overtaken.
DeliveriesInOrder ==
  [][Plain /\ plan'.version > 0 /\ plan'.owner = plan.owner
       => plan'.version >= plan.version]_vars

\* The optimistic plan a conversion waits for is the held user's: it outlives
\* neither a switch nor a sign-out, after which it would hold back a plan of
\* the next user.
ConversionIsOwn == pending # NoConversion => pending.owner = user

\* "A backend minting bad tokens must not become a request loop": every fetch
\* of an app that leaves the fetching to the SDK ends.
EveryFetchEnds == \A s \in Slots : Plain /\ Busy(s) ~> ~Busy(s)

\* "User B can never be granted user A's plan": the held plan is the held
\* user's, or was supplied before there was one.
PlanIsOwn == plan.owner \in {user, None}

=============================================================================
