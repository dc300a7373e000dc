-------------------------- MODULE EffectiveContext --------------------------
(***************************************************************************)
(* What the web SDK composes about its user: the effective context of      *)
(* src/web-sdk/customer-side.ts, with the app's providers, the revision    *)
(* that tells an outdated answer, the snapshot of the providers that       *)
(* entitlement checks are evaluated on, and the events stamped with the    *)
(* segments and experiments last composed.                                 *)
(*                                                                         *)
(* A composition asks the providers for the user held and starts over when *)
(* the context changed before they answered.  A check asks them too, and   *)
(* takes what they say.  Whatever runs up to an await is one step.         *)
(*                                                                         *)
(* Data abstractions.  A context is its user and the Playbook its segments *)
(* were evaluated with; a snapshot is the user the providers were asked    *)
(* about.  How a Playbook is loaded is PlaybookDelivery; here a load ends  *)
(* with a new one or without, and the few microtasks before the context is *)
(* told are part of its end.  What is then decided, by the resolver or the *)
(* rules, and the decision cache, whose keys hold all that was composed,   *)
(* are left out.  At least one provider is registered; the registry is     *)
(* external: it answers for the user it was asked about, or fails.         *)
(*                                                                         *)
(* An operator named Faulty... is a slip that could be made in the         *)
(* operator it precedes; it models no code and nothing uses it.            *)
(***************************************************************************)
EXTENDS Integers

CONSTANTS
  Users, Nobody,
  Requests,       \* requests that may be in flight
  Habits,         \* sets of what an app does: "checks", "signs out", "fields"
                  \* (names the user's own fields); and "fails" of its providers
  MaxPlaybook,    \* bound on the Playbooks loaded
  MaxRevision     \* bound on the changes of the context

\* Assumed of the constants by the run's module.
ContextConstants ==
  Nobody \notin Users /\ MaxPlaybook \in Nat /\ MaxRevision \in Nat

VARIABLES
  habits,         \* what this app does
  user,           \* userContext.id, and all that is held of that user
  playbook,       \* getConfiguredPlaybook, 0 for none
  loading,        \* a load is in flight
  revision,       \* contextRevision
  composed,       \* lastEffectiveContext and the segments beside it
  snapshot,       \* captureAppProviderState: whom the appProvider fields are of
  requests,       \* what awaits the providers or a load
  event           \* the event created in this step, if one was

contextVars == <<habits, user, playbook, loading, revision, composed, snapshot,
                 requests, event>>

NotComposed == [user |-> Nobody, playbook |-> -1]
NoEvent     == [user |-> Nobody, stamp |-> NotComposed]
NoRequest   == [kind |-> "none", step |-> "none", user |-> Nobody, revision |-> 0]

\* The composition, like its decisions, outlives the change.
FaultyInvalidate ==
  revision < MaxRevision /\ revision' = revision + 1 /\ UNCHANGED composed

\* invalidateEffectiveContext
InvalidateEffectiveContext ==
  revision < MaxRevision /\ revision' = revision + 1 /\ composed' = NotComposed

\* toEventEnvelope
Stamped(u) == event' = [user |-> u, stamp |-> composed]
Silent     == event' = NoEvent

\* A request to the providers, for the user and the revision of the moment.
AskProviders(i, kind) ==
  requests' = [requests EXCEPT ![i] =
    [kind |-> kind, step |-> "providers", user |-> user, revision |-> revision]]

Done(i) == requests' = [requests EXCEPT ![i] = NoRequest]

----------------------------------------------------------------------------
(* Requests                                                                *)

\* getPlacementDecision and the other readers of the effective context.
Compose(i) ==
  /\ user # Nobody /\ requests[i] = NoRequest
  /\ AskProviders(i, "context")
  /\ Silent
  /\ UNCHANGED <<habits, user, playbook, loading, revision, composed, snapshot>>

\* checkEntitlement: a load first, unless the Playbook held is recent.
CheckEntitlement(i) ==
  /\ "checks" \in habits /\ user # Nobody /\ requests[i] = NoRequest
  /\ \/ /\ playbook # 0 /\ ~loading /\ AskProviders(i, "check")
        /\ UNCHANGED loading
     \/ /\ requests' = [requests EXCEPT ![i] = [NoRequest EXCEPT !.kind = "check", !.step = "load"]]
        /\ loading' = TRUE
  /\ Silent
  /\ UNCHANGED <<habits, user, playbook, revision, composed, snapshot>>

\* Its load is over.
LoadAwaited(i) ==
  /\ requests[i].step = "load" /\ ~loading
  /\ AskProviders(i, "check")
  /\ Silent
  /\ UNCHANGED <<habits, user, playbook, loading, revision, composed, snapshot>>

\* A late answer ends the composition: the user it was asked for is gone.
FaultyComposition(i) ==
  /\ Done(i)
  /\ composed' = IF requests[i].revision = revision
                 THEN [user |-> requests[i].user, playbook |-> playbook] ELSE composed

\* The rest of resolveEffectiveProviderContext: over again if the context has
\* changed, else composed with the Playbook of now.
Composition(i) ==
  IF requests[i].revision # revision
  THEN AskProviders(i, "context") /\ UNCHANGED composed
  ELSE /\ Done(i)
       /\ composed' = [user |-> requests[i].user, playbook |-> playbook]

\* The providers answer; the snapshot is taken before anything is compared.
ProvidersAnswer(i) ==
  /\ requests[i].step = "providers"
  /\ snapshot' = requests[i].user
  /\ \/ requests[i].kind = "context" /\ Composition(i)
     \/ requests[i].kind = "check" /\ Done(i) /\ UNCHANGED composed
  /\ Silent
  /\ UNCHANGED <<habits, user, playbook, loading, revision>>

\* They fail: a composition is given up, a check goes on with the last snapshot.
ProvidersFail(i) ==
  /\ "fails" \in habits /\ requests[i].step = "providers"
  /\ Done(i)
  /\ Silent
  /\ UNCHANGED <<habits, user, playbook, loading, revision, composed, snapshot>>

----------------------------------------------------------------------------
(* The application and the Playbook                                        *)

\* dropPreviousUserState: only a switch between two users drops the snapshot.
Dropped(u) == IF user # Nobody /\ u # user THEN Nobody ELSE snapshot

\* identify, setUserContext and hydrate.  Fields the app names with the user are
\* reported in an event, before the context is invalidated.
Identify(u) ==
  /\ user' = u
  /\ snapshot' = Dropped(u)
  /\ Silent \/ ("fields" \in habits /\ Stamped(u))
  /\ InvalidateEffectiveContext
  /\ UNCHANGED <<habits, playbook, loading, requests>>

\* update, updateUsage, convert and a delivery of the client context.
Update ==
  /\ user # Nobody
  /\ InvalidateEffectiveContext
  /\ Silent
  /\ UNCHANGED <<habits, user, playbook, loading, snapshot, requests>>

\* clearAllUserState
SignOut ==
  /\ "signs out" \in habits /\ user # Nobody
  /\ user' = Nobody
  /\ InvalidateEffectiveContext
  /\ Silent
  /\ UNCHANGED <<habits, playbook, loading, snapshot, requests>>

\* capture
Capture ==
  /\ user # Nobody
  /\ Stamped(user)
  /\ UNCHANGED <<habits, user, playbook, loading, revision, composed, snapshot, requests>>

\* refreshPlaybookSnapshot
BeginLoad ==
  /\ user # Nobody /\ ~loading /\ loading' = TRUE
  /\ Silent
  /\ UNCHANGED <<habits, user, playbook, revision, composed, snapshot, requests>>

\* A load brings another Playbook and invalidates the context, or changes nothing.
EndLoad ==
  /\ loading /\ loading' = FALSE
  /\ \/ /\ playbook < MaxPlaybook /\ playbook' = playbook + 1
        /\ InvalidateEffectiveContext
     \/ UNCHANGED <<playbook, revision, composed>>
  /\ Silent
  /\ UNCHANGED <<habits, user, snapshot, requests>>

Init ==
  /\ habits \in Habits
  /\ user = Nobody /\ playbook = 0 /\ loading = FALSE
  /\ revision = 0 /\ composed = NotComposed /\ snapshot = Nobody
  /\ requests = [i \in Requests |-> NoRequest]
  /\ event = NoEvent

Next ==
  \/ \E i \in Requests : \/ Compose(i) \/ CheckEntitlement(i) \/ LoadAwaited(i)
                         \/ ProvidersAnswer(i) \/ ProvidersFail(i)
  \/ \E u \in Users : Identify(u)
  \/ Update
  \/ SignOut
  \/ Capture
  \/ BeginLoad
  \/ EndLoad

Spec == Init /\ [][Next]_contextVars

----------------------------------------------------------------------------
(* Properties                                                              *)

\* What is composed, and stamped on events from then on, is of the user held and
\* of the Playbook in force, although both may change while providers answer.
ComposedIsCurrent ==
  composed # NotComposed => composed = [user |-> user, playbook |-> playbook]

\* In an app that only decides, and does not sign out, another user's snapshot,
\* brought by a late answer, is being replaced: checks of a mounted gate do not
\* stay on the previous user's plan.
SnapshotIsReplaced ==
  habits \subseteq {"fields"} /\ snapshot \notin {user, Nobody} =>
    \E i \in Requests : requests[i].kind = "context"

\* An event carries the segments and experiments of the user it names.
StampsAreOwn ==
  event.stamp # NotComposed => event.stamp.user = event.user

=============================================================================
