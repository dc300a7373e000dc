--------------------------- MODULE PlacementSlots ---------------------------
(***************************************************************************)
(* The slots of a page deciding while the Playbook loads:                  *)
(* PlacementController of src/web-sdk/controllers.ts over                  *)
(* getPlacementDecision and whenPlaybookSettled of                         *)
(* src/web-sdk/customer-side.ts, composed with PlaybookDelivery.           *)
(*                                                                         *)
(* A decision awaits the providers' context and then, while a load is in   *)
(* flight, its end or a timer, at most twice, before it fails closed with  *)
(* config_unavailable and starts another load.  A controller that gets     *)
(* this answer while something is loading stays in its loading state and   *)
(* decides again when the load settles.                                    *)
(*                                                                         *)
(* Data abstractions.  What is decided is left to the resolver's modules:  *)
(* a decision is made, or missing.  Requests a newer one has overtaken are *)
(* alike when they await the same.  Timers have no length: a wait may end  *)
(* before the load does.  Registration, the decision cache, answers        *)
(* restored from storage, errors and telemetry are left out.               *)
(***************************************************************************)
EXTENDS PlaybookDelivery, FiniteSets

CONSTANTS
  Slots,
  MaxRetries,   \* MAX_CONFIG_RETRIES
  MaxCalls      \* bound on what the app does

ASSUME SlotConstants == MaxRetries \in Nat /\ MaxCalls \in Nat

VARIABLES
  held,         \* slot -> its decision: "nothing", "missing" or "made"
  loading,      \* slot -> isLoading
  awaiting,     \* slot -> awaitingConfig
  subscribed,   \* the slots that listen for a load to settle
  retries,      \* slot -> configRetries
  mounted,      \* the slots not yet disposed
  requests,     \* getPlacementDecision calls in flight
  calls         \* what the app has done so far

slotVars == <<held, loading, awaiting, subscribed, retries, mounted, requests>>
vars == <<deliveryVars, slotVars, calls>>

Request == [slot : Slots, step : {"context", "waiting", "again"}, current : BOOLEAN]

\* load() begins: it overtakes the slots' earlier requests.
Overtaken(all, ss) ==
  {IF r.slot \in ss THEN [r EXCEPT !.current = FALSE] ELSE r : r \in all}
Begun(all, ss) ==
  Overtaken(all, ss) \cup [slot : ss, step : {"context"}, current : {TRUE}]

\* load() of these slots; without a user it does nothing.
Load(ss) ==
  IF identified
  THEN /\ requests' = Begun(requests, ss)
       /\ loading' = [s \in Slots |-> s \in ss \/ loading[s]]
  ELSE UNCHANGED <<requests, loading>>

\* notifyUserContextChanged: every watching slot that has decided, or is about to.
ContextChanged(user) ==
  LET ss == {s \in mounted : held[s] # "nothing" \/ loading[s]} IN
  IF user
  THEN /\ requests' = Begun(requests, ss)
       /\ loading' = [s \in Slots |-> s \in ss \/ loading[s]]
  ELSE UNCHANGED <<requests, loading>>

----------------------------------------------------------------------------
(* A decision                                                              *)

\* Any config_unavailable is worth waiting for.
FaultyTransient(s) == retries[s] < MaxRetries

\* isTransientConfigMiss, asked after the decision has started its own load.
Transient(s) == retries[s] < MaxRetries /\ LoadState' = "loading"

\* The rest of load(): an overtaken answer is dropped, a transient miss leaves
\* the slot loading and listening.
Answer(r, decision) ==
  LET s == r.slot
      await == decision = "missing" /\ Transient(s) IN
  /\ requests' = requests \ {r}
  /\ IF r.current
     THEN /\ held' = [held EXCEPT ![s] = decision]
          /\ awaiting' = [awaiting EXCEPT ![s] = await]
          /\ loading' = [loading EXCEPT ![s] = await]
          /\ subscribed' = IF await THEN subscribed \cup {s} ELSE subscribed \ {s}
     ELSE UNCHANGED <<held, awaiting, loading, subscribed>>

WaitAt(r, step) == requests' = (requests \ {r}) \cup {[r EXCEPT !.step = step]}

\* getPlacementDecision past its context: wait for the Playbook, decide with it,
\* or fail closed and start a load for the next call.
Proceed(r, next) ==
  CASE cached # NoPlaybook ->
         Answer(r, "made") /\ UNCHANGED <<load, fresh>>
    [] cached = NoPlaybook /\ LoadState = "loading" /\ next # "fail" ->
         /\ WaitAt(r, next)
         /\ RefreshPlaybookSnapshot
         /\ UNCHANGED <<held, awaiting, loading, subscribed>>
    [] OTHER ->
         RefreshPlaybookSnapshot /\ Answer(r, "missing")

NextStep(r) ==
  CASE r.step = "context" -> "waiting"
    [] r.step = "waiting" -> "again"
    [] r.step = "again"   -> "fail"

\* The providers answer, the load settles, or the timer of whenPlaybookSettled
\* fires.
Decide(r) ==
  /\ UNCHANGED <<live, identified, lastVars, attempted, retries, mounted, calls>>
  /\ Proceed(r, NextStep(r))

----------------------------------------------------------------------------
(* A load                                                                  *)

\* handlePlaybookSettled of each listening slot, in the step that ends a load.
Settled ==
  LET missing  == {s \in subscribed : held[s] = "missing"}
      redecide == {s \in missing : retries[s] < MaxRetries /\ LoadState' = "ready"}
      giveUp   == {s \in missing \ redecide : LoadState' # "loading"}
      done     == (subscribed \ missing) \cup redecide \cup {s \in giveUp : awaiting[s]} IN
  /\ retries' = [s \in Slots |-> IF s \in redecide THEN retries[s] + 1 ELSE retries[s]]
  /\ subscribed' = subscribed \ done
  /\ awaiting' = [s \in Slots |-> awaiting[s] /\ s \notin done]
  /\ requests' = IF identified THEN Begun(requests, redecide) ELSE requests
  /\ loading' = [s \in Slots |->
                   IF s \in redecide THEN identified \/ loading[s]
                   ELSE IF s \in giveUp /\ awaiting[s] THEN FALSE ELSE loading[s]]
  /\ UNCHANGED <<held, mounted>>

\* The listeners are told before the load is taken back.
FaultyNotified ==
  IF InFlight /\ ~InFlight' /\ cached' # NoPlaybook THEN Settled ELSE UNCHANGED slotVars

\* notifyPlaybookSettled at the end of a load.
Notified == IF InFlight /\ ~InFlight' THEN Settled ELSE UNCHANGED slotVars

LoadStep == Deliver /\ Notified /\ UNCHANGED calls

----------------------------------------------------------------------------
(* The application                                                         *)

Called == calls < MaxCalls /\ calls' = calls + 1

LoadSlot(s) ==
  /\ Called
  /\ s \in mounted /\ Load({s})
  /\ UNCHANGED <<deliveryVars, held, awaiting, subscribed, retries, mounted>>

\* refresh: a new load cycle with a full budget.
Refresh(s) ==
  /\ Called
  /\ s \in mounted /\ Load({s})
  /\ retries' = [retries EXCEPT ![s] = 0]
  /\ UNCHANGED <<deliveryVars, held, awaiting, subscribed, mounted>>

\* reset: the slot forgets its decision and drops what is in flight.
Reset(s) ==
  /\ Called
  /\ s \in mounted
  /\ held' = [held EXCEPT ![s] = "nothing"]
  /\ loading' = [loading EXCEPT ![s] = FALSE]
  /\ requests' = Overtaken(requests, {s})
  /\ UNCHANGED <<deliveryVars, awaiting, subscribed, retries, mounted>>

Dispose(s) ==
  /\ Called
  /\ s \in mounted /\ mounted' = mounted \ {s}
  /\ subscribed' = subscribed \ {s}
  /\ awaiting' = [awaiting EXCEPT ![s] = FALSE]
  /\ UNCHANGED <<deliveryVars, held, loading, retries, requests>>

\* An update of the user's context.
Update ==
  /\ Called
  /\ ContextChanged(identified)
  /\ UNCHANGED <<deliveryVars, held, awaiting, subscribed, retries, mounted>>

SwitchUser ==
  /\ Called
  /\ Identify \/ SignOut
  /\ ContextChanged(identified')
  /\ UNCHANGED <<held, awaiting, subscribed, retries, mounted>>

\* Something else of the SDK refreshes: an entitlement check, a plan picker.
OtherCaller ==
  /\ Called
  /\ RefreshPlaybookSnapshot
  /\ UNCHANGED <<live, identified, lastVars, attempted, slotVars>>

Time == (Expire \/ Launch) /\ UNCHANGED <<slotVars, calls>>

Init ==
  /\ DeliveryInit
  /\ held = [s \in Slots |-> "nothing"]
  /\ loading = [s \in Slots |-> FALSE]
  /\ awaiting = [s \in Slots |-> FALSE]
  /\ subscribed = {}
  /\ retries = [s \in Slots |-> 0]
  /\ mounted = Slots
  /\ requests = {}
  /\ calls = 0

Next ==
  \/ \E r \in requests : Decide(r)
  \/ LoadStep
  \/ \E s \in Slots : LoadSlot(s) \/ Refresh(s) \/ Reset(s) \/ Dispose(s)
  \/ Update
  \/ SwitchUser
  \/ OtherCaller
  \/ Time

\* Providers answer, timers fire, and a request of the network ends, if only in
\* an error.
Fairness ==
  /\ \A s \in Slots, step \in {"context", "waiting", "again"}, c \in BOOLEAN :
       LET r == [slot |-> s, step |-> step, current |-> c] IN
       WF_vars(r \in requests /\ Decide(r))
  /\ WF_vars(LoadStep)

Spec == Init /\ [][Next]_vars /\ Fairness

----------------------------------------------------------------------------
(* Properties                                                              *)

\* The delivery's and the controllers' fields keep their shape, and no payload of
\* a refused format is ever the Playbook.
TypeOK ==
  /\ DeliveryTypeOK
  /\ held \in [Slots -> {"nothing", "missing", "made"}]
  /\ loading \in [Slots -> BOOLEAN]
  /\ awaiting \in [Slots -> BOOLEAN]
  /\ subscribed \subseteq Slots
  /\ retries \in [Slots -> 0 .. MaxRetries]
  /\ mounted \subseteq Slots
  /\ requests \subseteq Request
  /\ calls \in 0 .. MaxCalls

\* A slot that waits for the Playbook has a load to wait for, and listens to it.
AwaitsALoad ==
  \A s \in Slots : awaiting[s] => InFlight /\ s \in subscribed

\* A slot stops loading while its user stays: a load that fails, a timer that
\* fires first or a slot that starts over never leaves it waiting for good.  (A
\* user who leaves may: the settled load is then answered by a load() that returns
\* at once.)
StopsLoading ==
  \A s \in Slots :
    (s \in mounted /\ loading[s]) ~> (s \notin mounted \/ ~loading[s] \/ ~identified)

=============================================================================
