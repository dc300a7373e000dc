---------------------------- MODULE BrowserProofs ----------------------------
(***************************************************************************)
(* Proofs about what runs in a browser: the slots of a page over the        *)
(* Playbook's delivery, the event and interaction lanes, and the effective  *)
(* context.  They are for any slots, versions, users, accounts, requests,   *)
(* habits of the app and bounds.                                            *)
(***************************************************************************)
EXTENDS BrowserMC, TLAPS

----------------------------------------------------------------------------
(* THE SLOTS OF A PAGE                                                     *)
----------------------------------------------------------------------------
(* The delivery on its own                                                 *)

\* What a step of the composition does to the delivery.
DeliveryStep ==
  \/ Deliver
  \/ Expire
  \/ Launch
  \/ Identify
  \/ SignOut
  \/ RefreshPlaybookSnapshot /\ UNCHANGED <<live, identified, lastVars, attempted>>

\* An etag names a version that is not newer than the Playbook it came before.
EtagBehindCache == etag # NoPlaybook => etag <= cached /\ cached <= live

\* What a load may count on: it began with an etag that was not newer than the
\* version then live, and its manifest was live after it began.
LoadInTime ==
  InFlight =>
    /\ load.since <= live /\ etag <= load.since
    /\ load.step = "bundle" =>
         /\ load.version \in Versions
         /\ load.since <= load.version /\ load.version <= live

\* An attempt that ends empty-handed leaves a cause behind.
EmptyHasCause == cached = NoPlaybook /\ attempted /\ ~InFlight => failure

DeliveryInv == DeliveryTypeOK /\ EtagBehindCache /\ LoadInTime /\ EmptyHasCause

\* The delivery starts with no etag, no load and no attempt.
LEMMA DeliveryStarts ==
  DeliveryInit => DeliveryInv
<1> SUFFICES ASSUME DeliveryInit PROVE DeliveryInv
  OBVIOUS
<1>1. DeliveryTypeOK
  <2>1. live \in Versions
    BY DeliveryConstants DEF DeliveryInit, Versions
  <2>2. cached \in {NoPlaybook} \cup (Versions \ Unreadable)
    BY DeliveryConstants DEF DeliveryInit
  <2>3. load \in [step : Steps, version : {NoPlaybook} \cup Versions,
                  open : BOOLEAN, since : {NoPlaybook} \cup Versions]
    BY DEF DeliveryInit, Idle, Steps
  <2> QED  BY <2>1, <2>2, <2>3 DEF DeliveryInit, DeliveryTypeOK
<1>2. EtagBehindCache /\ LoadInTime /\ EmptyHasCause
  BY DEF DeliveryInit, EtagBehindCache, LoadInTime, EmptyHasCause, InFlight, Idle
<1> QED  BY <1>1, <1>2 DEF DeliveryInv

\* The numbers the proofs compare.
LEMMA DeliveryNumbers ==
  ASSUME DeliveryTypeOK
  PROVE  /\ live \in Nat /\ cached \in Nat /\ etag \in Nat
         /\ load.since \in Nat /\ load.version \in Nat
         /\ (etag # NoPlaybook => 0 < etag)
BY DeliveryConstants DEF DeliveryTypeOK, Versions, NoPlaybook

\* A new load begins at the version now live.
LEMMA LoadBegins ==
  ASSUME DeliveryInv,
         load' = [Idle EXCEPT !.step = "bootstrap", !.since = live],
         fresh' = TRUE,
         UNCHANGED <<live, lastVars, attempted>>,
         identified' \in BOOLEAN
  PROVE  DeliveryInv'
<1>1. DeliveryTypeOK'
  BY DEF DeliveryInv, DeliveryTypeOK, lastVars, Idle, Steps
<1>2. load'.since = live /\ load'.step = "bootstrap"
  BY DEF Idle
<1>3. EtagBehindCache' /\ EmptyHasCause'
  BY <1>2 DEF DeliveryInv, EtagBehindCache, EmptyHasCause, InFlight, lastVars
<1>4. etag <= live
  BY DeliveryNumbers DEF DeliveryInv, EtagBehindCache, NoPlaybook
<1>5. LoadInTime'
  BY <1>2, <1>4, DeliveryNumbers DEF DeliveryInv, LoadInTime, lastVars
<1> QED  BY <1>1, <1>3, <1>5 DEF DeliveryInv

\* One answer of a load keeps the delivery's invariant.
LEMMA DeliverKeeps ==
  ASSUME DeliveryInv, Deliver
  PROVE  DeliveryInv'
<1> USE DeliveryNumbers DEF DeliveryInv
<1>1. CASE Bootstrap
  <2>1. DeliveryTypeOK'
    BY <1>1 DEF Bootstrap, FallBack, DeliveryTypeOK, lastVars, Steps
  <2>2. LoadInTime'
    <3>1. /\ load'.since = load.since /\ load'.step \in {"bundle", "legacy"}
          /\ load'.step = "bundle" => load'.version = live
      BY <1>1 DEF Bootstrap, FallBack, DeliveryTypeOK
    <3>2. UNCHANGED <<live, etag>> /\ load.since <= live /\ etag <= load.since
      BY <1>1 DEF Bootstrap, LoadInTime, InFlight, lastVars
    <3> QED  BY <3>1, <3>2 DEF LoadInTime, DeliveryTypeOK
  <2>3. EtagBehindCache' /\ EmptyHasCause'
    BY <1>1 DEF Bootstrap, FallBack, EtagBehindCache, EmptyHasCause, InFlight,
                lastVars, DeliveryTypeOK
  <2> QED  BY <2>1, <2>2, <2>3
<1>2. CASE WindowCloses
  <2>1. DeliveryTypeOK'
    BY <1>2 DEF WindowCloses, DeliveryTypeOK, lastVars
  <2>2. LoadInTime'
    BY <1>2 DEF WindowCloses, LoadInTime, InFlight, lastVars, DeliveryTypeOK
  <2>3. EtagBehindCache' /\ EmptyHasCause'
    BY <1>2 DEF WindowCloses, EtagBehindCache, EmptyHasCause, InFlight,
                lastVars, DeliveryTypeOK
  <2> QED  BY <2>1, <2>2, <2>3
<1>3. CASE Bundle
  <2>1. /\ load.version \in Versions
        /\ load.since <= load.version /\ load.version <= live
        /\ etag <= load.since /\ load.since <= live
    BY <1>3 DEF Bundle, LoadInTime, InFlight
  <2>2. CASE load.version \notin Unreadable /\ cached' = load.version /\ Settle
               /\ UNCHANGED <<live, identified, etag, fresh>>
               /\ unreadable' = FALSE /\ failure' = FALSE
    <3>1. DeliveryTypeOK'
      BY <2>1, <2>2 DEF Settle, DeliveryTypeOK, Idle, Steps
    <3>2. EtagBehindCache' /\ LoadInTime' /\ EmptyHasCause'
      BY <2>1, <2>2 DEF Settle, EtagBehindCache, LoadInTime, EmptyHasCause, InFlight,
                        Idle, Versions, NoPlaybook
    <3> QED  BY <3>1, <3>2
  <2>3. CASE FallBack /\ unreadable' \in BOOLEAN
               /\ UNCHANGED <<live, identified, etag, fresh, cached, failure>>
    <3>1. DeliveryTypeOK'
      BY <2>3 DEF FallBack, DeliveryTypeOK, Steps
    <3>2. EtagBehindCache' /\ LoadInTime' /\ EmptyHasCause'
      BY <2>1, <2>3 DEF FallBack, EtagBehindCache, LoadInTime, EmptyHasCause, InFlight,
                        DeliveryTypeOK
    <3> QED  BY <3>1, <3>2
  <2> QED  BY <1>3, <2>2, <2>3 DEF Bundle, DeliveryTypeOK
<1>4. CASE Legacy
  <2>1. load' = Idle /\ attempted' = TRUE /\ UNCHANGED <<live, identified, fresh>>
    BY <1>4 DEF Legacy, Settle
  <2>2. /\ load' \in [step : Steps, version : {NoPlaybook} \cup Versions,
                      open : BOOLEAN, since : {NoPlaybook} \cup Versions]
        /\ LoadInTime'
    BY <2>1 DEF Idle, Steps, LoadInTime, InFlight
  <2>3. CASE NotModified
    <3>1. cached # NoPlaybook /\ failure' = FALSE /\ UNCHANGED <<cached, etag, unreadable>>
      BY <2>3 DEF NotModified, EtagBehindCache, NoPlaybook
    <3> QED  BY <2>1, <2>2, <3>1 DEF DeliveryTypeOK, EtagBehindCache, EmptyHasCause
  <2>4. CASE Refused \/ LegacyMiss
    <3>1. failure' = TRUE /\ unreadable' \in BOOLEAN /\ UNCHANGED <<cached, etag>>
      BY <2>4 DEF Refused, LegacyMiss, DeliveryTypeOK
    <3> QED  BY <2>1, <2>2, <3>1 DEF DeliveryTypeOK, EtagBehindCache, EmptyHasCause
  <2>5. CASE live \notin Unreadable /\ Accepted
    <3>1. /\ failure' = FALSE /\ unreadable' = FALSE
          /\ cached' = live /\ etag' \in {live,
                 NoPlaybook} /\ live \in Versions \ Unreadable
      BY <2>5 DEF Accepted, DeliveryTypeOK
    <3>2. DeliveryTypeOK'
      BY <2>1, <2>2, <3>1 DEF DeliveryTypeOK
    <3>3. EtagBehindCache' /\ EmptyHasCause'
      BY <2>1, <3>1 DEF EtagBehindCache, EmptyHasCause, Versions, NoPlaybook
    <3> QED  BY <2>2, <3>2, <3>3
  <2> QED  BY <1>4, <2>3, <2>4, <2>5 DEF Legacy
<1> QED  BY <1>1, <1>2, <1>3, <1>4 DEF Deliver

\* Every step keeps the delivery's invariant.
LEMMA DeliveryKeeps ==
  ASSUME DeliveryInv, DeliveryStep \/ UNCHANGED deliveryVars
  PROVE  DeliveryInv'
<1>1. CASE Deliver
  BY <1>1, DeliverKeeps
<1>2. CASE Expire
  BY <1>2 DEF Expire, DeliveryInv, DeliveryTypeOK, EtagBehindCache, LoadInTime,
              EmptyHasCause, InFlight, lastVars
<1>3. CASE Launch
  BY <1>3, DeliveryConstants, DeliveryNumbers
  DEF Launch, DeliveryInv, DeliveryTypeOK, EtagBehindCache, LoadInTime,
      EmptyHasCause, InFlight, lastVars, Versions
<1>4. CASE Identify
  <2>1. CASE InFlight \/ attempted
    BY <1>4, <2>1 DEF Identify, DeliveryInv, DeliveryTypeOK, EtagBehindCache,
                      LoadInTime, EmptyHasCause, InFlight, lastVars
  <2>2. CASE ~(InFlight \/ attempted)
    BY <1>4, <2>2, LoadBegins DEF Identify
  <2> QED  BY <2>1, <2>2
<1>5. CASE SignOut
  BY <1>5 DEF SignOut, DeliveryInv, DeliveryTypeOK, EtagBehindCache, LoadInTime,
              EmptyHasCause, InFlight, lastVars
<1>6. CASE RefreshPlaybookSnapshot /\ UNCHANGED <<live, identified, lastVars, attempted>>
  <2>1. CASE UNCHANGED <<load, fresh>>
    BY <1>6, <2>1 DEF DeliveryInv, DeliveryTypeOK, EtagBehindCache, LoadInTime,
                      EmptyHasCause, InFlight, lastVars
  <2>2. CASE ~UNCHANGED <<load, fresh>>
    BY <1>6, <2>2, LoadBegins DEF RefreshPlaybookSnapshot, DeliveryInv, DeliveryTypeOK
  <2> QED  BY <2>1, <2>2
<1>7. CASE UNCHANGED deliveryVars
  BY <1>7 DEF deliveryVars, DeliveryInv, DeliveryTypeOK, EtagBehindCache, LoadInTime,
              EmptyHasCause, InFlight, lastVars
<1> QED  BY <1>1, <1>2, <1>3, <1>4, <1>5, <1>6, <1>7 DEF DeliveryStep

\* A load that ends without a failure leaves a version live since it began: a
\* bundle's manifest was live in between, a new payload is live now, and a 304
\* answers for an etag that only the live version has.
LEMMA LoadEndsInTime ==
  ASSUME DeliveryInv, DeliveryStep \/ UNCHANGED deliveryVars,
         InFlight, ~InFlight', ~failure'
  PROVE  cached' \in load.since .. live
<1> USE DeliveryNumbers DEF DeliveryInv
<1>1. Bundle \/ Legacy
  BY DEF DeliveryStep, Deliver, deliveryVars, InFlight, Bootstrap, WindowCloses, FallBack,
         Expire, Launch, Identify, SignOut, RefreshPlaybookSnapshot, DeliveryTypeOK,
                lastVars
<1>2. load.since <= live /\ etag <= load.since
  BY DEF LoadInTime
<1>3. CASE Bundle
  BY <1>2, <1>3 DEF Bundle, LoadInTime, InFlight, FallBack, DeliveryTypeOK
<1>4. CASE Legacy
  <2>1. CASE NotModified
    BY <1>2, <1>4, <2>1 DEF Legacy, NotModified, EtagBehindCache
  <2>2. CASE Accepted
    BY <1>2, <1>4, <2>2 DEF Legacy, Accepted
  <2>3. ~(Refused \/ LegacyMiss)
    BY DEF Refused, LegacyMiss
  <2> QED  BY <1>4, <2>1, <2>2, <2>3 DEF Legacy
<1> QED  BY <1>1, <1>3, <1>4

----------------------------------------------------------------------------
(* The slots                                                               *)

SlotsTypeOK ==
  /\ held \in [Slots -> {"nothing", "missing", "made"}]
  /\ loading \in [Slots -> BOOLEAN]
  /\ awaiting \in [Slots -> BOOLEAN]
  /\ subscribed \subseteq Slots
  /\ retries \in [Slots -> 0 .. MaxRetries]
  /\ mounted \subseteq Slots
  /\ requests \subseteq Request

SlotsInv == DeliveryInv /\ SlotsTypeOK /\ calls \in 0 .. MaxCalls /\ AwaitsALoad

\* A decision is answered with the Playbook, waits, or misses it and refreshes.
LEMMA ProceedCases ==
  ASSUME NEW r, NEW next, Proceed(r, next)
  PROVE  \/ Answer(r, "made") /\ UNCHANGED <<load, fresh>>
         \/ /\ next # "fail" /\ WaitAt(r, next)
            /\ RefreshPlaybookSnapshot
            /\ UNCHANGED <<held, awaiting, loading, subscribed>>
         \/ RefreshPlaybookSnapshot /\ Answer(r, "missing")
BY Zenon DEF Proceed

\* Every step of the composition is a step of the delivery, or leaves it alone.
LEMMA StepOfDelivery ==
  ASSUME [Next]_vars
  PROVE  DeliveryStep \/ UNCHANGED deliveryVars
<1>1. ASSUME NEW r \in requests, Decide(r) PROVE DeliveryStep \/ UNCHANGED deliveryVars
  <2>1. UNCHANGED <<live, identified, lastVars, attempted>>
    BY <1>1 DEF Decide
  <2>2. RefreshPlaybookSnapshot \/ UNCHANGED <<load, fresh>>
    BY <1>1, ProceedCases DEF Decide
  <2> QED  BY <2>1, <2>2 DEF DeliveryStep, deliveryVars, lastVars
<1>2. CASE LoadStep
  BY <1>2 DEF LoadStep, DeliveryStep
<1>3. CASE \E s \in Slots : LoadSlot(s) \/ Refresh(s) \/ Reset(s) \/ Dispose(s)
  BY <1>3 DEF LoadSlot, Refresh, Reset, Dispose
<1>4. CASE Update \/ UNCHANGED vars
  BY <1>4 DEF Update, vars
<1>5. CASE SwitchUser \/ OtherCaller \/ Time
  BY <1>5 DEF SwitchUser, OtherCaller, Time, DeliveryStep
<1> QED  BY <1>1, <1>2, <1>3, <1>4, <1>5 DEF Next

\* load() adds requests of known slots and overtakes the earlier ones.
LEMMA BegunType ==
  ASSUME NEW all \in SUBSET Request, NEW ss \in SUBSET Slots
  PROVE  /\ Begun(all, ss) \subseteq Request
         /\ \A some : Overtaken(all, some) \subseteq Request
<1>1. \A r \in all : [r EXCEPT !.current = FALSE] \in Request
  BY DEF Request
<1>2. \A some : Overtaken(all, some) \subseteq Request
  BY <1>1 DEF Overtaken
<1>3. [slot : ss, step : {"context"}, current : {TRUE}] \subseteq Request
  BY DEF Request
<1> QED  BY <1>2, <1>3 DEF Begun

\* A refresh never takes a load back, and starts one where a slot would wait.
LEMMA RefreshKeepsLoading ==
  ASSUME RefreshPlaybookSnapshot, UNCHANGED <<identified, cached>>
  PROVE  /\ InFlight => InFlight'
         /\ LoadState' = "loading" => InFlight'
<1>1. CASE UNCHANGED <<load, fresh>> /\ (InFlight \/ ~identified \/ cached # NoPlaybook)
  <2>1. cached' # NoPlaybook => LoadState' = "ready"
    BY DEF LoadState
  <2>2. cached' = NoPlaybook /\ ~identified' => LoadState' = "unavailable"
    BY DEF LoadState
  <2> QED  BY <1>1, <2>1, <2>2 DEF InFlight
<1>2. CASE load' = [Idle EXCEPT !.step = "bootstrap", !.since = live]
  BY <1>2 DEF InFlight, Idle
<1> QED  BY <1>1, <1>2 DEF RefreshPlaybookSnapshot

\* A decision's step keeps the slots in order.
LEMMA DecideKeeps ==
  ASSUME SlotsInv, NEW r \in requests, Decide(r)
  PROVE  SlotsTypeOK' /\ AwaitsALoad'
<1>1. r \in Request /\ r.slot \in Slots /\ requests \subseteq Request
  BY DEF SlotsInv, SlotsTypeOK, Request
<1>2. UNCHANGED <<identified, cached, retries, mounted>>
  BY DEF Decide, lastVars
<1>3. Proceed(r, NextStep(r))
  BY DEF Decide
<1>4. CASE NextStep(r) # "fail" /\ WaitAt(r, NextStep(r)) /\ RefreshPlaybookSnapshot
             /\ UNCHANGED <<held, awaiting, loading, subscribed>>
  <2>1. NextStep(r) \in {"waiting", "again"}
    BY <1>1, <1>4 DEF NextStep, Request
  <2>2. requests' \subseteq Request
    BY <1>1, <1>4, <2>1 DEF WaitAt, Request
  <2>3. InFlight => InFlight'
    BY <1>2, <1>4, RefreshKeepsLoading
  <2> QED  BY <1>2, <1>4, <2>2, <2>3 DEF SlotsInv, SlotsTypeOK, AwaitsALoad
<1>5. ASSUME NEW decision \in {"missing", "made"}, Answer(r, decision),
             InFlight => InFlight',
             decision = "missing" /\ LoadState' = "loading" => InFlight'
      PROVE  SlotsTypeOK' /\ AwaitsALoad'
  <2> DEFINE await == decision = "missing" /\ Transient(r.slot)
  <2>1. requests' \subseteq Request
    BY <1>1, <1>5 DEF Answer
  <2>2. CASE ~r.current
    BY <1>2, <1>5, <2>1, <2>2 DEF Answer, SlotsInv, SlotsTypeOK, AwaitsALoad
  <2>3. CASE r.current
    <3>1. /\ held' = [held EXCEPT ![r.slot] = decision]
          /\ awaiting' = [awaiting EXCEPT ![r.slot] = await]
          /\ loading' = [loading EXCEPT ![r.slot] = await]
          /\ subscribed' = IF await THEN subscribed \cup {r.slot}
                                    ELSE subscribed \ {r.slot}
      BY <1>5, <2>3 DEF Answer
    <3>2. await \in BOOLEAN /\ (await => InFlight')
      BY <1>5 DEF Transient
    <3> HIDE DEF await
    <3>3. SlotsTypeOK'
      BY <1>1, <1>2, <2>1, <3>1, <3>2 DEF SlotsInv, SlotsTypeOK
    <3>4. AwaitsALoad'
      BY <1>1, <1>5, <3>1, <3>2 DEF SlotsInv, SlotsTypeOK, AwaitsALoad
    <3> QED  BY <3>3, <3>4
  <2> QED  BY <2>2, <2>3
<1>6. CASE Answer(r, "made") /\ UNCHANGED <<load, fresh>>
  BY <1>5, <1>6 DEF InFlight
<1>7. CASE RefreshPlaybookSnapshot /\ Answer(r, "missing")
  BY <1>2, <1>5, <1>7, RefreshKeepsLoading
<1> QED  BY <1>3, <1>4, <1>6, <1>7, ProceedCases

\* Whoever waited for a load that ends decides again or gives up.
LEMMA SettledKeeps ==
  ASSUME SlotsInv, Settled, ~InFlight', attempted'
  PROVE  SlotsTypeOK' /\ AwaitsALoad'
<1> DEFINE missing  == {s \in subscribed : held[s] = "missing"}
           redecide == {s \in missing : retries[s] < MaxRetries /\ LoadState' = "ready"}
           giveUp   == {s \in missing \ redecide : LoadState' # "loading"}
           done     == (subscribed \ missing) \cup redecide \cup {s \in giveUp : awaiting[s]}
<1>1. /\ retries' = [s \in Slots |-> IF s \in redecide THEN retries[s] + 1 ELSE retries[s]]
      /\ subscribed' = subscribed \ done
      /\ awaiting' = [s \in Slots |-> awaiting[s] /\ s \notin done]
      /\ requests' = IF identified THEN Begun(requests, redecide) ELSE requests
      /\ loading' = [s \in Slots |->
                       IF s \in redecide THEN identified \/ loading[s]
                       ELSE IF s \in giveUp /\ awaiting[s] THEN FALSE ELSE loading[s]]
      /\ UNCHANGED <<held, mounted>>
  BY DEF Settled
<1>2. LoadState' # "loading"
  BY DEF LoadState
<1>3. \A s \in Slots : awaiting[s] => s \in done
  BY <1>2 DEF SlotsInv, AwaitsALoad
<1>4. \A s \in redecide : retries[s] < MaxRetries
  OBVIOUS
<1>5. redecide \subseteq Slots /\ requests \subseteq Request
  BY DEF SlotsInv, SlotsTypeOK
<1> HIDE DEF missing, redecide, giveUp, done
<1>6. AwaitsALoad'
  BY <1>1, <1>3 DEF AwaitsALoad
<1>7. requests' \subseteq Request
  BY <1>1, <1>5, BegunType
<1>8. retries' \in [Slots -> 0 .. MaxRetries]
  BY <1>1, <1>4, SlotConstants DEF SlotsInv, SlotsTypeOK
<1>9. loading' \in [Slots -> BOOLEAN] /\ awaiting' \in [Slots -> BOOLEAN]
  BY <1>1 DEF SlotsInv, SlotsTypeOK, DeliveryInv, DeliveryTypeOK
<1> QED  BY <1>1, <1>6, <1>7, <1>8, <1>9 DEF SlotsInv, SlotsTypeOK

\* A load's step either tells the slots that it ended or leaves it in flight.
LEMMA LoadStepKeeps ==
  ASSUME SlotsInv, LoadStep
  PROVE  SlotsTypeOK' /\ AwaitsALoad'
<1>1. CASE InFlight /\ ~InFlight'
  <2>1. Settled
    BY <1>1 DEF LoadStep, Notified
  <2>2. attempted'
    BY <1>1 DEF LoadStep, Deliver, Bootstrap, WindowCloses, Bundle, Legacy, FallBack,
           Settle,
                InFlight, SlotsInv, DeliveryInv, DeliveryTypeOK
  <2> QED  BY <1>1, <2>1, <2>2, SettledKeeps
<1>2. CASE ~(InFlight /\ ~InFlight')
  BY <1>2 DEF LoadStep, Notified, slotVars, SlotsInv, SlotsTypeOK, AwaitsALoad
<1> QED  BY <1>1, <1>2

\* load() changes no slot but the ones that begin.
LEMMA LoadType ==
  ASSUME SlotsTypeOK, NEW ss \in SUBSET Slots,
         \/ /\ requests' = Begun(requests, ss)
            /\ loading' = [s \in Slots |-> s \in ss \/ loading[s]]
         \/ UNCHANGED <<requests, loading>>
  PROVE  requests' \subseteq Request /\ loading' \in [Slots -> BOOLEAN]
BY BegunType DEF SlotsTypeOK

\* What the application does keeps the slots in order.
LEMMA SlotCallKeeps ==
  ASSUME SlotsInv, NEW s \in Slots, LoadSlot(s) \/ Refresh(s) \/ Reset(s) \/ Dispose(s)
  PROVE  SlotsTypeOK' /\ AwaitsALoad'
<1> UNCHANGED deliveryVars
  BY DEF LoadSlot, Refresh, Reset, Dispose
<1>1. InFlight' = InFlight
  BY DEF deliveryVars, InFlight
<1>2. CASE LoadSlot(s)
  <2>1. requests' \subseteq Request /\ loading' \in [Slots -> BOOLEAN]
    BY <1>2, LoadType DEF LoadSlot, Load, SlotsInv
  <2> QED  BY <1>1, <1>2, <2>1 DEF LoadSlot, SlotsInv, SlotsTypeOK, AwaitsALoad
<1>3. CASE Refresh(s)
  <2>1. requests' \subseteq Request /\ loading' \in [Slots -> BOOLEAN]
    BY <1>3, LoadType DEF Refresh, Load, SlotsInv
  <2>2. retries' \in [Slots -> 0 .. MaxRetries]
    BY <1>3, SlotConstants DEF Refresh, SlotsInv, SlotsTypeOK
  <2> QED  BY <1>1, <1>3, <2>1, <2>2 DEF Refresh, SlotsInv, SlotsTypeOK, AwaitsALoad
<1>4. CASE Reset(s)
  <2>1. requests' \subseteq Request
    BY <1>4, BegunType DEF Reset, SlotsInv, SlotsTypeOK
  <2> QED  BY <1>1, <1>4, <2>1 DEF Reset, SlotsInv, SlotsTypeOK, AwaitsALoad
<1>5. CASE Dispose(s)
  BY <1>1, <1>5 DEF Dispose, SlotsInv, SlotsTypeOK, AwaitsALoad
<1> QED  BY <1>2, <1>3, <1>4, <1>5

\* An update or a switch of the user lets slots begin again.
LEMMA ContextChangedKeeps ==
  ASSUME SlotsInv, NEW anyone, ContextChanged(anyone), InFlight => InFlight',
         UNCHANGED <<held, awaiting, subscribed, retries, mounted>>
  PROVE  SlotsTypeOK' /\ AwaitsALoad'
<1>1. {s \in mounted : held[s] # "nothing" \/ loading[s]} \in SUBSET Slots
  BY DEF SlotsInv, SlotsTypeOK
<1>2. requests' \subseteq Request /\ loading' \in [Slots -> BOOLEAN]
  BY <1>1, LoadType DEF ContextChanged, SlotsInv
<1> QED  BY <1>2 DEF SlotsInv, SlotsTypeOK, AwaitsALoad

\* The invariant holds at the start.
LEMMA SlotsInitInv ==
  Init => SlotsInv
<1> SUFFICES ASSUME Init PROVE SlotsInv
  OBVIOUS
<1>1. DeliveryInv
  BY DeliveryStarts DEF Init
<1>2. SlotsTypeOK /\ AwaitsALoad /\ calls \in 0 .. MaxCalls
  BY SlotConstants DEF Init, SlotsTypeOK, AwaitsALoad
<1> QED  BY <1>1, <1>2 DEF SlotsInv

\* The invariant survives every step, one case per action.
LEMMA SlotsNextInv ==
  SlotsInv /\ [Next]_vars => SlotsInv'
<1> SUFFICES ASSUME SlotsInv, [Next]_vars PROVE SlotsInv'
  OBVIOUS
<1>1. DeliveryInv'
  BY StepOfDelivery, DeliveryKeeps DEF SlotsInv
<1>2. calls' \in 0 .. MaxCalls
  <2>1. Called \/ UNCHANGED calls
    BY DEF Next, vars, Decide, LoadStep, LoadSlot, Refresh, Reset, Dispose, Update,
           SwitchUser, OtherCaller, Time
  <2> QED  BY <2>1, SlotConstants DEF SlotsInv, Called
<1>3. SlotsTypeOK' /\ AwaitsALoad'
  <2>1. CASE \E r \in requests : Decide(r)
    BY <2>1, DecideKeeps
  <2>2. CASE LoadStep
    BY <2>2, LoadStepKeeps
  <2>3. CASE \E s \in Slots : LoadSlot(s) \/ Refresh(s) \/ Reset(s) \/ Dispose(s)
    BY <2>3, SlotCallKeeps
  <2>4. CASE Update
    <3>1. InFlight => InFlight'
      BY <2>4 DEF Update, deliveryVars, InFlight
    <3> QED  BY <2>4, <3>1, ContextChangedKeeps DEF Update
  <2>5. CASE SwitchUser
    <3>1. InFlight => InFlight'
      BY <2>5 DEF SwitchUser, Identify, SignOut, InFlight
    <3> QED  BY <2>5, <3>1, ContextChangedKeeps DEF SwitchUser
  <2>6. CASE OtherCaller
    <3>1. InFlight => InFlight'
      BY <2>6, RefreshKeepsLoading DEF OtherCaller, lastVars
    <3> QED  BY <2>6, <3>1 DEF OtherCaller, slotVars, SlotsInv, SlotsTypeOK, AwaitsALoad
  <2>7. CASE Time
    BY <2>7 DEF Time, Expire, Launch, slotVars, InFlight, SlotsInv, SlotsTypeOK, AwaitsALoad
  <2>8. CASE UNCHANGED vars
    BY <2>8 DEF vars, slotVars, deliveryVars, InFlight, SlotsInv, SlotsTypeOK, AwaitsALoad
  <2> QED  BY <2>1, <2>2, <2>3, <2>4, <2>5, <2>6, <2>7, <2>8 DEF Next
<1> QED  BY <1>1, <1>2, <1>3 DEF SlotsInv

----------------------------------------------------------------------------
(* Theorems                                                                *)

\* The invariant the others follow from.
LEMMA SlotsInvariance ==
  Spec => []SlotsInv
BY SlotsInitInv, SlotsNextInv, PTL DEF Spec

\* The delivery's and the controllers' fields keep their shape; in particular a
\* payload of a format the runtime must refuse never becomes the Playbook.
THEOREM SlotsTypeCorrect ==
  Spec => []TypeOK
<1>1. SlotsInv => TypeOK
  BY DEF SlotsInv, DeliveryInv, SlotsTypeOK, TypeOK
<1> QED  BY <1>1, SlotsInvariance, PTL

\* A slot that waits for the Playbook has a load to wait for and listens to it:
\* a controller sets awaitingConfig only after its decision has started or joined
\* a load, and the end of a load leaves no one waiting.
THEOREM WaitersHaveALoad ==
  Spec => []AwaitsALoad
<1>1. SlotsInv => AwaitsALoad
  BY DEF SlotsInv
<1> QED  BY <1>1, SlotsInvariance, PTL

\* Where every decision answers config_unavailable and nothing is loading, the
\* provider names a cause.
THEOREM NoSilentUnavailability ==
  Spec => []UnavailableHasCause
<1>1. SlotsInv => UnavailableHasCause
  <2> SUFFICES ASSUME SlotsInv, identified, LoadState = "unavailable" PROVE failure
    BY DEF UnavailableHasCause
  <2>1. cached = NoPlaybook /\ attempted /\ ~InFlight
    BY DEF LoadState
  <2> QED  BY <2>1 DEF SlotsInv, DeliveryInv, EmptyHasCause
<1> QED  BY <1>1, SlotsInvariance, PTL

\* A load that reports no failure leaves a Playbook that was live at some moment
\* of it, whichever of the bundle, the payload and the 304 ended it.
THEOREM LoadsAreInTime ==
  Spec => LoadedWasLive
<1>1. SlotsInv /\ [Next]_vars
        => [InFlight /\ ~InFlight' /\ ~failure' =>
               cached' \in load.since .. live]_deliveryVars
  BY StepOfDelivery, LoadEndsInTime DEF SlotsInv
<1> QED  BY <1>1, SlotsInvariance, PTL DEF Spec, LoadedWasLive

----------------------------------------------------------------------------
(* THE EVENT AND INTERACTION LANES                                         *)
----------------------------------------------------------------------------
\* The rows that have left the buffer.
Sent == stored \cup UNION {batch.rows : batch \in sends}

\* The interactions of the other lane, wherever they are.
Interactions == queue \cup (UNION flushes) \cup presented

\* Each event is in one place: in the buffer, or built into one row.
OnePlace(evs, sent) ==
  /\ \A e, f \in evs : e.id = f.id => e = f
  /\ \A r, s \in sent : r.id = s.id => r = s
  /\ \A e \in evs, r \in sent : e.id # r.id

\* Nothing carries an id that was not given out.
IdsTaken == \A x \in events \cup Sent \cup Interactions : x.id < nextId

AccountsKept == \A i \in Interactions : i.account = acting[i.id]

\* The inductive invariant.
QueuesInv == QueuesTypeOK /\ OnePlace(events, Sent) /\ IdsTaken /\ AccountsKept

----------------------------------------------------------------------------
(* The buffer and its batches                                              *)

\* Rows built for a batch take the place of its events.
LEMMA RowsTakePlace ==
  ASSUME NEW evs, NEW batch, NEW sent,
         OnePlace(evs \cup batch, sent), evs \cap batch = {}
  PROVE  OnePlace(evs, sent \cup {EventRow(e) : e \in batch})
<1>1. \A e : EventRow(e).id = e.id
  BY DEF EventRow
<1>2. \A r, s \in {EventRow(e) : e \in batch} : r.id = s.id => r = s
  BY <1>1 DEF OnePlace
<1>3. \A r \in sent, s \in {EventRow(e) : e \in batch} : r.id # s.id
  BY <1>1 DEF OnePlace
<1>4. \A e \in evs, s \in {EventRow(e) : e \in batch} : e.id # s.id
  BY <1>1 DEF OnePlace
<1> QED  BY <1>2, <1>3, <1>4 DEF OnePlace

\* Fewer events and rows are still in one place.
LEMMA OnePlaceOfFewer ==
  ASSUME NEW evs, NEW sent, OnePlace(evs, sent),
         NEW someEvs \in SUBSET evs, NEW someSent \in SUBSET sent
  PROVE  OnePlace(someEvs, someSent)
BY DEF OnePlace

LEMMA IdentityType ==
  ASSUME QueuesTypeOK PROVE Identity \in Identities
BY DEF QueuesTypeOK, Identity, Identities

\* What Send adds to the rows that have left the buffer.
LEMMA SendAdds ==
  ASSUME QueuesTypeOK, NEW batch \in SUBSET Envelope, Send(batch), UNCHANGED stored
  PROVE  /\ sends' \subseteq [rows : SUBSET Row, tries : 0 .. Retries]
         /\ Sent' \subseteq Sent \cup {EventRow(e) : e \in batch}
<1>1. {EventRow(e) : e \in batch} \subseteq Row
  BY IdentityType DEF EventRow, Row, Envelope
<1>2. CASE sends' = sends \cup {[rows |-> {EventRow(e) : e \in batch}, tries |-> 0]}
  BY <1>1, <1>2, QueueConstants DEF QueuesTypeOK, Sent
<1>3. CASE UNCHANGED sends
  BY <1>3 DEF QueuesTypeOK, Sent
<1> QED  BY <1>2, <1>3 DEF Send

\* What the event lane promises after a step that leaves the ids given out.
EventsKept ==
  /\ events' \subseteq Envelope
  /\ sends' \subseteq [rows : SUBSET Row, tries : 0 .. Retries]
  /\ OnePlace(events', Sent')
  /\ \A x \in events' \cup Sent' : x.id < nextId'

\* flushEvents moves the events of the buffer into a batch, or drops them.
LEMMA FlushKeeps ==
  ASSUME QueuesInv, Flush, UNCHANGED <<stored, nextId>>
  PROVE  EventsKept
<1>1. CASE events = {}
  BY <1>1 DEF Flush, eventVars, EventsKept, QueuesInv, QueuesTypeOK, Sent, IdsTaken,
         OnePlace
<1>2. CASE events # {} /\ Send(events) /\ events' = {}
  <2>1. /\ sends' \subseteq [rows : SUBSET Row, tries : 0 .. Retries]
        /\ Sent' \subseteq Sent \cup {EventRow(e) : e \in events}
    BY <1>2, SendAdds DEF QueuesInv, QueuesTypeOK
  <2>2. OnePlace({}, Sent \cup {EventRow(e) : e \in events})
    BY RowsTakePlace DEF QueuesInv
  <2>3. OnePlace(events', Sent')
    BY <1>2, <2>1, <2>2, OnePlaceOfFewer
  <2>4. \A x \in Sent \cup {EventRow(e) : e \in events} : x.id < nextId
    BY DEF QueuesInv, IdsTaken, EventRow
  <2> QED  BY <1>2, <2>1, <2>3, <2>4 DEF EventsKept
<1> QED  BY <1>1, <1>2 DEF Flush, Emptied

\* Fresh envelopes are in no place yet.
LEMMA EnvelopesAreFresh ==
  ASSUME QueuesInv, NEW n \in Nat, nextId + n <= MaxId, user # Nobody
  PROVE  /\ Envelopes(n) \subseteq Envelope
         /\ \A e \in Envelopes(n) : nextId <= e.id /\ e.id < nextId + n
         /\ events \cap Envelopes(n) = {}
         /\ OnePlace(events \cup Envelopes(n), Sent)
<1>1. nextId \in Nat /\ MaxId \in Nat /\ user \in Users
  BY QueueConstants DEF QueuesInv, QueuesTypeOK
<1>2. ASSUME NEW e \in Envelopes(n)
      PROVE  e \in Envelope /\ nextId <= e.id /\ e.id < nextId + n /\ e.user = user
             /\ e = [id |-> e.id, user |-> user]
  <2>1. PICK i \in 0 .. n - 1 : e = [id |-> nextId + i, user |-> user]
    BY DEF Envelopes
  <2> QED  BY <1>1, <2>1 DEF Envelope, Ids
<1>3. \A x \in events \cup Sent : x.id < nextId
  BY DEF QueuesInv, IdsTaken
<1>4. \A x \in events : x.id \in Nat
  BY <1>1 DEF QueuesInv, QueuesTypeOK, Envelope, Ids
<1>5. \A x \in Sent : x.id \in Nat
  BY <1>1 DEF QueuesInv, QueuesTypeOK, Sent, Row, Ids
<1>6. \A x \in events \cup Sent, e \in Envelopes(n) : x.id # e.id
  BY <1>1, <1>2, <1>3, <1>4, <1>5 DEF Envelope, Ids
<1>7. OnePlace(events \cup Envelopes(n), Sent)
  BY <1>2, <1>6 DEF QueuesInv, OnePlace
<1>8. events \cap Envelopes(n) = {}
  BY <1>6
<1> QED  BY <1>2, <1>7, <1>8

\* captureRaw: new events enter the buffer, which is flushed once it is full.
LEMMA BufferKeeps ==
  ASSUME QueuesInv, NEW n \in Nat, Take(n), Buffer(Envelopes(n)), user # Nobody,
         UNCHANGED stored
  PROVE  EventsKept
<1> DEFINE all == events \cup Envelopes(n)
<1>1. /\ nextId + n <= MaxId /\ nextId' = nextId + n
      /\ nextId \in Nat /\ nextId <= nextId'
  BY DEF Take, QueuesInv, QueuesTypeOK
<1>2. all \subseteq Envelope /\ OnePlace(all, Sent)
  BY <1>1, EnvelopesAreFresh DEF QueuesInv, QueuesTypeOK
<1>3. \A x \in all \cup Sent : x.id < nextId'
  <2>1. \A x \in events \cup Sent : x.id < nextId
    BY DEF QueuesInv, IdsTaken
  <2>2. \A x \in events \cup Sent : x.id \in Int
    BY QueueConstants DEF QueuesInv, QueuesTypeOK, Envelope, Row, Ids, Sent
  <2>3. \A x \in Envelopes(n) : x.id < nextId'
    BY <1>1, EnvelopesAreFresh
  <2> QED  BY <1>1, <2>1, <2>2, <2>3
<1>4. CASE Send(all) /\ events' = {}
  <2>1. /\ sends' \subseteq [rows : SUBSET Row, tries : 0 .. Retries]
        /\ Sent' \subseteq Sent \cup {EventRow(e) : e \in all}
    BY <1>2, <1>4, SendAdds DEF QueuesInv
  <2>2. OnePlace({}, Sent \cup {EventRow(e) : e \in all})
    BY <1>2, RowsTakePlace
  <2>3. OnePlace(events', Sent')
    BY <1>4, <2>1, <2>2, OnePlaceOfFewer
  <2>4. \A x \in Sent \cup {EventRow(e) : e \in all} : x.id < nextId'
    BY <1>3 DEF EventRow
  <2> QED  BY <1>4, <2>1, <2>3, <2>4 DEF EventsKept
<1>5. CASE events' = all /\ UNCHANGED sends
  <2>1. Sent' = Sent
    BY <1>5 DEF Sent
  <2> QED  BY <1>2, <1>3, <1>5, <2>1 DEF EventsKept, QueuesInv, QueuesTypeOK
<1> QED  BY <1>4, <1>5 DEF Buffer, Emptied

\* An immediate capture sends its own envelopes and leaves the buffer alone.
LEMMA SendNowKeeps ==
  ASSUME QueuesInv, NEW n \in Nat, Take(n), Send(Envelopes(n)), user # Nobody,
         UNCHANGED <<events, stored>>
  PROVE  EventsKept
<1>1. /\ nextId + n <= MaxId /\ nextId' = nextId + n
      /\ nextId \in Nat /\ nextId <= nextId'
  BY DEF Take, QueuesInv, QueuesTypeOK
<1>2. /\ sends' \subseteq [rows : SUBSET Row, tries : 0 .. Retries]
      /\ Sent' \subseteq Sent \cup {EventRow(e) : e \in Envelopes(n)}
  BY <1>1, EnvelopesAreFresh, SendAdds DEF QueuesInv
<1>3. OnePlace(events, Sent \cup {EventRow(e) : e \in Envelopes(n)})
  BY <1>1, EnvelopesAreFresh, RowsTakePlace
<1>4. OnePlace(events', Sent')
  BY <1>2, <1>3, OnePlaceOfFewer
<1>5. \A x \in events \cup Sent \cup {EventRow(e) : e \in Envelopes(n)} : x.id < nextId'
  <2>1. \A x \in events \cup Sent : x.id < nextId /\ x.id \in Int
    BY QueueConstants DEF QueuesInv, IdsTaken, QueuesTypeOK, Envelope, Row, Ids, Sent
  <2>2. \A e \in Envelopes(n) : e.id < nextId'
    BY <1>1, EnvelopesAreFresh
  <2>3. \A x \in {EventRow(e) : e \in Envelopes(n)} : x.id < nextId'
    BY <2>2 DEF EventRow
  <2> QED  BY <1>1, <2>1, <2>3
<1> QED  BY <1>2, <1>4, <1>5 DEF EventsKept, QueuesInv, QueuesTypeOK

\* An answer stores the rows of a batch, tries them again or drops them.
LEMMA AnswerSendKeeps ==
  ASSUME QueuesInv, AnswerSend
  PROVE  EventsKept /\ stored' \subseteq Row
<1>1. PICK batch \in sends : Delivered(batch) \/ Undelivered(batch)
  BY DEF AnswerSend
<1>2. UNCHANGED nextId
  BY DEF AnswerSend
<1>3. batch \in [rows : SUBSET Row, tries : 0 .. Retries]
  BY DEF QueuesInv, QueuesTypeOK
<1>4. stored' \subseteq stored \cup batch.rows /\ stored' \subseteq Row
  BY <1>1, <1>3 DEF Delivered, Undelivered, QueuesInv, QueuesTypeOK
<1>5. events' = events
  BY <1>1 DEF Delivered, Undelivered, SettleSend, RetryOrGiveUp
<1>6. \/ sends' = sends \ {batch}
      \/ batch.tries < Retries /\ sends' = (sends \ {batch}) \cup {Again(batch)}
  BY <1>1 DEF Delivered, Undelivered, SettleSend, RetryOrGiveUp, TriesLeft
<1>7. Again(batch).rows = batch.rows /\
      (batch.tries < Retries => Again(batch) \in [rows : SUBSET Row, tries : 0 .. Retries])
  BY <1>3, QueueConstants DEF Again
<1>8. sends' \subseteq [rows : SUBSET Row, tries : 0 .. Retries]
  BY <1>6, <1>7 DEF QueuesInv, QueuesTypeOK
<1>9. Sent' \subseteq Sent
  BY <1>4, <1>6, <1>7 DEF Sent
<1>10. OnePlace(events', Sent')
  BY <1>5, <1>9, OnePlaceOfFewer DEF QueuesInv
<1>11. \A x \in events' \cup Sent' : x.id < nextId'
  BY <1>2, <1>5, <1>9 DEF QueuesInv, IdsTaken
<1> QED  BY <1>4, <1>5, <1>8, <1>10, <1>11 DEF EventsKept, QueuesInv, QueuesTypeOK

----------------------------------------------------------------------------
(* The interactions                                                        *)

\* Where an interaction may be, now and after a step.
LEMMA InteractionPlaces ==
  /\ \A i : i \in Interactions <=>
              i \in queue \/ i \in presented \/ \E rows \in flushes : i \in rows
  /\ \A i : i \in Interactions' <=>
              i \in queue' \/ i \in presented' \/ \E rows \in flushes' : i \in rows
BY DEF Interactions

LEMMA InteractionsType ==
  ASSUME QueuesTypeOK PROVE Interactions \subseteq Row
BY InteractionPlaces DEF QueuesTypeOK

\* What the interaction lane promises after a step.
InteractionsKept ==
  /\ queue' \subseteq Row /\ flushes' \subseteq SUBSET Row /\ presented' \subseteq Row
  /\ \A i \in Interactions' : i.id < nextId' /\ i.account = acting'[i.id]

\* A step that only gives ids out leaves the interactions in order.
LEMMA TakingKeeps ==
  ASSUME QueuesInv, NEW n \in Nat, Take(n), UNCHANGED <<queue, flushes, presented>>
  PROVE  InteractionsKept
<1>1. Interactions' = Interactions /\ Interactions \subseteq Row
  BY InteractionsType DEF Interactions, QueuesInv
<1>2. nextId' = nextId + n /\ nextId \in Nat
      /\ acting' = [i \in Ids |-> IF i \in nextId .. nextId + n - 1 THEN Identity ELSE acting[i]]
  BY DEF Take, QueuesInv, QueuesTypeOK
<1>3. ASSUME NEW i \in Interactions PROVE i.id < nextId' /\ i.account = acting'[i.id]
  <2>1. i.id \in Ids /\ i.id < nextId /\ i.account = acting[i.id] /\ i.id \in Nat
    BY <1>1, QueueConstants DEF QueuesInv, IdsTaken, AccountsKept, Row, Ids
  <2>2. i.id \notin nextId .. nextId + n - 1
    BY <1>2, <2>1
  <2> QED  BY <1>2, <2>1, <2>2
<1> QED  BY <1>1, <1>3 DEF InteractionsKept, QueuesInv, QueuesTypeOK

\* A new interaction joins those waiting, and all of them leave in one batch.
LEMMA TrackKeeps ==
  ASSUME QueuesInv, Track
  PROVE  InteractionsKept
<1> DEFINE new == [id |-> nextId, user |-> user, account |-> Identity]
<1>1. /\ nextId + 1 <= MaxId /\ nextId' = nextId + 1 /\ nextId \in Nat
      /\ acting' = [i \in Ids |-> IF i \in nextId .. nextId + 1 - 1 THEN Identity ELSE acting[i]]
  BY DEF Track, Take, QueuesInv, QueuesTypeOK
<1>2. nextId \in Ids
  BY <1>1, QueueConstants DEF Ids
<1>3. new \in Row /\ new.id = nextId /\ new.account = Identity
  BY <1>2, IdentityType DEF Track, QueuesInv, QueuesTypeOK, Row
<1>4. /\ queue' = {}
      /\ flushes' = flushes \/ flushes' = flushes \cup {queue \cup {new}}
      /\ presented' = presented
  BY DEF Track, FlushInteractions, InteractionRow
<1> HIDE DEF new
<1>5. Interactions' \subseteq Interactions \cup {new}
  BY <1>4, InteractionPlaces
<1>6. Interactions \subseteq Row
  BY InteractionsType DEF QueuesInv
<1>7. ASSUME NEW i \in Interactions PROVE i.id < nextId' /\ i.account = acting'[i.id]
  <2>1. i.id \in Ids /\ i.id < nextId /\ i.account = acting[i.id] /\ i.id \in Nat
    BY <1>6, QueueConstants DEF QueuesInv, IdsTaken, AccountsKept, Row, Ids
  <2> QED  BY <1>1, <2>1
<1>8. new.id < nextId' /\ new.account = acting'[new.id]
  BY <1>1, <1>2, <1>3
<1>9. flushes' \subseteq SUBSET Row
  BY <1>3, <1>4 DEF QueuesInv, QueuesTypeOK
<1> QED  BY <1>4, <1>5, <1>7, <1>8, <1>9 DEF InteractionsKept, QueuesInv, QueuesTypeOK

\* An answered batch is taken, put back, or both.
LEMMA AnswerFlushKeeps ==
  ASSUME QueuesInv, AnswerFlush
  PROVE  InteractionsKept
<1>1. PICK rows \in flushes :
        /\ flushes' = flushes \ {rows}
        /\ presented' \subseteq presented \cup rows
        /\ queue' \subseteq queue \cup rows
  BY DEF AnswerFlush, Requeued
<1>2. rows \subseteq Row
  BY DEF QueuesInv, QueuesTypeOK
<1>3. Interactions' \subseteq Interactions
  BY <1>1, InteractionPlaces
<1> QED  BY <1>1, <1>2, <1>3 DEF AnswerFlush, InteractionsKept, QueuesInv, QueuesTypeOK,
       IdsTaken, AccountsKept

----------------------------------------------------------------------------
(* The invariant                                                           *)

LEMMA QueuesInitInv ==
  QueuesInit => QueuesInv
<1> SUFFICES ASSUME QueuesInit PROVE QueuesInv
  OBVIOUS
<1>1. QueuesTypeOK
  <2>1. 0 \in 0 .. MaxId
    BY QueueConstants
  <2>2. acting \in [Ids -> Identities]
    BY DEF QueuesInit, Identities
  <2> QED  BY <2>1, <2>2 DEF QueuesInit, QueuesTypeOK
<1>2. Sent = {} /\ Interactions = {} /\ events = {}
  BY DEF QueuesInit, Sent, Interactions
<1> QED  BY <1>1, <1>2 DEF QueuesInv, OnePlace, IdsTaken, AccountsKept

\* A step that keeps both lanes in order keeps the invariant.
LEMMA BothLanes ==
  ASSUME QueuesInv, EventsKept, InteractionsKept,
         stored' \subseteq Row,
         mode' = mode, disposed' \in BOOLEAN, consent' \in BOOLEAN,
         user' \in Users \cup {Nobody}, account' \in Accounts \cup {NoAccount},
         nextId' \in 0 .. MaxId, acting' \in [Ids -> Identities]
  PROVE  QueuesInv'
<1>1. QueuesTypeOK'
  BY DEF QueuesInv, QueuesTypeOK, EventsKept, InteractionsKept
<1>2. OnePlace(events, Sent)' /\ IdsTaken' /\ AccountsKept'
  BY DEF EventsKept, InteractionsKept, OnePlace, IdsTaken, AccountsKept
<1> QED  BY <1>1, <1>2 DEF QueuesInv

LEMMA TakeType ==
  ASSUME QueuesTypeOK, NEW n \in Nat, Take(n)
  PROVE  nextId' \in 0 .. MaxId /\ acting' \in [Ids -> Identities]
BY IdentityType, QueueConstants DEF QueuesTypeOK, Take

\* A lane that a step leaves alone stays in order.
LEMMA EventsUnchanged ==
  ASSUME QueuesInv, UNCHANGED <<eventVars, stored, nextId>>
  PROVE  EventsKept
BY DEF QueuesInv, QueuesTypeOK, EventsKept, eventVars, Sent, IdsTaken

LEMMA InteractionsUnchanged ==
  ASSUME QueuesInv, UNCHANGED <<queue, flushes, presented, nextId, acting>>
  PROVE  InteractionsKept
BY DEF QueuesInv, QueuesTypeOK, InteractionsKept, Interactions, IdsTaken, AccountsKept

\* The invariant survives every step, one case per action.
LEMMA QueuesNextInv ==
  QueuesInv /\ [QueuesNext]_queuesVars => QueuesInv'
<1> SUFFICES ASSUME QueuesInv, [QueuesNext]_queuesVars PROVE QueuesInv'
  OBVIOUS
<1> USE DEF QueuesInv, QueuesTypeOK
<1>1. ASSUME NEW n \in 1 .. 2, Capture(n) PROVE QueuesInv'
  <2>1. EventsKept /\ InteractionsKept
    BY <1>1, BufferKeeps, TakingKeeps DEF Capture
  <2>2. nextId' \in 0 .. MaxId /\ acting' \in [Ids -> Identities]
    BY <1>1, TakeType DEF Capture
  <2> QED  BY <1>1, <2>1, <2>2, BothLanes DEF Capture, lifeVars, whoVars
<1>2. ASSUME NEW n \in 1 .. 2, CaptureNow(n) PROVE QueuesInv'
  <2>1. EventsKept /\ InteractionsKept
    BY <1>2, SendNowKeeps, TakingKeeps DEF CaptureNow
  <2>2. nextId' \in 0 .. MaxId /\ acting' \in [Ids -> Identities]
    BY <1>2, TakeType DEF CaptureNow
  <2> QED  BY <1>2, <2>1, <2>2, BothLanes DEF CaptureNow, lifeVars, whoVars
<1>3. CASE Track
  <2>1. InteractionsKept
    BY <1>3, TrackKeeps
  <2>2. EventsKept
    <3>1. CASE consent
      BY <1>3, <3>1, BufferKeeps DEF Track
    <3>2. CASE ~consent
      <4>1. UNCHANGED <<events, sends, stored>> /\ Take(1)
        BY <1>3, <3>2 DEF Track, eventVars
      <4>2. Sent' = Sent /\ nextId' = nextId + 1
        BY <4>1 DEF Sent, Take
      <4>3. \A x \in events \cup Sent : x.id \in Int /\ x.id < nextId
        BY QueueConstants DEF IdsTaken, Envelope, Row, Ids, Sent
      <4> QED  BY <4>1, <4>2, <4>3 DEF EventsKept
    <3> QED  BY <3>1, <3>2
  <2>3. nextId' \in 0 .. MaxId /\ acting' \in [Ids -> Identities]
    BY <1>3, TakeType DEF Track
  <2> QED  BY <1>3, <2>1, <2>2, <2>3, BothLanes DEF Track, lifeVars, whoVars
<1>4. CASE TimerFlush \/ FlushEvents
  <2>1. EventsKept /\ InteractionsKept
    BY <1>4, FlushKeeps, InteractionsUnchanged DEF TimerFlush, FlushEvents
  <2> QED  BY <1>4, <2>1, BothLanes DEF TimerFlush, FlushEvents, lifeVars, whoVars
<1>5. CASE AnswerSend
  <2>1. EventsKept /\ stored' \subseteq Row
    BY <1>5, AnswerSendKeeps
  <2>2. InteractionsKept
    BY <1>5, InteractionsUnchanged DEF AnswerSend
  <2> QED  BY <1>5, <2>1, <2>2, BothLanes DEF AnswerSend, lifeVars, whoVars
<1>6. CASE AnswerFlush
  <2>1. EventsKept /\ InteractionsKept
    BY <1>6, AnswerFlushKeeps, EventsUnchanged DEF AnswerFlush
  <2> QED  BY <1>6, <2>1, BothLanes DEF AnswerFlush, lifeVars, whoVars
<1>7. CASE DisposeQueues
  <2>1. EventsKept /\ InteractionsKept
    BY <1>7, FlushKeeps, InteractionsUnchanged DEF DisposeQueues
  <2> QED  BY <1>7, <2>1, BothLanes DEF DisposeQueues, whoVars
<1>8. ASSUME NEW ua \in Identifications, IdentifyAs(ua[1], ua[2]) PROVE QueuesInv'
  <2>1. EventsKept /\ InteractionsKept
    BY <1>8, EventsUnchanged, InteractionsUnchanged DEF IdentifyAs
  <2>2. ua[1] \in Users /\ ua[2] \in Accounts \cup {NoAccount}
    BY QueueConstants
  <2>3. user' \in Users /\ account' \in Accounts \cup {NoAccount}
    BY <1>8, <2>2 DEF IdentifyAs
  <2> QED  BY <1>8, <2>1, <2>3, BothLanes DEF IdentifyAs, lifeVars
<1>9. CASE ClearAllUserState
  <2>1. EventsKept /\ InteractionsKept
    BY <1>9, EventsUnchanged, InteractionsUnchanged DEF ClearAllUserState
  <2> QED  BY <1>9, <2>1, BothLanes DEF ClearAllUserState, lifeVars
<1>10. ASSUME NEW granted \in BOOLEAN, SetTelemetryConsent(granted) PROVE QueuesInv'
  <2>1. EventsKept /\ InteractionsKept
    BY <1>10, EventsUnchanged, InteractionsUnchanged DEF SetTelemetryConsent
  <2> QED  BY <1>10, <2>1, BothLanes DEF SetTelemetryConsent, lifeVars, whoVars
<1>11. CASE UNCHANGED queuesVars
  <2>1. EventsKept /\ InteractionsKept
    BY <1>11, EventsUnchanged, InteractionsUnchanged DEF queuesVars
  <2> QED  BY <1>11, <2>1, BothLanes DEF queuesVars, lifeVars, whoVars
<1> QED  BY <1>1, <1>2, <1>3, <1>4, <1>5, <1>6, <1>7, <1>8, <1>9, <1>10, <1>11 DEF
       QueuesNext

\* The invariant the theorems follow from.
LEMMA QueuesInvariance ==
  QueuesSpec => []QueuesInv
BY QueuesInitInv, QueuesNextInv, PTL DEF QueuesSpec

----------------------------------------------------------------------------
(* Theorems                                                                *)

\* The two lanes hold what the code's types allow, whatever is retried.
THEOREM QueuesTypeCorrect ==
  QueuesSpec => []QueuesTypeOK
<1>1. QueuesInv => QueuesTypeOK
  BY DEF QueuesInv
<1> QED  BY <1>1, QueuesInvariance, PTL

\* An event becomes at most one row, however often its batch is sent: a flush
\* takes events out of the buffer before it builds their rows, and a retry sends
\* the rows it has.
THEOREM EventsStoredOnce ==
  QueuesSpec => []OneRowPerEvent
<1>1. QueuesInv => OneRowPerEvent
  BY DEF QueuesInv, OneRowPerEvent, OnePlace, Sent
<1> QED  BY <1>1, QueuesInvariance, PTL

\* Each interaction is reported for the account it was tracked for, through any
\* failures, switches and sign-outs before its batch is taken.
THEOREM InteractionsKeepTheirAccount ==
  QueuesSpec => []InteractionAccountKept
<1>1. QueuesInv => InteractionAccountKept
  BY InteractionPlaces DEF QueuesInv, InteractionAccountKept, AccountsKept
<1> QED  BY <1>1, QueuesInvariance, PTL

\* With a network sink no step loses an interaction that waits or is in flight.
THEOREM InteractionsReachTheEndpoint ==
  QueuesSpec => NoInteractionLost
<1> DEFINE Kept == mode # "local_only" => \A i \in Ids : i \in Tracked => i \in Tracked'
<1>1. ASSUME [QueuesNext]_queuesVars PROVE [Kept]_queuesVars
  <2>1. ASSUME UNCHANGED <<queue, flushes, presented>> PROVE Kept
    BY <2>1 DEF Tracked
  <2>2. CASE Track
    <3> SUFFICES ASSUME mode # "local_only" PROVE \A i \in Ids : i \in Tracked =>
           i \in Tracked'
      OBVIOUS
    <3> DEFINE all == queue \cup {[id |-> nextId, user |-> user, account |-> Identity]}
    <3>1. flushes' = flushes \cup {{InteractionRow(i) : i \in all}} /\ presented' = presented
      BY <2>2 DEF Track, FlushInteractions
    <3>2. {InteractionRow(i) : i \in all} = all
      BY DEF InteractionRow
    <3>3. queue \subseteq all
      OBVIOUS
    <3> HIDE DEF all
    <3> QED  BY <3>1, <3>2, <3>3 DEF Tracked
  <2>3. CASE AnswerFlush
    <3>1. PICK rows \in flushes :
            /\ flushes' = flushes \ {rows}
            /\ presented \subseteq presented' /\ queue \subseteq queue'
            /\ rows \subseteq presented' \/ rows \subseteq queue'
      BY <2>3 DEF AnswerFlush, Requeued
    <3> QED  BY <3>1 DEF Tracked
  <2>4. ASSUME ~Track, ~AnswerFlush, ~UNCHANGED queuesVars PROVE UNCHANGED <<queue,
         flushes, presented>>
    BY <1>1, <2>4 DEF QueuesNext, Capture, CaptureNow, TimerFlush, FlushEvents,
           AnswerSend, DisposeQueues,
                      IdentifyAs, ClearAllUserState, SetTelemetryConsent
  <2> QED  BY <2>1, <2>2, <2>3, <2>4
<1> QED  BY <1>1, PTL DEF QueuesSpec, NoInteractionLost

----------------------------------------------------------------------------
(* THE EFFECTIVE CONTEXT                                                   *)
----------------------------------------------------------------------------
(* The revision dates what is awaited                                      *)

RequestRecords ==
  [kind : {"none", "context", "check"}, step : {"none", "providers", "load"},
   user : Users \cup {Nobody}, revision : Nat]

Shaped ==
  /\ revision \in Nat
  /\ contextUser \in Users \cup {Nobody}
  /\ contextRequests \in [ContextRequests -> RequestRecords]

\* No request is of a revision yet to come; while the one it asked the providers
\* at is in force, the user is the one it asked about.
RequestsDated ==
  \A i \in ContextRequests :
    /\ contextRequests[i].revision <= revision
    /\ contextRequests[i].step = "providers" /\ contextRequests[i].revision = revision =>
         contextRequests[i].user = contextUser

Dated == Shaped /\ RequestsDated

LEMMA DatedInit == Context!Init => Dated
  BY DEF Context!Init, Dated, Shaped, RequestsDated, Context!NoRequest, RequestRecords

\* The requests of a step that leaves user and revision alone.
LEMMA AskedIsDated ==
  ASSUME Dated, NEW i \in ContextRequests, NEW kind \in {"context", "check"},
         Context!AskProviders(i, kind), UNCHANGED <<contextUser, revision>>
  PROVE  Dated'
<1>1. /\ contextRequests' \in [ContextRequests -> RequestRecords]
      /\ contextRequests'[i] = [kind |-> kind, step |-> "providers", user |-> contextUser,
                         revision |-> revision]
      /\ \A j \in ContextRequests \ {i} : contextRequests'[j] = contextRequests[j]
  BY DEF Dated, Shaped, Context!AskProviders, RequestRecords
<1> QED BY <1>1 DEF Dated, Shaped, RequestsDated

LEMMA UnaskedIsDated ==
  ASSUME Dated, NEW i \in ContextRequests, NEW r \in RequestRecords,
         r.step # "providers", r.revision = 0,
         contextRequests' = [contextRequests EXCEPT ![i] = r], UNCHANGED <<contextUser,
                revision>>
  PROVE  Dated'
<1>1. /\ contextRequests' \in [ContextRequests -> RequestRecords]
      /\ contextRequests'[i] = r
      /\ \A j \in ContextRequests \ {i} : contextRequests'[j] = contextRequests[j]
  BY DEF Dated, Shaped
<1> QED BY <1>1 DEF Dated, Shaped, RequestsDated

LEMMA DoneIsDated ==
  ASSUME Dated, NEW i \in ContextRequests, Context!Done(i), UNCHANGED <<contextUser,
         revision>>
  PROVE  Dated'
<1>1. Context!NoRequest \in RequestRecords /\ Context!NoRequest.step # "providers" /\ Context!NoRequest.revision = 0
  BY DEF Context!NoRequest, RequestRecords
<1> QED BY <1>1, UnaskedIsDated DEF Context!Done

\* A change of the context outdates every request at once.
LEMMA OutdatedIsDated ==
  ASSUME Dated, revision' = revision + 1, UNCHANGED contextRequests,
         contextUser' \in Users \cup {Nobody}
  PROVE  Dated'
<1>1. ASSUME NEW i \in ContextRequests PROVE contextRequests[i].revision < revision'
  BY DEF Dated, Shaped, RequestsDated, RequestRecords
<1>2. revision \in Nat /\ \A i \in ContextRequests : contextRequests[i].revision \in Nat
  BY DEF Dated, Shaped, RequestRecords
<1> QED BY <1>1, <1>2 DEF Dated, Shaped, RequestsDated

LEMMA DatedStep == Dated /\ [Context!Next]_Context!contextVars => Dated'
<1> SUFFICES ASSUME Dated, [Context!Next]_Context!contextVars PROVE Dated'
  OBVIOUS
<1>1. ASSUME NEW i \in ContextRequests, Context!Compose(i) PROVE Dated'
  BY <1>1, AskedIsDated DEF Context!Compose
<1>2. ASSUME NEW i \in ContextRequests, Context!CheckEntitlement(i) PROVE Dated'
  <2>1. CASE Context!AskProviders(i, "check")
    BY <1>2, <2>1, AskedIsDated DEF Context!CheckEntitlement
  <2> DEFINE r == [Context!NoRequest EXCEPT !.kind = "check", !.step = "load"]
  <2>2. CASE contextRequests' = [contextRequests EXCEPT ![i] = r]
    <3>1. r \in RequestRecords /\ r.step # "providers" /\ r.revision = 0
      BY DEF Context!NoRequest, RequestRecords
    <3> HIDE DEF r
    <3> QED BY <1>2, <2>2, <3>1, UnaskedIsDated DEF Context!CheckEntitlement
  <2> QED BY <1>2, <2>1, <2>2 DEF Context!CheckEntitlement
<1>3. ASSUME NEW i \in ContextRequests, Context!LoadAwaited(i) PROVE Dated'
  BY <1>3, AskedIsDated DEF Context!LoadAwaited
<1>4. ASSUME NEW i \in ContextRequests, Context!ProvidersAnswer(i) PROVE Dated'
  BY <1>4, AskedIsDated, DoneIsDated DEF Context!ProvidersAnswer, Context!Composition
<1>5. ASSUME NEW i \in ContextRequests, Context!ProvidersFail(i) PROVE Dated'
  BY <1>5, DoneIsDated DEF Context!ProvidersFail
<1>6. ASSUME NEW u \in Users, Context!Identify(u) PROVE Dated'
  BY <1>6, OutdatedIsDated DEF Context!Identify, Context!InvalidateEffectiveContext
<1>7. CASE Context!Update
  BY <1>7, OutdatedIsDated DEF Context!Update, Context!InvalidateEffectiveContext, Dated,
         Shaped
<1>8. CASE Context!SignOut
  BY <1>8, OutdatedIsDated DEF Context!SignOut, Context!InvalidateEffectiveContext
<1>9. CASE Context!EndLoad
  <2>1. CASE Context!InvalidateEffectiveContext
    BY <1>9, <2>1, OutdatedIsDated
       DEF Context!EndLoad, Context!InvalidateEffectiveContext, Dated, Shaped
  <2>2. CASE UNCHANGED <<contextPlaybook, revision, composed>>
    BY <1>9, <2>2 DEF Context!EndLoad, Dated, Shaped, RequestsDated
  <2> QED BY <1>9, <2>1, <2>2 DEF Context!EndLoad
<1>10. CASE Context!Capture \/ Context!BeginLoad \/ UNCHANGED Context!contextVars
  BY <1>10 DEF Context!Capture, Context!BeginLoad, Context!contextVars, Dated, Shaped,
         RequestsDated
<1> QED BY <1>1, <1>2, <1>3, <1>4, <1>5, <1>6, <1>7, <1>8, <1>9, <1>10 DEF Context!Next

LEMMA AlwaysDated == Context!Spec => []Dated
  BY DatedInit, DatedStep, PTL DEF Context!Spec

----------------------------------------------------------------------------
(* What is composed                                                        *)

\* Either nothing is composed or the context of the user held with the Playbook
\* in force, whatever changes while providers answer and in whatever order they do.
THEOREM CompositionsAreCurrent == Context!Spec => []ComposedIsCurrent
<1>0. ComposedIsCurrent <=> Context!ComposedIsCurrent
  BY DEF ComposedIsCurrent
<1>1. Context!Init => Context!ComposedIsCurrent
  BY DEF Context!Init, Context!ComposedIsCurrent
<1>2. Dated /\ Context!ComposedIsCurrent /\ [Context!Next]_Context!contextVars =>
       Context!ComposedIsCurrent'
  <2> SUFFICES ASSUME Dated, Context!ComposedIsCurrent, [Context!Next]_Context!contextVars
               PROVE  Context!ComposedIsCurrent'
    OBVIOUS
  <2>1. CASE Context!InvalidateEffectiveContext
    BY <2>1 DEF Context!InvalidateEffectiveContext, Context!ComposedIsCurrent
  <2>2. CASE UNCHANGED <<contextUser, contextPlaybook, composed>>
    BY <2>2 DEF Context!ComposedIsCurrent
  <2>3. ASSUME NEW i \in ContextRequests,
         Context!ProvidersAnswer(i) PROVE Context!ComposedIsCurrent'
    <3>1. CASE UNCHANGED composed
      BY <2>3, <3>1, <2>2 DEF Context!ProvidersAnswer
    <3>2. CASE /\ contextRequests[i].revision = revision
               /\ composed' = [user |-> contextRequests[i].user,
                      playbook |-> contextPlaybook]
      <4>1. contextRequests[i].user = contextUser
        BY <2>3, <3>2 DEF Context!ProvidersAnswer, Dated, RequestsDated
      <4> QED BY <2>3, <3>2, <4>1 DEF Context!ProvidersAnswer, Context!ComposedIsCurrent
    <3> QED BY <2>3, <3>1, <3>2 DEF Context!ProvidersAnswer, Context!Composition
  <2> QED BY <2>1, <2>2, <2>3
          DEF Context!Next, Context!Compose, Context!CheckEntitlement,
                 Context!LoadAwaited, Context!ProvidersFail, Context!Identify,
              Context!Update, Context!SignOut, Context!Capture, Context!BeginLoad,
                     Context!EndLoad, Context!contextVars
<1> QED BY <1>0, <1>1, <1>2, AlwaysDated, PTL DEF Context!Spec

----------------------------------------------------------------------------
(* The snapshot of the providers                                           *)

\* An app that only decides asks for contexts only, and only once it has a user,
\* who is never nobody again.
OnlyDecides ==
  habits \subseteq {"fields"} =>
    /\ \A i \in ContextRequests : contextRequests[i].kind # "check" /\ contextRequests[i].step # "load"
    /\ \A i \in ContextRequests : contextRequests[i].step = "providers" =>
           contextRequests[i].kind = "context"
    /\ contextUser = Nobody =>
           snapshot = Nobody /\ \A i \in ContextRequests : contextRequests[i] = Context!NoRequest

LEMMA OnlyDecidesStep ==
  Context!ContextConstants /\ Dated /\ OnlyDecides /\ [Context!Next]_Context!contextVars => OnlyDecides'
<1> SUFFICES ASSUME Context!ContextConstants, Dated, OnlyDecides,
       [Context!Next]_Context!contextVars,
                    habits' \subseteq {"fields"}
             PROVE  OnlyDecides'
  BY DEF OnlyDecides
<1>h. habits' = habits
  BY DEF Context!Next, Context!Compose, Context!CheckEntitlement, Context!LoadAwaited,
         Context!ProvidersAnswer, Context!ProvidersFail,
         Context!Identify, Context!Update, Context!SignOut, Context!Capture,
                Context!BeginLoad, Context!EndLoad, Context!contextVars
<1>o. /\ \A i \in ContextRequests : contextRequests[i].kind # "check" /\ contextRequests[i].step # "load"
      /\ \A i \in ContextRequests : contextRequests[i].step = "providers" =>
             contextRequests[i].kind = "context"
      /\ contextUser = Nobody =>
             snapshot = Nobody /\ \A i \in ContextRequests : contextRequests[i] = Context!NoRequest
      /\ "checks" \notin habits /\ "signs out" \notin habits /\ "fails" \notin habits
  BY <1>h DEF OnlyDecides
<1>r. contextRequests \in [ContextRequests -> RequestRecords]
  BY DEF Dated, Shaped
<1>1. ASSUME NEW i \in ContextRequests, Context!AskProviders(i, "context"),
       contextUser # Nobody, contextUser' = contextUser
      PROVE  OnlyDecides'
  BY <1>o, <1>r, <1>1 DEF Context!AskProviders, OnlyDecides
<1>2. ASSUME NEW i \in ContextRequests, Context!Done(i), contextUser # Nobody,
       contextUser' = contextUser
      PROVE  OnlyDecides'
  BY <1>o, <1>r, <1>2 DEF Context!Done, OnlyDecides, Context!NoRequest
<1>3. ASSUME NEW i \in ContextRequests, Context!ProvidersAnswer(i) PROVE OnlyDecides'
  <2>0. contextRequests[i].step = "providers" /\ Context!NoRequest.step = "none"
    BY <1>3 DEF Context!ProvidersAnswer, Context!NoRequest
  <2>1. contextUser # Nobody
    BY <1>o, <2>0
  <2> QED BY <1>1, <1>2, <1>3, <2>1 DEF Context!ProvidersAnswer, Context!Composition
<1>4. ASSUME NEW i \in ContextRequests, Context!LoadAwaited(i) PROVE OnlyDecides'
  BY <1>o, <1>4 DEF Context!LoadAwaited
<1>5. ASSUME NEW u \in Users, Context!Identify(u) PROVE OnlyDecides'
  BY <1>o, <1>5 DEF Context!Identify, Context!ContextConstants, OnlyDecides
<1> QED BY <1>o, <1>1, <1>3, <1>4, <1>5
        DEF Context!Next, Context!Compose, Context!CheckEntitlement,
               Context!ProvidersFail, Context!Update, Context!SignOut, Context!Capture,
            Context!BeginLoad, Context!EndLoad, Context!contextVars, OnlyDecides

LEMMA ReplacedStep ==
  /\ Dated /\ OnlyDecides /\ Context!SnapshotIsReplaced /\ [Context!Next]_Context!contextVars
  => Context!SnapshotIsReplaced'
<1> SUFFICES ASSUME Dated, OnlyDecides, Context!SnapshotIsReplaced,
       [Context!Next]_Context!contextVars,
                    habits' \subseteq {"fields"}, snapshot' \notin {contextUser', Nobody}
             PROVE  \E i \in ContextRequests : contextRequests'[i].kind = "context"
  BY DEF Context!SnapshotIsReplaced
<1>h. habits' = habits
  BY DEF Context!Next, Context!Compose, Context!CheckEntitlement, Context!LoadAwaited,
         Context!ProvidersAnswer, Context!ProvidersFail,
         Context!Identify, Context!Update, Context!SignOut, Context!Capture,
                Context!BeginLoad, Context!EndLoad, Context!contextVars
<1>o. /\ \A i \in ContextRequests : contextRequests[i].kind # "check" /\ contextRequests[i].step # "load"
      /\ contextUser = Nobody => snapshot = Nobody
      /\ "checks" \notin habits /\ "signs out" \notin habits /\ "fails" \notin habits
  BY <1>h DEF OnlyDecides
<1>r. contextRequests \in [ContextRequests -> RequestRecords]
  BY DEF Dated, Shaped
<1>p. snapshot \notin {contextUser, Nobody} =>
       \E i \in ContextRequests : contextRequests[i].kind = "context"
  BY <1>h DEF Context!SnapshotIsReplaced
<1>1. CASE UNCHANGED <<contextUser, snapshot, contextRequests>>
  BY <1>p, <1>1
<1>2. ASSUME NEW i \in ContextRequests, Context!AskProviders(i, "context")
      PROVE  \E j \in ContextRequests : contextRequests'[j].kind = "context"
  BY <1>r, <1>2 DEF Context!AskProviders
<1>3. ASSUME NEW i \in ContextRequests, Context!ProvidersAnswer(i)
      PROVE  \E j \in ContextRequests : contextRequests'[j].kind = "context"
  <2>1. CASE contextRequests[i].revision = revision
    BY <1>3, <2>1 DEF Context!ProvidersAnswer, Dated, RequestsDated
  <2>2. CASE contextRequests[i].revision # revision
    BY <1>o, <1>2, <1>3, <2>2 DEF Context!ProvidersAnswer, Context!Composition
  <2> QED BY <2>1, <2>2
<1>4. ASSUME NEW u \in Users, Context!Identify(u)
      PROVE  \E j \in ContextRequests : contextRequests'[j].kind = "context"
  BY <1>o, <1>p, <1>4 DEF Context!Identify, Context!Dropped
<1> QED BY <1>o, <1>1, <1>2, <1>3, <1>4
        DEF Context!Next, Context!Compose, Context!CheckEntitlement, Context!LoadAwaited,
               Context!ProvidersFail, Context!Update, Context!SignOut,
            Context!Capture, Context!BeginLoad, Context!EndLoad, Context!contextVars

\* In an app that only decides and does not sign out, a snapshot of another user's
\* plan is always about to be replaced.
THEOREM SnapshotsAreReplaced == Context!Spec => []SnapshotIsReplaced
<1>0. SnapshotIsReplaced <=> Context!SnapshotIsReplaced
  BY DEF SnapshotIsReplaced
<1>1. Context!Init => OnlyDecides /\ Context!SnapshotIsReplaced
  BY DEF Context!Init, OnlyDecides, Context!SnapshotIsReplaced, Context!NoRequest
<1>2. Dated /\ OnlyDecides /\ Context!SnapshotIsReplaced /\ [Context!Next]_Context!contextVars
        => OnlyDecides' /\ Context!SnapshotIsReplaced'
  BY ContextFits, OnlyDecidesStep, ReplacedStep
<1> QED BY <1>0, <1>1, <1>2, AlwaysDated, PTL DEF Context!Spec

=============================================================================
