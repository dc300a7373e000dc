-------------------------- MODULE PlaybookDelivery --------------------------
(***************************************************************************)
(* How a connected browser obtains the launched Playbook:                  *)
(* ServerLaunchedPlaybookProvider and refreshPlaybookSnapshot of           *)
(* src/web-sdk/customer-side.ts.                                           *)
(*                                                                         *)
(* A load tries the signed delivery first, a bootstrap that names a        *)
(* manifest and then the manifest's bundle, and falls back to the legacy   *)
(* endpoint, which answers with a Playbook or with 304.  What was loaded   *)
(* before is kept whenever a load fails.  Callers share one load, and each *)
(* answer the load awaits is a step of its own.                            *)
(*                                                                         *)
(* Data abstractions.  A Playbook is its version; versions are launched in *)
(* ascending order, and restoring an old one is a new launch.  Signature   *)
(* and integrity failures are failures of their step, and so is a bundle   *)
(* whose manifest cannot be used.  The TTL is a flag time may lower.  The  *)
(* tenant, the wording of failures and warnings are left out.              *)
(*                                                                         *)
(* An operator named Faulty... is a slip that could be made in the         *)
(* operator it precedes; it models no code and nothing uses it.            *)
(***************************************************************************)
EXTENDS Integers

CONSTANTS
  MaxVersion,   \* bound on the launches
  Unreadable,   \* versions of a format this runtime must refuse
  Seeds         \* what an app may ship with: a version, or NoPlaybook

NoPlaybook == 0
Versions   == 1 .. MaxVersion

ASSUME DeliveryConstants ==
  /\ MaxVersion \in Nat \ {0}
  /\ Unreadable \subseteq Versions
  /\ Seeds \subseteq ({NoPlaybook} \cup Versions) \ Unreadable

VARIABLES
  live,         \* the version in force at the control plane
  identified,   \* a user is identified
  cached,       \* the provider's Playbook
  etag,         \* version named by the etag it holds, or NoPlaybook
  fresh,        \* the TTL of the last attempt is running
  failure,      \* lastLoadFailure is set
  unreadable,   \* unreadablePayload
  load,         \* playbookLoadInFlight
  attempted     \* playbookLoadAttempted

deliveryVars == <<live, identified, cached, etag, fresh, failure, unreadable,
                  load, attempted>>
lastVars == <<cached, etag, failure, unreadable>>

\* A load: the answer it awaits, the manifest's version, whether the manifest's
\* window is open and, ghost, what was live when it began.
Idle == [step |-> "idle", version |-> NoPlaybook, open |-> FALSE, since |-> NoPlaybook]

InFlight == load.step # "idle"

\* getPlaybookLoadState
LoadState ==
  IF cached # NoPlaybook THEN "ready"
  ELSE IF identified /\ (InFlight \/ ~attempted) THEN "loading"
  ELSE "unavailable"

\* refreshPlaybookSnapshot and refresh: joined if one is in flight, nothing
\* without a user, and answered from memory within the TTL.
RefreshPlaybookSnapshot ==
  IF InFlight \/ ~identified \/ (cached # NoPlaybook /\ fresh)
  THEN UNCHANGED <<load, fresh>>
  ELSE /\ load' = [Idle EXCEPT !.step = "bootstrap", !.since = live]
       /\ fresh' = TRUE

\* The end of an attempt, whatever came of it.
Settle == load' = Idle /\ attempted' = TRUE

FallBack == load' = [load EXCEPT !.step = "legacy"] /\ UNCHANGED attempted

\* The bootstrap names a manifest of the live version inside its window, or not.
Bootstrap ==
  /\ load.step = "bootstrap"
  /\ \/ /\ load' = [load EXCEPT !.step = "bundle", !.version = live, !.open = TRUE]
        /\ UNCHANGED attempted
     \/ FallBack
  /\ UNCHANGED <<live, identified, fresh, lastVars>>

\* The manifest's window closes while its bundle downloads.
WindowCloses ==
  /\ load.step = "bundle" /\ load.open
  /\ load' = [load EXCEPT !.open = FALSE]
  /\ UNCHANGED <<live, identified, fresh, lastVars, attempted>>

\* The bundle is readable, of a format to refuse, or not to be had.
Bundle ==
  /\ load.step = "bundle"
  /\ \/ /\ load.open /\ load.version \notin Unreadable
        /\ cached' = load.version
        /\ unreadable' = FALSE /\ failure' = FALSE
        /\ Settle
     \/ /\ load.open /\ load.version \in Unreadable
        /\ unreadable' = TRUE
        /\ FallBack
        /\ UNCHANGED <<cached, failure>>
     \/ FallBack /\ UNCHANGED <<cached, failure, unreadable>>
  /\ UNCHANGED <<live, identified, etag, fresh>>

\* The etag is kept before the payload is known to be readable.
FaultyRefused ==
  /\ etag' = live
  /\ unreadable' = TRUE /\ failure' = TRUE
  /\ UNCHANGED cached

\* The refusal comes after the payload was kept.
FaultyKept == unreadable' = TRUE /\ failure' = TRUE /\ cached' = live /\ etag' = etag

\* A payload this runtime refuses is not applied, not even its etag.
Refused ==
  /\ unreadable' = TRUE /\ failure' = TRUE
  /\ UNCHANGED <<cached, etag>>

\* A failed fallback is not reported.
FaultyLegacyMiss == UNCHANGED lastVars

\* legacyMiss: what is cached stays, and the cause is kept.
LegacyMiss == failure' = TRUE /\ UNCHANGED <<cached, etag, unreadable>>

\* 304: the version of the etag is still live.
NotModified ==
  /\ etag # NoPlaybook /\ etag = live
  /\ failure' = IF cached # NoPlaybook THEN FALSE ELSE failure
  /\ UNCHANGED <<cached, etag, unreadable>>

\* 200 with a payload; its etag header may be missing.
Accepted ==
  /\ cached' = live
  /\ etag' \in {live, NoPlaybook}
  /\ unreadable' = FALSE /\ failure' = FALSE

\* fetchLegacyConfig is answered.
Legacy ==
  /\ load.step = "legacy"
  /\ \/ NotModified
     \/ etag # live /\ live \in Unreadable /\ Refused
     \/ etag # live /\ live \notin Unreadable /\ Accepted
     \/ LegacyMiss
  /\ Settle
  /\ UNCHANGED <<live, identified, fresh>>

Deliver == Bootstrap \/ WindowCloses \/ Bundle \/ Legacy

Expire ==
  /\ fresh /\ fresh' = FALSE
  /\ UNCHANGED <<live, identified, lastVars, load, attempted>>

Launch ==
  /\ live < MaxVersion /\ live' = live + 1
  /\ UNCHANGED <<identified, lastVars, fresh, load, attempted>>

\* The first identification starts the user's runtime, and with it a load.
Identify ==
  /\ ~identified /\ identified' = TRUE
  /\ IF InFlight \/ attempted THEN UNCHANGED <<load, fresh>>
     ELSE /\ load' = [Idle EXCEPT !.step = "bootstrap", !.since = live]
          /\ fresh' = TRUE
  /\ UNCHANGED <<live, lastVars, attempted>>

\* A sign-out leaves the Playbook and its load alone.
SignOut ==
  /\ identified /\ identified' = FALSE
  /\ UNCHANGED <<live, lastVars, fresh, load, attempted>>

DeliveryInit ==
  /\ live = 1
  /\ identified = FALSE
  /\ cached \in Seeds
  /\ etag = NoPlaybook
  /\ fresh = FALSE /\ failure = FALSE /\ unreadable = FALSE
  /\ load = Idle
  /\ attempted = FALSE

----------------------------------------------------------------------------
(* Properties                                                              *)

Steps == {"idle", "bootstrap", "bundle", "legacy"}

\* The provider's fields keep their shape.
DeliveryTypeOK ==
  /\ live \in Versions
  /\ identified \in BOOLEAN
  /\ cached \in {NoPlaybook} \cup (Versions \ Unreadable)
  /\ etag \in {NoPlaybook} \cup Versions
  /\ fresh \in BOOLEAN /\ failure \in BOOLEAN /\ unreadable \in BOOLEAN
  /\ load \in [step : Steps, version : {NoPlaybook} \cup Versions,
               open : BOOLEAN, since : {NoPlaybook} \cup Versions]
  /\ attempted \in BOOLEAN

\* A load that reports no failure leaves a Playbook that was live at some moment
\* of it: no reply that changes nothing passes off an older one as current.
LoadedWasLive ==
  [][InFlight /\ ~InFlight' /\ ~failure' => cached' \in load.since .. live]_deliveryVars

\* Where every decision answers config_unavailable and nothing is loading, the
\* load failure names a cause.
UnavailableHasCause ==
  identified /\ LoadState = "unavailable" => failure

=============================================================================
