----------------------------- MODULE BrowserMC -----------------------------
(* What runs beside each other in one browser: the slots of a page over the   *)
(* Playbook's delivery, the event and interaction lanes, and the effective    *)
(* context.  A behaviour is one of a single part, and the others stay as they *)
(* began.                                                                     *)
EXTENDS PlacementSlots, EventQueuesMC

CONSTANTS
  banner, modal,        \* slots of one page
  ContextRequests, Habits, MaxPlaybook, MaxRevision    \* of the effective context

VARIABLES
  part,                 \* which part acts
  habits, contextUser, contextPlaybook, contextLoading, revision, composed,
  snapshot, contextRequests, event

Context == INSTANCE EffectiveContext WITH
  Requests <- ContextRequests, user <- contextUser, playbook <- contextPlaybook,
  loading <- contextLoading, requests <- contextRequests

\* An app that only decides, and one that does everything, over providers that fail.
TheHabits == {{}, {"checks", "signs out", "fails", "fields"}}

ASSUME ContextFits == Context!ContextConstants

otherVars == <<habits, contextUser, contextPlaybook, contextLoading, revision,
               composed, snapshot, contextRequests, event>>

\* The part that does not act is as an app without habits, in local mode, with
\* nothing launched, leaves it.
SlotsAtRest   == Init /\ live = 1 /\ cached = NoPlaybook
QueuesAtRest  == QueuesInit /\ mode = "local_only" /\ ~consent
ContextAtRest == Context!Init /\ habits = {}

BrowserInit ==
  \/ part = "slots" /\ Init /\ QueuesAtRest /\ ContextAtRest
  \/ part = "queues" /\ QueuesInit /\ SlotsAtRest /\ ContextAtRest
  \/ part = "context" /\ Context!Init /\ SlotsAtRest /\ QueuesAtRest

BrowserNext ==
  \/ part = "slots" /\ Next /\ UNCHANGED <<part, queuesVars, otherVars>>
  \/ part = "queues" /\ QueuesNext /\ UNCHANGED <<part, vars, otherVars>>
  \/ part = "context" /\ Context!Next /\ UNCHANGED <<part, vars, queuesVars>>

BrowserSpec ==
  /\ BrowserInit /\ [][BrowserNext]_<<part, vars, queuesVars, otherVars>>
  /\ Fairness /\ QueuesFairness

\* What was composed about the user is of the user held and the Playbook in force.
ComposedIsCurrent == Context!ComposedIsCurrent

\* In an app that only decides, a late answer about another user is replaced.
SnapshotIsReplaced == Context!SnapshotIsReplaced

=============================================================================
