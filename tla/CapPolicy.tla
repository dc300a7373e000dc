----------------------------- MODULE CapPolicy -----------------------------
(***************************************************************************)
(* What presentation caps promise, with no cache, no storage and no        *)
(* trimming.  An output is refused only while a cooldown started by an     *)
(* earlier presentation runs or one of its rules is used up, and shown     *)
(* only when no cooldown runs and none of its firm rules is used up, all   *)
(* judged from everything shown under its key.  A rule is firm when no     *)
(* rule of its key has a narrower window.  CapEnforcer implements it.      *)
(***************************************************************************)
EXTENDS Integers, FiniteSets

CONSTANTS
  Outputs, Keys, CapKey,
  Capped,              \* the outputs that carry a cap policy
  OutputRules,         \* output -> its rules [count, period]
  FirmRules,           \* output -> those of them that bind every presentation
  Cooldown,            \* output -> cooldown its presentation starts
  WindowStart(_, _),   \* period, instant -> start of the window
  Start, MaxTime, MaxPresentations,
  MayForget            \* whether a key's history can be lost

VARIABLES now, history, nextId, verdict

pvars == <<now, history, nextId, verdict>>

Cooling(k) == \E p \in history[k] : now < p.at + Cooldown[p.by]

\* A rule is used up when its window holds as many presentations as it allows.
UsedUp(r, k) ==
  Cardinality({p \in history[k] :
                 WindowStart(r.period, now) <= p.at /\ p.at <= now}) >= r.count

\* Why o may be refused, judged by these of its rules.
Refusals(o, rules) ==
  LET k == CapKey[o] IN
  IF Cooling(k) THEN {"cooldown"}
  ELSE {r.period : r \in {x \in rules : UsedUp(x, k)}}

Reply(o, reason) ==
  [output |-> o, allowed |-> reason = "none", reason |-> reason]

Deny(o) ==
  /\ o \in Capped
  /\ \E reason \in Refusals(o, OutputRules[o]) : verdict' = Reply(o, reason)
  /\ UNCHANGED <<now, history, nextId>>

Allow(o) ==
  /\ o \in Capped => Refusals(o, FirmRules[o]) = {}
  /\ verdict' = Reply(o, "none")
  /\ IF o \in Capped
     THEN /\ nextId < MaxPresentations
          /\ history' = [history EXCEPT ![CapKey[o]] =
                           @ \cup {[id |-> nextId, at |-> now, by |-> o]}]
          /\ nextId' = nextId + 1
     ELSE UNCHANGED <<history, nextId>>
  /\ UNCHANGED now

Forget ==
  /\ MayForget
  /\ \E lost \in SUBSET Keys :
       history' = [k \in Keys |-> IF k \in lost THEN {} ELSE history[k]]
  /\ UNCHANGED <<now, nextId, verdict>>

Tick == now < MaxTime /\ now' = now + 1 /\ UNCHANGED <<history, nextId, verdict>>

Init ==
  /\ now = Start
  /\ history = [k \in Keys |-> {}]
  /\ nextId = 0
  /\ verdict = [allowed |-> TRUE, reason |-> "none"]

Next ==
  \/ \E o \in Outputs : Allow(o) \/ Deny(o)
  \/ Forget
  \/ Tick

Spec == Init /\ [][Next]_pvars

=============================================================================
