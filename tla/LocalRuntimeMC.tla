--------------------------- MODULE LocalRuntimeMC ---------------------------
(* One runtime over a Playbook of two entries.  "offer" is looked up by       *)
(* name until its slot is registered, and then competes with fixed content,  *)
(* which a cooldown does not hide but an explicit suppression does.           *)
EXTENDS LocalRuntime

Candidate(rule, category) ==
  [template |-> "banner", rule |-> rule, category |-> category, order |-> 0,
   payload |-> 0, handle |-> "none", slot |-> "none", trial |-> NoTrial,
   usage |-> NoUsage, tier |-> "none", known |-> TRUE, qualified |-> TRUE,
   planned |-> TRUE, segmented |-> TRUE]

ThePlaybook == <<Candidate("offer", "other_conversion"), Candidate("news", "fixed")>>

ThePerson ==
  [active |-> FALSE, state |-> "none", elapsed |-> None, daysLeft |-> None,
   consumed |-> [none |-> [none |-> None]], status |-> [none |-> "none"]]

TheSlots ==
  [r \in {"offer"} |->
     [templates |-> <<"banner">>, name |-> r, id |-> "none", handle |-> "none",
      category |-> "none", status |-> "none", fixedOnly |-> FALSE]]

TheInteractionKey(u, r, t) == u \o ":" \o r \o ":" \o t

TheCapKey == <<"modal:offer", "banner:news">>
NoRule == [count |-> 0, period |-> "none"]
NoCaps == [i \in 1 .. 5 |-> [rule |-> NoRule, cooldownMs |-> -1]]
TheCaps ==
  <<[NoCaps EXCEPT ![2] = [rule |-> [count |-> 2, period |-> "week"], cooldownMs |-> 1]],
    NoCaps>>
Length == [day |-> 1, week |-> 2, month |-> 3]

ASSUME RuntimeFits == RuntimeConstants

\* What is combined: with a window in the impression history only the runtime's
\* user interacts and is recorded, and with a second one nobody has interacted.
Interacted(u) ==
  \E r \in Requests, t \in Treatments :
    LET k == InteractionKey(u, r, t) IN trackerState[k] # Tracker!Empty[k]

HistoryApartFromOthers ==
  /\ \A u \in Users \ {RuntimeUser} :
       (\E v \in Users : records[v] # <<>>) => ~Interacted(u) /\ records[u] = <<>>
  /\ Len(records[RuntimeUser]) > 1 => ~Interacted(RuntimeUser)
=============================================================================
