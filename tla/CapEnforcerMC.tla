--------------------------- MODULE CapEnforcerMC ---------------------------
(* Instances of CapEnforcer for TLC.  Windows are shrunk to a few ticks but *)
(* keep their order day < week < month; every output and key below is one   *)
(* a Playbook can author.                                                   *)
EXTENDS CapEnforcer

Length == [day |-> 1, week |-> 2, month |-> 3]

Block(count, period, cooldown) ==
  [rule |-> [count |-> count, period |-> period], cooldownMs |-> cooldown]
CooldownOnly(cooldown) == [rule |-> NoRule, cooldownMs |-> cooldown]

\* Caps on the output and on its content.
Two(atOutput, atContent) ==
  [i \in Roots |-> CASE i = 1 -> atOutput [] i = 2 -> atContent [] OTHER -> NoBlock]

\* "k": two outputs that share a key (same surface and output id, different
\* content) with one window length.  "m": windows of several lengths, the narrow
\* one first and last.  "l": a lifetime cap, and an output without caps.
TheOutputs == {"twice", "rested", "narrowFirst", "wideFirst", "once", "uncapped"}
TheKey ==
  [twice |-> "k", rested |-> "k", narrowFirst |-> "m", wideFirst |-> "m",
   once |-> "l", uncapped |-> "l"]
TheCaps ==
  [twice       |-> Two(Block(2, "week", 0), NoBlock),
   rested      |-> Two(Block(3, "week", 1), CooldownOnly(2)),
   narrowFirst |-> Two(Block(1, "day", 0), Block(2, "month", 0)),
   wideFirst   |-> Two(Block(3, "session", 1), Block(2, "day", 0)),
   once        |-> Two(NoBlock, Block(1, "lifetime", 0)),
   uncapped    |-> Two(NoBlock, NoBlock)]

\* Keys share the storage and nothing else: "k" and "m" are presented under one
\* at a time, and besides a presentation of "l" only up to three presentations.
KeysApart ==
  /\ shown["k"] = {} \/ shown["m"] = {}
  /\ shown["l"] = {} \/ nextId <= 3

\* One output with a daily and a lifetime cap, as authored in a Playbook.
DailyOutputs == {"offer"}
DailyKey == [offer |-> "k"]
DailyCaps == [offer |-> Two(Block(1, "day", 0), Block(2, "lifetime", 0))]
=============================================================================
