-------------------------- MODULE ClientContextMC --------------------------
(* What apps do: one that leaves the fetching to the SDK, while purchases     *)
(* move its users; one that signs out and converts; one that renders on the   *)
(* server and fetches by itself.  And what the server begins with: two users  *)
(* of one plan, or of two, the app's and another.                             *)
EXTENDS ClientContext, TLC

CONSTANTS ann, bob, free, pro

Apps ==
  {{"identify", "setUserContext", "update", "purchase"},
   {"identify", "reset", "convert"},
   {"setUserContext", "update", "hydrate", "fetch"}}

Known == {ann :> free @@ bob :> p : p \in {free, pro}}
=============================================================================
