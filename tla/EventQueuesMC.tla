--------------------------- MODULE EventQueuesMC ---------------------------
(* Two users of one browser, one identified with an account.               *)
EXTENDS EventQueues

CONSTANTS ann, bob, acme

TheUsers    == {ann, bob}
TheAccounts == {acme}
Logins      == {<<ann, acme>>, <<bob, NoAccount>>}
=============================================================================
