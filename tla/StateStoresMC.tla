--------------------------- MODULE StateStoresMC ---------------------------
(* The two stores a decision consults before it shows a placement, each from  *)
(* all the states it can start in: a behaviour is one of the interaction      *)
(* tracker or one of the impression history.  (LocalRuntime has both act.)    *)
EXTENDS InteractionTracker, TLC

CONSTANTS
  Users, Placements,    \* of the history
  OldWindows, MaxRecords,
  HistoryDurations,     \* its Durations
  HistoryTime           \* its MaxTime

VARIABLES
  part,                 \* which of the two acts
  user, records, suppressedCache, explicitCache, known

History == INSTANCE ImpressionHistory WITH
  Durations <- HistoryDurations, MaxTime <- HistoryTime

ASSUME HistoryConstants == History!ConstantsFit

historyVars == <<user, records, suppressedCache, explicitCache, known>>
allVars     == <<vars, part, historyVars>>

\* Users and placements are interchangeable: no property names one.
Symmetry == Permutations(Users) \cup Permutations(Placements)

\* The one that does not act is empty.
StoresInit ==
  \/ /\ part = "interactions" /\ Init
     /\ user \in Users
     /\ records = [u \in Users |-> <<>>]
     /\ suppressedCache = History!Cold /\ explicitCache = History!Nothing
     /\ known = FALSE
  \/ /\ part = "history" /\ History!Init
     /\ state = Empty /\ storage = Empty /\ system = [s \in Slots |-> None]

StoresNext ==
  \/ part = "interactions" /\ Next /\ UNCHANGED <<part, historyVars>>
  \/ part = "history" /\ History!Next /\ UNCHANGED <<part, state, storage, system>>

StoresSpec == StoresInit /\ [][StoresNext]_allVars

\* Both stores hold records and window ends.
StoresTypeOK == TypeOK /\ History!TypeOK

\* What the history hides is hidden by a window of the current user's own records,
\* and once they have been read, their newest windows hide until they end.
OwnWindowsDecide == History!OwnWindowsDecide

\* A query of the history changes no answer, now or later, and reading the store
\* again uncovers nothing that is hidden.
ReadingUncoversNothing == History!ReadingUncoversNothing

=============================================================================
