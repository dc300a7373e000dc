------------------------- MODULE ImpressionHistory -------------------------
(***************************************************************************)
(* Impression history: src/server-rust/src/state/impression_history.rs     *)
(* over the store of impression_history_stores.rs.                         *)
(*                                                                         *)
(* The store keeps per user a list of records, oldest first.  The history  *)
(* serves one user at a time and answers "is this placement hidden?" from  *)
(* two caches of window ends: one of every window, which starts cold and   *)
(* is read for the categories a cooldown applies to, and one of explicit   *)
(* suppressions, which hide every category.                                *)
(*                                                                         *)
(* Data abstractions.  A record keeps its placement, its outcome and the   *)
(* end of its window (suppressUntil), 0 when it has none; a cached window  *)
(* that is absent is 0 too, which every comparison with the clock treats   *)
(* as a window that ended.  Reading the history (query_history) and the    *)
(* retirement queries, which are constant, change nothing and are left out *)
(* together with the retired cache nobody's answer depends on.             *)
(*                                                                         *)
(* An operator named Faulty... is a slip that could be made in the         *)
(* operator it precedes; it models no code and nothing uses it.            *)
(***************************************************************************)
EXTENDS Integers, Sequences, FiniteSets

CONSTANTS
  Users,          \* user ids the history can be switched to
  Placements,     \* placement ids
  Durations,      \* lengths of dismissals and suppressions, defaults included
  OldWindows,     \* ends of windows found on conversions of an earlier release
  MaxRecords,     \* bound on the records of the store
  MaxTime         \* bound on the clock

Windowed == {"dismissed", "clicked_thru", "suppressed"}
Outcomes == {"impressed", "cta_completed"} \cup Windowed

Categories == {"gated", "fixed", "triggered"}
Exempt     == {"gated", "fixed"}        \* category_bucket <= 1

\* What the parameters must be.
ConstantsFit ==
  /\ Durations \subseteq Nat \ {0}
  /\ OldWindows \subseteq Nat \ {0}
  /\ MaxRecords \in Nat
  /\ MaxTime \in Nat

VARIABLES
  now,              \* the injected clock
  user,             \* user_id
  records,          \* the store: user -> records, oldest first
  suppressedCache,  \* placement -> end of its window, or Cold
  explicitCache,    \* placement -> end of its explicit suppression
  known             \* ghost: the user's stored history has been read or erased

caches == <<suppressedCache, explicitCache>>
vars   == <<now, user, records, suppressedCache, explicitCache, known>>

None    == 0
Cold    == <<>>                       \* no map at all
Nothing == [p \in Placements |-> None]
Records == [placement : Placements, outcome : Outcomes, until : Nat]

----------------------------------------------------------------------------
(* Recording: append_record and append_suppressing_record                  *)

Append1(p, outcome, until) ==
  /\ Cardinality(UNION {{u} \X DOMAIN records[u] : u \in Users}) < MaxRecords
  /\ records' = [records EXCEPT ![user] =
                   Append(@, [placement |-> p, outcome |-> outcome, until |-> until])]

\* record_impression and record_conversion: no window.
RecordPlain(p, outcome) ==
  /\ Append1(p, outcome, None)
  /\ UNCHANGED <<now, user, caches, known>>

\* The cache a new window is entered in; a cold one becomes a warm one.
Warm == IF suppressedCache = Cold THEN Nothing ELSE suppressedCache

\* The explicit cache after a record of this outcome.
Explicit(p, outcome, until) ==
  IF outcome = "suppressed" THEN [explicitCache EXCEPT ![p] = until] ELSE explicitCache

\* record_dismissal, record_click_thru and record_suppression: the window goes
\* to the store and to the caches, where it replaces the one that is there.
RecordWindow(p, outcome, ms) ==
  LET until == now + ms IN
  /\ Append1(p, outcome, until)
  /\ explicitCache' = Explicit(p, outcome, until)
  /\ suppressedCache' = [Warm EXCEPT ![p] = until]
  /\ UNCHANGED <<now, user, known>>

----------------------------------------------------------------------------
(* Queries: is_hidden_for_category_sync and is_suppressed_sync             *)

SuppressedAt(p, t) == suppressedCache # Cold /\ suppressedCache[p] > t

\* The answer for a placement of this category at time t.
HiddenAt(p, category, t) ==
  explicitCache[p] > t \/ (category \notin Exempt /\ SuppressedAt(p, t))

Hidden(p, category) == HiddenAt(p, category, now)

\* The lookup consumes the window, running or not.
FaultyAsk(asked) ==
  /\ explicitCache' = [p \in Placements |->
       IF explicitCache[p] <= now THEN None ELSE explicitCache[p]]
  /\ suppressedCache' =
       IF suppressedCache = Cold THEN Cold
       ELSE [p \in Placements |->
               IF \E c \in Categories \ Exempt : <<p, c>> \in asked
               THEN None ELSE suppressedCache[p]]

\* A query evicts the expired window it finds.  "asked" holds the placements
\* and categories of the queries one caller makes in a row; the explicit window
\* is looked up first, and the other one only when the category calls for it.
Ask(asked) ==
  LET Looked(p) == \E c \in Categories : <<p, c>> \in asked
      Passed(p) == explicitCache[p] <= now
                     /\ \E c \in Categories \ Exempt : <<p, c>> \in asked
  IN
  /\ explicitCache' = [p \in Placements |->
       IF Looked(p) /\ explicitCache[p] <= now THEN None ELSE explicitCache[p]]
  /\ suppressedCache' =
       IF suppressedCache = Cold THEN Cold
       ELSE [p \in Placements |->
               IF Passed(p) /\ suppressedCache[p] <= now THEN None ELSE suppressedCache[p]]

IsHidden(p, category) ==
  /\ UNCHANGED <<now, user, records, known>>
  /\ Ask({<<p, category>>})

\* The public query without a category.
IsSuppressed(p) ==
  /\ UNCHANGED <<now, user, records, explicitCache, known>>
  /\ suppressedCache' =
       IF suppressedCache = Cold \/ SuppressedAt(p, now) THEN suppressedCache
       ELSE [suppressedCache EXCEPT ![p] = None]

----------------------------------------------------------------------------
(* Lifecycle                                                               *)

\* Newest first, the first record of p with a window that still runs; expired
\* ones are stepped over.
Running(p, outcomes) ==
  {i \in DOMAIN records[user] :
     LET r == records[user][i] IN
     r.placement = p /\ r.outcome \in outcomes /\ r.until > now}

NewestOf(indices) ==
  IF indices = {} THEN None
  ELSE records[user][CHOOSE i \in indices : \A j \in indices : j <= i].until

\* extract_suppressed_placements: a conversion's window does not count.
StoredWindows == [p \in Placements |-> NewestOf(Running(p, Outcomes \ {"cta_completed"}))]

StoredExplicit == [p \in Placements |-> NewestOf(Running(p, {"suppressed"}))]

Hydrate ==
  /\ UNCHANGED <<now, user, records>>
  /\ known' = TRUE
  /\ suppressedCache' = StoredWindows
  /\ explicitCache' = StoredExplicit

\* reset: this user's history is erased and known to be empty.
Reset ==
  /\ records' = [records EXCEPT ![user] = <<>>]
  /\ suppressedCache' = Nothing
  /\ explicitCache' = Nothing
  /\ known' = TRUE
  /\ UNCHANGED <<now, user>>

\* The caches stay.
FaultySetUserId(u) ==
  /\ user' = u
  /\ UNCHANGED <<now, records, caches, known>>

\* set_user_id: the caches go cold.
SetUserId(u) ==
  /\ user' = u
  /\ suppressedCache' = Cold
  /\ explicitCache' = Nothing
  /\ known' = FALSE
  /\ UNCHANGED <<now, records>>

Tick ==
  /\ now < MaxTime
  /\ now' = now + 1
  /\ UNCHANGED <<user, records, caches, known>>

\* A store that outlives the history may hold conversions of a release in
\* which they still opened a window.
OldHistories ==
  {<<>>} \cup
  {<<[placement |-> p, outcome |-> "cta_completed", until |-> w]>> :
     p \in Placements, w \in OldWindows}

Init ==
  /\ now = 1
  /\ user \in Users
  /\ records \in [Users -> OldHistories]
  /\ suppressedCache = Cold
  /\ explicitCache = Nothing
  /\ known = FALSE

Next ==
  \/ \E p \in Placements, outcome \in Outcomes \ Windowed : RecordPlain(p, outcome)
  \/ \E p \in Placements, outcome \in Windowed, ms \in Durations :
       RecordWindow(p, outcome, ms)
  \/ \E p \in Placements, c \in Categories : IsHidden(p, c)
  \/ \E p \in Placements : IsSuppressed(p)
  \/ Hydrate
  \/ Reset
  \/ \E u \in Users : SetUserId(u)
  \/ Tick

Spec == Init /\ [][Next]_vars

----------------------------------------------------------------------------
(* Properties                                                              *)

\* Store and caches hold records and window ends.
TypeOK ==
  /\ now \in Nat
  /\ user \in Users
  /\ records \in [Users -> Seq(Records)]
  /\ suppressedCache \in [Placements -> Nat] \cup {Cold}
  /\ explicitCache \in [Placements -> Nat]
  /\ known \in BOOLEAN

\* A window the current user's own history accounts for.
Accounted(p, until, outcomes) ==
  \E i \in DOMAIN records[user] :
    LET r == records[user][i] IN
    r.placement = p /\ r.outcome \in outcomes /\ r.until = until

\* Nothing is hidden but by a window of this user's own history: a change of
\* user, a reset and a conversion (however old) leave nothing behind that hides.
OnlyOwnWindowsHide ==
  \A p \in Placements :
    /\ SuppressedAt(p, now) => Accounted(p, suppressedCache[p], Windowed)
    /\ explicitCache[p] > now => Accounted(p, explicitCache[p], {"suppressed"})

\* The end of the newest window of p in the history.
NewestWindow(p, outcomes) ==
  NewestOf({i \in DOMAIN records[user] :
              LET r == records[user][i] IN r.placement = p /\ r.outcome \in outcomes})

\* Once a user's history has been read, the newest window of every placement
\* hides it until the window ends, and an explicit one in every category: no
\* query, eviction, later record of another placement or second hydrate
\* uncovers it.
KnownWindowsHide ==
  known =>
    \A p \in Placements, c \in Categories :
      /\ NewestWindow(p, {"suppressed"}) > now => Hidden(p, c)
      /\ NewestWindow(p, Windowed) > now /\ c \notin Exempt => Hidden(p, c)

\* What hides is a window of the current user's own records, and once they have
\* been read, their newest windows do hide until they end.
OwnWindowsDecide == OnlyOwnWindowsHide /\ KnownWindowsHide

SameAnswers ==
  \A p \in Placements, c \in Categories, t \in now .. 2 * MaxTime :
    HiddenAt(p, c, t)' = HiddenAt(p, c, t)

\* Asking is free of consequences: a query evicts only windows that ended, and
\* no answer changes for any placement, category or later time.
AskingChangesNoAnswer ==
  [][\A p \in Placements :
       IsSuppressed(p) \/ (\E c \in Categories : IsHidden(p, c)) => SameAnswers]_vars

\* Reading the store again uncovers nothing that is hidden now.
HydrateUncoversNothing ==
  [][Hydrate =>
       \A p \in Placements, c \in Categories : Hidden(p, c) => Hidden(p, c)']_vars

\* No read of the history makes a hidden placement visible: a query changes no
\* answer, now or later, and a second hydrate uncovers nothing.
ReadingUncoversNothing == AskingChangesNoAnswer /\ HydrateUncoversNothing

=============================================================================
