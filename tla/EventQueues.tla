---------------------------- MODULE EventQueues ----------------------------
(***************************************************************************)
(* The two lanes by which the web SDK reports what a user does:            *)
(* src/web-sdk/customer-side.ts (captureRaw, flushEvents, sendEvents,      *)
(* trackTreatmentInteraction, flushInteractionQueue, dispose) with         *)
(* src/web-sdk/telemetry/delivery.ts.                                      *)
(*                                                                         *)
(* The event lane buffers envelopes, sends a batch when the buffer is      *)
(* full, on a timer or on demand, and retries the same bytes a bounded     *)
(* number of times.  The interaction lane posts its queue whenever an      *)
(* interaction is tracked, and puts a failed batch back.  JavaScript runs  *)
(* a call up to its first await without interruption, and both lanes build *)
(* their request before it, so a call is one step and an answer another.   *)
(*                                                                         *)
(* Data abstractions.  An id stands for an envelope's contents; a tracked  *)
(* interaction and its placement_interaction event share one.  Buffer,     *)
(* queue and batches are sets: requests overlap and no order is promised.  *)
(* The wait between two attempts is part of the attempt that follows it.   *)
(* The stamp of the Playbook release, redaction, fan-out to consumers,     *)
(* counters and error reports are left out.                                *)
(*                                                                         *)
(* An operator named Faulty... is a slip that could be made in the         *)
(* operator it precedes; it models no code and nothing uses it.            *)
(***************************************************************************)
EXTENDS Integers, FiniteSets

CONSTANTS
  Users, Accounts,
  Nobody, NoAccount,   \* no identified user, no identified account
  Identifications,     \* the <<user, account>> pairs the app identifies
  MaxBatch,            \* maxBatchSize
  Retries,             \* attempts after the first, 2 in the code
  MaxId                \* bound on the envelopes

ASSUME QueueConstants ==
  /\ Nobody \notin Users
  /\ NoAccount \notin Accounts
  /\ Identifications \subseteq Users \X (Accounts \cup {NoAccount})
  /\ MaxBatch \in Nat \ {0}
  /\ Retries \in Nat
  /\ MaxId \in Nat

VARIABLES
  mode,                    \* runtime mode and analytics opt-out, fixed at init
  user, account,           \* the identified user and the account it acts for
  consent,                 \* telemetryConsent is 'granted'
  disposed,                \* timer and page listeners are gone
  events, sends,           \* the buffer; event batches in flight
  queue, flushes,          \* interactionQueue; interaction batches in flight
  nextId,                  \* ghost: the next envelope's id
  acting,                  \* ghost: id -> the account acting when it was made
  stored, presented        \* the rows the two endpoints have taken

lifeVars  == <<mode, disposed>>
whoVars   == <<user, account>>
eventVars == <<events, sends>>
queuesVars == <<lifeVars, whoVars, consent, eventVars, queue, flushes,
          nextId, acting, stored, presented>>

Ids == 0 .. MaxId - 1

\* resolveAccountIdentity: the account, or a fallback labelled with the user.
Identity ==
  IF account # NoAccount THEN [account |-> account, fallback |-> Nobody]
                         ELSE [account |-> NoAccount, fallback |-> user]
Identities == [account : Accounts \cup {NoAccount}, fallback : Users \cup {Nobody}]

----------------------------------------------------------------------------
(* The event lane                                                          *)

\* What a flush leaves in the buffer.
Emptied(all) == {}

\* The row of an envelope names the account of the moment it is built.
EventRow(e) == [id |-> e.id, user |-> e.user, account |-> Identity]

\* sendEvents, up to the request: without consent, in local mode and without
\* analytics the batch ends here.
Send(batch) ==
  IF consent /\ mode = "online"
  THEN sends' = sends \cup {[rows |-> {EventRow(e) : e \in batch}, tries |-> 0]}
  ELSE UNCHANGED sends

\* flushEvents
Flush ==
  IF events = {} THEN UNCHANGED eventVars
  ELSE Send(events) /\ events' = Emptied(events)

\* captureRaw past its gates: to the buffer, and a full buffer is flushed.
Buffer(new) ==
  LET all == events \cup new IN
  IF Cardinality(all) >= MaxBatch
  THEN Send(all) /\ events' = Emptied(all)
  ELSE events' = all /\ UNCHANGED sends

\* n fresh envelopes of the identified user.
Envelopes(n) == {[id |-> nextId + i, user |-> user] : i \in 0 .. n - 1}

Take(n) ==
  /\ nextId + n <= MaxId
  /\ nextId' = nextId + n
  /\ acting' = [i \in Ids |-> IF i \in nextId .. nextId + n - 1 THEN Identity ELSE acting[i]]

\* capture; a validation warning makes a second envelope.
Capture(n) ==
  /\ consent /\ user # Nobody
  /\ Take(n)
  /\ Buffer(Envelopes(n))
  /\ UNCHANGED <<lifeVars, whoVars, consent, queue, flushes, stored, presented>>

\* capture with { immediate: true }
CaptureNow(n) ==
  /\ consent /\ user # Nobody
  /\ Take(n)
  /\ Send(Envelopes(n))
  /\ UNCHANGED <<lifeVars, whoVars, consent, events, queue, flushes,
                 stored, presented>>

\* The interval of a live SDK in a browser with a network sink.
TimerFlush ==
  /\ ~disposed /\ mode # "local_only"
  /\ events # {}
  /\ Flush
  /\ UNCHANGED <<lifeVars, whoVars, consent, queue, flushes, nextId, acting,
                 stored, presented>>

\* flushEvents called by the host, or by a page that is being hidden.
FlushEvents ==
  /\ Flush
  /\ UNCHANGED <<lifeVars, whoVars, consent, queue, flushes, nextId, acting,
                 stored, presented>>

\* Only the timer goes.
FaultyDisposeQueues ==
  /\ disposed' = TRUE
  /\ UNCHANGED <<mode, whoVars, consent, eventVars, queue, flushes, nextId,
                 acting, stored, presented>>

\* dispose: the timer and the listeners go, and the buffer is flushed once more.
DisposeQueues ==
  /\ disposed' = TRUE
  /\ Flush
  /\ UNCHANGED <<mode, whoVars, consent, queue, flushes, nextId, acting,
                 stored, presented>>

SettleSend(batch) ==
  /\ sends' = sends \ {batch}
  /\ UNCHANGED events

\* The rows are built again for the next attempt.
FaultyAgain(batch) ==
  [rows |-> {EventRow(r) : r \in batch.rows}, tries |-> batch.tries + 1]

\* The same bytes once more.
Again(batch) == [batch EXCEPT !.tries = @ + 1]

\* Every transient failure is worth another attempt.
FaultyTriesLeft(batch) == TRUE

TriesLeft(batch) == batch.tries < Retries

\* deliverWithRetry on an answer it may retry, or on none.
RetryOrGiveUp(batch) ==
  IF TriesLeft(batch)
  THEN /\ sends' = (sends \ {batch}) \cup {Again(batch)}
       /\ UNCHANGED events
  ELSE SettleSend(batch)

\* The ingest endpoint takes the rows; the answer arrives, or is lost.
Delivered(batch) ==
  /\ stored' = stored \cup batch.rows
  /\ SettleSend(batch) \/ RetryOrGiveUp(batch)

\* Nothing is taken: a status that may be retried or no connection, or a
\* permanent refusal.
Undelivered(batch) ==
  /\ RetryOrGiveUp(batch) \/ SettleSend(batch)
  /\ UNCHANGED stored

AnswerSend ==
  /\ \E batch \in sends : Delivered(batch) \/ Undelivered(batch)
  /\ UNCHANGED <<lifeVars, whoVars, consent, queue, flushes, nextId, acting,
                 presented>>

----------------------------------------------------------------------------
(* The interaction lane                                                    *)

\* The account is resolved when the batch is built.
FaultyInteractionRow(i) == [i EXCEPT !.account = Identity]

\* An interaction's row names the account it was tracked for.
InteractionRow(i) == i

\* flushInteractionQueue of all of them, up to the request; local mode drops them.
FlushInteractions(all) ==
  /\ queue' = {}
  /\ flushes' = IF mode = "local_only" THEN flushes
                ELSE flushes \cup {{InteractionRow(i) : i \in all}}

\* trackTreatmentInteraction: queue, flush, and the placement_interaction event.
Track ==
  /\ user # Nobody
  /\ Take(1)
  /\ FlushInteractions(queue \cup {[id |-> nextId, user |-> user, account |-> Identity]})
  /\ IF consent THEN Buffer(Envelopes(1)) ELSE UNCHANGED eventVars
  /\ UNCHANGED <<lifeVars, whoVars, consent, stored, presented>>

\* A failed batch is dropped.
FaultyRequeued(rows) == {}

\* failInteractionFlush: the batch goes back to wait for the next interaction.
Requeued(rows) == rows

\* The endpoint takes the rows or not, and says so or not.
AnswerFlush ==
  /\ \E rows \in flushes :
       /\ flushes' = flushes \ {rows}
       /\ \/ presented' = presented \cup rows /\ UNCHANGED queue
          \/ presented' = presented \cup rows /\ queue' = queue \cup Requeued(rows)
          \/ UNCHANGED presented /\ queue' = queue \cup Requeued(rows)
  /\ UNCHANGED <<lifeVars, whoVars, consent, eventVars, nextId, acting, stored>>

----------------------------------------------------------------------------
(* The application                                                         *)

\* identify: another user starts without an account, the same one keeps theirs.
IdentifyAs(u, a) ==
  /\ user' = u
  /\ account' = IF a # NoAccount THEN a ELSE IF u = user THEN account ELSE NoAccount
  /\ UNCHANGED <<lifeVars, consent, eventVars, queue, flushes, nextId, acting,
                 stored, presented>>

\* clearAllUserState; neither lane is flushed or emptied.
ClearAllUserState ==
  /\ user' = Nobody
  /\ account' = NoAccount
  /\ UNCHANGED <<lifeVars, consent, eventVars, queue, flushes, nextId, acting,
                 stored, presented>>

SetTelemetryConsent(granted) ==
  /\ consent' = granted
  /\ UNCHANGED <<lifeVars, whoVars, eventVars, queue, flushes, nextId, acting,
                 stored, presented>>

QueuesInit ==
  /\ mode \in {"online", "local_only", "no_analytics"}
  /\ user = Nobody
  /\ account = NoAccount
  /\ consent \in BOOLEAN
  /\ disposed = FALSE
  /\ events = {} /\ sends = {} /\ queue = {} /\ flushes = {}
  /\ nextId = 0
  /\ acting = [i \in Ids |-> [account |-> NoAccount, fallback |-> Nobody]]
  /\ stored = {} /\ presented = {}

QueuesNext ==
  \/ \E n \in 1 .. 2 : Capture(n) \/ CaptureNow(n)
  \/ Track
  \/ TimerFlush
  \/ FlushEvents
  \/ AnswerSend
  \/ AnswerFlush
  \/ DisposeQueues
  \/ \E ua \in Identifications : IdentifyAs(ua[1], ua[2])
  \/ ClearAllUserState
  \/ \E granted \in BOOLEAN : SetTelemetryConsent(granted)

\* The interval fires again and again, and every request ends, if only in a
\* network error.
QueuesFairness == WF_queuesVars(TimerFlush) /\ WF_queuesVars(AnswerSend)

QueuesSpec == QueuesInit /\ [][QueuesNext]_queuesVars /\ QueuesFairness

----------------------------------------------------------------------------
(* Properties                                                              *)

Envelope == [id : Ids, user : Users]
Row      == [id : Ids, user : Users, account : Identities]

\* The two lanes hold what the code's types allow.
QueuesTypeOK ==
  /\ mode \in {"online", "local_only", "no_analytics"}
  /\ user \in Users \cup {Nobody}
  /\ account \in Accounts \cup {NoAccount}
  /\ consent \in BOOLEAN
  /\ disposed \in BOOLEAN
  /\ events \subseteq Envelope
  /\ sends \subseteq [rows : SUBSET Row, tries : 0 .. Retries]
  /\ queue \subseteq Row
  /\ flushes \subseteq SUBSET Row
  /\ nextId \in 0 .. MaxId
  /\ acting \in [Ids -> Identities]
  /\ stored \subseteq Row
  /\ presented \subseteq Row

\* Whatever is retried, flushed twice or answered late, an event becomes at most
\* one row: every copy the endpoint takes is the same bytes, which it collapses.
OneRowPerEvent == \A r, s \in stored : r.id = s.id => r = s

\* An interaction is reported for the account it was tracked for, although its
\* batch may fail and wait until another user has been identified.
InteractionAccountKept == \A p \in presented : p.account = acting[p.id]

Tracked == {i.id : i \in queue} \cup {r.id : r \in UNION flushes} \cup {p.id : p \in presented}

\* With a network sink, an interaction once queued or in flight stays so until
\* the endpoint has taken it: no failure, switch, sign-out or dispose loses one.
NoInteractionLost ==
  [][mode # "local_only" => \A i \in Ids : i \in Tracked => i \in Tracked']_queuesVars

\* The event row and the interaction row of one interaction name one account:
\* "the two lanes must be byte-identical or the funnel joins nothing".
LanesAgree == \A r \in stored, p \in presented : r.id = p.id => r.account = p.account

Buffered(i) == i \in {e.id : e \in events}
Sending(i) == \E batch \in sends : i \in {r.id : r \in batch.rows}

\* An event captured by a live SDK is sent, given up or dropped in the end: by
\* the timer, or by the flush that dispose leaves behind.
EveryEventSettles ==
  \A i \in Ids :
    (Buffered(i) /\ ~disposed /\ mode # "local_only") ~> (~Buffered(i) /\ ~Sending(i))

=============================================================================
