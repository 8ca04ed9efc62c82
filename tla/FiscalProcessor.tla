-------------------------- MODULE FiscalProcessor --------------------------
(***************************************************************************)
(* The emission of an electronic document ("comprobante") to the SRI, the  *)
(* Ecuadorian tax authority, as src/src/application/fiscal-processor.ts    *)
(* does it.  Three kinds of actors work on the same rows of                *)
(* fiscal_invoices, and none of them takes a lock:                         *)
(*                                                                         *)
(*  - the consumer of billing's events, one message at a time;             *)
(*  - the reconciliation job, one pass at a time, over batches of copies;  *)
(*  - the HTTP handlers that retry a document or issue one directly.       *)
(*                                                                         *)
(* Every one reads a row, keeps a copy while it awaits the network, and    *)
(* saves the WHOLE copy.  An action below is the code between two awaits   *)
(* that another actor can observe.                                         *)
(*                                                                         *)
(* What the SRI knows is a growing set of facts per document: the model    *)
(* compares what the rows and the published events say with it.            *)
(***************************************************************************)
EXTENDS Naturals, FiniteSets

CONSTANTS
  Invoices,               \* documents that billing issues and may void
  Directs,                \* withholdings and delivery guides issued here
  Workers,                \* HTTP requests in progress at the same time
  NoDoc,                  \* "no document": an idle actor works on none
  MaxDeliveryAttempts,    \* RETRY_POLICY.maxDeliveryAttempts (10)
  MaxAuthorizationChecks, \* RETRY_POLICY.maxAuthorizationChecks (30)
  MaxFaults,              \* bound: crashes and rejected database writes
  MaxManualRetries,       \* bound: retries a person asks for
  StallingSri             \* the SRI may stall in mid-answer without end

Docs == Invoices \cup Directs

Consumer == "consumer"
Job == "job"
Actors == Workers \cup {Consumer, Job}

ASSUME DocsAssumption == Invoices \cap Directs = {} /\ NoDoc \notin Docs
ASSUME ActorsAssumption == Consumer \notin Workers /\ Job \notin Workers
ASSUME PolicyAssumption ==
  /\ MaxDeliveryAttempts \in Nat \ {0}
  /\ MaxAuthorizationChecks \in Nat \ {0}
  /\ MaxFaults \in Nat
  /\ MaxManualRetries \in Nat
  /\ StallingSri \in BOOLEAN

VARIABLES
  db,       \* fiscal_invoices, one row per document
  outbox,   \* the events published about each document
  sri,      \* what the SRI has established about each document
  voidedAt, \* the invoices that billing has voided
  inbox,    \* billing's messages not yet acknowledged
  requeued, \* documents whose message went back to the queue
  handling, \* the message the consumer is handling
  phase,    \* which batch the job is working through
  batch,    \* the copies of that batch still to be worked on
  pc, doc, copy,   \* per actor: where it is, on what, with which copy
  faults, manual   \* bounded counters

vars == <<db, outbox, sri, voidedAt, inbox, requeued, handling, phase, batch,
          pc, doc, copy, faults, manual>>
queueVars == <<voidedAt, inbox, requeued, handling>>
jobVars == <<phase, batch>>
actorVars == <<pc, doc, copy>>
boundVars == <<faults, manual>>

-----------------------------------------------------------------------------
(***************************************************************************)
(* Rows, events and facts.                                                 *)
(***************************************************************************)

\* "none" is the absence of a row.
Statuses == {"none", "pending", "sent", "authorized", "rejected", "error"}

\* Of next_check_at only its relation to the clock of the next pass matters,
\* of updated_at whether it is older than stalePendingMs.
Row == [status : Statuses, next : {"never", "later", "due"}, retry : Nat,
        voided : BOOLEAN, old : BOOLEAN]

NoRow == [status |-> "none", next |-> "never", retry |-> 0,
          voided |-> FALSE, old |-> FALSE]

\* newRecord, and the row that createNumbered inserts for a direct document.
NewRow == [NoRow EXCEPT !.status = "pending"]

Settled == {"sent", "authorized", "rejected"}

Event == [type : {"sent", "sequence_gap", "authorized", "rejected", "error",
                  "void_requires_action"},
          attention : BOOLEAN]

Published(type, attention) == [type |-> type, attention |-> attention]

Facts == {"received", "returned", "authorized", "notAuthorized"}

NoBatch == [d \in {} |-> NoRow]

Message == {"issued", "voided"} \X Invoices
NoMessage == <<"none", NoDoc>>

Positions == {"idle", "accepted", "emit", "send", "received", "returned",
              "lost", "gap", "query", "yes", "no", "processing", "void", "ack"}

-----------------------------------------------------------------------------
(***************************************************************************)
(* Faulty variants.  No action uses them: a property is trusted once it    *)
(* has been seen to fail with the definition that follows replaced by one. *)
(***************************************************************************)

\* An attempt that fails is not counted.
FailedRowUncounted(row, permanent) ==
  [row EXCEPT !.status = "error", !.old = FALSE,
              !.next = IF permanent THEN "never" ELSE "later"]

\* A document the SRI never decided on is given up as rejected.
UncheckedRowRejected(row) ==
  LET retry == row.retry + 1
      giveUp == retry >= MaxAuthorizationChecks
  IN  [row EXCEPT !.retry = retry, !.old = FALSE,
                  !.status = IF giveUp THEN "rejected" ELSE @,
                  !.next = IF giveUp THEN "never" ELSE "later"]

\* A voided row is taken off the schedule, whatever its status.
VoidedRowUnscheduled(row) ==
  [row EXCEPT !.voided = TRUE, !.old = FALSE, !.next = "never"]

\* The SRI's own word is stored as the status.
SentRowUnmapped(row) ==
  [row EXCEPT !.status = "RECIBIDA", !.retry = 0, !.next = "later", !.old = FALSE]

-----------------------------------------------------------------------------
(***************************************************************************)
(* The rows that the handlers write.                                       *)
(***************************************************************************)

PendingRow(row) ==
  [row EXCEPT !.status = "pending", !.next = "never", !.old = FALSE]

SentRow(row) ==
  [row EXCEPT !.status = "sent", !.retry = 0, !.next = "later", !.old = FALSE]

AuthorizedRow(row) ==
  [row EXCEPT !.status = "authorized", !.next = "never", !.old = FALSE]

RejectedRow(row) ==
  [row EXCEPT !.status = "rejected", !.next = "never", !.old = FALSE]

\* fail(): a validation error waits for a person; anything else is retried,
\* up to maxDeliveryAttempts.
FailedRow(row, permanent) ==
  LET retry == IF permanent THEN row.retry ELSE row.retry + 1
  IN  [row EXCEPT !.status = "error", !.retry = retry, !.old = FALSE,
                  !.next = IF permanent \/ retry >= MaxDeliveryAttempts
                           THEN "never" ELSE "later"]

\* checkAuthorization() without a verdict.
UncheckedRow(row) ==
  LET retry == row.retry + 1
      giveUp == retry >= MaxAuthorizationChecks
  IN  [row EXCEPT !.retry = retry, !.old = FALSE,
                  !.status = IF giveUp THEN "error" ELSE @,
                  !.next = IF giveUp THEN "never" ELSE "later"]

\* processVoided(): what is in the SRI's hands stays scheduled.
VoidedRow(row) ==
  [row EXCEPT !.voided = TRUE, !.old = FALSE,
              !.next = IF row.status \in {"rejected", "error"} THEN "never" ELSE @]

-----------------------------------------------------------------------------
Init ==
  /\ db = [d \in Docs |-> NoRow]
  /\ outbox = [d \in Docs |-> {}]
  /\ sri = [d \in Docs |-> {}]
  /\ voidedAt = {}
  /\ inbox = {"issued"} \X Invoices
  /\ requeued = {}
  /\ handling = NoMessage
  /\ phase = "idle"
  /\ batch = NoBatch
  /\ pc = [a \in Actors |-> "idle"]
  /\ doc = [a \in Actors |-> NoDoc]
  /\ copy = [a \in Actors |-> NoRow]
  /\ faults = 0
  /\ manual = 0

\* store.save(): the whole row and its events in one transaction.
Save(d, row, events) ==
  /\ db' = [db EXCEPT ![d] = row]
  /\ outbox' = [outbox EXCEPT ![d] = @ \cup events]

\* What the queue has to deliver again, out of its order, after a failure.
Requeued == IF handling = NoMessage THEN requeued ELSE requeued \cup {handling[2]}

\* Actor a goes on with document d and the copy row.
GoOn(a, position, d, row) ==
  /\ pc' = [pc EXCEPT ![a] = position]
  /\ doc' = [doc EXCEPT ![a] = d]
  /\ copy' = [copy EXCEPT ![a] = row]

\* The handler returns; the consumer still has to acknowledge the message.
Finish(a) == GoOn(a, IF a = Consumer THEN "ack" ELSE "idle", NoDoc, NoRow)

\* The checks at the head of processIssued(), on the row just read.
MayEmit(row) == ~row.voided /\ row.status \notin Settled

\* The copy with which an emission starts; a manual one restarts the count.
StartingCopy(row, byHand) ==
  LET found == IF row.status = "none" THEN NewRow ELSE row
  IN  IF byHand THEN [found EXCEPT !.retry = 0] ELSE found

\* processIssued() up to its try block, for actor a.
BeginEmission(a, d, row, byHand) ==
  IF MayEmit(row) THEN GoOn(a, "emit", d, StartingCopy(row, byHand)) ELSE Finish(a)

-----------------------------------------------------------------------------
(***************************************************************************)
(* Faulty variants of the actions that follow.                             *)
(***************************************************************************)

\* Giving up after the last attempt rings no bell.
FailQuietly(a, row, permanent) ==
  LET failed == FailedRow(row, permanent)
  IN  /\ Save(doc[a], failed, {Published("error", permanent)})
      /\ Finish(a)

\* A request without an answer counts as received.
SaveSentUnanswered(a) ==
  /\ pc[a] \in {"received", "lost"}
  /\ Save(doc[a], SentRow(copy[a]), {Published("sent", FALSE)})
  /\ \/ Finish(a)
     \/ GoOn(a, "gap", doc[a], SentRow(copy[a]))
  /\ UNCHANGED <<sri, queueVars, jobVars, boundVars>>

\* The row is saved without its event.
SaveRejectedUnpublished(a) ==
  /\ pc[a] = "returned"
  /\ Save(doc[a], RejectedRow(copy[a]), {})
  /\ Finish(a)
  /\ UNCHANGED <<sri, queueVars, jobVars, boundVars>>

\* Only a void that may still lead to an authorization is announced.
SaveVoidedQuietly ==
  /\ pc[Consumer] = "void"
  /\ Save(doc[Consumer], VoidedRow(copy[Consumer]),
          {Published("void_requires_action",
                     copy[Consumer].status \in {"sent", "pending"})})
  /\ Finish(Consumer)
  /\ UNCHANGED <<sri, queueVars, jobVars, boundVars>>

\* A half-done send is looked for by next_check_at, which it does not have.
StalePendingScheduled ==
  {d \in Docs : db[d].status = "pending" /\ db[d].next = "due" /\ ~db[d].voided}

\* A message whose handler failed is not delivered again.
AbandonUnqueued(a) ==
  /\ faults < MaxFaults
  /\ pc[a] \in {"accepted", "emit", "received", "returned", "lost", "gap",
                "yes", "no", "processing", "void"}
  /\ GoOn(a, "idle", NoDoc, NoRow)
  /\ inbox' = IF a = Consumer THEN inbox \ {handling} ELSE inbox
  /\ handling' = IF a = Consumer THEN NoMessage ELSE handling
  /\ faults' = faults + 1
  /\ UNCHANGED <<db, outbox, sri, voidedAt, requeued, jobVars, manual>>

-----------------------------------------------------------------------------
(***************************************************************************)
(* emit() / emitDirect(), signAndSend() and fail(), for any actor.         *)
(***************************************************************************)

\* fail(): the copy becomes an error, published in the same save.
Fail(a, row, permanent) ==
  LET failed == FailedRow(row, permanent)
  IN  /\ Save(doc[a], failed, {Published("error", failed.next = "never")})
      /\ Finish(a)

\* Validation, catalogs, certificate, .p12 or signature failed, or the save as
\* pending did.
PrepareFails(a) ==
  /\ pc[a] = "emit"
  /\ \E permanent \in BOOLEAN : Fail(a, copy[a], permanent)
  /\ UNCHANGED <<sri, queueVars, jobVars, boundVars>>

\* Signed and about to be sent: saved as pending, with no event.
SavePending(a) ==
  /\ pc[a] = "emit"
  /\ Save(doc[a], PendingRow(copy[a]), {})
  /\ GoOn(a, "send", doc[a], PendingRow(copy[a]))
  /\ UNCHANGED <<sri, queueVars, jobVars, boundVars>>

\* sri.send(): the SRI answers, or no usable answer arrives (the request or the
\* answer was lost). A key it already has is answered 43, which counts as
\* received (isAlreadyReceived).
Send(a) ==
  /\ pc[a] = "send"
  /\ \E fact \in {"received", "returned"}, answered \in BOOLEAN :
        /\ "received" \in sri[doc[a]] => fact = "received"
        /\ sri' = [sri EXCEPT ![doc[a]] = @ \cup {fact}]
        /\ GoOn(a, IF answered THEN fact ELSE "lost", doc[a], copy[a])
  /\ UNCHANGED <<db, outbox, queueVars, jobVars, boundVars>>

SendNeverArrives(a) ==
  /\ pc[a] = "send"
  /\ GoOn(a, "lost", doc[a], copy[a])
  /\ UNCHANGED <<db, outbox, sri, queueVars, jobVars, boundVars>>

\* sequenceGapNote() either finds nothing, and the emission is over, or a gap
\* that is then saved with the same copy.
SaveSent(a) ==
  /\ pc[a] = "received"
  /\ Save(doc[a], SentRow(copy[a]), {Published("sent", FALSE)})
  /\ \/ Finish(a)
     \/ GoOn(a, "gap", doc[a], SentRow(copy[a]))
  /\ UNCHANGED <<sri, queueVars, jobVars, boundVars>>

SaveGap(a) ==
  /\ pc[a] = "gap"
  /\ Save(doc[a], copy[a], {Published("sequence_gap", FALSE)})
  /\ Finish(a)
  /\ UNCHANGED <<sri, queueVars, jobVars, boundVars>>

SaveRejected(a) ==
  /\ pc[a] = "returned"
  /\ Save(doc[a], RejectedRow(copy[a]), {Published("rejected", TRUE)})
  /\ Finish(a)
  /\ UNCHANGED <<sri, queueVars, jobVars, boundVars>>

SaveLost(a) ==
  /\ pc[a] = "lost"
  /\ Fail(a, copy[a], FALSE)
  /\ UNCHANGED <<sri, queueVars, jobVars, boundVars>>

\* A save (or the gap query) inside the try block rejects: fail() saves over
\* the copy as it stood, a sent one with its count already reset.
StoreFails(a) ==
  /\ faults < MaxFaults
  /\ \/ pc[a] = "received" /\ Fail(a, SentRow(copy[a]), FALSE)
     \/ pc[a] \in {"gap", "returned"} /\ Fail(a, copy[a], FALSE)
  /\ faults' = faults + 1
  /\ UNCHANGED <<sri, queueVars, jobVars, manual>>

-----------------------------------------------------------------------------
(***************************************************************************)
(* The consumer of billing's events.                                       *)
(***************************************************************************)

BillingVoids(d) ==
  /\ d \in Invoices \ voidedAt
  /\ voidedAt' = voidedAt \cup {d}
  /\ inbox' = inbox \cup {<<"voided", d>>}
  /\ UNCHANGED <<db, outbox, sri, requeued, handling, jobVars, actorVars, boundVars>>

Receive(message) ==
  /\ pc[Consumer] = "idle"
  /\ message \in inbox
  /\ handling' = message
  /\ UNCHANGED <<db, outbox, sri, voidedAt, inbox, requeued, jobVars, boundVars>>

\* invoiceIssuedHandler: processIssued() reads the row.
ReceiveIssued(d) ==
  /\ Receive(<<"issued", d>>)
  /\ BeginEmission(Consumer, d, db[d], FALSE)

\* A void while the job or a retry may be at work is left to them (faulty).
ReceiveVoidedIdle(d) ==
  /\ <<"issued", d>> \in inbox => d \in requeued
  /\ Receive(<<"voided", d>>)
  /\ IF db[d].status \in {"none", "pending"} \/ db[d].voided
     THEN Finish(Consumer)
     ELSE GoOn(Consumer, "void", d, db[d])

\* invoiceVoidedHandler: processVoided() reads the row. Billing publishes the
\* void after the issue; the queue keeps that order until a message goes back.
ReceiveVoided(d) ==
  /\ <<"issued", d>> \in inbox => d \in requeued
  /\ Receive(<<"voided", d>>)
  /\ IF db[d].status = "none" \/ db[d].voided
     THEN Finish(Consumer)
     ELSE GoOn(Consumer, "void", d, db[d])

SaveVoided ==
  /\ pc[Consumer] = "void"
  /\ Save(doc[Consumer], VoidedRow(copy[Consumer]),
          {Published("void_requires_action",
                     copy[Consumer].status \in {"authorized", "sent", "pending"})})
  /\ Finish(Consumer)
  /\ UNCHANGED <<sri, queueVars, jobVars, boundVars>>

Acknowledge ==
  /\ pc[Consumer] = "ack"
  /\ inbox' = inbox \ {handling}
  /\ handling' = NoMessage
  /\ GoOn(Consumer, "idle", NoDoc, NoRow)
  /\ UNCHANGED <<db, outbox, sri, voidedAt, requeued, jobVars, boundVars>>

-----------------------------------------------------------------------------
(***************************************************************************)
(* The HTTP handlers.                                                      *)
(***************************************************************************)

\* POST /fiscal-invoices/:id/retry checks the row ...
AcceptRetry(w, d) ==
  /\ pc[w] = "idle"
  /\ manual < MaxManualRetries
  /\ db[d].status = "error"
  /\ ~db[d].voided
  /\ GoOn(w, "accepted", d, NoRow)
  /\ manual' = manual + 1
  /\ UNCHANGED <<db, outbox, sri, queueVars, jobVars, faults>>

\* ... records the audit event, and onRetry reads the row again. processDirect()
\* and processIssued() refuse a settled row alike; a direct one is never voided.
StartRetry(w) ==
  /\ pc[w] = "accepted"
  /\ BeginEmission(w, doc[w], db[doc[w]], TRUE)
  /\ UNCHANGED <<db, outbox, sri, queueVars, jobVars, boundVars>>

\* POST of a withholding or a guide: createNumbered() commits the row, and
\* processDirect() goes on with that same record.
IssueDirect(w, d) ==
  /\ pc[w] = "idle"
  /\ d \in Directs
  /\ db[d].status = "none"
  /\ Save(d, NewRow, {})
  /\ GoOn(w, "emit", d, NewRow)
  /\ UNCHANGED <<sri, queueVars, jobVars, boundVars>>

-----------------------------------------------------------------------------
(***************************************************************************)
(* The reconciliation job: runDueWork().                                   *)
(***************************************************************************)

Due(status) == {d \in Docs : db[d].status = status /\ db[d].next = "due"}

StalePending == {d \in Docs : db[d].status = "pending" /\ db[d].old /\ ~db[d].voided}

Batch(docs) == [d \in docs |-> db[d]]

\* The batches of a pass, in their order; a pass that would find nothing is
\* left out. `running` keeps a pass from starting inside another.
StartPass ==
  /\ phase = "idle"
  /\ Due("sent") \cup Due("error") \cup StalePending # {}
  /\ phase' = "sent"
  /\ batch' = Batch(Due("sent"))
  /\ UNCHANGED <<db, outbox, sri, queueVars, actorVars, boundVars>>

NextBatch ==
  /\ pc[Job] = "idle"
  /\ DOMAIN batch = {}
  /\ \/ /\ phase = "sent"
        /\ phase' = "error"
        /\ batch' = Batch(Due("error"))
     \/ /\ phase = "error"
        /\ phase' = "stale"
        /\ batch' = Batch(StalePending)
     \/ /\ phase = "stale"
        /\ phase' = "idle"
        /\ batch' = NoBatch
  /\ UNCHANGED <<db, outbox, sri, queueVars, actorVars, boundVars>>

\* The job takes document d out of its batch.
Take(d) ==
  /\ pc[Job] = "idle"
  /\ d \in DOMAIN batch
  /\ batch' = [e \in DOMAIN batch \ {d} |-> batch[e]]
  /\ UNCHANGED <<db, outbox, sri, queueVars, phase, boundVars>>

\* checkAuthorization() works on the copy of the batch as it is.
StartCheck(d) ==
  /\ phase = "sent"
  /\ Take(d)
  /\ GoOn(Job, "query", d, batch[d])

\* retry(): an invoice is read again, a direct document is not.
StartAutoRetry(d) ==
  /\ phase \in {"error", "stale"}
  /\ Take(d)
  /\ BeginEmission(Job, d, IF d \in Directs THEN batch[d] ELSE db[d], FALSE)

\* sri.query(): the verdict, if there is one and the answer is usable.
Query ==
  /\ pc[Job] = "query"
  /\ \/ GoOn(Job, "processing", doc[Job], copy[Job])
     \/ /\ "authorized" \in sri[doc[Job]]
        /\ GoOn(Job, "yes", doc[Job], copy[Job])
     \/ /\ "notAuthorized" \in sri[doc[Job]]
        /\ GoOn(Job, "no", doc[Job], copy[Job])
  /\ UNCHANGED <<db, outbox, sri, queueVars, jobVars, boundVars>>

\* The answer stalls after its headers: response.text() rejects with an error
\* that is no SriUnavailableError, checkAuthorization() rethrows it, and
\* safely() leaves the row as it was.
QueryStalls ==
  /\ pc[Job] = "query"
  /\ StallingSri \/ faults < MaxFaults
  /\ faults' = IF StallingSri THEN faults ELSE faults + 1
  /\ Finish(Job)
  /\ UNCHANGED <<db, outbox, sri, queueVars, jobVars, manual>>

SaveAuthorized ==
  /\ pc[Job] = "yes"
  /\ Save(doc[Job], AuthorizedRow(copy[Job]), {Published("authorized", copy[Job].voided)})
  /\ Finish(Job)
  /\ UNCHANGED <<sri, queueVars, jobVars, boundVars>>

SaveNotAuthorized ==
  /\ pc[Job] = "no"
  /\ Save(doc[Job], RejectedRow(copy[Job]), {Published("rejected", TRUE)})
  /\ Finish(Job)
  /\ UNCHANGED <<sri, queueVars, jobVars, boundVars>>

SaveUnchecked ==
  /\ pc[Job] = "processing"
  /\ LET row == UncheckedRow(copy[Job])
     IN  Save(doc[Job], row,
              IF row.status = "error" THEN {Published("error", TRUE)} ELSE {})
  /\ Finish(Job)
  /\ UNCHANGED <<sri, queueVars, jobVars, boundVars>>

-----------------------------------------------------------------------------
(***************************************************************************)
(* Failures, the clock and the SRI's own work.                             *)
(***************************************************************************)

\* A save rejects and so does the one of fail(), if there is one: the handler
\* ends with nothing written. The consumer's message goes back to the queue.
Abandon(a) ==
  /\ faults < MaxFaults
  /\ pc[a] \in {"accepted", "emit", "received", "returned", "lost", "gap",
                "yes", "no", "processing", "void"}
  /\ GoOn(a, "idle", NoDoc, NoRow)
  /\ requeued' = IF a = Consumer THEN Requeued ELSE requeued
  /\ handling' = IF a = Consumer THEN NoMessage ELSE handling
  /\ faults' = faults + 1
  /\ UNCHANGED <<db, outbox, sri, voidedAt, inbox, jobVars, manual>>

\* The process dies: only the tables, the queue and the SRI remain.
Crash ==
  /\ faults < MaxFaults
  /\ phase' = "idle"
  /\ batch' = NoBatch
  /\ pc' = [a \in Actors |-> "idle"]
  /\ doc' = [a \in Actors |-> NoDoc]
  /\ copy' = [a \in Actors |-> NoRow]
  /\ requeued' = Requeued
  /\ handling' = NoMessage
  /\ faults' = faults + 1
  /\ UNCHANGED <<db, outbox, sri, voidedAt, inbox, manual>>

\* next_check_at passes. A pass compares it with the instant at which the pass
\* began, so what falls due meanwhile waits for the next one.
FallDue(d) ==
  /\ phase = "idle"
  /\ db[d].next = "later"
  /\ db' = [db EXCEPT ![d].next = "due"]
  /\ UNCHANGED <<outbox, sri, queueVars, jobVars, actorVars, boundVars>>

\* stalePendingMs pass over a pending row. No one who saved it is still waiting
\* for the SRI: a send takes at most SRI_TIMEOUT_MS (30 s), far below 10 min.
GrowOld(d) ==
  /\ phase = "idle"
  /\ db[d].status = "pending"
  /\ ~db[d].old
  /\ \A a \in Actors : doc[a] = d => pc[a] \notin {"send", "received", "returned", "lost"}
  /\ db' = [db EXCEPT ![d].old = TRUE]
  /\ UNCHANGED <<outbox, sri, queueVars, jobVars, actorVars, boundVars>>

\* The SRI decides, once, about what it has received.
SriDecides(d) ==
  /\ "received" \in sri[d]
  /\ {"authorized", "notAuthorized"} \cap sri[d] = {}
  /\ \E verdict \in {"authorized", "notAuthorized"} :
        sri' = [sri EXCEPT ![d] = @ \cup {verdict}]
  /\ UNCHANGED <<db, outbox, queueVars, jobVars, actorVars, boundVars>>

-----------------------------------------------------------------------------
Emission(a) ==
  \/ PrepareFails(a) \/ SavePending(a) \/ Send(a) \/ SendNeverArrives(a)
  \/ SaveSent(a) \/ SaveGap(a) \/ SaveRejected(a) \/ SaveLost(a)

Consuming ==
  \/ \E d \in Invoices : ReceiveIssued(d) \/ ReceiveVoided(d)
  \/ SaveVoided
  \/ Acknowledge

Reconciling ==
  \/ StartPass \/ NextBatch
  \/ \E d \in Docs : StartCheck(d) \/ StartAutoRetry(d)
  \/ Query \/ SaveAuthorized \/ SaveNotAuthorized \/ SaveUnchecked

Requesting(w) ==
  \/ StartRetry(w)
  \/ \E d \in Docs : AcceptRetry(w, d) \/ IssueDirect(w, d)

Failing ==
  \/ Crash \/ QueryStalls
  \/ \E a \in Actors : Abandon(a) \/ StoreFails(a)

Next ==
  \/ \E a \in Actors : Emission(a)
  \/ Consuming
  \/ Reconciling
  \/ \E w \in Workers : Requesting(w)
  \/ Failing
  \/ \E d \in Docs : BillingVoids(d) \/ FallDue(d) \/ GrowOld(d) \/ SriDecides(d)

Spec == Init /\ [][Next]_vars

(***************************************************************************)
(* Every handler that started goes on, the consumer takes its messages,    *)
(* the timer fires and time passes.  Nothing makes the SRI receive or      *)
(* decide anything, nor a person ask for a retry.                          *)
(***************************************************************************)
Fairness ==
  /\ \A a \in Actors : WF_vars(Emission(a))
  /\ \A w \in Workers : WF_vars(StartRetry(w))
  /\ WF_vars(Consuming)
  /\ WF_vars(Reconciling)
  /\ \A d \in Docs : WF_vars(FallDue(d)) /\ WF_vars(GrowOld(d))

FairSpec == Spec /\ Fairness

-----------------------------------------------------------------------------
(***************************************************************************)
(* What must hold.                                                         *)
(***************************************************************************)

TypeOK ==
  /\ db \in [Docs -> Row]
  /\ outbox \in [Docs -> SUBSET Event]
  /\ sri \in [Docs -> SUBSET Facts]
  /\ voidedAt \subseteq Invoices
  /\ inbox \subseteq Message
  /\ requeued \subseteq Invoices
  /\ handling \in Message \cup {NoMessage}
  /\ phase \in {"idle", "sent", "error", "stale"}
  /\ DOMAIN batch \subseteq Docs
  /\ batch \in [DOMAIN batch -> Row]
  /\ pc \in [Actors -> Positions]
  /\ doc \in [Actors -> Docs \cup {NoDoc}]
  /\ copy \in [Actors -> Row]
  /\ faults \in 0..MaxFaults
  /\ manual \in 0..MaxManualRetries

\* What a row says the SRI did, given the facts the SRI established.
Truthful(row, facts) ==
  /\ row.status = "sent" => "received" \in facts
  /\ row.status = "authorized" => "authorized" \in facts
  /\ row.status = "rejected" => {"returned", "notAuthorized"} \cap facts # {}

\* The table never claims more than the SRI established: an authorized row was
\* authorized, a rejected one was refused, a sent one was received -- even when
\* overlapping handlers overwrite each other's rows with older copies.
RowsAreTruthful == \A d \in Docs : Truthful(db[d], sri[d])

\* Somebody has been told to look at the document.
Told(events) == \E e \in events : e.attention

\* A row nobody will come back to, by itself, and that is not authorized.
Stopped(row) ==
  \/ row.status = "rejected"
  \/ row.status \in {"sent", "error"} /\ row.next = "never" /\ ~row.voided
  \/ row.status = "pending" /\ row.voided

\* No document stops short of its authorization in silence: once the job will
\* not look at it again, an attention event has been published. Lost copies,
\* exhausted retries and crashes included.
NoSilentStop == \A d \in Docs : Stopped(db[d]) => Told(outbox[d])

\* State and event live or die together: whatever the row says happened has
\* been published, whoever overwrote whom.
StatesArePublished ==
  \A d \in Docs : db[d].status \in {"sent", "authorized", "rejected"} =>
     \E e \in outbox[d] : e.type = db[d].status

\* An invoice that the table shows both authorized and voided needs a person
\* (a credit note, or voiding it in the SRI's site), and one was told.
VoidedAuthorizedIsTold ==
  \A d \in Docs : db[d].status = "authorized" /\ db[d].voided => Told(outbox[d])

\* While the queue keeps the order of billing's events, no void is lost: once
\* its message is gone, an event has told the listeners what becomes of the
\* invoice, whatever the copies that are saved later say of the void.
VoidIsAnnounced ==
  \A d \in voidedAt \ requeued :
     <<"voided", d>> \notin inbox =>
        \E e \in outbox[d] : e.type = "void_requires_action"

(***************************************************************************)
(* Why the four hold: a copy may be stale, never wrong.  Facts and events  *)
(* only accumulate, so whatever was sound when it was read still is when   *)
(* it overwrites something newer.                                          *)
(***************************************************************************)
Sound(row, facts, events) ==
  /\ Truthful(row, facts)
  /\ row.status \in Settled => \E e \in events : e.type = row.status
  /\ Stopped(row) \/ (row.status = "authorized" /\ row.voided) => Told(events)

\* What the code at a position relies on, after its await.
Ready(position, row, facts, events) ==
  /\ Sound(row, facts, events)
  /\ position = "emit" => ~row.voided
  /\ position \in {"received", "returned"} => position \in facts
  /\ position = "yes" => "authorized" \in facts
  /\ position = "no" => "notAuthorized" \in facts

InHand(a) ==
  pc[a] \notin {"idle", "ack"} =>
     doc[a] \in Docs /\ Ready(pc[a], copy[a], sri[doc[a]], outbox[doc[a]])

\* Every row, every copy an actor awaits with and every copy waiting in the
\* job's batch says nothing that was not established and published: saving any
\* of them, in any order, keeps the table sound.
CopiesAreSound ==
  /\ \A d \in Docs : Sound(db[d], sri[d], outbox[d])
  /\ \A d \in DOMAIN batch : Sound(batch[d], sri[d], outbox[d])
  /\ \A a \in Actors : InHand(a)

-----------------------------------------------------------------------------
(***************************************************************************)
(* The promise to the listeners, of which this module is an implementation *)
(***************************************************************************)

\* What has been published about document d, without the events that claim
\* nothing about the SRI.
SaidAbout(d) ==
  {e.type : e \in outbox[d]} \cap {"sent", "authorized", "rejected"}

Promise == INSTANCE Announcements WITH
  Docs <- Docs, known <- sri, said <- [d \in Docs |-> SaidAbout(d)]

\* No event runs ahead of the SRI: accounting books a withholding, and people
\* are told, on the strength of the events alone. Retries, lost answers, stale
\* copies and crashes included.
KeepsPromise == Promise!Spec

-----------------------------------------------------------------------------
(***************************************************************************)
(* What must eventually hold, under FairSpec.                              *)
(***************************************************************************)

\* The SRI has spoken, a person has been told, or billing gave it up before it
\* was received; a voided one that the SRI has is followed to its end.
Ended(d) ==
  \/ db[d].status \in {"authorized", "rejected"}
  \/ db[d].status = "error" /\ db[d].next = "never" /\ Told(outbox[d])
  \/ db[d].voided /\ db[d].status \in {"error", "pending"}

\* Every document that has a row ends, whatever the SRI does or fails to do:
\* the first checks, the retries and the rescue of half-done sends chain up.
EveryDocumentEnds == \A d \in Docs : db[d].status # "none" ~> Ended(d)

\* Every event of billing leaves a row, however often its handler fails.
EveryInvoiceIsTaken == \A d \in Invoices : <>(db[d].status # "none")

\* Left alone, the service stops submitting: no document is sent for ever.
SubmissionsEnd == <>[](\A a \in Actors : pc[a] # "send")

-----------------------------------------------------------------------------
(***************************************************************************)
(* What the repository says of the program and its handlers do not keep    *)
(* when they overlap.  Each has a configuration that refutes it: see the   *)
(* README.                                                                 *)
(***************************************************************************)

\* README.md:36-37: authorized and rejected are terminal states.
SettledIsFinal ==
  [][\A d \in Docs : db[d].status \in {"authorized", "rejected"} =>
       db'[d].status = db[d].status]_vars

\* migrations/20260913120000-fiscal-robustness.cjs:13: billing_voided_at says
\* that billing voided the invoice; billing never takes that back.
VoidIsKept == [][\A d \in Docs : db[d].voided => db'[d].voided]_vars

\* fiscal-processor.ts:570 and the event's own text (:602): an invoice voided
\* before it was sent is not sent.
VoidedIsNotSent ==
  [][\A d \in Docs : db[d].voided /\ sri[d] = {} => sri'[d] = {}]_vars

\* fiscal-processor.ts:568-570: that the SRI authorized an invoice which is
\* voided here has to be known by somebody.
VoidedAtSriIsTold ==
  \A d \in Docs : db[d].voided /\ "authorized" \in sri[d] => Told(outbox[d])

\* fiscal-processor.ts:592: a void while the SRI has the invoice keeps it
\* under consultation, to know whether it ends up authorized.
VoidedIsFollowed ==
  \A d \in Docs :
     db[d].voided /\ db[d].status \in {"sent", "pending"}
        ~> db[d].status \in {"authorized", "rejected", "error"}

\* withholding-event.ts:3: the event is for one authorized withholding, and the
\* repository's README (:128) has accounting book each one it hears of.  Then
\* no document that was authorized is published as authorized again.
AuthorizedIsToldOnce ==
  [][\A d \in Docs :
       SaveAuthorized /\ doc[Job] = d => ~ \E e \in outbox[d] : e.type = "authorized"]_vars

\* fiscal-processor.ts:575: a void whose invoice has no row is of an invoice
\* never processed. Then none of those voids may belong to a row.
VoidIsRecorded ==
  \A d \in voidedAt :
     <<"voided", d>> \notin inbox /\ db[d].status # "none" => db[d].voided

=============================================================================
