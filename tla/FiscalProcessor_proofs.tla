----------------------- MODULE FiscalProcessor_proofs -----------------------
(***************************************************************************)
(* Proofs, for every number of documents, requests, faults and retries, of *)
(* the safety properties that the runs of FiscalProcessor check.           *)
(***************************************************************************)
EXTENDS FiscalProcessor, TLAPS

-----------------------------------------------------------------------------
(***************************************************************************)
(* Types.                                                                  *)
(***************************************************************************)

\* The rows that the handlers write are rows.
LEMMA RowsTyped ==
  /\ NoRow \in Row /\ NewRow \in Row
  /\ \A row \in Row :
       /\ PendingRow(row) \in Row /\ SentRow(row) \in Row /\ AuthorizedRow(row) \in Row
       /\ RejectedRow(row) \in Row /\ UncheckedRow(row) \in Row /\ VoidedRow(row) \in Row
       /\ [row EXCEPT !.next = "due"] \in Row /\ [row EXCEPT !.old = TRUE] \in Row
       /\ \A byHand \in BOOLEAN : StartingCopy(row, byHand) \in Row
       /\ \A permanent \in BOOLEAN : FailedRow(row, permanent) \in Row
<1>1. NoRow \in Row /\ NewRow \in Row
  BY DEF Row, NoRow, NewRow, Statuses
<1>2. ASSUME NEW row \in Row
      PROVE  /\ PendingRow(row) \in Row /\ SentRow(row) \in Row /\ AuthorizedRow(row) \in Row
             /\ RejectedRow(row) \in Row
             /\ [row EXCEPT !.next = "due"] \in Row /\ [row EXCEPT !.old = TRUE] \in Row
  BY DEF Row, Statuses, PendingRow, SentRow, AuthorizedRow, RejectedRow
<1>3. ASSUME NEW row \in Row
      PROVE  VoidedRow(row) \in Row
  <2>1. CASE row.status \in {"rejected", "error"}
    BY <2>1 DEF Row, VoidedRow
  <2>2. CASE row.status \notin {"rejected", "error"}
    BY <2>2 DEF Row, VoidedRow
  <2>3. QED BY <2>1, <2>2
<1>4. ASSUME NEW row \in Row
      PROVE  UncheckedRow(row) \in Row
  <2> DEFINE counted(retry, status, next) ==
        [row EXCEPT !.retry = retry, !.old = FALSE, !.status = status, !.next = next]
  <2>1. \A retry \in Nat, status \in Statuses, next \in {"never", "later"} :
          counted(retry, status, next) \in Row
    BY DEF Row
  <2>2. row.status \in Statuses /\ row.retry + 1 \in Nat /\ "error" \in Statuses
    BY DEF Row, Statuses
  <2>3. UncheckedRow(row) \in {counted(row.retry + 1, "error", "never"),
                               counted(row.retry + 1, row.status, "later")}
    <3>1. CASE row.retry + 1 >= MaxAuthorizationChecks
      BY <3>1 DEF UncheckedRow
    <3>2. CASE ~(row.retry + 1 >= MaxAuthorizationChecks)
      BY <3>2 DEF UncheckedRow
    <3>3. QED BY <3>1, <3>2
  <2> HIDE DEF counted
  <2>4. QED BY <2>1, <2>2, <2>3
<1>5. ASSUME NEW row \in Row, NEW byHand \in BOOLEAN
      PROVE  StartingCopy(row, byHand) \in Row
  BY <1>1 DEF Row, StartingCopy
<1>6. ASSUME NEW row \in Row, NEW permanent \in BOOLEAN
      PROVE  FailedRow(row, permanent) \in Row
  <2> DEFINE failed(retry, next) ==
        [row EXCEPT !.status = "error", !.retry = retry, !.old = FALSE, !.next = next]
  <2>1. \A retry \in Nat, next \in {"never", "later"} : failed(retry, next) \in Row
    BY DEF Row, Statuses
  <2>2. row.retry \in Nat /\ row.retry + 1 \in Nat
    BY DEF Row
  <2>3. \E retry \in {row.retry, row.retry + 1}, next \in {"never", "later"} :
          FailedRow(row, permanent) = failed(retry, next)
    BY DEF FailedRow
  <2> HIDE DEF failed
  <2>4. QED BY <2>1, <2>2, <2>3
<1>7. QED BY <1>1, <1>2, <1>3, <1>4, <1>5, <1>6

\* The events that the handlers publish are events.
LEMMA EventsTyped ==
  /\ \A type \in {"sent", "sequence_gap", "authorized", "rejected", "error",
                   "void_requires_action"}, attention \in BOOLEAN :
       /\ {Published(type, attention)} \in SUBSET Event
       /\ Published(type, attention).type = type
       /\ Published(type, attention).attention = attention
  /\ {} \in SUBSET Event
BY DEF Published, Event

\* Moving an actor and saving a row keep their variables' types.
LEMMA GoOnTyped ==
  ASSUME TypeOK, NEW a \in Actors, NEW position \in Positions,
         NEW d \in Docs \cup {NoDoc}, NEW row \in Row, GoOn(a, position, d, row)
  PROVE  /\ pc' \in [Actors -> Positions]
         /\ doc' \in [Actors -> Docs \cup {NoDoc}]
         /\ copy' \in [Actors -> Row]
BY DEF TypeOK, GoOn

\* A handler that returns leaves the actors in their types.
LEMMA FinishTyped ==
  ASSUME TypeOK, NEW a \in Actors, Finish(a)
  PROVE  /\ pc' \in [Actors -> Positions]
         /\ doc' \in [Actors -> Docs \cup {NoDoc}]
         /\ copy' \in [Actors -> Row]
BY GoOnTyped, RowsTyped DEF Finish, Positions

\* A save keeps the rows and the events in their types.
LEMMA SaveTyped ==
  ASSUME TypeOK, NEW d, NEW row \in Row, NEW events \in SUBSET Event, Save(d, row, events)
  PROVE  db' \in [Docs -> Row] /\ outbox' \in [Docs -> SUBSET Event]
BY DEF TypeOK, Save

\* fail() keeps the types of everything it writes.
LEMMA FailTyped ==
  ASSUME TypeOK, NEW a \in Actors, NEW row \in Row, NEW permanent \in BOOLEAN,
         Fail(a, row, permanent)
  PROVE  /\ db' \in [Docs -> Row] /\ outbox' \in [Docs -> SUBSET Event]
         /\ pc' \in [Actors -> Positions]
         /\ doc' \in [Actors -> Docs \cup {NoDoc}]
         /\ copy' \in [Actors -> Row]
<1>1. FailedRow(row, permanent) \in Row
  BY RowsTyped
<1>2. {Published("error", FailedRow(row, permanent).next = "never")} \in SUBSET Event
  BY DEF Published, Event
<1> QED BY <1>1, <1>2, SaveTyped, FinishTyped DEF Fail

\* An emission that begins, or declines to, keeps the actors in their types.
LEMMA BeginTyped ==
  ASSUME TypeOK, NEW a \in Actors, NEW d \in Docs, NEW row \in Row, NEW byHand \in BOOLEAN,
         BeginEmission(a, d, row, byHand)
  PROVE  /\ pc' \in [Actors -> Positions]
         /\ doc' \in [Actors -> Docs \cup {NoDoc}]
         /\ copy' \in [Actors -> Row]
<1>1. StartingCopy(row, byHand) \in Row /\ "emit" \in Positions
  BY RowsTyped DEF Positions
<1> QED BY <1>1, GoOnTyped, FinishTyped DEF BeginEmission

\* The types of what every actor has at hand.
LEMMA AtHand ==
  ASSUME TypeOK, NEW a \in Actors
  PROVE  /\ copy[a] \in Row
         /\ pc[a] \in Positions
         /\ doc[a] \in Docs \cup {NoDoc}
BY DEF TypeOK

\* The steps of emit(), signAndSend() and fail() keep the types.
LEMMA EmissionTyped ==
  ASSUME TypeOK, NEW a \in Actors, Emission(a)
  PROVE  TypeOK'
<1>0. copy[a] \in Row /\ doc[a] \in Docs \cup {NoDoc}
  BY AtHand
<1>1. CASE PrepareFails(a)
  BY <1>0, <1>1, FailTyped
  DEF PrepareFails, TypeOK, queueVars, jobVars, boundVars
<1>2. CASE SavePending(a)
  <2>1. PendingRow(copy[a]) \in Row /\ "send" \in Positions /\ {} \in SUBSET Event
    BY <1>0, RowsTyped DEF Positions
  <2> QED BY <1>0, <1>2, <2>1, SaveTyped, GoOnTyped
          DEF SavePending, TypeOK, queueVars, jobVars, boundVars
<1>3. CASE Send(a)
  <2>1. PICK fact \in {"received", "returned"}, answered \in BOOLEAN :
          /\ sri' = [sri EXCEPT ![doc[a]] = @ \cup {fact}]
          /\ GoOn(a, IF answered THEN fact ELSE "lost", doc[a], copy[a])
    BY <1>3 DEF Send
  <2>2. sri' \in [Docs -> SUBSET Facts]
    BY <2>1 DEF TypeOK, Facts
  <2>3. (IF answered THEN fact ELSE "lost") \in Positions
    BY DEF Positions
  <2> QED BY <1>0, <1>3, <2>1, <2>2, <2>3, GoOnTyped
          DEF Send, TypeOK, queueVars, jobVars, boundVars
<1>4. CASE SendNeverArrives(a)
  <2>1. "lost" \in Positions
    BY DEF Positions
  <2> QED BY <1>0, <1>4, <2>1, GoOnTyped
          DEF SendNeverArrives, TypeOK, queueVars, jobVars, boundVars
<1>5. CASE SaveSent(a)
  <2>1. SentRow(copy[a]) \in Row /\ "gap" \in Positions
    BY <1>0, RowsTyped DEF Positions
  <2>2. {Published("sent", FALSE)} \in SUBSET Event
    BY EventsTyped
  <2> QED BY <1>0, <1>5, <2>1, <2>2, SaveTyped, FinishTyped, GoOnTyped
          DEF SaveSent, TypeOK, queueVars, jobVars, boundVars
<1>6. CASE SaveGap(a)
  <2>1. {Published("sequence_gap", FALSE)} \in SUBSET Event
    BY EventsTyped
  <2> QED BY <1>0, <1>6, <2>1, SaveTyped, FinishTyped
          DEF SaveGap, TypeOK, queueVars, jobVars, boundVars
<1>7. CASE SaveRejected(a)
  <2>1. RejectedRow(copy[a]) \in Row
    BY <1>0, RowsTyped
  <2>2. {Published("rejected", TRUE)} \in SUBSET Event
    BY EventsTyped
  <2> QED BY <1>0, <1>7, <2>1, <2>2, SaveTyped, FinishTyped
          DEF SaveRejected, TypeOK, queueVars, jobVars, boundVars
<1>8. CASE SaveLost(a)
  BY <1>0, <1>8, FailTyped DEF SaveLost, TypeOK, queueVars, jobVars, boundVars
<1> QED BY <1>1, <1>2, <1>3, <1>4, <1>5, <1>6, <1>7, <1>8 DEF Emission

\* The steps of the consumer of billing's events keep the types.
LEMMA ConsumingTyped ==
  ASSUME TypeOK, Consuming
  PROVE  TypeOK'
<1>0. Consumer \in Actors /\ copy[Consumer] \in Row
  BY AtHand DEF Actors
<1>1. CASE \E d \in Invoices : ReceiveIssued(d)
  <2>1. PICK d \in Invoices : ReceiveIssued(d)
    BY <1>1
  <2>2. d \in Docs /\ db[d] \in Row /\ <<"issued", d>> \in Message
    BY DEF Docs, TypeOK, Message
  <2> QED BY <1>0, <2>1, <2>2, BeginTyped
          DEF ReceiveIssued, Receive, TypeOK, jobVars, boundVars
<1>2. CASE \E d \in Invoices : ReceiveVoided(d)
  <2>1. PICK d \in Invoices : ReceiveVoided(d)
    BY <1>2
  <2>2. d \in Docs /\ db[d] \in Row /\ <<"voided", d>> \in Message /\ "void" \in Positions
    BY DEF Docs, TypeOK, Message, Positions
  <2> QED BY <1>0, <2>1, <2>2, GoOnTyped, FinishTyped
          DEF ReceiveVoided, Receive, TypeOK, jobVars, boundVars
<1>3. CASE SaveVoided
  <2>1. VoidedRow(copy[Consumer]) \in Row
    BY <1>0, RowsTyped
  <2> DEFINE urgent == copy[Consumer].status \in {"authorized", "sent", "pending"}
  <2>2. {Published("void_requires_action", urgent)} \in SUBSET Event
    <3>1. urgent \in BOOLEAN
      OBVIOUS
    <3> HIDE DEF urgent
    <3> QED BY <3>1, EventsTyped
  <2> QED BY <1>0, <1>3, <2>1, <2>2, SaveTyped, FinishTyped
          DEF SaveVoided, TypeOK, queueVars, jobVars, boundVars
<1>4. CASE Acknowledge
  <2>1. NoRow \in Row /\ "idle" \in Positions
    BY RowsTyped DEF Positions
  <2> QED BY <1>0, <1>4, <2>1, GoOnTyped DEF Acknowledge, TypeOK, jobVars, boundVars
<1> QED BY <1>1, <1>2, <1>3, <1>4 DEF Consuming

\* The steps of the HTTP handlers keep the types.
LEMMA RequestingTyped ==
  ASSUME TypeOK, NEW w \in Workers, InHand(w), Requesting(w)
  PROVE  TypeOK'
<1>0. w \in Actors /\ NoRow \in Row /\ NewRow \in Row
  BY RowsTyped DEF Actors
<1>1. CASE StartRetry(w)
  <2>1. doc[w] \in Docs /\ db[doc[w]] \in Row
    BY <1>1 DEF StartRetry, InHand, TypeOK
  <2> QED BY <1>0, <1>1, <2>1, BeginTyped
          DEF StartRetry, TypeOK, queueVars, jobVars, boundVars
<1>2. ASSUME NEW d \in Docs, AcceptRetry(w, d)
      PROVE  TypeOK'
  <2>1. "accepted" \in Positions
    BY DEF Positions
  <2>2. manual' \in 0..MaxManualRetries
    BY <1>2, PolicyAssumption DEF AcceptRetry, TypeOK
  <2> QED BY <1>0, <1>2, <2>1, <2>2, GoOnTyped DEF AcceptRetry, TypeOK, queueVars, jobVars
<1>3. ASSUME NEW d \in Docs, IssueDirect(w, d)
      PROVE  TypeOK'
  <2>1. "emit" \in Positions /\ {} \in SUBSET Event
    BY DEF Positions
  <2> QED BY <1>0, <1>3, <2>1, SaveTyped, GoOnTyped
          DEF IssueDirect, TypeOK, queueVars, jobVars, boundVars
<1> QED BY <1>1, <1>2, <1>3 DEF Requesting

\* The steps of the reconciliation job keep the types.
LEMMA ReconcilingTyped ==
  ASSUME TypeOK, Reconciling
  PROVE  TypeOK'
<1>0. Job \in Actors /\ copy[Job] \in Row /\ doc[Job] \in Docs \cup {NoDoc}
  BY AtHand DEF Actors
<1>1. CASE StartPass \/ NextBatch
  <2>1. \A docs : docs \subseteq Docs =>
          DOMAIN Batch(docs) \subseteq Docs /\ Batch(docs) \in [DOMAIN Batch(docs) -> Row]
    BY DEF Batch, TypeOK
  <2>2. Due("sent") \subseteq Docs /\ Due("error") \subseteq Docs /\ StalePending \subseteq Docs
    BY DEF Due, StalePending
  <2>3. DOMAIN NoBatch \subseteq Docs /\ NoBatch \in [DOMAIN NoBatch -> Row]
    BY DEF NoBatch
  <2>4. phase' \in {"idle", "sent", "error", "stale"}
    BY <1>1 DEF StartPass, NextBatch
  <2>5. DOMAIN batch' \subseteq Docs /\ batch' \in [DOMAIN batch' -> Row]
    <3>1. batch' \in {Batch(Due("sent")), Batch(Due("error")), Batch(StalePending), NoBatch}
      BY <1>1 DEF StartPass, NextBatch
    <3> HIDE DEF Batch, NoBatch, Due, StalePending
    <3> QED BY <2>1, <2>2, <2>3, <3>1
  <2> QED BY <1>1, <2>4, <2>5
          DEF StartPass, NextBatch, TypeOK, queueVars, actorVars, boundVars
<1>2. ASSUME NEW d \in Docs, Take(d)
      PROVE  /\ batch[d] \in Row /\ db[d] \in Row
             /\ DOMAIN batch' \subseteq Docs /\ batch' \in [DOMAIN batch' -> Row]
  BY <1>2 DEF Take, TypeOK
<1>3. ASSUME NEW d \in Docs, StartCheck(d)
      PROVE  TypeOK'
  <2>1. "query" \in Positions /\ Take(d)
    BY <1>3 DEF Positions, StartCheck
  <2> QED BY <1>0, <1>2, <1>3, <2>1, GoOnTyped
          DEF StartCheck, Take, TypeOK, queueVars, boundVars
<1>4. ASSUME NEW d \in Docs, StartAutoRetry(d)
      PROVE  TypeOK'
  <2>1. Take(d)
    BY <1>4 DEF StartAutoRetry
  <2>2. (IF d \in Directs THEN batch[d] ELSE db[d]) \in Row
    BY <1>2, <2>1
  <2> QED BY <1>0, <1>2, <1>4, <2>1, <2>2, BeginTyped
          DEF StartAutoRetry, Take, TypeOK, queueVars, boundVars
<1>5. CASE Query
  <2>1. "processing" \in Positions /\ "yes" \in Positions /\ "no" \in Positions
    BY DEF Positions
  <2> QED BY <1>0, <1>5, <2>1, GoOnTyped DEF Query, TypeOK, queueVars, jobVars, boundVars
<1>6. CASE SaveAuthorized
  <2>1. AuthorizedRow(copy[Job]) \in Row /\ copy[Job].voided \in BOOLEAN
    BY <1>0, RowsTyped DEF Row
  <2>2. {Published("authorized", copy[Job].voided)} \in SUBSET Event
    BY <2>1, EventsTyped
  <2> QED BY <1>0, <1>6, <2>1, <2>2, SaveTyped, FinishTyped
          DEF SaveAuthorized, TypeOK, queueVars, jobVars, boundVars
<1>7. CASE SaveNotAuthorized
  <2>1. RejectedRow(copy[Job]) \in Row
    BY <1>0, RowsTyped
  <2>2. {Published("rejected", TRUE)} \in SUBSET Event
    BY EventsTyped
  <2> QED BY <1>0, <1>7, <2>1, <2>2, SaveTyped, FinishTyped
          DEF SaveNotAuthorized, TypeOK, queueVars, jobVars, boundVars
<1>8. CASE SaveUnchecked
  <2> DEFINE row == UncheckedRow(copy[Job])
  <2>1. row \in Row
    BY <1>0, RowsTyped
  <2>2. (IF row.status = "error" THEN {Published("error", TRUE)} ELSE {}) \in SUBSET Event
    BY EventsTyped
  <2> HIDE DEF row
  <2>3. Save(doc[Job], row, IF row.status = "error" THEN {Published("error", TRUE)} ELSE {})
    BY <1>8 DEF SaveUnchecked, row
  <2> QED BY <1>0, <1>8, <2>1, <2>2, <2>3, SaveTyped, FinishTyped
          DEF SaveUnchecked, TypeOK, queueVars, jobVars, boundVars
<1> QED BY <1>1, <1>3, <1>4, <1>5, <1>6, <1>7, <1>8 DEF Reconciling

\* Crashes, rejected writes and stalled answers keep the types.
LEMMA FailingTyped ==
  ASSUME TypeOK, Failing
  PROVE  TypeOK'
<1>0. NoRow \in Row /\ "idle" \in Positions /\ "ack" \in Positions
  BY RowsTyped DEF Positions
<1>1. ASSUME faults < MaxFaults, faults' = faults + 1
      PROVE  faults' \in 0..MaxFaults
  BY <1>1, PolicyAssumption DEF TypeOK
<1>2. Requeued \subseteq Invoices
  BY DEF Requeued, TypeOK, Message
<1>3. CASE Crash
  <2>1. DOMAIN NoBatch \subseteq Docs /\ NoBatch \in [DOMAIN NoBatch -> Row]
    BY DEF NoBatch
  <2>2. /\ pc' \in [Actors -> Positions]
        /\ doc' \in [Actors -> Docs \cup {NoDoc}]
        /\ copy' \in [Actors -> Row]
    BY <1>0, <1>3 DEF Crash
  <2>3. batch' = NoBatch /\ requeued' = Requeued
    BY <1>3 DEF Crash
  <2> QED BY <1>1, <1>2, <1>3, <2>1, <2>2, <2>3 DEF Crash, TypeOK
<1>4. CASE QueryStalls
  <2>1. Job \in Actors /\ faults' \in 0..MaxFaults
    BY <1>1, <1>4 DEF QueryStalls, TypeOK, Actors
  <2> QED BY <1>4, <2>1, FinishTyped DEF QueryStalls, TypeOK, queueVars, jobVars
<1>5. ASSUME NEW a \in Actors, Abandon(a)
      PROVE  TypeOK'
  <2>1. /\ pc' \in [Actors -> Positions]
        /\ doc' \in [Actors -> Docs \cup {NoDoc}]
        /\ copy' \in [Actors -> Row]
    BY <1>0, <1>5, GoOnTyped DEF Abandon
  <2>2. faults' \in 0..MaxFaults
    BY <1>1, <1>5 DEF Abandon
  <2> QED BY <1>2, <1>5, <2>1, <2>2 DEF Abandon, TypeOK, jobVars
<1>6. ASSUME NEW a \in Actors, StoreFails(a)
      PROVE  TypeOK'
  <2>1. copy[a] \in Row /\ SentRow(copy[a]) \in Row
    BY AtHand, RowsTyped
  <2>2. faults' \in 0..MaxFaults
    BY <1>1, <1>6 DEF StoreFails
  <2> QED BY <1>6, <2>1, <2>2, FailTyped DEF StoreFails, TypeOK, queueVars, jobVars
<1> QED BY <1>3, <1>4, <1>5, <1>6 DEF Failing

\* Billing, the clock and the SRI keep the types.
LEMMA SurroundingsTyped ==
  ASSUME TypeOK, NEW d \in Docs, BillingVoids(d) \/ FallDue(d) \/ GrowOld(d) \/ SriDecides(d)
  PROVE  TypeOK'
<1>1. CASE BillingVoids(d)
  BY <1>1 DEF BillingVoids, TypeOK, Message, jobVars, actorVars, boundVars
<1>2. CASE FallDue(d)
  <2>1. db' \in [Docs -> Row]
    BY <1>2, RowsTyped DEF FallDue, TypeOK
  <2> QED BY <1>2, <2>1 DEF FallDue, TypeOK, queueVars, jobVars, actorVars, boundVars
<1>3. CASE GrowOld(d)
  <2>1. db' \in [Docs -> Row]
    BY <1>3, RowsTyped DEF GrowOld, TypeOK
  <2> QED BY <1>3, <2>1 DEF GrowOld, TypeOK, queueVars, jobVars, actorVars, boundVars
<1>4. CASE SriDecides(d)
  <2>1. sri' \in [Docs -> SUBSET Facts]
    BY <1>4 DEF SriDecides, TypeOK, Facts
  <2> QED BY <1>4, <2>1 DEF SriDecides, TypeOK, queueVars, jobVars, actorVars, boundVars
<1> QED BY <1>1, <1>2, <1>3, <1>4

\* The initial state has the types.
LEMMA InitTyped == Init => TypeOK
<1> SUFFICES ASSUME Init PROVE TypeOK
  OBVIOUS
<1>1. NoRow \in Row /\ "idle" \in Positions
  BY RowsTyped DEF Positions
<1>2. DOMAIN NoBatch \subseteq Docs /\ NoBatch \in [DOMAIN NoBatch -> Row]
  BY DEF NoBatch
<1>3. 0 \in 0..MaxFaults /\ 0 \in 0..MaxManualRetries
  BY PolicyAssumption
<1> QED BY <1>1, <1>2, <1>3 DEF Init, TypeOK, Message

-----------------------------------------------------------------------------
(***************************************************************************)
(* Soundness of rows and copies.                                           *)
(***************************************************************************)

IInv == TypeOK /\ CopiesAreSound

\* Facts and events are never taken back.
Grown == \A d \in Docs : sri[d] \subseteq sri'[d] /\ outbox[d] \subseteq outbox'[d]

\* What is sound stays sound.
LEMMA SoundLater ==
  ASSUME NEW row, NEW facts, NEW events, NEW facts2, NEW events2, NEW position,
         facts \subseteq facts2, events \subseteq events2
  PROVE  /\ Sound(row, facts, events) => Sound(row, facts2, events2)
         /\ Ready(position, row, facts, events) => Ready(position, row, facts2, events2)
<1>1. Sound(row, facts, events) => Sound(row, facts2, events2)
  BY DEF Sound, Truthful, Told
<1> QED BY <1>1 DEF Ready

\* What the handlers write, field by field.
LEMMA RowFields ==
  ASSUME NEW row \in Row
  PROVE  /\ PendingRow(row).status = "pending" /\ PendingRow(row).voided = row.voided
         /\ SentRow(row).status = "sent" /\ SentRow(row).next = "later"
         /\ AuthorizedRow(row).status = "authorized" /\ AuthorizedRow(row).voided = row.voided
         /\ RejectedRow(row).status = "rejected"
         /\ VoidedRow(row).status = row.status /\ VoidedRow(row).voided
         /\ \A permanent : FailedRow(row, permanent).status = "error"
         /\ UncheckedRow(row).voided = row.voided
         /\ \/ UncheckedRow(row).status = "error"
            \/ UncheckedRow(row).status = row.status /\ UncheckedRow(row).next = "later"
<1>1. PendingRow(row).status = "pending" /\ PendingRow(row).voided = row.voided
  BY DEF PendingRow, Row
<1>2. SentRow(row).status = "sent" /\ SentRow(row).next = "later"
  BY DEF SentRow, Row
<1>3. AuthorizedRow(row).status = "authorized" /\ AuthorizedRow(row).voided = row.voided
  BY DEF AuthorizedRow, Row
<1>4. RejectedRow(row).status = "rejected"
  BY DEF RejectedRow, Row
<1>5. VoidedRow(row).status = row.status /\ VoidedRow(row).voided
  BY DEF VoidedRow, Row
<1>6. \A permanent : FailedRow(row, permanent).status = "error"
  BY DEF FailedRow, Row
<1>7. /\ UncheckedRow(row).voided = row.voided
      /\ \/ UncheckedRow(row).status = "error"
         \/ UncheckedRow(row).status = row.status /\ UncheckedRow(row).next = "later"
  <2>1. CASE row.retry + 1 >= MaxAuthorizationChecks
    BY <2>1 DEF UncheckedRow, Row
  <2>2. CASE ~(row.retry + 1 >= MaxAuthorizationChecks)
    BY <2>2 DEF UncheckedRow, Row
  <2> QED BY <2>1, <2>2
<1> QED BY <1>1, <1>2, <1>3, <1>4, <1>5, <1>6, <1>7

\* An event that was just published has been published.
LEMMA JustPublished ==
  ASSUME NEW events, NEW attention \in BOOLEAN,
         NEW type \in {"sent", "sequence_gap", "authorized", "rejected", "error",
                       "void_requires_action"}
  PROVE  /\ \E e \in events \cup {Published(type, attention)} : e.type = type
         /\ attention => Told(events \cup {Published(type, attention)})
         /\ Told(events) => Told(events \cup {Published(type, attention)})
BY EventsTyped DEF Told

\* The rows that the handlers write are sound with the events they publish.
LEMMA RowsSound ==
  ASSUME NEW row \in Row, NEW facts, NEW events, Sound(row, facts, events)
  PROVE  /\ ~row.voided => Sound(PendingRow(row), facts, events)
         /\ "received" \in facts =>
              Sound(SentRow(row), facts, events \cup {Published("sent", FALSE)})
         /\ "authorized" \in facts =>
              Sound(AuthorizedRow(row), facts,
                    events \cup {Published("authorized", row.voided)})
         /\ {"returned", "notAuthorized"} \cap facts # {} =>
              Sound(RejectedRow(row), facts, events \cup {Published("rejected", TRUE)})
         /\ Sound(VoidedRow(row), facts,
                  events \cup {Published("void_requires_action",
                                         row.status \in {"authorized", "sent", "pending"})})
         /\ \A permanent \in BOOLEAN :
              Sound(FailedRow(row, permanent), facts,
                    events \cup {Published("error", FailedRow(row, permanent).next = "never")})
         /\ Sound(UncheckedRow(row), facts,
                  events \cup (IF UncheckedRow(row).status = "error"
                               THEN {Published("error", TRUE)} ELSE {}))
<1>0. row.voided \in BOOLEAN
  BY DEF Row
<1>1. ~row.voided => Sound(PendingRow(row), facts, events)
  BY RowFields DEF Sound, Truthful, Stopped, Settled
<1>2. ASSUME "received" \in facts
      PROVE  Sound(SentRow(row), facts, events \cup {Published("sent", FALSE)})
  <2> DEFINE after == events \cup {Published("sent", FALSE)}
  <2>1. /\ \E e \in after : e.type = "sent"
        /\ FALSE => Told(after)
    BY JustPublished
  <2> HIDE DEF after
  <2>2. Sound(SentRow(row), facts, after)
    BY <1>2, <2>1, RowFields DEF Sound, Truthful, Stopped
  <2> QED BY <2>2 DEF after
<1>3. ASSUME "authorized" \in facts
      PROVE  Sound(AuthorizedRow(row), facts,
                   events \cup {Published("authorized", row.voided)})
  <2> DEFINE after == events \cup {Published("authorized", row.voided)}
  <2>1. /\ \E e \in after : e.type = "authorized"
        /\ row.voided => Told(after)
    <3>1. Published("authorized", row.voided) \in after
      OBVIOUS
    <3>2. /\ Published("authorized", row.voided).type = "authorized"
          /\ Published("authorized", row.voided).attention = row.voided
      BY DEF Published
    <3> QED BY <3>1, <3>2 DEF Told
  <2> HIDE DEF after
  <2>2. Sound(AuthorizedRow(row), facts, after)
    BY <1>3, <2>1, RowFields DEF Sound, Truthful, Stopped
  <2> QED BY <2>2 DEF after
<1>4. ASSUME {"returned", "notAuthorized"} \cap facts # {}
      PROVE  Sound(RejectedRow(row), facts, events \cup {Published("rejected", TRUE)})
  <2> DEFINE after == events \cup {Published("rejected", TRUE)}
  <2>1. /\ \E e \in after : e.type = "rejected"
        /\ TRUE => Told(after)
    BY JustPublished
  <2> HIDE DEF after
  <2>2. Sound(RejectedRow(row), facts, after)
    BY <1>4, <2>1, RowFields DEF Sound, Truthful, Stopped
  <2> QED BY <2>2 DEF after
<1>5. Sound(VoidedRow(row), facts,
            events \cup {Published("void_requires_action",
                                   row.status \in {"authorized", "sent", "pending"})})
  <2> DEFINE urgent == row.status \in {"authorized", "sent", "pending"}
             after == events \cup {Published("void_requires_action", urgent)}
  <2>1. (urgent => Told(after)) /\ (Told(events) => Told(after)) /\ events \subseteq after
    <3>1. urgent \in BOOLEAN
      OBVIOUS
    <3> HIDE DEF urgent
    <3> QED BY <3>1, JustPublished
  <2> HIDE DEF after
  <2>2. Sound(VoidedRow(row), facts, after)
    BY <2>1, RowFields DEF Sound, Truthful, Stopped
  <2> QED BY <2>2 DEF after
<1>6. ASSUME NEW permanent \in BOOLEAN
      PROVE  Sound(FailedRow(row, permanent), facts,
                   events \cup {Published("error", FailedRow(row, permanent).next = "never")})
  <2> DEFINE stopped == FailedRow(row, permanent).next = "never"
  <2>1. stopped => Told(events \cup {Published("error", stopped)})
    BY JustPublished
  <2>2. FailedRow(row, permanent).status = "error"
    BY RowFields
  <2> QED BY <2>1, <2>2 DEF Sound, Truthful, Stopped, Settled
<1>7. Sound(UncheckedRow(row), facts,
            events \cup (IF UncheckedRow(row).status = "error"
                         THEN {Published("error", TRUE)} ELSE {}))
  <2>1. CASE UncheckedRow(row).status = "error"
    <3>1. Told(events \cup {Published("error", TRUE)})
      BY JustPublished
    <3> QED BY <2>1, <3>1 DEF Sound, Truthful, Settled
  <2>2. CASE UncheckedRow(row).status # "error"
    <3>1. Sound(UncheckedRow(row), facts, events)
      BY <2>2, RowFields DEF Sound, Truthful, Stopped
    <3> QED BY <2>2, <3>1
  <2> QED BY <2>1, <2>2
<1> QED BY <1>1, <1>2, <1>3, <1>4, <1>5, <1>6, <1>7

\* The copy an emission starts with is as sound as the row that was read.
LEMMA StartSound ==
  ASSUME NEW row \in Row, NEW facts, NEW events, Sound(row, facts, events),
         NEW byHand \in BOOLEAN, MayEmit(row)
  PROVE  Ready("emit", StartingCopy(row, byHand), facts, events)
<1> DEFINE found == IF row.status = "none" THEN NewRow ELSE row
<1>1. found \in Row /\ ~found.voided /\ Sound(found, facts, events)
  <2>1. CASE row.status = "none"
    BY <2>1, RowsTyped DEF NewRow, NoRow, Sound, Truthful, Stopped, Settled
  <2>2. CASE row.status # "none"
    BY <2>2 DEF MayEmit
  <2> QED BY <2>1, <2>2
<1> HIDE DEF found
<1>2. StartingCopy(row, byHand) \in {found, [found EXCEPT !.retry = 0]}
  BY DEF StartingCopy, found
<1>3. Sound([found EXCEPT !.retry = 0], facts, events) /\ ~[found EXCEPT !.retry = 0].voided
  BY <1>1 DEF Row, Sound, Truthful, Stopped, Settled
<1> QED BY <1>1, <1>2, <1>3 DEF Ready

\* Saving a sound row keeps every row sound, and nothing published is lost.
LEMMA SaveSound ==
  ASSUME TypeOK, CopiesAreSound, NEW d \in Docs, NEW row, NEW events, Save(d, row, events),
         sri' = sri, Sound(row, sri[d], outbox[d] \cup events)
  PROVE  /\ Grown
         /\ \A e \in Docs : Sound(db'[e], sri'[e], outbox'[e])
         /\ outbox'[d] = outbox[d] \cup events
<1>1. /\ outbox'[d] = outbox[d] \cup events /\ db'[d] = row
      /\ \A e \in Docs \ {d} : outbox'[e] = outbox[e] /\ db'[e] = db[e]
  BY DEF Save, TypeOK
<1> QED BY <1>1 DEF Grown, CopiesAreSound

\* An actor that moves on to where it is ready, while the others stay.
LEMMA GoOnSound ==
  ASSUME TypeOK, CopiesAreSound, Grown, NEW a \in Actors, NEW position, NEW d, NEW row,
         GoOn(a, position, d, row),
         position \in {"idle", "ack"} \/ (d \in Docs /\ Ready(position, row, sri'[d], outbox'[d]))
  PROVE  \A b \in Actors : InHand(b)'
<1> SUFFICES ASSUME NEW b \in Actors, pc'[b] \notin {"idle", "ack"}
             PROVE  doc'[b] \in Docs
                    /\ Ready(pc'[b], copy'[b], sri'[doc'[b]], outbox'[doc'[b]])
  BY DEF InHand
<1>1. CASE b = a
  <2>1. pc'[a] = position /\ doc'[a] = d /\ copy'[a] = row
    BY DEF GoOn, TypeOK
  <2> QED BY <1>1, <2>1
<1>2. CASE b # a
  <2>1. pc'[b] = pc[b] /\ doc'[b] = doc[b] /\ copy'[b] = copy[b]
    BY <1>2 DEF GoOn, TypeOK
  <2>2. doc[b] \in Docs /\ Ready(pc[b], copy[b], sri[doc[b]], outbox[doc[b]])
    BY <2>1 DEF CopiesAreSound, InHand
  <2> QED BY <2>1, <2>2, SoundLater DEF Grown
<1> QED BY <1>1, <1>2

\* An actor that returns has nothing in hand that could be wrong.
LEMMA FinishSound ==
  ASSUME TypeOK, CopiesAreSound, Grown, NEW a \in Actors, Finish(a)
  PROVE  \A b \in Actors : InHand(b)'
BY GoOnSound DEF Finish

\* An emission that begins on a sound copy leaves every actor sound.
LEMMA BeginSound ==
  ASSUME TypeOK, CopiesAreSound, Grown, NEW a \in Actors, NEW d \in Docs, NEW row \in Row,
         NEW byHand \in BOOLEAN, BeginEmission(a, d, row, byHand),
         Sound(row, sri'[d], outbox'[d])
  PROVE  \A b \in Actors : InHand(b)'
<1>1. CASE MayEmit(row)
  <2>1. GoOn(a, "emit", d, StartingCopy(row, byHand))
    BY <1>1 DEF BeginEmission
  <2>2. Ready("emit", StartingCopy(row, byHand), sri'[d], outbox'[d])
    BY <1>1, StartSound
  <2> QED BY <2>1, <2>2, GoOnSound
<1>2. CASE ~MayEmit(row)
  BY <1>2, FinishSound DEF BeginEmission
<1> QED BY <1>1, <1>2

\* Nothing written and nothing learned: the rows and the batch stay sound.
LEMMA Unwritten ==
  ASSUME CopiesAreSound, UNCHANGED <<db, sri, outbox>>
  PROVE  Grown /\ \A d \in Docs : Sound(db'[d], sri'[d], outbox'[d])
BY DEF Grown, CopiesAreSound

\* A batch left as it is, or made smaller, stays sound.
LEMMA BatchSound ==
  ASSUME TypeOK, CopiesAreSound, Grown, DOMAIN batch' \subseteq DOMAIN batch,
         \A d \in DOMAIN batch' : batch'[d] = batch[d]
  PROVE  \A d \in DOMAIN batch' : Sound(batch'[d], sri'[d], outbox'[d])
<1> SUFFICES ASSUME NEW d \in DOMAIN batch'
             PROVE  Sound(batch[d], sri'[d], outbox'[d])
  OBVIOUS
<1>1. d \in Docs /\ Sound(batch[d], sri[d], outbox[d])
  BY DEF TypeOK, CopiesAreSound
<1> QED BY <1>1, SoundLater DEF Grown

\* The three parts put together.
LEMMA Together ==
  ASSUME \A d \in Docs : Sound(db'[d], sri'[d], outbox'[d]),
         \A d \in DOMAIN batch' : Sound(batch'[d], sri'[d], outbox'[d]),
         \A a \in Actors : InHand(a)'
  PROVE  CopiesAreSound'
BY DEF CopiesAreSound, InHand

\* fail() over a sound copy keeps everything sound.
LEMMA FailSound ==
  ASSUME TypeOK, CopiesAreSound, NEW a \in Actors, NEW row \in Row, NEW permanent \in BOOLEAN,
         Fail(a, row, permanent), doc[a] \in Docs, UNCHANGED <<sri, batch>>,
         Sound(row, sri[doc[a]], outbox[doc[a]])
  PROVE  CopiesAreSound'
<1> DEFINE failed == FailedRow(row, permanent)
           events == {Published("error", failed.next = "never")}
<1>1. Sound(failed, sri[doc[a]], outbox[doc[a]] \cup events)
  BY RowsSound
<1>2. Save(doc[a], failed, events) /\ Finish(a)
  BY DEF Fail
<1> HIDE DEF failed, events
<1>3. Grown /\ \A e \in Docs : Sound(db'[e], sri'[e], outbox'[e])
  BY <1>1, <1>2, SaveSound
<1> QED BY <1>2, <1>3, FinishSound, BatchSound, Together

\* What an actor that is at work has in hand.
LEMMA AtWork ==
  ASSUME TypeOK, CopiesAreSound, NEW a \in Actors, pc[a] \notin {"idle", "ack"}
  PROVE  /\ doc[a] \in Docs /\ copy[a] \in Row
         /\ Ready(pc[a], copy[a], sri[doc[a]], outbox[doc[a]])
         /\ Sound(copy[a], sri[doc[a]], outbox[doc[a]])
BY AtHand DEF CopiesAreSound, InHand, Ready

\* emit(), signAndSend() and fail() keep rows and copies sound.
LEMMA EmissionSound ==
  ASSUME TypeOK, CopiesAreSound, NEW a \in Actors, Emission(a)
  PROVE  CopiesAreSound'
<1>0. /\ doc[a] \in Docs /\ copy[a] \in Row
      /\ Ready(pc[a], copy[a], sri[doc[a]], outbox[doc[a]])
      /\ Sound(copy[a], sri[doc[a]], outbox[doc[a]])
  <2>1. pc[a] \notin {"idle", "ack"}
    BY DEF Emission, PrepareFails, SavePending, Send, SendNeverArrives, SaveSent, SaveGap,
           SaveRejected, SaveLost
  <2> QED BY <2>1, AtWork
<1>1. CASE PrepareFails(a)
  BY <1>0, <1>1, FailSound DEF PrepareFails, jobVars
<1>2. CASE SavePending(a)
  <2> DEFINE row == PendingRow(copy[a])
  <2>1. /\ Save(doc[a], row, {}) /\ GoOn(a, "send", doc[a], row)
        /\ UNCHANGED <<sri, batch>> /\ ~copy[a].voided
    BY <1>0, <1>2 DEF SavePending, jobVars, Ready
  <2>2. Sound(row, sri[doc[a]], outbox[doc[a]] \cup {})
    BY <1>0, <2>1, RowsSound
  <2> HIDE DEF row
  <2>3. /\ Grown /\ \A e \in Docs : Sound(db'[e], sri'[e], outbox'[e])
        /\ Ready("send", row, sri'[doc[a]], outbox'[doc[a]])
    BY <1>0, <2>1, <2>2, SaveSound DEF Ready
  <2> QED BY <1>0, <2>1, <2>3, GoOnSound, BatchSound, Together
<1>3. CASE Send(a)
  <2>1. PICK fact \in {"received", "returned"}, answered \in BOOLEAN :
          /\ sri' = [sri EXCEPT ![doc[a]] = @ \cup {fact}]
          /\ GoOn(a, IF answered THEN fact ELSE "lost", doc[a], copy[a])
    BY <1>3 DEF Send
  <2>2. Grown /\ fact \in sri'[doc[a]] /\ UNCHANGED <<db, outbox, batch>>
    BY <1>0, <1>3, <2>1 DEF Send, Grown, TypeOK, jobVars
  <2>3. \A d \in Docs : Sound(db'[d], sri'[d], outbox'[d])
    BY <2>2, SoundLater DEF CopiesAreSound, Grown
  <2>4. Ready(IF answered THEN fact ELSE "lost", copy[a], sri'[doc[a]], outbox'[doc[a]])
    <3>1. Sound(copy[a], sri'[doc[a]], outbox'[doc[a]])
      BY <1>0, <2>2, SoundLater DEF Grown
    <3> QED BY <2>2, <3>1 DEF Ready
  <2> QED BY <1>0, <2>1, <2>2, <2>3, <2>4, GoOnSound, BatchSound, Together
<1>4. CASE SendNeverArrives(a)
  <2>1. Ready("lost", copy[a], sri'[doc[a]], outbox'[doc[a]])
    BY <1>0, <1>4 DEF SendNeverArrives, Ready
  <2>2. GoOn(a, "lost", doc[a], copy[a]) /\ UNCHANGED <<db, outbox, sri, batch>>
    BY <1>4 DEF SendNeverArrives, jobVars
  <2> QED BY <1>0, <2>1, <2>2, Unwritten, GoOnSound, BatchSound, Together
<1>5. CASE SaveSent(a)
  <2> DEFINE row == SentRow(copy[a])
             events == {Published("sent", FALSE)}
  <2>1. /\ Save(doc[a], row, events) /\ UNCHANGED <<sri, batch>>
        /\ Finish(a) \/ GoOn(a, "gap", doc[a], row)
        /\ "received" \in sri[doc[a]]
    BY <1>0, <1>5 DEF SaveSent, jobVars, Ready
  <2>2. Sound(row, sri[doc[a]], outbox[doc[a]] \cup events)
    BY <1>0, <2>1, RowsSound
  <2> HIDE DEF row, events
  <2>3. /\ Grown /\ \A e \in Docs : Sound(db'[e], sri'[e], outbox'[e])
        /\ Ready("gap", row, sri'[doc[a]], outbox'[doc[a]])
    BY <1>0, <2>1, <2>2, SaveSound DEF Ready
  <2>4. \A b \in Actors : InHand(b)'
    BY <1>0, <2>1, <2>3, FinishSound, GoOnSound
  <2> QED BY <2>1, <2>3, <2>4, BatchSound, Together
<1>6. CASE SaveGap(a)
  <2> DEFINE events == {Published("sequence_gap", FALSE)}
  <2>1. Save(doc[a], copy[a], events) /\ UNCHANGED <<sri, batch>> /\ Finish(a)
    BY <1>6 DEF SaveGap, jobVars
  <2> HIDE DEF events
  <2>2. Sound(copy[a], sri[doc[a]], outbox[doc[a]] \cup events)
    <3>1. outbox[doc[a]] \subseteq outbox[doc[a]] \cup events
      OBVIOUS
    <3> QED BY <1>0, <3>1, SoundLater
  <2>3. Grown /\ \A e \in Docs : Sound(db'[e], sri'[e], outbox'[e])
    BY <1>0, <2>1, <2>2, SaveSound
  <2> QED BY <2>1, <2>3, FinishSound, BatchSound, Together
<1>7. CASE SaveRejected(a)
  <2> DEFINE row == RejectedRow(copy[a])
             events == {Published("rejected", TRUE)}
  <2>1. /\ Save(doc[a], row, events) /\ UNCHANGED <<sri, batch>> /\ Finish(a)
        /\ {"returned", "notAuthorized"} \cap sri[doc[a]] # {}
    BY <1>0, <1>7 DEF SaveRejected, jobVars, Ready
  <2>2. Sound(row, sri[doc[a]], outbox[doc[a]] \cup events)
    BY <1>0, <2>1, RowsSound
  <2> HIDE DEF row, events
  <2>3. Grown /\ \A e \in Docs : Sound(db'[e], sri'[e], outbox'[e])
    BY <1>0, <2>1, <2>2, SaveSound
  <2> QED BY <2>1, <2>3, FinishSound, BatchSound, Together
<1>8. CASE SaveLost(a)
  BY <1>0, <1>8, FailSound DEF SaveLost, jobVars
<1> QED BY <1>1, <1>2, <1>3, <1>4, <1>5, <1>6, <1>7, <1>8 DEF Emission

\* The consumer keeps rows and copies sound, voids included.
LEMMA ConsumingSound ==
  ASSUME TypeOK, CopiesAreSound, Consuming
  PROVE  CopiesAreSound'
<1>0. Consumer \in Actors
  BY DEF Actors
<1>1. ASSUME NEW d \in Invoices, ReceiveIssued(d)
      PROVE  CopiesAreSound'
  <2>1. BeginEmission(Consumer, d, db[d], FALSE) /\ UNCHANGED <<db, sri, outbox, batch>>
    BY <1>1 DEF ReceiveIssued, Receive, jobVars
  <2>2. d \in Docs /\ db[d] \in Row /\ Sound(db[d], sri'[d], outbox'[d])
    BY <2>1 DEF Docs, TypeOK, CopiesAreSound
  <2> QED BY <1>0, <2>1, <2>2, Unwritten, BeginSound, BatchSound, Together
<1>2. ASSUME NEW d \in Invoices, ReceiveVoided(d)
      PROVE  CopiesAreSound'
  <2>1. UNCHANGED <<db, sri, outbox, batch>>
    BY <1>2 DEF ReceiveVoided, Receive, jobVars
  <2>2. Finish(Consumer) \/ GoOn(Consumer, "void", d, db[d])
    BY <1>2 DEF ReceiveVoided
  <2>3. d \in Docs /\ Ready("void", db[d], sri'[d], outbox'[d])
    BY <2>1 DEF Docs, CopiesAreSound, Ready
  <2>4. \A b \in Actors : InHand(b)'
    BY <1>0, <2>1, <2>2, <2>3, Unwritten, FinishSound, GoOnSound
  <2> QED BY <2>1, <2>4, Unwritten, BatchSound, Together
<1>3. CASE SaveVoided
  <2> DEFINE row == VoidedRow(copy[Consumer])
             events == {Published("void_requires_action",
                          copy[Consumer].status \in {"authorized", "sent", "pending"})}
  <2>1. /\ Save(doc[Consumer], row, events) /\ Finish(Consumer) /\ UNCHANGED <<sri, batch>>
        /\ pc[Consumer] \notin {"idle", "ack"}
    BY <1>3 DEF SaveVoided, jobVars
  <2>2. /\ doc[Consumer] \in Docs
        /\ Sound(row, sri[doc[Consumer]], outbox[doc[Consumer]] \cup events)
    BY <1>0, <2>1, AtWork, RowsSound
  <2> HIDE DEF row, events
  <2>3. Grown /\ \A e \in Docs : Sound(db'[e], sri'[e], outbox'[e])
    BY <2>1, <2>2, SaveSound
  <2> QED BY <1>0, <2>1, <2>3, FinishSound, BatchSound, Together
<1>4. CASE Acknowledge
  <2>1. GoOn(Consumer, "idle", NoDoc, NoRow) /\ UNCHANGED <<db, sri, outbox, batch>>
    BY <1>4 DEF Acknowledge, jobVars
  <2> QED BY <1>0, <2>1, Unwritten, GoOnSound, BatchSound, Together
<1> QED BY <1>1, <1>2, <1>3, <1>4 DEF Consuming

\* A row that is not there yet, or that has just been inserted, claims nothing.
LEMMA FirstRowsSound ==
  ASSUME NEW facts, NEW events
  PROVE  /\ Sound(NoRow, facts, events)
         /\ Sound(NewRow, facts, events) /\ ~NewRow.voided
BY DEF NoRow, NewRow, Sound, Truthful, Stopped, Settled

\* The HTTP handlers keep rows and copies sound.
LEMMA RequestingSound ==
  ASSUME TypeOK, CopiesAreSound, NEW w \in Workers, Requesting(w)
  PROVE  CopiesAreSound'
<1>0. w \in Actors
  BY DEF Actors
<1>1. CASE StartRetry(w)
  <2>1. /\ BeginEmission(w, doc[w], db[doc[w]], TRUE)
        /\ UNCHANGED <<db, sri, outbox, batch>>
        /\ pc[w] \notin {"idle", "ack"}
    BY <1>1 DEF StartRetry, jobVars
  <2>2. /\ doc[w] \in Docs /\ db[doc[w]] \in Row
        /\ Sound(db[doc[w]], sri'[doc[w]], outbox'[doc[w]])
    BY <1>0, <2>1, AtWork DEF TypeOK, CopiesAreSound
  <2> QED BY <1>0, <2>1, <2>2, Unwritten, BeginSound, BatchSound, Together
<1>2. ASSUME NEW d \in Docs, AcceptRetry(w, d)
      PROVE  CopiesAreSound'
  <2>1. GoOn(w, "accepted", d, NoRow) /\ UNCHANGED <<db, sri, outbox, batch>>
    BY <1>2 DEF AcceptRetry, jobVars
  <2>2. Ready("accepted", NoRow, sri'[d], outbox'[d])
    BY FirstRowsSound DEF Ready
  <2> QED BY <1>0, <2>1, <2>2, Unwritten, GoOnSound, BatchSound, Together
<1>3. ASSUME NEW d \in Docs, IssueDirect(w, d)
      PROVE  CopiesAreSound'
  <2>1. Save(d, NewRow, {}) /\ GoOn(w, "emit", d, NewRow) /\ UNCHANGED <<sri, batch>>
    BY <1>3 DEF IssueDirect, jobVars
  <2>2. /\ Sound(NewRow, sri[d], outbox[d] \cup {})
        /\ Ready("emit", NewRow, sri'[d], outbox'[d])
    BY FirstRowsSound DEF Ready
  <2>3. Grown /\ \A e \in Docs : Sound(db'[e], sri'[e], outbox'[e])
    BY <2>1, <2>2, SaveSound
  <2> QED BY <1>0, <2>1, <2>2, <2>3, GoOnSound, BatchSound, Together
<1> QED BY <1>1, <1>2, <1>3 DEF Requesting

\* The job keeps rows and copies sound, whatever its batch missed.
LEMMA ReconcilingSound ==
  ASSUME TypeOK, CopiesAreSound, Reconciling
  PROVE  CopiesAreSound'
<1>0. Job \in Actors
  BY DEF Actors
<1>1. CASE StartPass \/ NextBatch
  <2>1. UNCHANGED <<db, sri, outbox, pc, doc, copy>>
    BY <1>1 DEF StartPass, NextBatch, actorVars
  <2>2. batch' = NoBatch \/ \E docs \in SUBSET Docs : batch' = Batch(docs)
    BY <1>1 DEF StartPass, NextBatch, Due, StalePending
  <2>3. \A d \in DOMAIN batch' : d \in Docs /\ batch'[d] = db[d]
    BY <2>2 DEF NoBatch, Batch
  <2>4. \A d \in DOMAIN batch' : Sound(batch'[d], sri'[d], outbox'[d])
    BY <2>1, <2>3 DEF CopiesAreSound
  <2>5. \A a \in Actors : InHand(a)'
    BY <2>1 DEF CopiesAreSound, InHand
  <2> QED BY <2>1, <2>4, <2>5, Unwritten, Together
<1>2. ASSUME NEW d \in Docs, Take(d)
      PROVE  /\ d \in DOMAIN batch /\ UNCHANGED <<db, sri, outbox>>
             /\ DOMAIN batch' \subseteq DOMAIN batch
             /\ \A e \in DOMAIN batch' : batch'[e] = batch[e]
  BY <1>2 DEF Take
<1>3. ASSUME NEW d \in Docs, StartCheck(d)
      PROVE  CopiesAreSound'
  <2>1. Take(d) /\ GoOn(Job, "query", d, batch[d])
    BY <1>3 DEF StartCheck
  <2>2. Ready("query", batch[d], sri'[d], outbox'[d])
    BY <1>2, <2>1 DEF CopiesAreSound, Ready
  <2> QED BY <1>0, <1>2, <2>1, <2>2, Unwritten, GoOnSound, BatchSound, Together
<1>4. ASSUME NEW d \in Docs, StartAutoRetry(d)
      PROVE  CopiesAreSound'
  <2> DEFINE row == IF d \in Directs THEN batch[d] ELSE db[d]
  <2>1. Take(d) /\ BeginEmission(Job, d, row, FALSE)
    BY <1>4 DEF StartAutoRetry
  <2>2. row \in Row /\ Sound(row, sri'[d], outbox'[d])
    BY <1>2, <2>1 DEF CopiesAreSound, TypeOK
  <2> HIDE DEF row
  <2> QED BY <1>0, <1>2, <2>1, <2>2, Unwritten, BeginSound, BatchSound, Together
<1>5. ASSUME pc[Job] \notin {"idle", "ack"}
      PROVE  /\ doc[Job] \in Docs /\ copy[Job] \in Row
             /\ Sound(copy[Job], sri[doc[Job]], outbox[doc[Job]])
             /\ Ready(pc[Job], copy[Job], sri[doc[Job]], outbox[doc[Job]])
  BY <1>0, <1>5, AtWork
<1>6. CASE Query
  <2>1. UNCHANGED <<db, sri, outbox, batch>> /\ pc[Job] \notin {"idle", "ack"}
    BY <1>6 DEF Query, jobVars
  <2>2. PICK position \in {"processing", "yes", "no"} :
          /\ GoOn(Job, position, doc[Job], copy[Job])
          /\ position = "yes" => "authorized" \in sri[doc[Job]]
          /\ position = "no" => "notAuthorized" \in sri[doc[Job]]
    BY <1>6 DEF Query
  <2>3. Ready(position, copy[Job], sri'[doc[Job]], outbox'[doc[Job]])
    BY <1>5, <2>1, <2>2 DEF Ready
  <2> QED BY <1>0, <1>5, <2>1, <2>2, <2>3, Unwritten, GoOnSound, BatchSound, Together
<1>7. ASSUME NEW row, NEW events, Save(doc[Job], row, events), Finish(Job),
             UNCHANGED <<sri, batch>>, pc[Job] \notin {"idle", "ack"},
             Sound(row, sri[doc[Job]], outbox[doc[Job]] \cup events)
      PROVE  CopiesAreSound'
  <2>1. Grown /\ \A e \in Docs : Sound(db'[e], sri'[e], outbox'[e])
    BY <1>5, <1>7, SaveSound
  <2> QED BY <1>0, <1>7, <2>1, FinishSound, BatchSound, Together
<1>8. CASE SaveAuthorized
  <2> DEFINE row == AuthorizedRow(copy[Job])
             events == {Published("authorized", copy[Job].voided)}
  <2>1. /\ Save(doc[Job], row, events) /\ Finish(Job) /\ UNCHANGED <<sri, batch>>
        /\ pc[Job] = "yes"
    BY <1>8 DEF SaveAuthorized, jobVars
  <2>2. Sound(row, sri[doc[Job]], outbox[doc[Job]] \cup events)
    BY <1>5, <2>1, RowsSound DEF Ready
  <2> HIDE DEF row, events
  <2> QED BY <1>7, <2>1, <2>2
<1>9. CASE SaveNotAuthorized
  <2> DEFINE row == RejectedRow(copy[Job])
             events == {Published("rejected", TRUE)}
  <2>1. /\ Save(doc[Job], row, events) /\ Finish(Job) /\ UNCHANGED <<sri, batch>>
        /\ pc[Job] = "no"
    BY <1>9 DEF SaveNotAuthorized, jobVars
  <2>2. Sound(row, sri[doc[Job]], outbox[doc[Job]] \cup events)
    BY <1>5, <2>1, RowsSound DEF Ready
  <2> HIDE DEF row, events
  <2> QED BY <1>7, <2>1, <2>2
<1>10. CASE SaveUnchecked
  <2> DEFINE row == UncheckedRow(copy[Job])
             events == IF row.status = "error" THEN {Published("error", TRUE)} ELSE {}
  <2>1. /\ Save(doc[Job], row, events) /\ Finish(Job) /\ UNCHANGED <<sri, batch>>
        /\ pc[Job] = "processing"
    BY <1>10 DEF SaveUnchecked, jobVars
  <2>2. Sound(row, sri[doc[Job]], outbox[doc[Job]] \cup events)
    BY <1>5, <2>1, RowsSound
  <2> HIDE DEF row, events
  <2> QED BY <1>7, <2>1, <2>2
<1> QED BY <1>1, <1>3, <1>4, <1>6, <1>8, <1>9, <1>10 DEF Reconciling

\* Failures keep rows and copies sound: copies are lost, never changed.
LEMMA FailingSound ==
  ASSUME TypeOK, CopiesAreSound, Failing
  PROVE  CopiesAreSound'
<1>1. CASE Crash
  <2>1. /\ UNCHANGED <<db, sri, outbox>> /\ DOMAIN batch' = {}
        /\ \A a \in Actors : pc'[a] = "idle"
    BY <1>1 DEF Crash, NoBatch
  <2> QED BY <2>1, Unwritten, Together DEF InHand
<1>2. CASE QueryStalls
  <2>1. Job \in Actors /\ Finish(Job) /\ UNCHANGED <<db, sri, outbox, batch>>
    BY <1>2 DEF QueryStalls, jobVars, Actors
  <2> QED BY <2>1, Unwritten, FinishSound, BatchSound, Together
<1>3. ASSUME NEW a \in Actors, Abandon(a)
      PROVE  CopiesAreSound'
  <2>1. GoOn(a, "idle", NoDoc, NoRow) /\ UNCHANGED <<db, sri, outbox, batch>>
    BY <1>3 DEF Abandon, jobVars
  <2> QED BY <2>1, Unwritten, GoOnSound, BatchSound, Together
<1>4. ASSUME NEW a \in Actors, StoreFails(a)
      PROVE  CopiesAreSound'
  <2>1. /\ UNCHANGED <<sri, batch>> /\ pc[a] \notin {"idle", "ack"}
        /\ \/ pc[a] = "received" /\ Fail(a, SentRow(copy[a]), FALSE)
           \/ Fail(a, copy[a], FALSE)
    BY <1>4 DEF StoreFails, jobVars
  <2>2. /\ doc[a] \in Docs /\ copy[a] \in Row /\ SentRow(copy[a]) \in Row
        /\ Sound(copy[a], sri[doc[a]], outbox[doc[a]])
    BY <2>1, AtWork, RowsTyped
  <2>3. CASE Fail(a, copy[a], FALSE)
    BY <2>1, <2>2, <2>3, FailSound
  <2>4. CASE pc[a] = "received" /\ Fail(a, SentRow(copy[a]), FALSE)
    <3> DEFINE failed == FailedRow(SentRow(copy[a]), FALSE)
               stopped == failed.next = "never"
               events == {Published("error", stopped)}
    <3>1. Sound(failed, sri[doc[a]], outbox[doc[a]] \cup events)
      <4>1. failed.status = "error"
        BY <2>2 DEF FailedRow, Row
      <4>2. stopped => Told(outbox[doc[a]] \cup events)
        <5>1. stopped \in BOOLEAN
          OBVIOUS
        <5> HIDE DEF stopped
        <5> QED BY <5>1, JustPublished
      <4> HIDE DEF failed, events
      <4> QED BY <4>1, <4>2 DEF Sound, Truthful, Stopped, Settled
    <3>2. Save(doc[a], failed, events) /\ Finish(a)
      BY <2>4 DEF Fail
    <3> HIDE DEF failed, events
    <3>3. Grown /\ \A e \in Docs : Sound(db'[e], sri'[e], outbox'[e])
      BY <2>1, <2>2, <3>1, <3>2, SaveSound
    <3> QED BY <2>1, <3>2, <3>3, FinishSound, BatchSound, Together
  <2> QED BY <2>1, <2>3, <2>4
<1> QED BY <1>1, <1>2, <1>3, <1>4 DEF Failing

\* Billing, the clock and the SRI keep rows and copies sound.
LEMMA SurroundingsSound ==
  ASSUME TypeOK, CopiesAreSound, NEW d \in Docs,
         BillingVoids(d) \/ FallDue(d) \/ GrowOld(d) \/ SriDecides(d)
  PROVE  CopiesAreSound'
<1>1. ASSUME Grown, UNCHANGED <<jobVars, actorVars>>,
             \A e \in Docs : Sound(db'[e], sri'[e], outbox'[e])
      PROVE  CopiesAreSound'
  <2>1. \A a \in Actors : InHand(a)'
    <3> SUFFICES ASSUME NEW a \in Actors, pc[a] \notin {"idle", "ack"}
                 PROVE  doc[a] \in Docs /\ Ready(pc[a], copy[a], sri'[doc[a]], outbox'[doc[a]])
      BY <1>1 DEF InHand, actorVars
    <3> QED BY <1>1, AtWork, SoundLater DEF Grown
  <2> QED BY <1>1, <2>1, BatchSound, Together DEF jobVars
<1>2. CASE BillingVoids(d)
  BY <1>1, <1>2, Unwritten DEF BillingVoids
<1>3. ASSUME NEW row, db' = [db EXCEPT ![d] = row], Sound(row, sri[d], outbox[d]),
             UNCHANGED <<sri, outbox, jobVars, actorVars>>
      PROVE  CopiesAreSound'
  BY <1>1, <1>3 DEF Grown, CopiesAreSound, TypeOK
<1>4. db[d] \in Row /\ Sound(db[d], sri[d], outbox[d])
  BY DEF TypeOK, CopiesAreSound
<1>5. CASE FallDue(d)
  <2> DEFINE row == [db[d] EXCEPT !.next = "due"]
  <2>1. Sound(row, sri[d], outbox[d])
    BY <1>4, <1>5 DEF FallDue, Row, Sound, Truthful, Stopped, Settled
  <2>2. db' = [db EXCEPT ![d] = row] /\ UNCHANGED <<sri, outbox, jobVars, actorVars>>
    BY <1>5 DEF FallDue
  <2> HIDE DEF row
  <2> QED BY <1>3, <2>1, <2>2
<1>6. CASE GrowOld(d)
  <2> DEFINE row == [db[d] EXCEPT !.old = TRUE]
  <2>1. Sound(row, sri[d], outbox[d])
    BY <1>4, <1>6 DEF GrowOld, Row, Sound, Truthful, Stopped, Settled
  <2>2. db' = [db EXCEPT ![d] = row] /\ UNCHANGED <<sri, outbox, jobVars, actorVars>>
    BY <1>6 DEF GrowOld
  <2> HIDE DEF row
  <2> QED BY <1>3, <2>1, <2>2
<1>7. CASE SriDecides(d)
  <2>1. Grown /\ UNCHANGED <<db, outbox, jobVars, actorVars>>
    BY <1>7 DEF SriDecides, Grown, TypeOK
  <2>2. \A e \in Docs : Sound(db'[e], sri'[e], outbox'[e])
    BY <2>1, SoundLater DEF Grown, CopiesAreSound
  <2> QED BY <1>1, <2>1, <2>2
<1> QED BY <1>2, <1>5, <1>6, <1>7

-----------------------------------------------------------------------------
(***************************************************************************)
(* The theorems.                                                           *)
(***************************************************************************)

\* The invariant holds at the start.
LEMMA InitIInv == Init => IInv
<1> SUFFICES ASSUME Init PROVE IInv
  OBVIOUS
<1>1. \A d \in Docs : Sound(db[d], sri[d], outbox[d])
  BY FirstRowsSound DEF Init
<1>2. \A d \in DOMAIN batch : Sound(batch[d], sri[d], outbox[d])
  BY DEF Init, NoBatch
<1>3. \A a \in Actors : InHand(a)
  BY DEF Init, InHand
<1> QED BY <1>1, <1>2, <1>3, InitTyped DEF IInv, CopiesAreSound

\* The invariant is inductive.
LEMMA StepIInv == IInv /\ [Next]_vars => IInv'
<1> SUFFICES ASSUME TypeOK, CopiesAreSound, [Next]_vars
             PROVE  TypeOK' /\ CopiesAreSound'
  BY DEF IInv
<1>1. ASSUME NEW a \in Actors, Emission(a)
      PROVE  TypeOK' /\ CopiesAreSound'
  BY <1>1, EmissionTyped, EmissionSound
<1>2. CASE Consuming
  BY <1>2, ConsumingTyped, ConsumingSound
<1>3. CASE Reconciling
  BY <1>3, ReconcilingTyped, ReconcilingSound
<1>4. ASSUME NEW w \in Workers, Requesting(w)
      PROVE  TypeOK' /\ CopiesAreSound'
  <2>1. InHand(w)
    BY DEF CopiesAreSound, Actors
  <2> QED BY <1>4, <2>1, RequestingTyped, RequestingSound
<1>5. CASE Failing
  BY <1>5, FailingTyped, FailingSound
<1>6. ASSUME NEW d \in Docs, BillingVoids(d) \/ FallDue(d) \/ GrowOld(d) \/ SriDecides(d)
      PROVE  TypeOK' /\ CopiesAreSound'
  BY <1>6, SurroundingsTyped, SurroundingsSound
<1>7. CASE UNCHANGED vars
  BY <1>7 DEF vars, TypeOK, CopiesAreSound, InHand
<1> QED BY <1>1, <1>2, <1>3, <1>4, <1>5, <1>6, <1>7 DEF Next

\* The invariant holds in every reachable state.
LEMMA Invariance == Spec => []IInv
BY InitIInv, StepIInv, PTL DEF Spec

\* Every variable keeps its type, whatever fails and whoever overlaps.
THEOREM TypeCorrect == Spec => []TypeOK
BY Invariance, PTL DEF IInv

\* Copies may be stale but never claim what was not established and published:
\* fiscal-processor.ts saves whole copies without a lock, and this is why the
\* claims of the table survive it.
THEOREM CopiesSound == Spec => []CopiesAreSound
BY Invariance, PTL DEF IInv

\* The rows of fiscal_invoices claim no more than the SRI established.
THEOREM RowsTruthful == Spec => []RowsAreTruthful
<1>1. IInv => RowsAreTruthful
  BY DEF IInv, CopiesAreSound, RowsAreTruthful, Sound
<1> QED BY <1>1, Invariance, PTL

\* No document stops short of its authorization without an attention event.
THEOREM NeverSilent == Spec => []NoSilentStop
<1>1. IInv => NoSilentStop
  BY DEF IInv, CopiesAreSound, NoSilentStop, Sound
<1> QED BY <1>1, Invariance, PTL

\* What the table says happened at the SRI has been published.
THEOREM AllPublished == Spec => []StatesArePublished
<1>1. IInv => StatesArePublished
  BY DEF IInv, CopiesAreSound, StatesArePublished, Sound, Settled
<1> QED BY <1>1, Invariance, PTL

\* An invoice both authorized and voided in the table has rung a bell.
THEOREM VoidedAuthorizedTold == Spec => []VoidedAuthorizedIsTold
<1>1. IInv => VoidedAuthorizedIsTold
  BY DEF IInv, CopiesAreSound, VoidedAuthorizedIsTold, Sound
<1> QED BY <1>1, Invariance, PTL

-----------------------------------------------------------------------------
(***************************************************************************)
(* Voids are announced.  Whatever row or copy says that an invoice is      *)
(* voided, the event is out; and a message that left the queue without     *)
(* ever having gone back to it was handled, in its order.                  *)
(***************************************************************************)

Announced(events) == \E e \in events : e.type = "void_requires_action"

Kept(row, events) == row.status # "none" /\ (row.voided => Announced(events))

AtRest == {"idle", "ack", "accepted"}

RowsKept == \A d \in Docs : db[d].voided => Kept(db[d], outbox[d])

CopiesKept ==
  /\ \A d \in DOMAIN batch : Kept(batch[d], outbox[d])
  /\ \A a \in Actors : pc[a] \notin AtRest => Kept(copy[a], outbox[doc[a]])

\* What handling a message leaves behind.
Answered(message) ==
  \A d \in Invoices \ requeued :
    /\ message = <<"issued", d>> => db[d].status # "none"
    /\ message = <<"voided", d>> => Announced(outbox[d])

Handled ==
  /\ pc[Consumer] = "ack" => Answered(handling)
  /\ pc[Consumer] \notin {"idle", "ack"} =>
       /\ pc[Consumer] # "accepted"
       /\ handling = <<IF pc[Consumer] = "void" THEN "voided" ELSE "issued", doc[Consumer]>>

IssuedHasRow ==
  \A d \in Invoices \ requeued : <<"issued", d>> \notin inbox => db[d].status # "none"

VoidInv == RowsKept /\ CopiesKept /\ Handled /\ IssuedHasRow /\ VoidIsAnnounced

\* Rows and announcements are never taken back.
Later ==
  /\ \A d \in Docs : Announced(outbox[d]) => Announced(outbox'[d])
  /\ \A d \in Docs : db[d].status # "none" => db'[d].status # "none"

\* The rows the handlers write keep the copy's word on the void.
LEMMA WordKept ==
  ASSUME NEW row \in Row
  PROVE  /\ \A new \in {PendingRow(row), SentRow(row), AuthorizedRow(row), RejectedRow(row)} :
              new.status # "none" /\ new.voided = row.voided
         /\ row.status # "none" => UncheckedRow(row).status # "none"
         /\ UncheckedRow(row).voided = row.voided
         /\ \A permanent : /\ FailedRow(row, permanent).status # "none"
                           /\ FailedRow(row, permanent).voided = row.voided
<1>1. SentRow(row).voided = row.voided /\ RejectedRow(row).voided = row.voided
  BY DEF SentRow, RejectedRow, Row
<1>2. \A permanent : FailedRow(row, permanent).voided = row.voided
  BY DEF FailedRow, Row
<1> QED BY <1>1, <1>2, RowFields

\* A save of a row whose void is announced, or is by the save itself.
LEMMA SaveLater ==
  ASSUME TypeOK, RowsKept, NEW d \in Docs, NEW row, NEW events, Save(d, row, events),
         Kept(row, outbox[d] \cup events)
  PROVE  /\ Later /\ RowsKept'
         /\ outbox'[d] = outbox[d] \cup events /\ db'[d].status # "none"
<1>1. /\ outbox'[d] = outbox[d] \cup events /\ db'[d] = row
      /\ \A e \in Docs \ {d} : outbox'[e] = outbox[e] /\ db'[e] = db[e]
  BY DEF Save, TypeOK
<1> QED BY <1>1 DEF Later, RowsKept, Announced, Kept

\* Nothing written: nothing is taken back.
LEMMA UnwrittenLater ==
  ASSUME RowsKept, UNCHANGED <<db, outbox>>
  PROVE  Later /\ RowsKept'
BY DEF Later, RowsKept

\* What has been handled stays handled.
LEMMA AnsweredLater ==
  ASSUME Later, requeued \subseteq requeued', NEW message, Answered(message)
  PROVE  \A d \in Invoices \ requeued' :
           /\ message = <<"issued", d>> => db'[d].status # "none"
           /\ message = <<"voided", d>> => Announced(outbox'[d])
BY DEF Later, Answered, Docs

\* The queue keeps its promises when nothing is taken back or taken out.
LEMMA QueueKept ==
  ASSUME Later, IssuedHasRow, VoidIsAnnounced, requeued \subseteq requeued',
         inbox \subseteq inbox',
         \A d \in voidedAt' \ voidedAt : <<"voided", d>> \in inbox',
         voidedAt \subseteq Docs
  PROVE  IssuedHasRow' /\ VoidIsAnnounced'
BY DEF Later, IssuedHasRow, VoidIsAnnounced, Announced, Docs

\* Copies that stay as they are, or are let go.
LEMMA OthersKept ==
  ASSUME TypeOK, CopiesAreSound, CopiesKept, Later,
         DOMAIN batch' \subseteq DOMAIN batch,
         \A e \in DOMAIN batch' : batch'[e] = batch[e],
         \A b \in Actors : \/ pc'[b] \in AtRest
                           \/ pc'[b] = pc[b] /\ doc'[b] = doc[b] /\ copy'[b] = copy[b]
                           \/ Kept(copy'[b], outbox'[doc'[b]])
  PROVE  CopiesKept'
<1>1. ASSUME NEW e \in DOMAIN batch' PROVE Kept(batch'[e], outbox'[e])
  <2>1. e \in Docs /\ Kept(batch[e], outbox[e]) /\ batch'[e] = batch[e]
    BY <1>1 DEF CopiesKept, TypeOK
  <2> QED BY <2>1 DEF Kept, Later
<1>2. ASSUME NEW b \in Actors, pc'[b] \notin AtRest PROVE Kept(copy'[b], outbox'[doc'[b]])
  <2>1. CASE pc'[b] = pc[b] /\ doc'[b] = doc[b] /\ copy'[b] = copy[b]
    <3>1. doc[b] \in Docs /\ Kept(copy[b], outbox[doc[b]])
      BY <1>2, <2>1, AtWork DEF AtRest, CopiesKept
    <3> QED BY <2>1, <3>1 DEF Kept, Later
  <2> QED BY <1>2, <2>1
<1> QED BY <1>1, <1>2 DEF CopiesKept

\* An actor moves on, and nothing is taken back.
LEMMA MoveKept ==
  ASSUME TypeOK, CopiesAreSound, VoidInv, Later, RowsKept',
         NEW a \in Actors, NEW position, NEW d, NEW row, GoOn(a, position, d, row),
         UNCHANGED <<voidedAt, inbox, requeued>>,
         handling' = handling \/ a = Consumer,
         DOMAIN batch' \subseteq DOMAIN batch,
         \A e \in DOMAIN batch' : batch'[e] = batch[e],
         position \in AtRest \/ Kept(row, outbox'[d]),
         a = Consumer =>
           \/ /\ position = "ack"
              /\ \A e \in Invoices \ requeued :
                   /\ handling' = <<"issued", e>> => db'[e].status # "none"
                   /\ handling' = <<"voided", e>> => Announced(outbox'[e])
           \/ /\ position \notin AtRest
              /\ handling' = <<IF position = "void" THEN "voided" ELSE "issued", d>>
  PROVE  VoidInv'
<1>1. /\ pc'[a] = position /\ doc'[a] = d /\ copy'[a] = row
      /\ \A b \in Actors \ {a} : pc'[b] = pc[b] /\ doc'[b] = doc[b] /\ copy'[b] = copy[b]
  BY DEF GoOn, TypeOK
<1>2. CopiesKept'
  BY <1>1, OthersKept DEF VoidInv
<1>3. Handled'
  <2>1. CASE a = Consumer
    BY <1>1, <2>1 DEF Handled, Answered, AtRest
  <2>2. CASE a # Consumer
    <3>1. /\ pc'[Consumer] = pc[Consumer] /\ doc'[Consumer] = doc[Consumer]
          /\ handling' = handling
      BY <1>1, <2>2 DEF Actors
    <3>2. Answered(handling) => Answered(handling)'
      BY <3>1, AnsweredLater DEF Answered
    <3> QED BY <3>1, <3>2 DEF VoidInv, Handled
  <2> QED BY <2>1, <2>2
<1>4. IssuedHasRow' /\ VoidIsAnnounced'
  BY QueueKept DEF VoidInv, TypeOK, Docs
<1> QED BY <1>2, <1>3, <1>4 DEF VoidInv

\* An actor at work saves its copy, changed, and goes on with it or returns.
LEMMA WriteKept ==
  ASSUME TypeOK, CopiesAreSound, VoidInv, NEW a \in Actors,
         pc[a] \notin AtRest \cup {"void"},
         NEW row, NEW events, Save(doc[a], row, events),
         row.status # "none", row.voided = copy[a].voided,
         UNCHANGED <<voidedAt, inbox, requeued, handling, batch>>,
         Finish(a) \/ \E position \in Positions \ (AtRest \cup {"void"}) :
                         GoOn(a, position, doc[a], row)
  PROVE  VoidInv'
<1>1. doc[a] \in Docs /\ Kept(copy[a], outbox[doc[a]])
  BY AtWork DEF AtRest, VoidInv, CopiesKept
<1>2. Kept(row, outbox[doc[a]] \cup events)
  BY <1>1 DEF Kept, Announced
<1>3. /\ Later /\ RowsKept' /\ db'[doc[a]].status # "none"
      /\ Kept(row, outbox'[doc[a]])
  BY <1>1, <1>2, SaveLater DEF VoidInv
<1>4. a = Consumer => handling = <<"issued", doc[a]>>
  BY DEF VoidInv, Handled, AtRest
<1>5. CASE Finish(a)
  <2>1. GoOn(a, IF a = Consumer THEN "ack" ELSE "idle", NoDoc, NoRow)
    BY <1>5 DEF Finish
  <2>2. a = Consumer =>
          \A e \in Invoices \ requeued :
            /\ handling' = <<"issued", e>> => db'[e].status # "none"
            /\ handling' = <<"voided", e>> => Announced(outbox'[e])
    BY <1>3, <1>4
  <2> QED BY <1>3, <2>1, <2>2, MoveKept DEF AtRest
<1>6. ASSUME NEW position \in Positions \ (AtRest \cup {"void"}),
             GoOn(a, position, doc[a], row)
      PROVE  VoidInv'
  BY <1>3, <1>4, <1>6, MoveKept
<1> QED BY <1>5, <1>6

\* fail() keeps the copy's word on the void as well.
LEMMA FailKept ==
  ASSUME TypeOK, CopiesAreSound, VoidInv, NEW a \in Actors,
         pc[a] \notin AtRest \cup {"void"},
         NEW row \in Row, row.voided = copy[a].voided, NEW permanent, Fail(a, row, permanent),
         UNCHANGED <<voidedAt, inbox, requeued, handling, batch>>
  PROVE  VoidInv'
<1> DEFINE failed == FailedRow(row, permanent)
           events == {Published("error", failed.next = "never")}
<1>1. failed.status # "none" /\ failed.voided = copy[a].voided
  BY WordKept
<1>2. Save(doc[a], failed, events) /\ Finish(a)
  BY DEF Fail
<1> HIDE DEF failed, events
<1> QED BY <1>1, <1>2, WriteKept

\* An actor at work moves on without writing.
LEMMA MoveOnlyKept ==
  ASSUME TypeOK, CopiesAreSound, VoidInv, NEW a \in Actors, NEW position,
         pc[a] \notin AtRest \cup {"void"}, position \notin AtRest \cup {"void"},
         GoOn(a, position, doc[a], copy[a]),
         UNCHANGED <<db, outbox, voidedAt, inbox, requeued, handling, batch>>
  PROVE  VoidInv'
<1>1. Later /\ RowsKept'
  BY UnwrittenLater DEF VoidInv
<1>2. Kept(copy[a], outbox'[doc[a]])
  BY DEF VoidInv, CopiesKept
<1>3. a = Consumer => handling = <<"issued", doc[a]>>
  BY DEF VoidInv, Handled, AtRest
<1> QED BY <1>1, <1>2, <1>3, MoveKept

\* An emission begins on a row that is there, or is about to be.
LEMMA StartKept ==
  ASSUME NEW row \in Row, NEW events, NEW byHand \in BOOLEAN,
         row.voided => Kept(row, events)
  PROVE  Kept(StartingCopy(row, byHand), events)
<1>1. NewRow.status # "none" /\ ~NewRow.voided
  BY DEF NewRow, NoRow
<1> DEFINE found == IF row.status = "none" THEN NewRow ELSE row
<1>2. found \in Row /\ Kept(found, events)
  BY <1>1, RowsTyped DEF Kept
<1>3. StartingCopy(row, byHand) \in {found, [found EXCEPT !.retry = 0]}
  BY DEF StartingCopy
<1> HIDE DEF found
<1> QED BY <1>2, <1>3 DEF Kept, Row

\* The steps of an emission keep what is known of voidings.
LEMMA EmissionKept ==
  ASSUME TypeOK, CopiesAreSound, VoidInv, NEW a \in Actors, Emission(a)
  PROVE  VoidInv'
<1>0. pc[a] \notin AtRest \cup {"void"} /\ UNCHANGED <<voidedAt, inbox, requeued, handling, batch>>
  BY DEF Emission, PrepareFails, SavePending, Send, SendNeverArrives, SaveSent, SaveGap,
         SaveRejected, SaveLost, AtRest, queueVars, jobVars
<1>1. copy[a] \in Row /\ copy[a].status # "none"
  BY <1>0, AtWork DEF AtRest, VoidInv, CopiesKept, Kept
<1>2. ASSUME NEW permanent \in BOOLEAN, Fail(a, copy[a], permanent) PROVE VoidInv'
  BY <1>0, <1>1, <1>2, FailKept
<1>3. CASE PrepareFails(a) \/ SaveLost(a)
  BY <1>2, <1>3 DEF PrepareFails, SaveLost
<1>4. {"send", "gap", "received", "returned", "lost"} \subseteq Positions \ (AtRest \cup {"void"})
  BY DEF Positions, AtRest
<1>5. CASE SavePending(a)
  BY <1>0, <1>1, <1>4, <1>5, WordKept, WriteKept DEF SavePending
<1>6. CASE SaveSent(a)
  BY <1>0, <1>1, <1>4, <1>6, WordKept, WriteKept DEF SaveSent
<1>7. CASE SaveGap(a)
  BY <1>0, <1>1, <1>7, WriteKept DEF SaveGap
<1>8. CASE SaveRejected(a)
  BY <1>0, <1>1, <1>8, WordKept, WriteKept DEF SaveRejected
<1>9. CASE Send(a) \/ SendNeverArrives(a)
  <2>1. \E position \in {"received", "returned", "lost"} : GoOn(a, position, doc[a], copy[a])
    BY <1>9 DEF Send, SendNeverArrives
  <2>2. UNCHANGED <<db, outbox>>
    BY <1>9 DEF Send, SendNeverArrives
  <2> QED BY <1>0, <1>4, <2>1, <2>2, MoveOnlyKept
<1> QED BY <1>3, <1>5, <1>6, <1>7, <1>8, <1>9 DEF Emission

\* So do those of the consumer.
LEMMA ConsumingKept ==
  ASSUME TypeOK, CopiesAreSound, VoidInv, Consuming
  PROVE  VoidInv'
<1>0. Consumer \in Actors /\ Invoices \subseteq Docs
  BY DEF Actors, Docs
<1>1. ASSUME NEW d \in Invoices, ReceiveIssued(d) PROVE VoidInv'
  <2>1. /\ BeginEmission(Consumer, d, db[d], FALSE) /\ handling' = <<"issued", d>>
        /\ UNCHANGED <<db, outbox, voidedAt, inbox, requeued, batch>>
    BY <1>1 DEF ReceiveIssued, Receive, jobVars
  <2>2. Later /\ RowsKept'
    BY <2>1, UnwrittenLater DEF VoidInv
  <2>3. d \in Docs /\ db[d] \in Row /\ (db[d].voided => Kept(db[d], outbox'[d]))
    BY <1>0, <2>1 DEF TypeOK, VoidInv, RowsKept
  <2>4. CASE MayEmit(db[d])
    <3>1. GoOn(Consumer, "emit", d, StartingCopy(db[d], FALSE))
      BY <2>1, <2>4 DEF BeginEmission
    <3>2. Kept(StartingCopy(db[d], FALSE), outbox'[d])
      BY <2>3, StartKept
    <3> QED BY <1>0, <2>1, <2>2, <3>1, <3>2, MoveKept DEF AtRest
  <2>5. CASE ~MayEmit(db[d])
    <3>1. GoOn(Consumer, "ack", NoDoc, NoRow)
      BY <2>1, <2>5 DEF BeginEmission, Finish
    <3>2. db'[d].status # "none"
      BY <2>1, <2>3, <2>5 DEF MayEmit, Settled, Kept
    <3> QED BY <1>0, <2>1, <2>2, <3>1, <3>2, MoveKept DEF AtRest
  <2> QED BY <2>4, <2>5
<1>2. ASSUME NEW d \in Invoices, ReceiveVoided(d) PROVE VoidInv'
  <2>1. /\ handling' = <<"voided", d>>
        /\ UNCHANGED <<db, outbox, voidedAt, inbox, requeued, batch>>
        /\ <<"issued", d>> \in inbox => d \in requeued
    BY <1>2 DEF ReceiveVoided, Receive, jobVars
  <2>2. Later /\ RowsKept'
    BY <2>1, UnwrittenLater DEF VoidInv
  <2>3. d \in Docs /\ (db[d].voided => Kept(db[d], outbox[d]))
    BY <1>0 DEF VoidInv, RowsKept
  <2>4. CASE db[d].status = "none" \/ db[d].voided
    <3>1. GoOn(Consumer, "ack", NoDoc, NoRow)
      BY <1>2, <2>4 DEF ReceiveVoided, Finish
    <3>2. d \notin requeued => Announced(outbox'[d])
      BY <2>1, <2>3, <2>4 DEF VoidInv, IssuedHasRow, Kept
    <3> QED BY <1>0, <2>1, <2>2, <3>1, <3>2, MoveKept DEF AtRest
  <2>5. CASE ~(db[d].status = "none" \/ db[d].voided)
    <3>1. GoOn(Consumer, "void", d, db[d])
      BY <1>2, <2>5 DEF ReceiveVoided
    <3>2. Kept(db[d], outbox'[d])
      BY <2>5 DEF Kept
    <3> QED BY <1>0, <2>1, <2>2, <3>1, <3>2, MoveKept DEF AtRest
  <2> QED BY <2>4, <2>5
<1>3. CASE SaveVoided
  <2> DEFINE row == VoidedRow(copy[Consumer])
             attention == copy[Consumer].status \in {"authorized", "sent", "pending"}
             events == {Published("void_requires_action", attention)}
  <2>1. /\ Save(doc[Consumer], row, events)
        /\ GoOn(Consumer, "ack", NoDoc, NoRow)
        /\ UNCHANGED <<voidedAt, inbox, requeued, handling, batch>>
        /\ pc[Consumer] = "void"
    BY <1>3 DEF SaveVoided, Finish, queueVars, jobVars
  <2>2. /\ doc[Consumer] \in Docs /\ copy[Consumer] \in Row /\ copy[Consumer].status # "none"
        /\ handling = <<"voided", doc[Consumer]>>
    BY <1>0, <2>1, AtWork DEF VoidInv, CopiesKept, Kept, AtRest, Handled
  <2>3. Announced(outbox[doc[Consumer]] \cup events)
    <3> DEFINE told == Published("void_requires_action", attention)
    <3> HIDE DEF attention, row
    <3>1. told.type = "void_requires_action"
      BY DEF Published
    <3>2. events = {told}
      OBVIOUS
    <3> HIDE DEF told, events
    <3> QED BY <3>1, <3>2 DEF Announced
  <2>4. Kept(row, outbox[doc[Consumer]] \cup events)
    BY <2>2, <2>3, RowFields DEF Kept
  <2> HIDE DEF row, events, attention
  <2>5. Later /\ RowsKept' /\ Announced(outbox'[doc[Consumer]])
    BY <2>1, <2>2, <2>3, <2>4, SaveLater DEF VoidInv
  <2> QED BY <1>0, <2>1, <2>2, <2>5, MoveKept DEF AtRest
<1>4. CASE Acknowledge
  <2>1. /\ GoOn(Consumer, "idle", NoDoc, NoRow) /\ pc[Consumer] = "ack"
        /\ inbox' = inbox \ {handling}
        /\ UNCHANGED <<db, outbox, voidedAt, requeued, batch>>
    BY <1>4 DEF Acknowledge, jobVars
  <2>2. /\ pc'[Consumer] = "idle"
        /\ \A b \in Actors \ {Consumer} :
             pc'[b] = pc[b] /\ doc'[b] = doc[b] /\ copy'[b] = copy[b]
    BY <1>0, <2>1 DEF GoOn, TypeOK
  <2>3. Answered(handling)
    BY <2>1 DEF VoidInv, Handled
  <2>4. Later /\ RowsKept'
    BY <2>1, UnwrittenLater DEF VoidInv
  <2>5. IssuedHasRow'
    BY <2>1, <2>3 DEF VoidInv, IssuedHasRow, Answered
  <2>6. VoidIsAnnounced'
    BY <2>1, <2>3, <1>0 DEF VoidInv, VoidIsAnnounced, Answered, Announced, TypeOK
  <2>7. Handled'
    BY <2>2 DEF Handled
  <2>8. CopiesKept'
    BY <2>1, <2>2, <2>4, OthersKept DEF VoidInv, AtRest
  <2> QED BY <2>4, <2>5, <2>6, <2>7, <2>8 DEF VoidInv
<1> QED BY <1>1, <1>2, <1>3, <1>4 DEF Consuming

\* So do those of a request.
LEMMA RequestingKept ==
  ASSUME TypeOK, CopiesAreSound, VoidInv, NEW w \in Workers, Requesting(w)
  PROVE  VoidInv'
<1>0. w \in Actors /\ w # Consumer
  BY ActorsAssumption DEF Actors
<1>1. CASE StartRetry(w)
  <2>1. /\ BeginEmission(w, doc[w], db[doc[w]], TRUE) /\ pc[w] = "accepted"
        /\ UNCHANGED <<db, outbox, voidedAt, inbox, requeued, handling, batch>>
    BY <1>1 DEF StartRetry, queueVars, jobVars
  <2>2. Later /\ RowsKept'
    BY <2>1, UnwrittenLater DEF VoidInv
  <2>3. doc[w] \in Docs
    BY <1>0, <2>1, AtWork
  <2>4. db[doc[w]] \in Row /\ (db[doc[w]].voided => Kept(db[doc[w]], outbox'[doc[w]]))
    BY <2>1, <2>3 DEF TypeOK, VoidInv, RowsKept
  <2>5. Kept(StartingCopy(db[doc[w]], TRUE), outbox'[doc[w]])
    BY <2>4, StartKept
  <2>6. \/ GoOn(w, "emit", doc[w], StartingCopy(db[doc[w]], TRUE))
        \/ GoOn(w, "idle", NoDoc, NoRow)
    BY <1>0, <2>1 DEF BeginEmission, Finish
  <2> QED BY <1>0, <2>1, <2>2, <2>5, <2>6, MoveKept DEF AtRest
<1>2. ASSUME NEW d \in Docs, AcceptRetry(w, d) PROVE VoidInv'
  <2>1. /\ GoOn(w, "accepted", d, NoRow)
        /\ UNCHANGED <<db, outbox, voidedAt, inbox, requeued, handling, batch>>
    BY <1>2 DEF AcceptRetry, queueVars, jobVars
  <2> QED BY <1>0, <2>1, UnwrittenLater, MoveKept DEF AtRest, VoidInv
<1>3. ASSUME NEW d \in Docs, IssueDirect(w, d) PROVE VoidInv'
  <2>1. /\ Save(d, NewRow, {}) /\ GoOn(w, "emit", d, NewRow)
        /\ UNCHANGED <<voidedAt, inbox, requeued, handling, batch>>
    BY <1>3 DEF IssueDirect, queueVars, jobVars
  <2>2. Kept(NewRow, outbox[d] \cup {}) /\ Kept(NewRow, outbox'[d])
    BY DEF Kept, NewRow, NoRow
  <2>3. Later /\ RowsKept'
    BY <2>1, <2>2, SaveLater DEF VoidInv
  <2> QED BY <1>0, <2>1, <2>2, <2>3, MoveKept
<1> QED BY <1>1, <1>2, <1>3 DEF Requesting

\* So do those of the reconciliation job.
LEMMA ReconcilingKept ==
  ASSUME TypeOK, CopiesAreSound, VoidInv, Reconciling
  PROVE  VoidInv'
<1>0. Job \in Actors /\ Job # Consumer
  BY DEF Actors, Job, Consumer
<1>1. CASE StartPass \/ NextBatch
  <2>1. UNCHANGED <<db, outbox, queueVars, actorVars>>
    BY <1>1 DEF StartPass, NextBatch
  <2>2. \/ batch' = NoBatch
        \/ \E docs \in SUBSET Docs : /\ batch' = Batch(docs)
                                     /\ \A d \in docs : db[d].status # "none"
    BY <1>1 DEF StartPass, NextBatch, Due, StalePending
  <2>3. \A d \in DOMAIN batch' : Kept(batch'[d], outbox'[d])
    BY <2>1, <2>2 DEF NoBatch, Batch, Kept, VoidInv, RowsKept
  <2> QED BY <2>1, <2>3 DEF VoidInv, RowsKept, CopiesKept, Handled, Answered,
                            IssuedHasRow, VoidIsAnnounced, queueVars, actorVars
<1>2. ASSUME NEW d \in Docs, Take(d)
      PROVE  /\ d \in DOMAIN batch
             /\ UNCHANGED <<db, outbox, voidedAt, inbox, requeued, handling>>
             /\ DOMAIN batch' \subseteq DOMAIN batch
             /\ \A e \in DOMAIN batch' : batch'[e] = batch[e]
             /\ Later /\ RowsKept'
  BY <1>2, UnwrittenLater DEF Take, queueVars, VoidInv
<1>3. ASSUME NEW d \in Docs, StartCheck(d) PROVE VoidInv'
  <2>1. Take(d) /\ GoOn(Job, "query", d, batch[d])
    BY <1>3 DEF StartCheck
  <2>2. Kept(batch[d], outbox'[d])
    BY <1>2, <2>1 DEF VoidInv, CopiesKept
  <2> QED BY <1>0, <1>2, <2>1, <2>2, MoveKept
<1>4. ASSUME NEW d \in Docs, StartAutoRetry(d) PROVE VoidInv'
  <2> DEFINE row == IF d \in Directs THEN batch[d] ELSE db[d]
  <2>1. Take(d) /\ BeginEmission(Job, d, row, FALSE)
    BY <1>4 DEF StartAutoRetry
  <2>2. row \in Row /\ (row.voided => Kept(row, outbox'[d]))
    BY <1>2, <2>1 DEF TypeOK, VoidInv, RowsKept, CopiesKept
  <2> HIDE DEF row
  <2>3. Kept(StartingCopy(row, FALSE), outbox'[d])
    BY <2>2, StartKept
  <2>4. GoOn(Job, "emit", d, StartingCopy(row, FALSE)) \/ GoOn(Job, "idle", NoDoc, NoRow)
    BY <1>0, <2>1 DEF BeginEmission, Finish
  <2> QED BY <1>0, <1>2, <2>1, <2>3, <2>4, MoveKept DEF AtRest
<1>5. CASE Query
  <2>1. /\ pc[Job] = "query"
        /\ UNCHANGED <<db, outbox, voidedAt, inbox, requeued, handling, batch>>
        /\ \E position \in {"processing", "yes", "no"} : GoOn(Job, position, doc[Job], copy[Job])
    BY <1>5 DEF Query, queueVars, jobVars
  <2> QED BY <1>0, <2>1, MoveOnlyKept DEF AtRest
<1>6. CASE SaveAuthorized \/ SaveNotAuthorized \/ SaveUnchecked
  <2>1. /\ pc[Job] \in {"yes", "no", "processing"} /\ Finish(Job)
        /\ UNCHANGED <<voidedAt, inbox, requeued, handling, batch>>
        /\ \E row \in {AuthorizedRow(copy[Job]), RejectedRow(copy[Job]), UncheckedRow(copy[Job])} :
              \E events : Save(doc[Job], row, events)
    BY <1>6 DEF SaveAuthorized, SaveNotAuthorized, SaveUnchecked, queueVars, jobVars
  <2>2. copy[Job] \in Row /\ copy[Job].status # "none"
    BY <1>0, <2>1, AtWork DEF AtRest, VoidInv, CopiesKept, Kept
  <2> QED BY <1>0, <2>1, <2>2, WordKept, WriteKept DEF AtRest
<1> QED BY <1>1, <1>3, <1>4, <1>5, <1>6 DEF Reconciling

\* So do the failures of a step and of the process.
LEMMA FailingKept ==
  ASSUME TypeOK, CopiesAreSound, VoidInv, Failing
  PROVE  VoidInv'
<1>0. Requeued = requeued \cup {handling[2]} \/ Requeued = requeued
  BY DEF Requeued
<1>1. CASE Crash
  <2>1. /\ UNCHANGED <<db, outbox, voidedAt, inbox>> /\ requeued \subseteq requeued'
        /\ DOMAIN batch' = {} /\ \A a \in Actors : pc'[a] = "idle"
    BY <1>0, <1>1 DEF Crash, NoBatch
  <2>2. Later /\ RowsKept'
    BY <2>1, UnwrittenLater DEF VoidInv
  <2>3. CopiesKept' /\ Handled'
    BY <2>1 DEF CopiesKept, Handled, AtRest, Actors
  <2>4. IssuedHasRow' /\ VoidIsAnnounced'
    BY <2>1, <2>2, QueueKept DEF VoidInv, TypeOK, Docs
  <2> QED BY <2>2, <2>3, <2>4 DEF VoidInv
<1>2. CASE QueryStalls
  <2>1. /\ Job \in Actors /\ Job # Consumer /\ GoOn(Job, "idle", NoDoc, NoRow)
        /\ UNCHANGED <<db, outbox, voidedAt, inbox, requeued, handling, batch>>
    BY <1>2 DEF QueryStalls, Finish, queueVars, jobVars, Actors, Job, Consumer
  <2> QED BY <2>1, UnwrittenLater, MoveKept DEF AtRest, VoidInv
<1>3. ASSUME NEW a \in Actors, Abandon(a) PROVE VoidInv'
  <2>1. /\ UNCHANGED <<db, outbox, voidedAt, inbox, batch>> /\ requeued \subseteq requeued'
        /\ GoOn(a, "idle", NoDoc, NoRow)
        /\ a # Consumer => UNCHANGED <<requeued, handling>>
    BY <1>0, <1>3 DEF Abandon, jobVars
  <2>2. /\ pc'[a] = "idle"
        /\ \A b \in Actors \ {a} : pc'[b] = pc[b] /\ doc'[b] = doc[b] /\ copy'[b] = copy[b]
    BY <2>1 DEF GoOn, TypeOK
  <2>3. Later /\ RowsKept'
    BY <2>1, UnwrittenLater DEF VoidInv
  <2>4. CopiesKept'
    BY <2>1, <2>2, <2>3, OthersKept DEF VoidInv, AtRest
  <2>5. Handled'
    <3>1. CASE a = Consumer
      BY <2>2, <3>1 DEF Handled
    <3>2. CASE a # Consumer
      BY <2>1, <2>2, <3>2 DEF VoidInv, Handled, Answered, Actors
    <3> QED BY <3>1, <3>2
  <2>6. IssuedHasRow' /\ VoidIsAnnounced'
    BY <2>1, <2>3, QueueKept DEF VoidInv, TypeOK, Docs
  <2> QED BY <2>3, <2>4, <2>5, <2>6 DEF VoidInv
<1>4. ASSUME NEW a \in Actors, StoreFails(a) PROVE VoidInv'
  <2>1. /\ pc[a] \in {"received", "gap", "returned"}
        /\ UNCHANGED <<voidedAt, inbox, requeued, handling, batch>>
        /\ Fail(a, SentRow(copy[a]), FALSE) \/ Fail(a, copy[a], FALSE)
    BY <1>4 DEF StoreFails, queueVars, jobVars
  <2>2. copy[a] \in Row /\ SentRow(copy[a]) \in Row /\ SentRow(copy[a]).voided = copy[a].voided
    BY <2>1, AtWork, RowsTyped, WordKept
  <2>3. PICK row \in {SentRow(copy[a]), copy[a]} : Fail(a, row, FALSE)
    BY <2>1
  <2> QED BY <2>1, <2>2, <2>3, FailKept DEF AtRest
<1> QED BY <1>1, <1>2, <1>3, <1>4 DEF Failing

\* So do billing's voidings, the clock and the SRI.
LEMMA SurroundingsKept ==
  ASSUME TypeOK, CopiesAreSound, VoidInv, NEW d \in Docs,
         BillingVoids(d) \/ FallDue(d) \/ GrowOld(d) \/ SriDecides(d)
  PROVE  VoidInv'
<1>1. /\ UNCHANGED <<outbox, requeued, handling, jobVars, actorVars>>
      /\ inbox \subseteq inbox'
      /\ \A e \in voidedAt' \ voidedAt : <<"voided", e>> \in inbox'
      /\ \A e \in Docs : db'[e].status = db[e].status /\ db'[e].voided = db[e].voided
  BY DEF BillingVoids, FallDue, GrowOld, SriDecides, TypeOK, Row, queueVars
<1>2. Later /\ RowsKept'
  BY <1>1 DEF Later, VoidInv, RowsKept, Kept
<1>3. CopiesKept'
  BY <1>1 DEF VoidInv, CopiesKept, jobVars, actorVars
<1>4. Handled'
  BY <1>1 DEF VoidInv, Handled, Answered, actorVars, Docs
<1>5. IssuedHasRow' /\ VoidIsAnnounced'
  BY <1>1, <1>2, QueueKept DEF VoidInv, TypeOK, Docs
<1> QED BY <1>2, <1>3, <1>4, <1>5 DEF VoidInv

\* There are no voidings at the start.
LEMMA InitVoidInv == Init => VoidInv
BY DEF Init, VoidInv, RowsKept, CopiesKept, Handled, IssuedHasRow, VoidIsAnnounced,
       NoRow, NoBatch, AtRest, Actors

\* What is known of voidings is inductive.
LEMMA StepVoidInv == IInv /\ VoidInv /\ [Next]_vars => VoidInv'
<1> SUFFICES ASSUME TypeOK, CopiesAreSound, VoidInv, [Next]_vars
             PROVE  VoidInv'
  BY DEF IInv
<1>1. CASE UNCHANGED vars
  BY <1>1 DEF vars, VoidInv, RowsKept, CopiesKept, Handled, Answered, IssuedHasRow,
              VoidIsAnnounced
<1> QED BY <1>1, EmissionKept, ConsumingKept, ReconcilingKept, RequestingKept,
           FailingKept, SurroundingsKept DEF Next

\* Every void whose message the queue did not have to deliver twice, and so
\* maybe out of order, has been announced once that message is gone.
THEOREM VoidsAreAnnounced == Spec => []VoidIsAnnounced
<1>1. Spec => []VoidInv
  BY Invariance, InitVoidInv, StepVoidInv, PTL DEF Spec
<1>2. VoidInv => VoidIsAnnounced
  BY DEF VoidInv
<1> QED BY <1>1, <1>2, PTL

-----------------------------------------------------------------------------
(***************************************************************************)
(* The promise to the listeners: every step publishes what is established, *)
(* establishes a fact, or is invisible to them.                            *)
(***************************************************************************)

Visible == <<sri, [d \in Docs |-> SaidAbout(d)]>>

\* A step that changes neither facts nor events is a stutter of the promise.
LEMMA Invisible ==
  ASSUME UNCHANGED <<outbox, sri>>
  PROVE  UNCHANGED Visible
BY DEF Visible, SaidAbout

\* An event that claims nothing about the SRI is not heard.
LEMMA Unheard ==
  ASSUME TypeOK, NEW d \in Docs, NEW row, NEW events, Save(d, row, events), sri' = sri,
         \A e \in events : e.type \notin {"sent", "authorized", "rejected"}
  PROVE  UNCHANGED Visible
<1>1. \A x \in Docs : SaidAbout(x)' = SaidAbout(x)
  BY DEF Save, TypeOK, SaidAbout
<1> QED BY <1>1 DEF Visible

\* An event that claims what was established is what the promise allows.
LEMMA Heard ==
  ASSUME TypeOK, NEW d \in Docs, NEW row, NEW type \in {"sent", "authorized", "rejected"},
         NEW attention, Save(d, row, {Published(type, attention)}), sri' = sri,
         Promise!Grounds(type) \cap sri[d] # {}
  PROVE  Promise!Next
<1> DEFINE said == [x \in Docs |-> SaidAbout(x)]
<1>1. \A x \in Docs : SaidAbout(x)' = IF x = d THEN SaidAbout(x) \cup {type} ELSE SaidAbout(x)
  <2>1. /\ outbox'[d] = outbox[d] \cup {Published(type, attention)}
        /\ \A x \in Docs \ {d} : outbox'[x] = outbox[x]
    BY DEF Save, TypeOK
  <2>2. Published(type, attention).type = type
    BY DEF Published
  <2>3. SaidAbout(d)' = SaidAbout(d) \cup {type}
    <3>1. \A t : t \in SaidAbout(d)' <=> t \in SaidAbout(d) \/ t = type
      BY <2>1, <2>2 DEF SaidAbout
    <3> QED BY <3>1
  <2>4. \A x \in Docs \ {d} : SaidAbout(x)' = SaidAbout(x)
    BY <2>1 DEF SaidAbout
  <2> QED BY <2>3, <2>4
<1>2. said' = [said EXCEPT ![d] = @ \cup {type}]
  BY <1>1
<1>3. Promise!Publish(d, type)
  BY <1>2 DEF Promise!Publish
<1> QED BY <1>3 DEF Promise!Next, Promise!Claims

\* What the SRI establishes, seen by nobody yet.
LEMMA Established ==
  ASSUME NEW d \in Docs, NEW fact \in Facts, sri' = [sri EXCEPT ![d] = @ \cup {fact}],
         UNCHANGED outbox,
         fact \in Promise!Verdicts =>
           "received" \in sri[d] /\ sri[d] \cap Promise!Verdicts = {}
  PROVE  Promise!Next
<1>1. UNCHANGED [x \in Docs |-> SaidAbout(x)]
  BY DEF SaidAbout
<1>2. Promise!Establish(d, fact)
  BY <1>1 DEF Promise!Establish
<1> QED BY <1>2 DEF Promise!Next, Promise!Facts, Promise!Verdicts, Facts

\* fail() publishes nothing that claims anything about the SRI.
LEMMA FailUnheard ==
  ASSUME TypeOK, NEW a \in Actors, doc[a] \in Docs, NEW row, NEW permanent,
         Fail(a, row, permanent), sri' = sri
  PROVE  UNCHANGED Visible
<1> DEFINE failed == FailedRow(row, permanent)
<1>1. Save(doc[a], failed, {Published("error", failed.next = "never")})
  BY DEF Fail
<1>2. \A attention : Published("error", attention).type = "error"
  BY DEF Published
<1> HIDE DEF failed
<1> QED BY <1>1, <1>2, Unheard

\* A step of an emission is a step of the promise, or a stutter.
LEMMA EmissionPromise ==
  ASSUME TypeOK, CopiesAreSound, NEW a \in Actors, Emission(a)
  PROVE  Promise!Next \/ UNCHANGED Visible
<1>0. doc[a] \in Docs /\ Ready(pc[a], copy[a], sri[doc[a]], outbox[doc[a]])
  <2>1. pc[a] \notin {"idle", "ack"}
    BY DEF Emission, PrepareFails, SavePending, Send, SendNeverArrives, SaveSent, SaveGap,
           SaveRejected, SaveLost
  <2> QED BY <2>1, AtWork
<1>1. CASE PrepareFails(a) \/ SaveLost(a)
  BY <1>0, <1>1, FailUnheard DEF PrepareFails, SaveLost
<1>2. CASE SavePending(a)
  BY <1>0, <1>2, Unheard DEF SavePending
<1>3. CASE Send(a)
  <2>1. PICK fact \in {"received", "returned"} : sri' = [sri EXCEPT ![doc[a]] = @ \cup {fact}]
    BY <1>3 DEF Send
  <2>2. fact \in Facts /\ fact \notin Promise!Verdicts /\ UNCHANGED outbox
    BY <1>3 DEF Send, Facts, Promise!Verdicts
  <2> QED BY <1>0, <2>1, <2>2, Established
<1>4. CASE SendNeverArrives(a)
  BY <1>4, Invisible DEF SendNeverArrives
<1>5. CASE SaveSent(a)
  <2>1. "received" \in Promise!Grounds("sent") \cap sri[doc[a]]
    BY <1>0, <1>5 DEF SaveSent, Ready, Promise!Grounds
  <2> QED BY <1>0, <1>5, <2>1, Heard DEF SaveSent
<1>6. CASE SaveGap(a)
  <2>1. Published("sequence_gap", FALSE).type = "sequence_gap"
    BY DEF Published
  <2> QED BY <1>0, <1>6, <2>1, Unheard DEF SaveGap
<1>7. CASE SaveRejected(a)
  <2>1. "returned" \in Promise!Grounds("rejected") \cap sri[doc[a]]
    BY <1>0, <1>7 DEF SaveRejected, Ready, Promise!Grounds
  <2> QED BY <1>0, <1>7, <2>1, Heard DEF SaveRejected
<1> QED BY <1>1, <1>2, <1>3, <1>4, <1>5, <1>6, <1>7 DEF Emission

\* A step of the job is a step of the promise, or a stutter.
LEMMA ReconcilingPromise ==
  ASSUME TypeOK, CopiesAreSound, Reconciling
  PROVE  Promise!Next \/ UNCHANGED Visible
<1>1. CASE StartPass \/ NextBatch \/ Query \/ \E d \in Docs : StartCheck(d) \/ StartAutoRetry(d)
  <2>1. CASE StartPass \/ NextBatch
    BY <2>1, Invisible DEF StartPass, NextBatch
  <2>2. CASE Query
    BY <2>2, Invisible DEF Query
  <2>3. CASE \E d \in Docs : StartCheck(d) \/ StartAutoRetry(d)
    <3>1. \E d \in Docs : Take(d)
      BY <2>3 DEF StartCheck, StartAutoRetry
    <3> QED BY <3>1, Invisible DEF Take
  <2> QED BY <1>1, <2>1, <2>2, <2>3
<1>2. ASSUME pc[Job] \notin {"idle", "ack"}
      PROVE  doc[Job] \in Docs /\ Ready(pc[Job], copy[Job], sri[doc[Job]], outbox[doc[Job]])
  BY <1>2, AtWork DEF Actors
<1>3. CASE SaveAuthorized
  <2>1. /\ doc[Job] \in Docs
        /\ "authorized" \in Promise!Grounds("authorized") \cap sri[doc[Job]]
    BY <1>2, <1>3 DEF SaveAuthorized, Ready, Promise!Grounds
  <2> QED BY <1>3, <2>1, Heard DEF SaveAuthorized
<1>4. CASE SaveNotAuthorized
  <2>1. /\ doc[Job] \in Docs
        /\ "notAuthorized" \in Promise!Grounds("rejected") \cap sri[doc[Job]]
    BY <1>2, <1>4 DEF SaveNotAuthorized, Ready, Promise!Grounds
  <2> QED BY <1>4, <2>1, Heard DEF SaveNotAuthorized
<1>5. CASE SaveUnchecked
  <2> DEFINE row == UncheckedRow(copy[Job])
             events == IF row.status = "error" THEN {Published("error", TRUE)} ELSE {}
  <2>1. Save(doc[Job], row, events) /\ sri' = sri /\ doc[Job] \in Docs
    BY <1>2, <1>5 DEF SaveUnchecked
  <2>2. \A e \in events : e.type \notin {"sent", "authorized", "rejected"}
    BY DEF Published
  <2> HIDE DEF row, events
  <2> QED BY <2>1, <2>2, Unheard
<1> QED BY <1>1, <1>3, <1>4, <1>5 DEF Reconciling

\* Every step of the processor is a step of the promise, or a stutter.
LEMMA StepPromise == IInv /\ [Next]_vars => Promise!Next \/ UNCHANGED Visible
<1> SUFFICES ASSUME TypeOK, CopiesAreSound, [Next]_vars
             PROVE  Promise!Next \/ UNCHANGED Visible
  BY DEF IInv
<1>1. ASSUME NEW a \in Actors, Emission(a)
      PROVE  Promise!Next \/ UNCHANGED Visible
  BY <1>1, EmissionPromise
<1>2. CASE Consuming
  <2>1. CASE SaveVoided
    <3>1. doc[Consumer] \in Docs
      BY <2>1, AtWork DEF SaveVoided, Actors
    <3>2. \A attention : Published("void_requires_action", attention).type = "void_requires_action"
      BY DEF Published
    <3> DEFINE attention == copy[Consumer].status \in {"authorized", "sent", "pending"}
               events == {Published("void_requires_action", attention)}
    <3>3. Save(doc[Consumer], VoidedRow(copy[Consumer]), events) /\ sri' = sri
      BY <2>1 DEF SaveVoided
    <3>4. \A e \in events : e.type = "void_requires_action"
      <4> HIDE DEF attention
      <4> QED BY <3>2
    <3> HIDE DEF events
    <3> QED BY <3>1, <3>3, <3>4, Unheard
  <2>2. CASE Acknowledge \/ \E d \in Invoices : ReceiveIssued(d) \/ ReceiveVoided(d)
    BY <2>2, Invisible DEF Acknowledge, ReceiveIssued, ReceiveVoided, Receive
  <2> QED BY <1>2, <2>1, <2>2 DEF Consuming
<1>3. CASE Reconciling
  BY <1>3, ReconcilingPromise
<1>4. ASSUME NEW w \in Workers, Requesting(w)
      PROVE  UNCHANGED Visible
  <2>1. ASSUME NEW d \in Docs, IssueDirect(w, d)
        PROVE  UNCHANGED Visible
    BY <2>1, Unheard DEF IssueDirect
  <2> QED BY <1>4, <2>1, Invisible DEF Requesting, StartRetry, AcceptRetry
<1>5. CASE Failing
  <2>1. ASSUME NEW a \in Actors, StoreFails(a)
        PROVE  UNCHANGED Visible
    <3>1. doc[a] \in Docs
      BY <2>1, AtWork DEF StoreFails
    <3> QED BY <2>1, <3>1, FailUnheard DEF StoreFails
  <2>2. CASE Crash \/ QueryStalls \/ \E a \in Actors : Abandon(a)
    BY <2>2, Invisible DEF Crash, QueryStalls, Abandon
  <2> QED BY <1>5, <2>1, <2>2 DEF Failing
<1>6. ASSUME NEW d \in Docs, BillingVoids(d) \/ FallDue(d) \/ GrowOld(d) \/ SriDecides(d)
      PROVE  Promise!Next \/ UNCHANGED Visible
  <2>1. CASE SriDecides(d)
    <3>1. PICK verdict \in {"authorized", "notAuthorized"} :
            sri' = [sri EXCEPT ![d] = @ \cup {verdict}]
      BY <2>1 DEF SriDecides
    <3>2. /\ "received" \in sri[d] /\ sri[d] \cap Promise!Verdicts = {}
          /\ verdict \in Facts /\ UNCHANGED outbox
      BY <2>1 DEF SriDecides, Promise!Verdicts, Facts
    <3> QED BY <3>1, <3>2, Established
  <2>2. CASE BillingVoids(d) \/ FallDue(d) \/ GrowOld(d)
    BY <2>2, Invisible DEF BillingVoids, FallDue, GrowOld
  <2> QED BY <1>6, <2>1, <2>2
<1>7. CASE UNCHANGED vars
  BY <1>7, Invisible DEF vars
<1> QED BY <1>1, <1>2, <1>3, <1>4, <1>5, <1>6, <1>7 DEF Next

\* The initial states of the processor are those of the promise.
LEMMA InitPromise == Init => Promise!Init
BY DEF Init, Promise!Init, SaidAbout

\* fiscal.ec.invoice.sent, .authorized and .rejected never run ahead of the
\* SRI: the processor implements Announcements.
THEOREM PromiseKept == Spec => KeepsPromise
<1>1. IInv /\ [Next]_vars => [Promise!Next]_(Promise!vars)
  BY StepPromise DEF Visible, Promise!vars
<1> QED BY <1>1, InitPromise, Invariance, PTL DEF Spec, KeepsPromise, Promise!Spec

=============================================================================
