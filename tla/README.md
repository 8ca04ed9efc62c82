# A verification of fiscal-ecuador in TLA+

fiscal-ecuador issues electronic documents (invoices, credit and debit notes,
withholdings, delivery guides) to the SRI, the tax authority of Ecuador. This
directory holds TLA+ models of its logic, TLC configurations that check them on
small instances, and TLAPS proofs of the theorems that matter most. Paths below
are relative to the repository; `fiscal-processor.ts` is
`src/application/fiscal-processor.ts`, and so on.

    tlc -workers 2 -config processor_invoice.cfg MCFiscalProcessor.tla
    tlapm FiscalProcessor_proofs.tla

## 1. The system

| Component | State | Operations |
|---|---|---|
| Emission processor (`fiscal-processor.ts`) | none of its own: it reads and saves rows of `fiscal_invoices` | `processIssued`, `processVoided`, `processDirect`, `retry`, `checkAuthorization`, `runDueWork` |
| Consumer and timer (`consumer.ts`) | the RabbitMQ queue; the flag `running` | handlers of `billing.invoice.issued` and `.voided`; one pass of the job each minute |
| Row store and outbox (`stores.ts`) | `fiscal_invoices`, outbox | `save` (row and events in one transaction), `findDue`, `findStalePending`, … |
| Access keys (`access-key.ts`, `ecuador-time.ts`) | `access_key` of a row | a key from date, number, issuer and a hash of the id |
| SRI client (`sri-client.ts`) | none; the SRI's registry behind it | reception and authorization, and what each answer means |
| Certificates (`app.ts`, `stores.ts`) | `certificates` | upload, revoke, `pickCertificate`, `markExpired` |
| Direct issuer (`direct-document-issuer.ts`) | `fiscal_sequences`, `fiscal_invoices` | validate, resolve the issuer, reserve a number and create the row |
| Withholding amounts (`direct-documents.ts`, `withholding-event.ts`) | `original_payload` | `computeWithholdings`, the accounting event |
| Withholdings and guides (`direct-routes.ts`, `direct-document-issuer.ts`, their two builders) | `original_payload`, the XML | the schemas, the issuer's checks, what each attempt builds |
| Invoice and note documents (`invoice-validation.ts`, `sri-tax-codes.ts`, `fiscal-catalogs.ts`, three builders) | the XML sent and the one kept | validation, the document a note modifies, tax codes, totals, buyer, the issuer's profile |
| Sequence gaps (`sequence-gaps.ts`, `sequenceGapNote`) | numbers of a series | the note of each document, the report |
| HTTP API (`app.ts`, `direct-routes.ts`) | — | entry point of retries, certificates and direct documents |

How they interact: billing's messages, the minute timer and HTTP requests all
call the processor, which reads a row, awaits other services (catalogues,
storage, certificates, the SRI) and saves the row it read, whole, with the event
of the change in the same transaction. Only the outbox speaks to the rest of the
platform: `requiresAttention` rings somebody's bell and
`fiscal.ec.withholding.issued` makes accounting book.

What is hard here is that those three callers overlap on the same rows without
locks or versions; that the SRI may take a document whose answer is lost; that
saves fail and the process dies between two of them; that messages come back
out of order; and that documents must neither be lost nor sent for ever.
`PROJECT.json` lists each hazard at its line with the properties that cover it,
or with the reason why none does yet.

What makes each component correct:

- processor: a row never claims more than the SRI established; nothing stops in
  silence; every state and every void is published; every document ends; sending
  stops;
- job: no row waits long for those before it, unless stuck ones fill a batch;
- numbering: consecutive numbers, none burnt or repeated; no request waits for
  ever;
- keys: one key per document, and the key asked for is the one the SRI has;
- SRI client: only a refusal rejects; the legal XML of an authorized document is
  never lost, and nothing else is served for it;
- certificates: a revocation is final; neither expiry nor refusal is false;
- withholdings and guides: the nearest cent, within the ceiling, fitting the
  schema; the event balances; what was given a number can be built; the dates
  stand by the day it was asked for;
- invoices and notes: they add up, each tax at the rate of its code; what is kept
  is what was registered, but for the issuer's profile; a note names the day of its
  original;
- gaps: an exact report, notes that never tell too few, each hole noted once.

## 2. The modules

| Module | Models | Proofs in |
|---|---|---|
| `FiscalProcessor` | processor, consumer, job, HTTP retries, row store, outbox, SRI | `FiscalProcessor_proofs` |
| `DueWork` | the schedule of the job: batches, their order and limit, timer, backoff | `DueWork_proofs` |
| `Announcements` | what listeners may rely on: the abstract specification of the above | |
| `DirectNumbering` | the numbering transaction, statement by statement | `DirectDocuments_proofs` |
| `Numbering` | the single atomic step it implements | |
| `AccessKeys` | the key of one document over its attempts | `SriAnswers_proofs` |
| `Certificates` | uploads, revocations and the choice of a certificate | `Certificates_proofs` |
| `Withholdings` | amounts of a withholding and its event | `DirectDocuments_proofs` |
| `DirectDocuments` | withholdings and guides from the request to the XML; EXTENDS `Withholdings` | `DirectDocuments_proofs` |
| `InvoiceDocument` | validation, codes, references, totals and issuer's data of invoices and notes over their attempts | `InvoiceDocument_proofs` |
| `SequenceGaps` | the note and the report | `SequenceGaps_proofs` |
| `SriAnswers` | what each answer makes of a document, and which XML is served | `SriAnswers_proofs` |
| `FoldTheorems` | nothing: lemmas about sums, flattened sequences and ascending lists, which the proofs share | itself |
| `MC*` | small instances for TLC | |

The proofs of `DirectNumbering` and of `AccessKeys` stand beside those of the
module whose documents they number and whose key they fix. Both modules are
extended together, which is why the names in these two bear a prefix
(`NumberingSpec`, `KeySpec`).

In each module the operators marked as faulty variants or mutants are used by no
action. Each is a plausible bug of the definition that follows it; a property is
trusted once it has been seen to fail with that bug in place (`mutants` in
`PROJECT.json`).

### FiscalProcessor

An action is the code between two awaits that another actor can observe.
`db[d]` is the row (status, whether `next_check_at` is null, future or past,
`retry_count`, whether it is voided, whether it is older than `stalePendingMs`);
`copy[a]` is the record in the hands of actor `a`; `batch` holds the records the
job read and has not worked on yet; `outbox[d]` is the set of events published;
`sri[d]` the facts the SRI has established. `pc[a]` says where the actor is:

| `pc` | In the code |
|---|---|
| `accepted` | the retry handler after its checks (`app.ts:296-306`) |
| `emit` | `emit`/`emitDirect` up to the save as pending |
| `send` | `deps.sri.send`, then `received`, `returned` or `lost` |
| `gap` | after the save as sent, with a gap to note (`:335-342`) |
| `query` | `deps.sri.query`, then `yes`, `no` or `processing` |
| `void` | `processVoided` between its read and its save |
| `ack` | the handler is done, the message not yet acknowledged |

What happens before the save as pending (validation, catalogues, certificate,
signature, storage) is one step that succeeds or fails, permanently
(`FiscalValidationError`) or not: `Certificates`, `InvoiceDocument` and
`DirectDocuments` say more about it. `PrepareFails`, `StoreFails` and `Abandon` tell apart where an
exception ends: in `fail()` with the copy as it stood, or, when that save fails
too, with nothing written. `SaveSent` followed by `SaveGap` keeps the second save
of the same record. The queue delivers in order until a message goes back to it;
from then on its void may overtake it (`requeued`). A crash loses every actor
and batch and keeps table, queue and SRI. Settled rows and voids are tested where
the code tests them: an invoice is read again by the job's retry, a direct
document is not (`:133`).

The model has one consumer and one job, as the deployment has one replica
(`k8s/deployment.yaml`) and `running` keeps passes apart; HTTP requests are as
many as `Workers`. The outbox is a set: how many times an event was published is
not seen.

### DueWork

Time counts here: every instant is a number of ticks from the present, rows are
taken by `next_check_at` in batches of `Limit`, a pass may outlast the interval
(`running`), and `asOf` is the `now` with which it began. What happens to a row
in its turn is one of the outcomes of `FiscalProcessor`. `Stuck` are the rows that
no pass changes (their check throws, they have no payload): they stay at the head
of their batch in each pass that follows.

### The other modules

- `DirectNumbering`: `Start`/`RefuseUnnumbered`, then `Increment` (INSERT … ON DUPLICATE
  KEY UPDATE, which takes the row lock), `ReadBack` (SELECT … FOR UPDATE),
  `Create`, `Commit`; `Rollback`, `GiveUp` (lock time-out, deadlock victim) and
  `Crash` (any set of requests). InnoDB is modelled as the code uses it: the lock
  lasts until the end of the transaction, which undoes its counter when it rolls
  back.
- `AccessKeys`: all but the date of a key is fixed for a document, so a key is
  named by its date. The SRI registers the number under the first key that
  reaches it; 43 and 45 both count as received. This is what justifies that
  `FiscalProcessor` speaks of what the SRI knows of a *document*.
- `Certificates`: noting the day, listing, marking and choosing are separate
  steps. `lacked` is a history variable (the attempts that saw a moment with
  nothing to sign with).
- `Withholdings`: amounts in cents, rates in thousandths of a percent (to ask for
  the three decimals the code refuses). The code's products stay exact below
  2^53, that is for bases up to some 9·10^11 cents.
- `DirectDocuments`: three layers look at the same fields at three moments: the
  zod schemas (`WithholdingSchema`, `GuideSchema`), the issuer
  (`WithholdingChecks`, `GuideChecks`) and the builders (`Problems`), which stop
  at the first problem. A moment is a day in Ecuador and whether UTC is a day
  ahead; a calendar gives each day its month. Numbering is one step here,
  `DirectNumbering` has the transaction.
- `InvoiceDocument`: amounts in cents, quantities in thousandths, whole rates. The
  catalogue of tax-service answers or not in each attempt, and may lack a rate; so
  do its types of identification, asked for apart, and the settings of the issuer in
  organization-service, which may also change. What an attempt has of them, and the
  day it is made on, is its `attempt` (`Attempts`). Names, descriptions and what
  else the invoice brings of its issuer are one flag. The original of a note
  advances by itself (`OriginalAdvances`), its row known here by how far it is.
- `SequenceGaps`: numbers of one series; the two reads of `sequenceGapNote` and the
  save of its note are three steps, between any of which others arrive. A row
  exists from its first save, so failed documents count.
- `SriAnswers`: several actors at one document. Each reads the row, sends or asks,
  and saves its whole copy when it has the answer: the query and the save are steps
  of their own, and what the SRI took or decided meanwhile, or another actor saved,
  is not seen. It has the client's verdict on each kind of answer, what is saved
  from it, and what the two XML routes serve (`Link`, `Download`). `asOf` remembers
  how many submissions the SRI had when it gave the answer that is being saved. The
  client treats an empty list as still in process and the first block as the newest,
  as the comment at `sri-client.ts:151` says; the fixture of `sri-client.test.ts:28`
  has the older block first. `NewestFirst` is a constant for that reason: the two
  differ only when no block is authorized.

## 3. The runs

All but `due_work` have `CHECK_DEADLOCK FALSE`: each system may come to rest with
nothing due.

| Run | Instance | States | Shows |
|---|---|---|---|
| `processor_invoice` | 1 invoice, consumer, job, 1 HTTP request, 1 fault, 1 manual retry, 2 attempts, 2 checks | 2.9 M | seven properties of rows, voids, events and their agreement with the SRI |
| `processor_direct` | 1 direct document, job, 2 HTTP requests, 1 fault | 0.4 M | `CopiesAreSound`, and that the document ends |
| `processor_liveness` | 1 invoice, consumer, job, 1 fault, fairness | 0.2 M | the message is taken, the document ends, sending stops |
| `numbering` | 3 requests, 2 series, fairness | 3.7 k | consecutive numbers, exclusive locks, refinement of `Numbering`, no endless wait |
| `keys_dated` | 2 attempts, 3 days, 2 checks | 5.7 k | one key, the registered one |
| `certificates` | 2 certificates, 2 signers, 3 days | 1.7 M | revocations, expiries and refusals are true |
| `direct_documents` | 4 supports, up to 2 lines over 4 bases and 9 rates; guides of up to 2 recipients; the end of a month and the next day | 43 k | amounts, event, what is accepted is built, dates |
| `invoice_document` | invoices and notes of up to 2 lines, 14 taxes, 7 buyers, 3 profiles, 2 days | 0.12 M | sums, codes, kept = registered but for the profile, the day a note names |
| `sequence_gaps` | 5 numbers, limit 2 | 0.83 M | exact counts and report, true notes, each hole noted once |
| `sri_answers` | 2 actors, 2 submissions, 2 checks, newest result first | 0.39 M | rejections are true, the legal XML is kept and served, what is checked is held |
| `due_work` | 3 rows, 1 of them stuck, batches of 2, 1 death, fairness | 0.42 M | every other row ends, and none waits longer than `MaxWait` |
| `void_told` | a void while in error | — | refuted, see below |

Why the bounds are enough. Rows of different documents do not interact in
`FiscalProcessor` except through the order of a batch, so one document per run
meets every interleaving of its actors, and two actors beside the job suffice
for a stale copy to land on a newer row (`settled_final.cfg` finds it). Limits of 2
attempts and 2 checks let a counter be incremented once without giving up, then
give up, then be restarted by hand. One fault, at any point, includes a crash
inside a retry of a document that failed before; the theorems of section 5 cover
any number of faults, retries, workers and documents. Three requests over two
series have both a contended and a free counter. Three days let a certificate
begin, end and be past. Two lines are the least that share a tax or have
different ones. A batch of two of three rows leaves one out, and with one stuck
row at its head lets one of the others in at a time; that `MaxWait`
is enough whatever the numbers of rows, limits, intervals and delays is proved
(section 5). Five numbers hold two holes with a number between them. Two
actors at two submissions are enough for each to answer about what the other has
changed (`rejected_alive.cfg` finds it); the proofs are for any number of both.
Three profiles (two settings and none) and two days make two attempts differ in all
that they may (`kept_profile.cfg`). The bases,
rates and tolerances of the data modules lie on both sides of each limit.

Some properties deserve a word.

- `NoSilentStop` and `EveryDocumentEnds` are two halves. The first says that a row
  nobody comes back to has been told to a person; the second that every row
  ends: with a verdict, with a person told, or voided.
- `VoidedAuthorizedIsTold` speaks of what the table shows. That the table may
  forget a void is another matter (section 6); `VoidIsAnnounced` says that the
  listeners were told of it all the same, while the queue keeps its order.
- `AcceptedCanBeBuilt` excepts the year of a date, which only the builders check
  (section 6), and the head office's address, which is not in the request.
- `NoteNamesItsDay` excepts a date without a time, which is read as midnight in
  UTC and declared as the day before (section 6).
- `RefusalsAreHonest` has the condition `day[s] = today`: an attempt that notes the
  day before midnight and lists after it can refuse a certificate that has just
  begun.
- `KeptIsRegistered` says what two attempts at one invoice have in common, and names
  its exceptions. `FromTheProfile` has the fields of the issuer and, unless the
  invoice brings one, the form of payment: each attempt reads them anew
  (`fiscal-processor.ts:242`), and a service that does not answer gives an empty
  profile (`fiscal-catalogs.ts:50`). `SelfContained` excludes an undated invoice, a
  differentiated VAT and a buyer whose type has to be looked up. In all of these two
  attempts really may build different documents; of the profile `kept_profile.cfg`
  shows it.
- `CountsAreExact` and `NotesAreTrue` share one claim between the second read and the
  save. What the read counts is what is missing at that moment; a number may then
  arrive before the note is saved, so the note says at least as many as are missing,
  then and ever after, and exactly as many while none arrives late.
- `RejectionIsTrue` speaks of what the SRI had at the answer that rejected
  (`RefusedUpTo`): an attempt that overlaps may submit the document after it, and the
  row then says `rejected` of one that is alive (section 6). The order of the
  results is its other condition. `LegalDocumentIsServed` needs neither.
- `HolesAreNotedOnce` needs numbers to arrive in ascending order; when a lower
  number comes later, its holes are left to the report, which is exact in any
  order.

## 4. Fairness

`FairSpec` of `FiscalProcessor` has weak fairness for every handler that has
started (each await ends in an answer, an error or the time-out of the call), the
consumer, the timer (`setInterval`) and the passing of time. Nothing makes the
SRI receive, answer usefully or decide, nor a person retry. `GrowOld` waits for
those who are sending: a send takes at most `SRI_TIMEOUT_MS` (30 s) while a row
grows stale in 10 minutes. Passing times are taken between two passes, because
`runDueWork` compares with the instant at which it began. A check whose answer
stalls after its headers is not counted by the code (`sri-client.ts:195`), so such
stalls are bounded as faults; `stalled_sri` shows what they do without a bound.

`FairSpec` of `DueWork` has weak fairness of the timer and of a pass that has
started: every await of a row ends, and `safely()` goes on whatever it ended in.
A row's own outcomes are not fair: the counters end it.

`FairSpec` of `DirectNumbering` has weak fairness of the statements of a request:
each is answered, and the code goes on to the next, commits or rolls back.

## 5. The proofs

All theorems hold for every value of the constants, under the named assumptions
of each module: disjoint sets of documents, actors that are not workers, positive
limits, model values outside the sets they complete, bodies whose parts are among the
supports and requests, invoices whose lines are sequences of whole amounts and
whose dates are of their original, of organizations with settings
(`InvoicesAssumption`), a clock inside the
century, finitely many rows (`DueWorkAssumption`). Four theorems have a hypothesis
of their own: `DatedKeyIsStable` and `DatedSentIsRegistered` that the payload has its
date, `NoRowLate` that the stuck rows leave room in a batch, `RejectionsAreTrue` that
the results come newest first. `keys_undated.cfg`, `due_blocked.cfg` and
`oldest_first.cfg` show what happens without them.

- `FiscalProcessor_proofs`. `RowsAreTruthful` is not inductive: a save writes what
  some actor read long ago. The invariant is `IInv == TypeOK /\ CopiesAreSound`:
  every row, every copy at an await and every copy in a batch says only what has
  been established and published, and a copy at a position has what the code
  there relies on (`Ready`). Facts and events only grow (`Grown`), so what was
  sound when read is sound when written (`SoundLater`), whoever wrote in between.
  Each action then has one lemma for its types and one for its soundness.
  `RowsTruthful`, `NeverSilent`, `AllPublished` and `VoidedAuthorizedTold` follow
  from the invariant. `VoidsAreAnnounced` needs one more (`VoidInv`): an invoice
  whose message left the queue in order has a row, so its void finds one, and no
  row or copy says voided before that has been published. `PromiseKept` is the
  refinement of `Announcements`: each step adds at most one fact or one claim with
  its grounds, or stutters.
- `DirectDocuments_proofs`, last section. `LocksAreExclusive` is why the numbers are consecutive:
  a transaction in progress is alone with its counter, which is one above the
  committed one, and has read what it wrote. `NumberingPromise` is the refinement.
- `SriAnswers_proofs`, last section. Under `Dated`, `OneKey`: row, copies and registry know no
  key but that of the day of issue.
- `Certificates_proofs`. `ListsAreSound` ties a list to the present: a signer whose
  day is still on and that never lacked a certificate has a usable one in its
  list. `RevocationIsFinal` is an action property and needs the types only.
- `DirectDocuments_proofs`. First `Withholdings` by itself: the arithmetic of
  rounding half up for every base and rate, the digits of every accepted rate, and
  the event: its three sums are over a partition of the lines (`TaxesPartitionLines`),
  whose amounts make the total that was stored (`EventFollows`, `EventAddsUp`).
  `DirectImplementsWithholdings` then carries it over: each step of
  `DirectDocuments` is one of `Withholdings` or leaves its variables alone.
  `AcceptedIsBuilt` and `DatesStand` need to remember what was checked
  (`DirectInv`): the stored payload satisfies the schema and the issuer's checks
  as of its own day, whatever day it is built.
- `InvoiceDocument_proofs`. What is stored and what is registered were each built
  by some attempt (`BuiltInv`). `FieldsOfBuild` says of each field what it depends on.
  `CodesAgree`: a code found in the catalogue and one guessed from the rate are the
  same, unless the rate is the tax's own; so any two attempts build the same document
  but for what the profile gives (`SameDocument`), and what is kept is what is
  registered.
  `DocumentsAddUp` and `GroupsMatch` are about sums of any length: the tax groups
  partition the taxes by code, and each tax is within its tolerance of its rate, so
  the tolerances add up over a group (`SumWithin`). `NotesNameTheirDay`: each of the
  ways to write a moment of the original's day is read back as that day.
- `SriAnswers_proofs`. A save writes what an actor read, and heard, some time ago. The
  invariant therefore says of every copy and every answer in hand what stays true
  whatever the others do (`Truthful`): a row under way serves no XML as authorized, a
  result of authorization is in the list for good, and a refusal is of all the
  submissions there were at it. The list only grows, and a verdict is final (`Grows`),
  so each of these facts outlives every step of the SRI and of the others
  (`StillTruthful`, `StillStands`). Of the authorizations of a key all but the newest
  are refusals (`OlderRefused`), which is why the first block, if it is the newest,
  tells whether there is hope (`ChosenStands`).
- `SequenceGaps_proofs`. Rows are never removed, so the holes between two numbers
  become fewer only (`FewerHoles`): what the second read counts is exact then
  (`HolesCounted`) and enough ever after, for the count in hand (`CountedEnough`) as
  for the note that was saved (`NotedEnough`).
  In ascending order what lies below a number
  never changes (`OrderedNotes`), so the notes are of disjoint intervals, and the
  first row above a hole is the one that notes it. `ReportsExact`: sorted by rank the
  numbers ascend; what is between two neighbours is missing, ascends too, and
  comes before what is between the next two; so the pieces put together list each
  hole once, in order, and a beginning of that list has the lowest.
- `DueWork_proofs`. `NoRowWaitsLong` is far from inductive. The invariant says how
  many passes each due row may still need, and that with them it stays within
  `MaxWait` (`Served`). It counts the line before the row, those of its status that
  have been due at least as long: nobody joins it, since work puts a row off, and
  every pass takes at least `Limit` minus the stuck rows of it. A pass takes at most
  a tick for each row, and as many more until the timer fires again; one that dies
  is a pass for nothing. `BatchInv` ties the batch in hand to the table. The bound
  `Patience`, from which the model tells overdue rows no longer apart, lies beyond
  `MaxWait`, so by the theorem no such row ever gets there.
- `FoldTheorems`. Sums and `FlattenSeq` are folds, that is, recursive functions of
  sets taken one element at a time. A function defined by that recursion is unique
  and exists (`PartialSumUnique`, `PartialSumExists`), by induction over the subsets
  of a finite set. Induction theorems whose parameter is an operator cannot be
  instantiated by the provers, so an induction here speaks of a set of good
  values, which is everything once it has each value whose predecessors it has
  (`CountingInduction`, `SubsetInduction`, `OneByOneInduction`).

Every invariant and every action property of the passing runs is stated by a
theorem, and so are the two refinements. That every accepted rate fits the three
digits of the XML (`RatesFitTheXml`) is proved only, since it is local to one check. Only model-checked: what is eventually
true (`EveryDocumentEnds`, `EveryInvoiceIsTaken`, `SubmissionsEnd`, `EveryRowEnds`,
`EveryRequestEnds`), which rests on fairness and so on ENABLED, out of these provers'
reach.

## 6. Where the repository says something else

One run is listed because a comment of the repository says what the code does not
do, and five of the configurations below stand with it under `findings` in
`PROJECT.json`.

- `void_told`: `processVoided` takes a row in error for one never sent and rings no
  bell. When the send had arrived and its answer was lost, the SRI may authorize
  an invoice that is voided here, and nobody is told.

Further configurations state a sentence of the repository, or the natural
expectation, and are refuted in the same way. They are not part of the listed
runs, and run alike.

| Configuration | Module | Property | What TLC shows |
|---|---|---|---|
| `settled_final` | `MCFiscalProcessor` | `SettledIsFinal` | the README calls `authorized` and `rejected` terminal; of two manual retries at once the slower one saves the row it read before over the verdict (`stores.ts:93` updates by id) |
| `authorized_once` | `MCFiscalProcessor` | `AuthorizedIsToldOnce` | a document whose gap is noted while it is being checked goes back to `sent` and is published as authorized twice, and with it a withholding to accounting |
| `void_kept` | `MCFiscalProcessor` | `VoidIsKept` | the job's older copy writes `billing_voided_at` back to null |
| `void_not_sent` | `MCFiscalProcessor` | `VoidedIsNotSent` | an invoice voided during its emission is sent ("si todavía no se envió, no se envía", `fiscal-processor.ts:570`) |
| `void_followed` | `MCFiscalProcessor` | `VoidedIsFollowed` | voided while pending: `findStalePending` leaves it out (`stores.ts:152`), against the comment at `fiscal-processor.ts:592` |
| `void_recorded` | `MCFiscalProcessor` | `VoidIsRecorded` | a void that overtakes its redelivered invoice is dropped (`fiscal-processor.ts:575`) |
| `stalled_sri` | `MCFiscalProcessor` | `EveryDocumentEnds` | checks whose answer stalls are never counted |
| `keys_undated` | `AccessKeys` | `SentIsRegistered` | without `issueDate` the key changes at midnight, and 45 is taken for the same key (`sri-client.ts:49`) |
| `withheld_twice` | `MCDirectDocuments` | `WithinTheDocument` | two lines on one VAT withhold more than it (`direct-documents.ts:279`) |
| `guessed_code` | `MCInvoiceDocument` | `GuessIsUnambiguous` | with tax-service down a differentiated VAT at 15 % is declared as the general one |
| `final_cap` | `MCInvoiceDocument` | `FinalConsumerWithinCap` | a blank identification passes the check of the cap and is issued to a final consumer |
| `note_unsent_original` | `MCInvoiceDocument` | `NoteFollowsItsOriginal` | a note is sent of an original that has a key and never reached the SRI (the text of `fiscal-processor.ts:217` takes the key for a send) |
| `note_iso_day` | `MCInvoiceDocument` | `NoteNamesIsoDay` | a date without a time is declared as the day before |
| `debit_rates` | `MCInvoiceDocument` | `DebitGroupsHaveOneRate` | two differentiated rates share a group of a debit note, under the first of them |
| `kept_profile` | `MCInvoiceDocument` | `KeptIsWhollyRegistered` | organization-service is down in one attempt and up in the next: the SRI registered one main address, regime or payment, and the XML kept here names another |
| `direct_lost` | `MCDirectDocuments` | `NumberedIsNotLost` | a date of another century gets a number and can never be built ("el comprobante nunca se pierde", `direct-document-issuer.ts:76`) |
| `guide_zero_quantity` | `MCDirectDocuments` | `QuantitiesArePositive` | a quantity that is positive for the issuer (`direct-document-issuer.ts:156`) is printed as 0.000000 |
| `xml_link` | `SriAnswers` | `LinkIsLegal` | with the legal XML kept in the answer of the SRI, `GET /:id/xml` names the signed one (comment at `app.ts:199`) |
| `refused_xml` | `SriAnswers` | `DownloadIsAuthorized` | a result NO AUTORIZADO is kept whole in `sri_response` (`fiscal-processor.ts:511`), with the document it refused; `/xml/download` takes it for one that was authorized but could not be stored (comment at `app.ts:230`) and serves it as `autorizado` |
| `oldest_first` | `SriAnswers` | `RejectionIsTrue` | with the older result first, as in the fixture of `sri-client.test.ts:28`, a document in process is rejected by its earlier refusal (`sri-client.ts:157`) |
| `rejected_alive` | `SriAnswers` | `RejectedIsDead` | an attempt submits the document while a check, or another attempt, has a refusal to save: `rejected`, terminal in the README, of a document the SRI may still authorize |
| `gap_overcounted` | `SequenceGaps` | `NotesAreExact` | a number that arrives between the second read and the save of the note is told as missing |
| `due_blocked` | `DueWork` | `EveryRowEnds` | as many stuck rows as a batch holds, and no other row is ever worked on |

## 7. Not modelled

- Pure formatting: the XML templates (what they compute and refuse is in
  `InvoiceDocument` and `DirectDocuments`), RIDE documents, QR codes.
- Byte-level algorithms: XAdES signature, canonicalisation, .p12 and password
  ciphers.
- I/O without a decision: document storage, configuration, instrumentation,
  listings, permissions. Start-up: the models begin with the consumer, the job
  and the HTTP server running.
- The layout and check digit of the access key, and the hash behind its numeric
  code: nothing in the code reads them back, and all but the date is fixed for a
  document.
- Libraries: the outbox relay and the inbox consumer; the queue appears as what
  the handlers can observe of it.
- Audit events: written and never read by this service.
- The check of a repeated number (`findOtherWithNumber`) is one of the permanent
  failures of `PrepareFails`; the unique index behind it is one of the failed
  saves.

## 8. Plan

Done, in this order: the processor and its promise; numbering; keys; certificates;
the SRI's answers; amounts; invoices; gaps; then voids, notes and their
originals, the direct documents as a whole, the schedule of the job, the XML that
is served, the proofs of the data modules, then those of their sums, of the
report and of the schedule.

What would come next:

1. Publication counted: the outbox as a bag, to bound how often `authorized` and the
   accounting event may be published once the overlap of section 6 is closed.
2. `SriAnswers` composed with `AccessKeys`: one registry for both, and each actor
   of the one with the key of its own attempt.
3. The check digit (modulo 11) against a reference definition.
