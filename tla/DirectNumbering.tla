-------------------------- MODULE DirectNumbering --------------------------
(***************************************************************************)
(* Withholdings and delivery guides are numbered here.  A request reserves *)
(* its number and creates its row in ONE transaction of MySQL              *)
(* (SequelizeDirectDocumentStore.createNumbered), four statements long:    *)
(*                                                                         *)
(*   INSERT ... ON DUPLICATE KEY UPDATE   bumps the counter, takes its row *)
(*   SELECT ... FOR UPDATE                reads it back                    *)
(*   INSERT INTO fiscal_invoices          the document with that number    *)
(*   COMMIT                                                                *)
(*                                                                         *)
(* Many requests do so at once, in one process or in several; the process  *)
(* may die, and any statement may fail, between two of them.  What InnoDB  *)
(* does with the rows (the lock kept until the transaction ends, the       *)
(* counter restored when it rolls back) is modelled as the code uses it.   *)
(***************************************************************************)
EXTENDS Naturals

CONSTANTS
  Callers,    \* POST /fiscal/withholdings and /fiscal/delivery-guides
  Series,     \* organization, establishment, emission point, document type
  NoRequest,  \* holder of a row that nobody has locked
  NoSeries    \* series of a request that has not resolved its issuer

ASSUME NoRequestAssumption == NoRequest \notin Callers
ASSUME NoSeriesAssumption == NoSeries \notin Series

VARIABLES
  committed,  \* fiscal_sequences as committed; 0 stands for no row
  counter,    \* fiscal_sequences as the transaction in progress left it
  holder,     \* the transaction that holds the lock of each counter
  documents,  \* rows of fiscal_invoices, committed
  pc,         \* how far each request is
  series,     \* the series its issuer resolves to
  own         \* the number it has read

numberingVars == <<committed, counter, holder, documents, pc, series, own>>

Positions == {"idle", "begun", "counted", "read", "created", "issued", "failed"}

\* Positions in which the request holds the lock of its counter.
Locking == {"counted", "read", "created"}

Document(r, s, n) == [request |-> r, series |-> s, number |-> n]

Release(s) == holder' = [holder EXCEPT ![s] = NoRequest]

NumberingTypeOK ==
  /\ committed \in [Series -> Nat]
  /\ counter \in [Series -> Nat]
  /\ holder \in [Series -> Callers \cup {NoRequest}]
  /\ documents \subseteq [request : Callers, series : Series, number : Nat]
  /\ pc \in [Callers -> Positions]
  /\ series \in [Callers -> Series \cup {NoSeries}]
  /\ own \in [Callers -> Nat]

NumberingInit ==
  /\ committed = [s \in Series |-> 0]
  /\ counter = [s \in Series |-> 0]
  /\ holder = [s \in Series |-> NoRequest]
  /\ documents = {}
  /\ pc = [r \in Callers |-> "idle"]
  /\ series = [r \in Callers |-> NoSeries]
  /\ own = [r \in Callers |-> 0]

----------------------------------------------------------------------------
(* The requests.                                                           *)

\* The data are valid and organization-service resolves the issuer, whose
\* codes choose the series; the transaction begins.
Start(r, s) ==
  /\ pc[r] = "idle"
  /\ pc' = [pc EXCEPT ![r] = "begun"]
  /\ series' = [series EXCEPT ![r] = s]
  /\ UNCHANGED <<committed, counter, holder, documents, own>>

\* The data or the issuer are refused before any number is reserved.
RefuseUnnumbered(r) ==
  /\ pc[r] = "idle"
  /\ pc' = [pc EXCEPT ![r] = "failed"]
  /\ UNCHANGED <<committed, counter, holder, documents, series, own>>

\* Mutant: A SELECT without FOR UPDATE, then an UPDATE: nothing is locked.
IncrementUnlocked(r) ==
  /\ pc[r] = "begun"
  /\ counter' = [counter EXCEPT ![series[r]] = @ + 1]
  /\ pc' = [pc EXCEPT ![r] = "counted"]
  /\ UNCHANGED <<committed, holder, documents, series, own>>

\* One statement creates the counter at 1 or adds 1, and locks its row.  A
\* request that finds it locked waits here.
Increment(r) ==
  /\ pc[r] = "begun"
  /\ holder[series[r]] = NoRequest
  /\ holder' = [holder EXCEPT ![series[r]] = r]
  /\ counter' = [counter EXCEPT ![series[r]] = @ + 1]
  /\ pc' = [pc EXCEPT ![r] = "counted"]
  /\ UNCHANGED <<committed, documents, series, own>>

\* Mutant: The SELECT misses the series, and "no row" is taken for a number.
ReadBackNothing(r) ==
  /\ pc[r] = "counted"
  /\ holder[series[r]] \in {NoRequest, r}
  /\ own' = [own EXCEPT ![r] = NoSeries]
  /\ pc' = [pc EXCEPT ![r] = "read"]
  /\ UNCHANGED <<committed, counter, holder, documents, series>>

\* FOR UPDATE reads the newest version of the row, not a snapshot.
ReadBack(r) ==
  /\ pc[r] = "counted"
  /\ holder[series[r]] \in {NoRequest, r}
  /\ own' = [own EXCEPT ![r] = counter[series[r]]]
  /\ pc' = [pc EXCEPT ![r] = "read"]
  /\ UNCHANGED <<committed, counter, holder, documents, series>>

Taken(r) ==
  \E d \in documents : d.series = series[r] /\ d.number = own[r]

\* The row is inserted; it is invisible to others until the commit.  The
\* unique index (organization, type, number) would refuse a repeated number.
Create(r) ==
  /\ pc[r] = "read"
  /\ ~Taken(r)
  /\ pc' = [pc EXCEPT ![r] = "created"]
  /\ UNCHANGED <<committed, counter, holder, documents, series, own>>

\* Mutant: The document saved and its answer given before the counter is committed.
CommitWithoutCounter(r) ==
  LET s == series[r] IN
  /\ pc[r] = "created"
  /\ documents' = documents \cup {Document(r, s, own[r])}
  /\ Release(s)
  /\ pc' = [pc EXCEPT ![r] = "issued"]
  /\ UNCHANGED <<committed, counter, series, own>>

\* Everything the transaction wrote becomes visible together.
Commit(r) ==
  LET s == series[r] IN
  /\ pc[r] = "created"
  /\ committed' = [committed EXCEPT ![s] = counter[s]]
  /\ documents' = documents \cup {Document(r, s, own[r])}
  /\ Release(s)
  /\ pc' = [pc EXCEPT ![r] = "issued"]
  /\ UNCHANGED <<counter, series, own>>

\* Mutant: The counter bumped in a transaction of its own, as a helper that reserves
\* numbers ahead would: a failure burns the number.
RollbackKeepingTheNumber(r) ==
  LET s == series[r] IN
  /\ pc[r] \in Locking
  /\ committed' = [committed EXCEPT ![s] = counter[s]]
  /\ Release(s)
  /\ pc' = [pc EXCEPT ![r] = "failed"]
  /\ UNCHANGED <<counter, documents, series, own>>

\* Mutant: A transaction opened by hand whose error path forgets to end it.
RollbackHolding(r) ==
  LET s == series[r] IN
  /\ pc[r] \in Locking
  /\ counter' = [counter EXCEPT ![s] = committed[s]]
  /\ pc' = [pc EXCEPT ![r] = "failed"]
  /\ UNCHANGED <<committed, holder, documents, series, own>>

\* build throws (a guide without an address of departure), the index refuses
\* the number, a statement or the connection fails: nothing stays written.
Rollback(r) ==
  LET s == series[r] IN
  /\ pc[r] \in Locking
  /\ counter' = [counter EXCEPT ![s] = committed[s]]
  /\ Release(s)
  /\ pc' = [pc EXCEPT ![r] = "failed"]
  /\ UNCHANGED <<committed, documents, series, own>>

\* The wait for the lock times out, or MySQL picks this transaction as the
\* victim of a deadlock: it has written nothing yet.
GiveUp(r) ==
  /\ pc[r] = "begun"
  /\ pc' = [pc EXCEPT ![r] = "failed"]
  /\ UNCHANGED <<committed, counter, holder, documents, series, own>>

\* A process dies with any of its requests in flight: MySQL rolls back the
\* transactions whose connection is lost.
Crash ==
  \E lost \in SUBSET {r \in Callers : pc[r] \in Locking \cup {"begun"}} :
    /\ lost # {}
    /\ counter' = [s \in Series |-> IF holder[s] \in lost THEN committed[s]
                                                          ELSE counter[s]]
    /\ holder' = [s \in Series |-> IF holder[s] \in lost THEN NoRequest
                                                         ELSE holder[s]]
    /\ pc' = [r \in Callers |-> IF r \in lost THEN "failed" ELSE pc[r]]
    /\ UNCHANGED <<committed, documents, series, own>>

Serve(r) ==
  \/ RefuseUnnumbered(r)
  \/ Increment(r)
  \/ ReadBack(r)
  \/ Create(r)
  \/ Commit(r)
  \/ Rollback(r)
  \/ GiveUp(r)
  \/ \E s \in Series : Start(r, s)

NumberingNext == Crash \/ \E r \in Callers : Serve(r)

NumberingSpec == NumberingInit /\ [][NumberingNext]_numberingVars

\* A statement is answered, with a result or an error, and the server runs
\* what follows it.  Requests wait for a lock only while its holder works.
Fairness ==
  \A r \in Callers :
    WF_numberingVars(Increment(r) \/ ReadBack(r) \/ Create(r) \/ Commit(r) \/ Rollback(r))

FairSpec == NumberingSpec /\ Fairness

----------------------------------------------------------------------------
(* Properties.                                                             *)

NumbersOf(s) == {d.number : d \in {e \in documents : e.series = s}}

\* No number is burnt and none is used twice (ports.ts:63-64): at every
\* moment the documents of a series bear exactly the numbers from 1 to its
\* counter, one document each, whatever failed or died on the way.
NumbersAreConsecutive ==
  /\ \A s \in Series : NumbersOf(s) = 1..committed[s]
  /\ \A d, e \in documents :
       d.series = e.series /\ d.number = e.number => d = e

\* Why they are: one transaction at a time has a counter in its hands, that
\* counter is one above the committed one, and the number it has read is the
\* one it has written.
LocksAreExclusive ==
  /\ \A r \in Callers : pc[r] # "idle" /\ pc[r] # "failed" => series[r] \in Series
  /\ \A r \in Callers : pc[r] \in Locking => holder[series[r]] = r
  /\ \A s \in Series : holder[s] # NoRequest =>
       /\ pc[holder[s]] \in Locking
       /\ series[holder[s]] = s
       /\ counter[s] = committed[s] + 1
  /\ \A s \in Series : holder[s] = NoRequest => counter[s] = committed[s]
  /\ \A r \in Callers : pc[r] \in {"read", "created"} =>
       own[r] = counter[series[r]]
  /\ \A d \in documents : pc[d.request] = "issued"

\* To the rest of the system the four statements are one step, or none.
Promise == INSTANCE Numbering WITH last <- committed

KeepsPromise == Promise!Spec

\* No request waits for ever on another one's lock (README.md:124, "30
\* emisiones simultáneas ... sin interbloqueos").
EveryRequestEnds ==
  \A r \in Callers : pc[r] = "begun" ~> pc[r] \in {"issued", "failed"}

=============================================================================
