------------------------------ MODULE DueWork ------------------------------
(***************************************************************************)
(* The schedule of the reconciliation job: which rows a pass of            *)
(* runDueWork() takes, in which order, how many, and when each comes back. *)
(*                                                                         *)
(* A pass takes three batches of at most Limit rows, those overdue the     *)
(* longest.  A row whose work throws, or that has no payload, is left as   *)
(* it was: it stays at the head of its batch in every pass that follows.   *)
(* What the documents go through meanwhile is in FiscalProcessor; here     *)
(* time counts, and every instant is relative to the present.              *)
(***************************************************************************)
EXTENDS Integers, FiniteSets, FiniteSetsExt

CONSTANTS
  Docs,
  Stuck,        \* rows no work changes: their check throws, or no payload
  Limit,        \* rows per batch (20)
  Interval,     \* RECONCILIATION_INTERVAL_MS, in ticks
  FirstCheck,   \* RETRY_POLICY.firstAuthorizationCheckMs, in ticks
  BaseDelay,    \* RETRY_POLICY.baseDelayMs, in ticks
  MaxDelay,     \* RETRY_POLICY.maxDelayMs, in ticks
  StaleAfter,   \* RETRY_POLICY.stalePendingMs, in ticks
  MaxChecks,    \* RETRY_POLICY.maxAuthorizationChecks
  MaxAttempts,  \* RETRY_POLICY.maxDeliveryAttempts
  Patience,     \* bound: rows overdue by this much are not told apart
  MaxDeaths     \* bound: times the process dies

\* The longest a row may have to wait once due: the passes that take those
\* before it, with the stuck rows in each, the one in progress, and those that
\* died; each works on every row at most, and the next one waits for the timer.
MaxWait ==
  LET healthy == Cardinality(Docs \ Stuck)
      free == Limit - Cardinality(Stuck)
      passes == (healthy + free - 1) \div free
  IN  (passes + 1 + MaxDeaths) * (Cardinality(Docs) + Interval)

ASSUME DueWorkAssumption ==
  /\ IsFiniteSet(Docs) /\ Stuck \subseteq Docs
  /\ {Limit, Interval, FirstCheck, BaseDelay, StaleAfter, MaxChecks, MaxAttempts,
      Patience} \subseteq Nat \ {0}
  /\ MaxDelay \in Nat /\ BaseDelay <= MaxDelay
  /\ MaxDeaths \in Nat
  /\ Cardinality(Stuck) < Limit => Patience > MaxWait

VARIABLES
  status,  \* fiscal_invoices.status, "done" once the SRI decided, "stopped"
           \* once only a person goes on
  due,     \* ticks until next_check_at, or until a 'pending' row is stale
  retry,   \* retry_count
  timer,   \* ticks since the interval last fired
  queue,   \* the batch in progress, or "idle"
  batch,   \* its rows not yet worked on
  asOf,    \* the `now` of the pass, relative to the present
  deaths

vars == <<status, due, retry, timer, queue, batch, asOf, deaths>>

Waiting == {"sent", "error", "pending"}

-----------------------------------------------------------------------------
(* Faulty variants, used by no action.                                     *)

\* Without safely(), what one row throws ends the pass.
GoOnUnlessThrown(d) ==
  IF d \in Stuck THEN queue' = "idle" /\ batch' = {}
                 ELSE queue' = queue /\ batch' = batch \ {d}

-----------------------------------------------------------------------------
Init ==
  /\ status \in [Docs -> Waiting \cup {"new"}]
  /\ \A d \in Docs : status[d] = "new" <=> d \notin Stuck
  /\ due = [d \in Docs |-> 0]
  /\ retry = [d \in Docs |-> 0]
  /\ timer = 0
  /\ queue = "idle"
  /\ batch = {}
  /\ asOf = 0
  /\ deaths = 0

\* backoffDelayMs()
Backoff(attempt) == Min({MaxDelay, BaseDelay * 2 ^ Max({0, attempt})})

\* Every instant once `ticks` more have passed.
Aged(ticks) ==
  [d \in Docs |-> IF status[d] \in Waiting THEN Max({due[d] - ticks, -Patience}) ELSE 0]

Put(d, state, count, delay, ticks) ==
  /\ status' = [status EXCEPT ![d] = state]
  /\ retry' = [retry EXCEPT ![d] = count]
  /\ due' = [Aged(ticks) EXCEPT ![d] = delay]

\* A check without a verdict is not counted (faulty).
CheckedUncounted(d, ticks) ==
  Put(d, "done", retry[d], 0, ticks) \/ Put(d, "sent", retry[d], Backoff(retry[d] + 1), ticks)

\* checkAuthorization(): a verdict, or one more check later, or a person's turn.
Checked(d, ticks) ==
  \/ Put(d, "done", retry[d], 0, ticks)
  \/ LET count == retry[d] + 1
     IN  IF count >= MaxChecks
         THEN Put(d, "stopped", count, 0, ticks)
         ELSE Put(d, "sent", count, Backoff(count), ticks)

\* signAndSend() and fail(): received, returned, refused, or tried again later.
Attempted(d, ticks) ==
  \/ Put(d, "sent", 0, FirstCheck, ticks)
  \/ Put(d, "done", retry[d], 0, ticks)
  \/ Put(d, "stopped", retry[d], 0, ticks)
  \/ LET count == retry[d] + 1
     IN  IF count >= MaxAttempts
         THEN Put(d, "stopped", count, 0, ticks)
         ELSE Put(d, "error", count, Backoff(count - 1), ticks)

\* The first attempt, by the consumer or a request.
Issue(d) ==
  /\ status[d] = "new"
  /\ Attempted(d, 0)
  /\ UNCHANGED <<timer, queue, batch, asOf, deaths>>

\* findDue() and findStalePending(): the rows overdue the longest.
Batches(state, now) ==
  LET eligible == {d \in Docs : status[d] = state /\ due[d] <= now}
  IN  {rows \in SUBSET eligible :
         /\ Cardinality(rows) = Min({Limit, Cardinality(eligible)})
         /\ \A d \in rows, e \in eligible \ rows : due[d] <= due[e]}

\* Time passes between the passes; the timer starts the next one.
Tick ==
  /\ queue = "idle"
  /\ timer # Interval - 1
  /\ due' = Aged(1)
  /\ timer' = timer + 1
  /\ UNCHANGED <<status, retry, queue, batch, asOf, deaths>>

\* A pass takes no time by itself; what follows reads the rows as they are.
StartPass ==
  /\ queue = "idle"
  /\ timer = Interval - 1
  /\ due' = Aged(1)
  /\ timer' = 0
  /\ asOf' = 0
  /\ queue' = "sent"
  /\ batch' \in Batches("sent", 1)
  /\ UNCHANGED <<status, retry, deaths>>

NextQueue ==
  /\ queue # "idle"
  /\ batch = {}
  /\ \/ /\ queue = "sent"
        /\ queue' = "error"
        /\ batch' \in Batches("error", asOf)
     \/ /\ queue = "error"
        /\ queue' = "pending"
        /\ batch' \in Batches("pending", asOf)
     \/ /\ queue = "pending"
        /\ queue' = "idle"
        /\ batch' = {}
  /\ UNCHANGED <<status, due, retry, timer, asOf, deaths>>

\* safely(): whatever becomes of one row, the pass goes on with the others.
GoOn(d) == queue' = queue /\ batch' = batch \ {d}

\* The loop of a batch, oldest first; the SRI may take a tick to answer, and
\* an interval that fires meanwhile finds `running` set.
WorkOn(d) ==
  /\ d \in batch
  /\ \A e \in batch : due[d] <= due[e]
  /\ \E ticks \in 0..1 :
       /\ IF d \in Stuck THEN due' = Aged(ticks) /\ UNCHANGED <<status, retry>>
          ELSE IF queue = "sent" THEN Checked(d, ticks) ELSE Attempted(d, ticks)
       /\ timer' = (timer + ticks) % Interval
       /\ asOf' = asOf - ticks
  /\ GoOn(d)
  /\ UNCHANGED deaths

\* The process dies, in the middle of an attempt or not.
Die ==
  /\ deaths < MaxDeaths
  /\ deaths' = deaths + 1
  /\ \/ UNCHANGED <<status, retry, due>>
     \/ \E d \in batch \ Stuck :
          queue # "sent" /\ Put(d, "pending", retry[d], StaleAfter, 0)
  /\ queue' = "idle"
  /\ batch' = {}
  /\ timer' = 0
  /\ asOf' = 0

Next ==
  \/ \E d \in Docs : Issue(d) \/ WorkOn(d)
  \/ Tick \/ StartPass \/ NextQueue \/ Die

Spec == Init /\ [][Next]_vars

\* The timer fires, and a pass that started goes on.
Fairness ==
  /\ WF_vars(Tick) /\ WF_vars(StartPass) /\ WF_vars(NextQueue)
  /\ WF_vars(\E d \in Docs : WorkOn(d))

FairSpec == Spec /\ Fairness

-----------------------------------------------------------------------------
\* As long as the stuck rows leave room in a batch, every other row is worked
\* on until the SRI decided or a person has to go on.
EveryRowEnds ==
  \A d \in Docs \ Stuck : status[d] # "new" ~> status[d] \in {"done", "stopped"}

\* ... and none waits, once due, longer than the rows before it take.
NoRowWaitsLong ==
  \A d \in Docs \ Stuck : status[d] \in Waiting => due[d] >= -MaxWait
=============================================================================
