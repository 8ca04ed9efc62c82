--------------------------- MODULE DueWork_proofs ---------------------------
(***************************************************************************)
(* No row that can be worked on waits longer, once due, than MaxWait, for  *)
(* any number of rows, any policy and any number of deaths.                *)
(*                                                                         *)
(* The argument counts passes.  A row that is due has a line before it:    *)
(* the healthy rows of its status that have been due at least as long.     *)
(* Nobody joins the line of a due row, for work puts a row off to a later  *)
(* instant; each pass takes Free rows of it, or the row itself.  So the    *)
(* passes it may still need, and the time each may take, are bounded by    *)
(* what is left of MaxWait.                                                *)
(***************************************************************************)
EXTENDS DueWork, FiniteSetTheorems, TLAPS

\* What a batch has room for when every stuck row is in it.
Free == Limit - Cardinality(Stuck)

\* The longest from the start of a pass to the start of the next.
Cycle == Cardinality(Docs) + Interval

\* The passes that every healthy row needs at most.
Passes == (Cardinality(Docs \ Stuck) + Free - 1) \div Free

\* The constants are numbers, and so many passes take every healthy row.
LEMMA Bounds ==
  ASSUME Cardinality(Stuck) < Limit
  PROVE  /\ IsFiniteSet(Docs) /\ Stuck \subseteq Docs /\ IsFiniteSet(Stuck)
         /\ Cardinality(Docs) \in Nat /\ Cardinality(Stuck) \in Nat /\ Limit \in Nat
         /\ Free \in Nat \ {0} /\ Interval \in Nat \ {0} /\ Cycle \in Nat
         /\ Cycle = Cardinality(Docs) + Interval
         /\ MaxDeaths \in Nat
         /\ Passes \in Nat /\ Cardinality(Docs \ Stuck) <= Passes * Free
         /\ MaxWait = (Passes + 1 + MaxDeaths) * Cycle
         /\ MaxWait \in Nat /\ Patience \in Nat /\ Patience > MaxWait
<1> USE DueWorkAssumption
<1>1. /\ Limit \in Nat /\ Interval \in Nat \ {0} /\ MaxDeaths \in Nat
      /\ Patience \in Nat /\ Patience > MaxWait
  OBVIOUS
<1>2. IsFiniteSet(Docs) /\ Stuck \subseteq Docs
  OBVIOUS
<1>3. IsFiniteSet(Stuck) /\ IsFiniteSet(Docs \ Stuck)
  BY <1>2, FS_Subset
<1>4. Cardinality(Docs) \in Nat /\ Cardinality(Stuck) \in Nat /\ Cardinality(Docs \ Stuck) \in Nat
  BY <1>2, <1>3, FS_CardinalityType
<1>5. Free \in Nat \ {0}
  BY <1>1, <1>4 DEF Free
<1>6. \A a \in Nat, b \in Nat \ {0} :
        (a + b - 1) \div b \in Nat /\ a <= ((a + b - 1) \div b) * b
  OBVIOUS
<1>7. Passes \in Nat /\ Cardinality(Docs \ Stuck) <= Passes * Free
  BY <1>4, <1>5, <1>6 DEF Passes
<1>8. Cycle \in Nat
  BY <1>1, <1>4 DEF Cycle
<1>9. MaxWait = (Passes + 1 + MaxDeaths) * Cycle
  BY DEF MaxWait, Passes, Free, Cycle
<1>10. \A a, b \in Nat : a * b \in Nat
  OBVIOUS
<1>11. MaxWait \in Nat
  BY <1>1, <1>7, <1>8, <1>9, <1>10
<1> QED  BY <1>1, <1>2, <1>3, <1>4, <1>5, <1>7, <1>8, <1>9, <1>11 DEF Cycle

\* The operators of two numbers.
LEMMA MaxMinOfTwo ==
  ASSUME NEW a \in Int, NEW b \in Int
  PROVE  /\ Max({a, b}) \in {a, b} /\ Max({a, b}) >= a /\ Max({a, b}) >= b
         /\ Min({a, b}) \in {a, b} /\ Min({a, b}) <= a /\ Min({a, b}) <= b
<1>1. \E x \in {a, b} : \A y \in {a, b} : x >= y
  OBVIOUS
<1>2. \E x \in {a, b} : \A y \in {a, b} : x <= y
  OBVIOUS
<1>3. Max({a, b}) \in {a, b} /\ \A y \in {a, b} : Max({a, b}) >= y
  BY <1>1 DEF Max
<1>4. Min({a, b}) \in {a, b} /\ \A y \in {a, b} : Min({a, b}) <= y
  BY <1>2 DEF Min
<1> QED  BY <1>3, <1>4

\* A power of two is the number of subsets of a set, so at least one.
LEMMA PowerPositive ==
  ASSUME NEW n \in Nat
  PROVE  2 ^ n \in Nat \ {0}
<1> DEFINE S == 1 .. n
<1>1. IsFiniteSet(S) /\ Cardinality(S) = n
  BY FS_Interval
<1> HIDE DEF S
<1>2. IsFiniteSet(SUBSET S) /\ Cardinality(SUBSET S) = 2 ^ n
  BY <1>1, FS_SUBSET
<1>3. SUBSET S # {}
  OBVIOUS
<1> QED  BY <1>2, <1>3, FS_CardinalityType, FS_EmptySet

\* Whatever the attempt, the next one is later than now.
LEMMA BackoffPositive ==
  ASSUME NEW attempt \in Int
  PROVE  Backoff(attempt) \in Nat \ {0}
<1> DEFINE n == Max({0, attempt})
           delay == BaseDelay * 2 ^ n
<1>1. n \in Nat
  <2>1. n \in {0, attempt} /\ n >= 0
    <3>1. 0 \in Int
      OBVIOUS
    <3> QED  BY <3>1, MaxMinOfTwo
  <2> HIDE DEF n
  <2> QED  BY <2>1
<1>2. BaseDelay \in Nat \ {0} /\ MaxDelay \in Nat \ {0}
  BY DueWorkAssumption
<1>3. delay \in Nat \ {0}
  <2>1. 2 ^ n \in Nat \ {0}
    BY <1>1, PowerPositive
  <2>2. \A a, b \in Nat \ {0} : a * b \in Nat \ {0}
    OBVIOUS
  <2> HIDE DEF n
  <2> QED  BY <1>2, <2>1, <2>2
<1> HIDE DEF delay
<1>4. Min({MaxDelay, delay}) \in {MaxDelay, delay}
  BY <1>2, <1>3, MaxMinOfTwo
<1> QED  BY <1>2, <1>3, <1>4 DEF Backoff, delay

-----------------------------------------------------------------------------
(* The invariant.                                                          *)

Idle == queue = "idle"

\* The pass has still to take its batch of the rows of this status.
ToCome(state) ==
  \/ queue = "sent" /\ state \in {"error", "pending"}
  \/ queue = "error" /\ state = "pending"

TypeOK ==
  /\ status \in [Docs -> Waiting \cup {"new", "done", "stopped"}]
  /\ due \in [Docs -> Int]
  /\ retry \in [Docs -> Nat]
  /\ timer \in 0 .. Interval - 1
  /\ queue \in Waiting \cup {"idle"}
  /\ batch \subseteq Docs
  /\ asOf \in Int
  /\ deaths \in 0 .. MaxDeaths

BatchInv ==
  /\ asOf <= 0
  /\ Idle => batch = {}
  /\ \A d \in batch : status[d] = queue

\* The healthy rows of its status overdue at least as long, itself included.
Line(d) == {e \in Docs \ Stuck : status[e] = status[d] /\ due[e] <= due[d]}

\* The pass in progress works on the row, or on as many before it as fit.
Turn(d) == d \in batch \/ (ToCome(status[d]) /\ due[d] <= asOf)

\* The rows the pass in progress may still work on.
Left == batch \cup {e \in Docs : ToCome(status[e]) /\ due[e] <= asOf}

\* Ticks until the next pass starts, those of the rows left not counted.
Gap == IF Idle THEN Interval - timer ELSE Interval

\* So many passes that have not started are enough for the row, one more if
\* the one in progress dies.
Enough(d, passes) ==
  /\ Cardinality(Line(d)) <= (passes + 1) * Free
  /\ Turn(d) \/ Cardinality(Line(d) \ batch) <= passes * Free

InTime(d, passes) ==
  Gap - due[d] + Cardinality(Left) + (passes + MaxDeaths - deaths) * Cycle <= MaxWait

Served(d) == \E passes \in Nat : Enough(d, passes) /\ InTime(d, passes)

AllServed == \A d \in Docs \ Stuck : status[d] \in Waiting /\ due[d] <= 0 => Served(d)

IInv == TypeOK /\ BatchInv /\ AllServed

\* Lines and what is left are finite.
LEMMA Sizes ==
  ASSUME Cardinality(Stuck) < Limit, TypeOK, NEW d
  PROVE  /\ IsFiniteSet(Line(d)) /\ Cardinality(Line(d)) \in Nat
         /\ Cardinality(Line(d)) <= Cardinality(Docs \ Stuck)
         /\ IsFiniteSet(Line(d) \ batch) /\ Cardinality(Line(d) \ batch) \in Nat
         /\ Cardinality(Line(d) \ batch) <= Cardinality(Line(d))
         /\ IsFiniteSet(Left) /\ Cardinality(Left) \in Nat
         /\ Cardinality(Left) <= Cardinality(Docs)
<1>1. IsFiniteSet(Docs) /\ IsFiniteSet(Docs \ Stuck)
  BY Bounds, FS_Subset
<1>2. Line(d) \subseteq Docs \ Stuck
  BY DEF Line
<1>3. IsFiniteSet(Line(d)) /\ Cardinality(Line(d)) <= Cardinality(Docs \ Stuck)
  BY <1>1, <1>2, FS_Subset
<1>4. IsFiniteSet(Line(d) \ batch) /\ Cardinality(Line(d) \ batch) <= Cardinality(Line(d))
  BY <1>3, FS_Subset
<1>5. Left \subseteq Docs
  BY DEF Left, TypeOK
<1>6. IsFiniteSet(Left) /\ Cardinality(Left) <= Cardinality(Docs)
  BY <1>1, <1>5, FS_Subset
<1> QED  BY <1>3, <1>4, <1>6, FS_CardinalityType

\* A row that has just become due has all of MaxWait before it.
FreshServed == TypeOK => \A d \in Docs \ Stuck : due[d] = 0 => Served(d)

\* It has: a wait of MaxWait is enough for any pass.
LEMMA Fresh ==
  ASSUME Cardinality(Stuck) < Limit
  PROVE  FreshServed
<1> SUFFICES ASSUME TypeOK, NEW d \in Docs \ Stuck, due[d] = 0
             PROVE  Served(d)
  BY DEF FreshServed
<1> DEFINE line == Cardinality(Line(d))
           rest == Cardinality(Line(d) \ batch)
           left == Cardinality(Left)
           healthy == Cardinality(Docs \ Stuck)
<1>1. /\ line \in Nat /\ line <= healthy /\ rest \in Nat /\ rest <= line
      /\ left \in Nat /\ left <= Cardinality(Docs)
  BY Sizes
<1>2. healthy \in Nat
  <2>1. IsFiniteSet(Docs \ Stuck)
    BY Bounds, FS_Subset
  <2> QED  BY <2>1, FS_CardinalityType
<1>3. /\ Passes \in Nat /\ Free \in Nat /\ healthy <= Passes * Free
      /\ Cycle \in Nat /\ Cycle = Cardinality(Docs) + Interval /\ Cardinality(Docs) \in Nat
      /\ Interval \in Nat /\ MaxDeaths \in Nat /\ MaxWait = (Passes + 1 + MaxDeaths) * Cycle
  BY Bounds
<1>4. Enough(d, Passes)
  <2>1. \A a, b \in Nat : a * b \in Nat /\ (a + 1) * b \in Nat /\ (a + 1) * b >= a * b
    OBVIOUS
  <2> HIDE DEF line, rest, healthy
  <2>2. line <= (Passes + 1) * Free /\ rest <= Passes * Free
    BY <1>1, <1>2, <1>3, <2>1
  <2> QED  BY <2>2 DEF Enough, line, rest
<1>5. InTime(d, Passes)
  <2>1. Gap \in Int /\ Gap <= Interval
    BY <1>3 DEF Gap, TypeOK
  <2> HIDE DEF left
  <2>2. Gap - due[d] + left \in Int /\ Gap - due[d] + left <= Cycle
    BY <1>1, <1>3, <2>1
  <2>3. deaths \in Nat
    BY <1>3 DEF TypeOK
  <2>4. \A p, m, n, c \in Nat :
          /\ (p + m - n) * c \in Int
          /\ c + (p + m - n) * c <= (p + 1 + m) * c
    OBVIOUS
  <2> DEFINE so == Gap - due[d] + left
             later == (Passes + MaxDeaths - deaths) * Cycle
  <2>5. later \in Int /\ Cycle + later <= MaxWait
    BY <1>3, <2>3, <2>4
  <2> HIDE DEF so, later
  <2>6. so + later <= MaxWait
    <3>1. MaxWait \in Int
      BY Bounds
    <3> QED  BY <1>3, <2>2, <2>5, <3>1 DEF so
  <2> QED  BY <2>6 DEF InTime, so, later, left
<1> QED  BY <1>3, <1>4, <1>5 DEF Served

-----------------------------------------------------------------------------
(* What a step does to the rows.                                           *)

\* Instants as they age.
LEMMA AgedRow ==
  ASSUME Cardinality(Stuck) < Limit, TypeOK, NEW ticks \in 0 .. 1, NEW d \in Docs
  PROVE  /\ Aged(ticks)[d] \in Int
         /\ status[d] \in Waiting => Aged(ticks)[d] >= due[d] - ticks
         /\ status[d] \in Waiting /\ due[d] - ticks >= -Patience
              => Aged(ticks)[d] = due[d] - ticks
<1> DEFINE a == due[d] - ticks
           b == -Patience
<1>1. Patience \in Nat
  BY Bounds
<1>2. a \in Int /\ b \in Int
  BY <1>1 DEF TypeOK
<1>3. Aged(ticks)[d] = IF status[d] \in Waiting THEN Max({a, b}) ELSE 0
  BY DEF Aged
<1> HIDE DEF a, b
<1>4. Max({a, b}) \in {a, b} /\ Max({a, b}) >= a /\ Max({a, b}) >= b
  BY <1>2, MaxMinOfTwo
<1>5. a >= b => Max({a, b}) = a
  BY <1>2, <1>4
<1>6. Max({a, b}) \in Int
  BY <1>2, <1>4
<1> QED  BY <1>3, <1>4, <1>5, <1>6 DEF a, b

\* One row is put off, or leaves the schedule; the others age.
PutOff(x, ticks) ==
  /\ status' \in [Docs -> Waiting \cup {"new", "done", "stopped"}]
  /\ retry' \in [Docs -> Nat]
  /\ due' \in [Docs -> Int]
  /\ status'[x] \in Waiting => due'[x] > 0
  /\ \A e \in Docs \ {x} : status'[e] = status[e] /\ due'[e] = Aged(ticks)[e]

\* What a save of the processor does is one of these.
LEMMA PutPutsOff ==
  ASSUME Cardinality(Stuck) < Limit, TypeOK, NEW ticks \in 0 .. 1, NEW x \in Docs,
         NEW state \in Waiting \cup {"done", "stopped"}, NEW count \in Nat,
         NEW delay \in Nat, state \in Waiting => delay # 0,
         Put(x, state, count, delay, ticks)
  PROVE  PutOff(x, ticks) /\ status'[x] = state
<1>1. Aged(ticks) \in [Docs -> Int]
  <2>1. \A d \in Docs : Aged(ticks)[d] \in Int
    BY AgedRow
  <2>2. Aged(ticks) = [d \in Docs |-> Aged(ticks)[d]]
    BY DEF Aged
  <2> QED  BY <2>1, <2>2
<1> DEFINE aged == Aged(ticks)
<1>2. /\ status' = [status EXCEPT ![x] = state]
      /\ retry' = [retry EXCEPT ![x] = count]
      /\ due' = [aged EXCEPT ![x] = delay]
  BY DEF Put
<1> HIDE DEF aged
<1>3. aged \in [Docs -> Int]
  BY <1>1 DEF aged
<1>4. status' \in [Docs -> Waiting \cup {"new", "done", "stopped"}] /\ retry' \in [Docs -> Nat]
  BY <1>2 DEF TypeOK
<1>5. due' \in [Docs -> Int] /\ due'[x] = delay /\ status'[x] = state
      /\ \A e \in Docs \ {x} : due'[e] = aged[e] /\ status'[e] = status[e]
  BY <1>2, <1>3 DEF TypeOK
<1> QED  BY <1>4, <1>5 DEF PutOff, aged

\* A check keeps the row where it was, for later, or ends it.
LEMMA CheckedPutsOff ==
  ASSUME Cardinality(Stuck) < Limit, TypeOK, NEW ticks \in 0 .. 1, NEW x \in Docs,
         Checked(x, ticks)
  PROVE  PutOff(x, ticks) /\ status'[x] \in {"sent", "done", "stopped"}
<1> DEFINE count == retry[x] + 1
<1>1. retry[x] \in Nat /\ count \in Nat /\ count \in Int
  BY DEF TypeOK
<1>2. Backoff(count) \in Nat /\ Backoff(count) # 0
  BY <1>1, BackoffPositive
<1>3. {"sent", "done", "stopped"} \subseteq Waiting \cup {"done", "stopped"}
      /\ "done" \notin Waiting /\ "stopped" \notin Waiting
  BY DEF Waiting
<1> HIDE DEF count
<1>4. \/ Put(x, "done", retry[x], 0, ticks)
      \/ Put(x, "stopped", count, 0, ticks)
      \/ Put(x, "sent", count, Backoff(count), ticks)
  BY DEF Checked, count
<1>5. CASE Put(x, "done", retry[x], 0, ticks)
  BY <1>1, <1>3, <1>5, PutPutsOff
<1>6. CASE Put(x, "stopped", count, 0, ticks)
  BY <1>1, <1>3, <1>6, PutPutsOff
<1>7. CASE Put(x, "sent", count, Backoff(count), ticks)
  BY <1>1, <1>2, <1>3, <1>7, PutPutsOff
<1> QED  BY <1>4, <1>5, <1>6, <1>7

\* An attempt may move it to another queue, never back to the one of claims.
LEMMA AttemptedPutsOff ==
  ASSUME Cardinality(Stuck) < Limit, TypeOK, NEW ticks \in 0 .. 1, NEW x \in Docs,
         Attempted(x, ticks)
  PROVE  PutOff(x, ticks) /\ status'[x] \in {"sent", "done", "stopped", "error"}
<1> DEFINE count == retry[x] + 1
<1>1. retry[x] \in Nat /\ count \in Nat /\ count - 1 \in Int
  BY DEF TypeOK
<1>2. Backoff(count - 1) \in Nat /\ Backoff(count - 1) # 0
  BY <1>1, BackoffPositive
<1>3. {"sent", "done", "stopped", "error"} \subseteq Waiting \cup {"done", "stopped"}
      /\ "done" \notin Waiting /\ "stopped" \notin Waiting
  BY DEF Waiting
<1>4. FirstCheck \in Nat /\ FirstCheck # 0 /\ 0 \in Nat
  BY DueWorkAssumption
<1> HIDE DEF count
<1>5. \/ Put(x, "sent", 0, FirstCheck, ticks)
      \/ Put(x, "done", retry[x], 0, ticks)
      \/ Put(x, "stopped", retry[x], 0, ticks)
      \/ Put(x, "stopped", count, 0, ticks)
      \/ Put(x, "error", count, Backoff(count - 1), ticks)
  BY DEF Attempted, count
<1>6. CASE Put(x, "sent", 0, FirstCheck, ticks)
  BY <1>3, <1>4, <1>6, PutPutsOff
<1>7. CASE Put(x, "done", retry[x], 0, ticks)
  BY <1>1, <1>3, <1>4, <1>7, PutPutsOff
<1>8. CASE Put(x, "stopped", retry[x], 0, ticks) \/ Put(x, "stopped", count, 0, ticks)
  BY <1>1, <1>3, <1>4, <1>8, PutPutsOff
<1>9. CASE Put(x, "error", count, Backoff(count - 1), ticks)
  BY <1>1, <1>2, <1>3, <1>9, PutPutsOff
<1> QED  BY <1>5, <1>6, <1>7, <1>8, <1>9

\* No row waits longer than it may: the property, from the invariant.
LEMMA InvImplies ==
  ASSUME Cardinality(Stuck) < Limit, IInv
  PROVE  NoRowWaitsLong
<1> SUFFICES ASSUME NEW d \in Docs \ Stuck, status[d] \in Waiting
             PROVE  due[d] >= -MaxWait
  BY DEF NoRowWaitsLong
<1>1. due[d] \in Int /\ MaxWait \in Nat
  BY Bounds DEF IInv, TypeOK
<1>2. CASE due[d] > 0
  BY <1>1, <1>2
<1>3. CASE due[d] <= 0
  <2>1. PICK passes \in Nat : InTime(d, passes)
    BY <1>3 DEF IInv, AllServed, Served
  <2> DEFINE later == (passes + MaxDeaths - deaths) * Cycle
             left == Cardinality(Left)
  <2>2. later \in Nat
    <3>1. passes + MaxDeaths - deaths \in Nat /\ Cycle \in Nat
      BY Bounds DEF IInv, TypeOK
    <3>2. \A a, b \in Nat : a * b \in Nat
      OBVIOUS
    <3> QED  BY <3>1, <3>2
  <2>3. left \in Nat
    BY Sizes DEF IInv
  <2>4. Gap \in Nat
    BY Bounds DEF IInv, TypeOK, Gap
  <2>5. Gap - due[d] + left + later <= MaxWait
    BY <2>1 DEF InTime
  <2> HIDE DEF later, left
  <2> QED  BY <1>1, <2>2, <2>3, <2>4, <2>5
<1> QED  BY <1>1, <1>2, <1>3

\* In a step, each row ages by the same, or is put off, or ends.
Flow(ticks) ==
  \A e \in Docs :
    \/ /\ status'[e] = status[e]
       /\ status[e] \in Waiting => due'[e] >= due[e] - ticks
       /\ status[e] \in Waiting /\ e \notin Stuck => due'[e] = due[e] - ticks
    \/ status'[e] \in Waiting => due'[e] > 0

\* No healthy row is so late that how late is no longer told.
LEMMA AgedFlow ==
  ASSUME Cardinality(Stuck) < Limit, IInv, NEW ticks \in 0 .. 1, NEW S \in SUBSET Docs,
         \A e \in S : status'[e] = status[e] /\ due'[e] = Aged(ticks)[e],
         \A e \in Docs \ S : status'[e] \in Waiting => due'[e] > 0
  PROVE  Flow(ticks)
<1> SUFFICES ASSUME NEW e \in S, status[e] \in Waiting
             PROVE  /\ Aged(ticks)[e] >= due[e] - ticks
                    /\ e \notin Stuck => Aged(ticks)[e] = due[e] - ticks
  BY DEF Flow
<1>1. Aged(ticks)[e] >= due[e] - ticks
  BY AgedRow DEF IInv
<1>2. ASSUME e \notin Stuck PROVE Aged(ticks)[e] = due[e] - ticks
  <2>1. due[e] >= -MaxWait
    BY <1>2, InvImplies DEF NoRowWaitsLong
  <2>2. due[e] - ticks >= -Patience
    <3>1. due[e] \in Int /\ MaxWait \in Nat /\ Patience \in Nat /\ Patience > MaxWait
      BY Bounds DEF IInv, TypeOK
    <3> QED  BY <2>1, <3>1
  <2> QED  BY <2>2, AgedRow DEF IInv
<1> QED  BY <1>1, <1>2

\* Nobody joins the line of a row that is due.
LEMMA LineShrinks ==
  ASSUME TypeOK, TypeOK', NEW ticks \in 0 .. 1, Flow(ticks), NEW d \in Docs \ Stuck,
         status'[d] \in Waiting, due'[d] <= 0
  PROVE  /\ status[d] = status'[d] /\ due[d] = due'[d] + ticks
         /\ Line(d)' \subseteq Line(d)
<1>0. \A e \in Docs : due[e] \in Int /\ due'[e] \in Int
  BY DEF TypeOK
<1>1. ASSUME NEW e \in Docs \ Stuck, status'[e] \in Waiting, due'[e] <= 0
      PROVE  status[e] = status'[e] /\ due[e] = due'[e] + ticks
  BY <1>0, <1>1 DEF Flow
<1>2. status[d] = status'[d] /\ due[d] = due'[d] + ticks
  BY <1>1
<1>3. ASSUME NEW e \in Line(d)' PROVE e \in Line(d)
  <2>1. e \in Docs \ Stuck /\ status'[e] = status'[d] /\ due'[e] <= due'[d]
    BY <1>3 DEF Line
  <2>2. due'[e] <= 0
    BY <1>0, <2>1
  <2>3. status[e] = status'[e] /\ due[e] = due'[e] + ticks
    BY <1>1, <2>1, <2>2
  <2>4. due[e] <= due[d]
    BY <1>0, <1>2, <2>1, <2>3
  <2> QED  BY <1>2, <2>1, <2>3, <2>4 DEF Line
<1> QED  BY <1>2, <1>3

-----------------------------------------------------------------------------
(* Every step keeps each due row served.                                   *)

SizesKnown ==
  TypeOK =>
    /\ IsFiniteSet(Left) /\ Cardinality(Left) \in Nat
    /\ Cardinality(Left) <= Cardinality(Docs)

\* The two facts above, of the state after a step.
LEMMA NextState ==
  ASSUME Cardinality(Stuck) < Limit
  PROVE  FreshServed' /\ SizesKnown'
<1>1. FreshServed
  BY Fresh
<1>2. SizesKnown
  BY Sizes DEF SizesKnown
<1> QED  BY <1>1, <1>2, PTL

\* It is enough that what was enough before the step still is.
LEMMA ServedAgain ==
  ASSUME Cardinality(Stuck) < Limit, IInv, TypeOK', NEW ticks \in 0 .. 1, Flow(ticks),
         NEW d \in Docs \ Stuck, status'[d] \in Waiting, due'[d] <= 0,
         \A p \in Nat : Enough(d, p) /\ InTime(d, p) => Served(d)'
  PROVE  Served(d)'
<1>1. CASE due'[d] = 0
  BY <1>1, NextState DEF FreshServed
<1>2. CASE due'[d] # 0
  <2>1. status[d] = status'[d] /\ due[d] = due'[d] + ticks
    BY LineShrinks DEF IInv
  <2>2. due'[d] \in Int
    BY DEF TypeOK
  <2>3. due[d] <= 0
    BY <1>2, <2>1, <2>2
  <2>4. Served(d)
    BY <2>1, <2>3 DEF IInv, AllServed
  <2> QED  BY <2>4 DEF Served
<1> QED  BY <1>1, <1>2

\* A smaller line, and what is left of it.
LEMMA SmallerLine ==
  ASSUME Cardinality(Stuck) < Limit, TypeOK, TypeOK', NEW d, Line(d)' \subseteq Line(d)
  PROVE  /\ Cardinality(Line(d)') \in Nat /\ Cardinality(Line(d)') <= Cardinality(Line(d))
         /\ Cardinality(Line(d)' \ batch') \in Nat
         /\ Cardinality(Line(d)' \ batch') <= Cardinality(Line(d))
         /\ Line(d)' \ batch' \subseteq Line(d) \ batch =>
              Cardinality(Line(d)' \ batch') <= Cardinality(Line(d) \ batch)
<1>1. IsFiniteSet(Line(d)) /\ IsFiniteSet(Line(d) \ batch)
  BY Sizes
<1> DEFINE line == Line(d)
           later == Line(d)'
           rest == later \ batch'
<1>2. later \subseteq line /\ rest \subseteq line
  OBVIOUS
<1>3. IsFiniteSet(line) /\ IsFiniteSet(line \ batch)
  BY <1>1
<1> HIDE DEF line, later, rest
<1>4. IsFiniteSet(later) /\ Cardinality(later) <= Cardinality(line)
  BY <1>2, <1>3, FS_Subset
<1>5. IsFiniteSet(rest) /\ Cardinality(rest) <= Cardinality(line)
  BY <1>2, <1>3, FS_Subset
<1>6. rest \subseteq line \ batch => Cardinality(rest) <= Cardinality(line \ batch)
  BY <1>3, FS_Subset
<1>7. Cardinality(later) \in Nat /\ Cardinality(rest) \in Nat
  BY <1>4, <1>5, FS_CardinalityType
<1> QED  BY <1>4, <1>5, <1>6, <1>7 DEF line, later, rest

\* A step within a pass, or between two: no turn is lost, and the time that
\* passes is taken from what was to come.
LEMMA SamePass ==
  ASSUME Cardinality(Stuck) < Limit, IInv, TypeOK', NEW ticks \in 0 .. 1, Flow(ticks),
         NEW d \in Docs \ Stuck, status'[d] \in Waiting, due'[d] <= 0,
         deaths' = deaths,
         \A p \in Nat :
           Enough(d, p) => Turn(d)' \/ Cardinality(Line(d)' \ batch') <= p * Free,
         Gap' + Cardinality(Left') + ticks <= Gap + Cardinality(Left)
  PROVE  Served(d)'
<1> SUFFICES ASSUME NEW p \in Nat, Enough(d, p), InTime(d, p) PROVE Served(d)'
  BY ServedAgain
<1>1. due[d] = due'[d] + ticks /\ Line(d)' \subseteq Line(d)
  BY LineShrinks DEF IInv
<1> DEFINE more == (p + 1) * Free
           some == p * Free
<1>2. more \in Nat /\ some \in Nat
  <2>1. Free \in Nat
    BY Bounds
  <2>2. \A a, b \in Nat : a * b \in Nat
    OBVIOUS
  <2> QED  BY <2>1, <2>2
<1>3. Cardinality(Line(d)) \in Nat
  BY Sizes DEF IInv
<1>4. /\ Cardinality(Line(d)') \in Nat /\ Cardinality(Line(d)') <= Cardinality(Line(d))
  BY <1>1, SmallerLine DEF IInv
<1>5. Cardinality(Line(d)) <= more
  BY DEF Enough
<1> HIDE DEF more, some
<1>6. Cardinality(Line(d)') <= more
  BY <1>2, <1>3, <1>4, <1>5
<1>7. Turn(d)' \/ Cardinality(Line(d)' \ batch') <= some
  BY DEF some
<1>8. Enough(d, p)'
  BY <1>6, <1>7 DEF Enough, more, some
<1>9. InTime(d, p)'
  <2> DEFINE later == (p + MaxDeaths - deaths) * Cycle
  <2>1. Gap - due[d] + Cardinality(Left) + later <= MaxWait
    BY DEF InTime
  <2>2. later \in Int /\ MaxWait \in Int /\ due'[d] \in Int
    <3>1. p + MaxDeaths - deaths \in Int /\ Cycle \in Int /\ MaxWait \in Int /\ due'[d] \in Int
      BY Bounds DEF IInv, TypeOK
    <3>2. \A a, b \in Int : a * b \in Int
      OBVIOUS
    <3> QED  BY <3>1, <3>2
  <2>3. Cardinality(Left) \in Nat /\ Cardinality(Left') \in Nat
    <3>1. TypeOK
      BY DEF IInv
    <3> QED  BY <3>1, Sizes, NextState DEF SizesKnown
  <2>4. Gap \in Int /\ Gap' \in Int
    BY Bounds DEF IInv, TypeOK, Gap
  <2> HIDE DEF later
  <2>5. Gap' - due'[d] + Cardinality(Left') + later <= MaxWait
    BY <1>1, <2>1, <2>2, <2>3, <2>4
  <2> QED  BY <2>5 DEF InTime, later
<1> QED  BY <1>8, <1>9 DEF Served

\* A row whose turn has come keeps it, and no row comes back to the line.
LEMMA TurnKept ==
  ASSUME Cardinality(Stuck) < Limit, TypeOK, TypeOK', NEW d,
         Line(d)' \subseteq Line(d), Line(d)' \ batch' \subseteq Line(d) \ batch,
         Turn(d) => Turn(d)'
  PROVE  \A p \in Nat :
           Enough(d, p) => Turn(d)' \/ Cardinality(Line(d)' \ batch') <= p * Free
<1> SUFFICES ASSUME NEW p \in Nat, Enough(d, p), ~ Turn(d)'
             PROVE  Cardinality(Line(d)' \ batch') <= p * Free
  OBVIOUS
<1> DEFINE some == p * Free
<1>1. some \in Nat
  <2>1. Free \in Nat
    BY Bounds
  <2>2. \A a, b \in Nat : a * b \in Nat
    OBVIOUS
  <2> QED  BY <2>1, <2>2
<1>2. Cardinality(Line(d) \ batch) <= some
  BY DEF Enough
<1>3. /\ Cardinality(Line(d)' \ batch') \in Nat
      /\ Cardinality(Line(d)' \ batch') <= Cardinality(Line(d) \ batch)
  BY SmallerLine
<1>4. Cardinality(Line(d) \ batch) \in Nat
  BY Sizes
<1> HIDE DEF some
<1>5. Cardinality(Line(d)' \ batch') <= some
  BY <1>1, <1>2, <1>3, <1>4
<1> QED  BY <1>5 DEF some

\* A batch without a row that is due has Free rows of its line at least.
LEMMA Selection ==
  ASSUME Cardinality(Stuck) < Limit, TypeOK, NEW d \in Docs \ Stuck, NEW now \in Int,
         due[d] <= now, NEW rows \in Batches(status[d], now), d \notin rows
  PROVE  Cardinality(Line(d) \ rows) <= Cardinality(Line(d)) - Free
<1> DEFINE eligible == {e \in Docs : status[e] = status[d] /\ due[e] <= now}
           healthy == rows \ Stuck
<1>1. /\ rows \subseteq eligible
      /\ Cardinality(rows) = Min({Limit, Cardinality(eligible)})
      /\ \A e \in rows, f \in eligible \ rows : due[e] <= due[f]
  BY DEF Batches
<1>2. d \in eligible \ rows /\ eligible \subseteq Docs
  OBVIOUS
<1> HIDE DEF eligible
<1>3. IsFiniteSet(eligible) /\ IsFiniteSet(rows)
  BY <1>1, <1>2, Bounds, FS_Subset
<1>4. Cardinality(rows) # Cardinality(eligible)
  BY <1>1, <1>2, <1>3, FS_Subset
<1>5. Cardinality(rows) = Limit
  <2>1. Cardinality(eligible) \in Int /\ Limit \in Int
    BY <1>3, FS_CardinalityType, Bounds
  <2>2. Min({Limit, Cardinality(eligible)}) \in {Limit, Cardinality(eligible)}
    BY <2>1, MaxMinOfTwo
  <2> QED  BY <1>1, <1>4, <2>2
<1>6. Cardinality(healthy) >= Free /\ Cardinality(healthy) \in Nat
  <2> DEFINE stuck == rows \cap Stuck
  <2>1. Cardinality(healthy) = Cardinality(rows) - Cardinality(stuck)
    BY <1>3, FS_Difference
  <2>2. IsFiniteSet(stuck) /\ Cardinality(stuck) <= Cardinality(Stuck)
    <3>1. stuck \subseteq Stuck
      OBVIOUS
    <3> HIDE DEF stuck
    <3> QED  BY <3>1, Bounds, FS_Subset
  <2>3. IsFiniteSet(healthy)
    BY <1>3, FS_Subset
  <2> HIDE DEF stuck, healthy
  <2>4. Cardinality(stuck) \in Nat /\ Cardinality(healthy) \in Nat
    BY <2>2, <2>3, FS_CardinalityType
  <2>5. Limit \in Nat /\ Cardinality(Stuck) \in Nat
    BY Bounds
  <2> QED  BY <1>5, <2>1, <2>2, <2>4, <2>5 DEF Free
<1>7. healthy \subseteq Line(d)
  <2> SUFFICES ASSUME NEW e \in rows, e \notin Stuck PROVE e \in Line(d)
    OBVIOUS
  <2>1. e \in Docs /\ status[e] = status[d]
    BY <1>1 DEF eligible
  <2>2. due[e] <= due[d]
    BY <1>1, <1>2
  <2> QED  BY <2>1, <2>2 DEF Line
<1>8. Line(d) \ rows = Line(d) \ healthy /\ Line(d) \cap healthy = healthy
  <2>1. \A e \in Line(d) : e \notin Stuck
    BY DEF Line
  <2> QED  BY <1>7, <2>1
<1>9. IsFiniteSet(Line(d)) /\ Cardinality(Line(d)) \in Nat
  BY Sizes
<1> HIDE DEF healthy
<1>10. Cardinality(Line(d) \ healthy) = Cardinality(Line(d)) - Cardinality(Line(d) \cap healthy)
  BY <1>9, FS_Difference
<1>11. Cardinality(Line(d) \ rows) = Cardinality(Line(d)) - Cardinality(healthy)
  BY <1>8, <1>10
<1>12. Free \in Nat
  BY Bounds
<1> QED  BY <1>6, <1>9, <1>11, <1>12

-----------------------------------------------------------------------------
(* The actions.                                                            *)

\* A new document is first attempted at once, beside the job.
LEMMA IssueStep ==
  ASSUME Cardinality(Stuck) < Limit, IInv, NEW x \in Docs, Issue(x)
  PROVE  IInv'
<1>1. /\ status[x] = "new" /\ Attempted(x, 0)
      /\ UNCHANGED <<timer, queue, batch, asOf, deaths>>
  BY DEF Issue
<1>2. 0 \in 0 .. 1
  OBVIOUS
<1>3. PutOff(x, 0)
  BY <1>1, <1>2, AttemptedPutsOff DEF IInv
<1>4. TypeOK'
  BY <1>1, <1>3 DEF PutOff, IInv, TypeOK
<1>5. BatchInv'
  <2>1. x \notin batch
    BY <1>1 DEF IInv, BatchInv, TypeOK, Waiting
  <2>2. \A d \in batch : status'[d] = status[d]
    BY <1>3, <2>1 DEF PutOff, IInv, TypeOK
  <2> QED  BY <1>1, <2>2 DEF IInv, BatchInv, Idle
<1>6. Flow(0)
  <2>1. Docs \ {x} \in SUBSET Docs /\ \A e \in Docs \ (Docs \ {x}) : e = x
    OBVIOUS
  <2> QED  BY <1>2, <1>3, <2>1, AgedFlow DEF PutOff
<1>7. Left' \subseteq Left
  <2> SUFFICES ASSUME NEW e \in Docs, ToCome(status'[e]), due'[e] <= asOf
               PROVE  ToCome(status[e]) /\ due[e] <= asOf
    BY <1>1 DEF Left, ToCome
  <2>1. status'[e] \in Waiting
    BY DEF ToCome, Waiting
  <2>2. due'[e] \in Int /\ due[e] \in Int /\ asOf \in Int /\ asOf <= 0
    BY <1>4 DEF IInv, TypeOK, BatchInv
  <2>3. ~ (due'[e] > 0)
    BY <2>2
  <2>4. status'[e] = status[e] /\ due'[e] >= due[e] - 0
    BY <1>6, <2>1, <2>3 DEF Flow
  <2> QED  BY <2>2, <2>4
<1>8. Gap' + Cardinality(Left') + 0 <= Gap + Cardinality(Left)
  <2>1. Cardinality(Left') <= Cardinality(Left)
    BY <1>7, Sizes, FS_Subset DEF IInv
  <2>2. Cardinality(Left) \in Nat /\ Cardinality(Left') \in Nat
    <3>1. TypeOK
      BY DEF IInv
    <3> QED  BY <1>4, <3>1, Sizes, NextState DEF SizesKnown
  <2>3. Gap' = Gap /\ Gap \in Int
    BY <1>1, Bounds DEF IInv, TypeOK, Gap, Idle
  <2> QED  BY <2>1, <2>2, <2>3
<1>9. ASSUME NEW d \in Docs \ Stuck, status'[d] \in Waiting, due'[d] <= 0
      PROVE  Served(d)'
  <2>1. status[d] = status'[d] /\ due[d] = due'[d] + 0 /\ Line(d)' \subseteq Line(d)
    BY <1>2, <1>4, <1>6, <1>9, LineShrinks DEF IInv
  <2>2. Turn(d) => Turn(d)'
    <3>1. due'[d] = due[d]
      BY <1>4, <2>1 DEF TypeOK
    <3> QED  BY <1>1, <2>1, <3>1 DEF Turn, ToCome
  <2>3. Line(d)' \ batch' \subseteq Line(d) \ batch
    BY <1>1, <2>1
  <2>4. \A p \in Nat :
          Enough(d, p) => Turn(d)' \/ Cardinality(Line(d)' \ batch') <= p * Free
    BY <1>4, <2>1, <2>2, <2>3, TurnKept DEF IInv
  <2> QED  BY <1>1, <1>2, <1>4, <1>6, <1>8, <1>9, <2>4, SamePass
<1> QED  BY <1>4, <1>5, <1>9 DEF IInv, AllServed

\* A function of the rows, of what ages.
LEMMA AllAged ==
  ASSUME Cardinality(Stuck) < Limit, IInv, NEW ticks \in 0 .. 1,
         status' = status, due' = Aged(ticks)
  PROVE  due' \in [Docs -> Int] /\ Flow(ticks)
<1>1. \A d \in Docs : Aged(ticks)[d] \in Int
  BY AgedRow DEF IInv
<1>2. Aged(ticks) = [d \in Docs |-> Aged(ticks)[d]]
  BY DEF Aged
<1>3. due' \in [Docs -> Int]
  BY <1>1, <1>2
<1>4. Docs \in SUBSET Docs /\ \A e \in Docs \ Docs : FALSE
  OBVIOUS
<1>5. \A e \in Docs : status'[e] = status[e] /\ due'[e] = Aged(ticks)[e]
  OBVIOUS
<1>6. Flow(ticks)
  BY <1>4, <1>5, AgedFlow
<1> QED  BY <1>3, <1>6

\* The clock moves while the job is idle and its timer does not fire.
LEMMA TickStep ==
  ASSUME Cardinality(Stuck) < Limit, IInv, Tick
  PROVE  IInv'
<1>1. /\ queue = "idle" /\ timer # Interval - 1
      /\ due' = Aged(1) /\ timer' = timer + 1
      /\ UNCHANGED <<status, retry, queue, batch, asOf, deaths>>
  BY DEF Tick
<1>2. 1 \in 0 .. 1
  OBVIOUS
<1>3. due' \in [Docs -> Int] /\ Flow(1)
  BY <1>1, <1>2, AllAged
<1>4. TypeOK'
  <2>1. timer' \in 0 .. Interval - 1
    BY <1>1, Bounds DEF IInv, TypeOK
  <2> QED  BY <1>1, <1>3, <2>1 DEF IInv, TypeOK
<1>5. BatchInv'
  BY <1>1 DEF IInv, BatchInv, Idle
<1>6. Left = {} /\ Left' = {} /\ batch = {} /\ batch' = {}
  BY <1>1 DEF IInv, BatchInv, Left, ToCome, Idle
<1>7. Gap' + Cardinality(Left') + 1 <= Gap + Cardinality(Left)
  <2>1. Cardinality(Left) = 0 /\ Cardinality(Left') = 0
    BY <1>6, FS_EmptySet
  <2>2. Gap = Interval - timer /\ Gap' = Interval - (timer + 1)
    BY <1>1 DEF Gap, Idle
  <2>3. Interval \in Int /\ timer \in Int
    BY Bounds DEF IInv, TypeOK
  <2> QED  BY <2>1, <2>2, <2>3
<1>8. ASSUME NEW d \in Docs \ Stuck, status'[d] \in Waiting, due'[d] <= 0
      PROVE  Served(d)'
  <2>1. Line(d)' \subseteq Line(d)
    BY <1>2, <1>3, <1>4, <1>8, LineShrinks DEF IInv
  <2>2. ~ Turn(d)
    BY <1>1, <1>6 DEF Turn, ToCome
  <2>3. Line(d)' \ batch' \subseteq Line(d) \ batch
    BY <1>6, <2>1
  <2>4. \A p \in Nat :
          Enough(d, p) => Turn(d)' \/ Cardinality(Line(d)' \ batch') <= p * Free
    BY <1>4, <2>1, <2>2, <2>3, TurnKept DEF IInv
  <2> QED  BY <1>1, <1>2, <1>3, <1>4, <1>7, <1>8, <2>4, SamePass
<1> QED  BY <1>4, <1>5, <1>8 DEF IInv, AllServed

\* The rows left do not become more than they were.
LEMMA LeftShrinks ==
  ASSUME Cardinality(Stuck) < Limit, TypeOK, TypeOK', Left' \subseteq Left
  PROVE  /\ Cardinality(Left) \in Nat /\ Cardinality(Left') \in Nat
         /\ Cardinality(Left') <= Cardinality(Left)
  BY Sizes, NextState, FS_Subset DEF SizesKnown

\* A queue is done: the next one is read, or the pass ends.
LEMMA NextQueueStep ==
  ASSUME Cardinality(Stuck) < Limit, IInv, NextQueue
  PROVE  IInv'
<1>1. /\ queue # "idle" /\ batch = {}
      /\ UNCHANGED <<status, due, retry, timer, asOf, deaths>>
  BY DEF NextQueue
<1>2. \/ queue = "sent" /\ queue' = "error" /\ batch' \in Batches("error", asOf)
      \/ queue = "error" /\ queue' = "pending" /\ batch' \in Batches("pending", asOf)
      \/ queue = "pending" /\ queue' = "idle" /\ batch' = {}
  BY DEF NextQueue
<1>3. /\ \A d \in batch' : d \in Docs /\ status[d] = queue' /\ due[d] <= asOf
      /\ queue' = "idle" => batch' = {}
  BY <1>2 DEF Batches
<1>4. TypeOK'
  BY <1>1, <1>2, <1>3 DEF IInv, TypeOK, Waiting
<1>5. BatchInv'
  BY <1>1, <1>3 DEF IInv, BatchInv, Idle
<1>6. 0 \in 0 .. 1 /\ Flow(0)
  <2>1. \A e \in Docs : due[e] \in Int
    BY DEF IInv, TypeOK
  <2> QED  BY <1>1, <2>1 DEF Flow
<1>7. Left' \subseteq Left
  <2>1. ASSUME NEW e \in Docs, ToCome(status[e])' PROVE ToCome(status[e])
    BY <1>1, <1>2, <2>1 DEF ToCome
  <2>2. ASSUME NEW e \in batch' PROVE ToCome(status[e])
    BY <1>2, <1>3 DEF ToCome
  <2> QED  BY <1>1, <1>3, <2>1, <2>2 DEF Left
<1>8. Gap' + Cardinality(Left') + 0 <= Gap + Cardinality(Left)
  <2>1. /\ Cardinality(Left) \in Nat /\ Cardinality(Left') \in Nat
        /\ Cardinality(Left') <= Cardinality(Left)
    BY <1>4, <1>7, LeftShrinks DEF IInv
  <2>2. Gap' <= Gap /\ Gap \in Int /\ Gap' \in Int
    BY <1>1, Bounds DEF IInv, TypeOK, Gap, Idle
  <2> QED  BY <2>1, <2>2
<1>9. ASSUME NEW d \in Docs \ Stuck, status'[d] \in Waiting, due'[d] <= 0
      PROVE  Served(d)'
  <2>1. Line(d)' \subseteq Line(d)
    BY <1>4, <1>6, <1>9, LineShrinks DEF IInv
  <2>2. Line(d)' \ batch' \subseteq Line(d) \ batch
    BY <1>1, <2>1
  <2>3. ASSUME NEW p \in Nat, Enough(d, p)
        PROVE  Turn(d)' \/ Cardinality(Line(d)' \ batch') <= p * Free
    <3>1. CASE Turn(d) => Turn(d)'
      BY <1>4, <2>1, <2>2, <2>3, <3>1, TurnKept DEF IInv
    <3>2. CASE Turn(d) /\ ~ Turn(d)'
      <4>1. ToCome(status[d]) /\ due[d] <= asOf
        BY <1>1, <3>2 DEF Turn
      <4>2. ~ ToCome(status[d])' /\ d \notin batch'
        BY <1>1, <3>2, <4>1 DEF Turn
      <4>3. queue' = status[d]
        BY <1>1, <1>2, <4>1, <4>2 DEF ToCome
      <4>4. batch' \in Batches(status[d], asOf)
        BY <1>2, <4>1, <4>3 DEF ToCome
      <4> DEFINE line == Cardinality(Line(d))
                 rest == Cardinality(Line(d) \ batch')
                 now  == Cardinality(Line(d)' \ batch')
      <4>5. rest <= line - Free
        <5>1. asOf \in Int /\ TypeOK
          BY DEF IInv, TypeOK
        <5> QED  BY <4>1, <4>2, <4>4, <5>1, Selection
      <4>6. now <= rest /\ rest \in Nat /\ now \in Nat /\ line \in Nat
        <5>1. IsFiniteSet(Line(d)) /\ line \in Nat
          BY Sizes DEF IInv
        <5>2. Line(d)' \ batch' \subseteq Line(d) \ batch'
          BY <2>1
        <5>3. IsFiniteSet(Line(d) \ batch')
          BY <5>1, FS_Subset
        <5>4. now <= rest /\ IsFiniteSet(Line(d)' \ batch')
          BY <5>2, <5>3, FS_Subset
        <5> QED  BY <5>1, <5>3, <5>4, FS_CardinalityType
      <4>7. line <= (p + 1) * Free
        BY <2>3 DEF Enough
      <4>8. Free \in Nat /\ (p + 1) * Free = p * Free + Free /\ p * Free \in Nat
        <5>1. \A a, b \in Nat : (a + 1) * b = a * b + b /\ a * b \in Nat
          OBVIOUS
        <5>2. Free \in Nat
          BY Bounds
        <5> QED  BY <5>1, <5>2
      <4> DEFINE some == p * Free
      <4>9. line <= some + Free /\ some \in Nat
        BY <4>7, <4>8
      <4> HIDE DEF line, rest, now, some
      <4>10. now <= some
        BY <4>5, <4>6, <4>8, <4>9
      <4> QED  BY <4>10 DEF now, some
    <3> QED  BY <3>1, <3>2
  <2> QED  BY <1>1, <1>4, <1>6, <1>8, <1>9, <2>3, SamePass
<1> QED  BY <1>4, <1>5, <1>9 DEF IInv, AllServed

\* A row of the batch is worked on, and is put off or leaves the schedule.
LEMMA WorkOnStep ==
  ASSUME Cardinality(Stuck) < Limit, IInv, NEW x \in Docs, WorkOn(x)
  PROVE  IInv'
<1>1. PICK ticks \in 0 .. 1 :
        /\ IF x \in Stuck THEN due' = Aged(ticks) /\ UNCHANGED <<status, retry>>
           ELSE IF queue = "sent" THEN Checked(x, ticks) ELSE Attempted(x, ticks)
        /\ timer' = (timer + ticks) % Interval
        /\ asOf' = asOf - ticks
  BY DEF WorkOn
<1>2. /\ x \in batch /\ queue' = queue /\ batch' = batch \ {x} /\ deaths' = deaths
      /\ status[x] = queue /\ ~ Idle /\ queue \in Waiting
  BY DEF WorkOn, GoOn, IInv, BatchInv, TypeOK, Idle
<1>4. /\ status' \in [Docs -> Waiting \cup {"new", "done", "stopped"}]
      /\ retry' \in [Docs -> Nat] /\ due' \in [Docs -> Int] /\ Flow(ticks)
      /\ \A e \in Docs \ {x} : status'[e] = status[e]
      /\ ~ ToCome(status'[x])
      /\ x \notin Stuck => (status'[x] \in Waiting => due'[x] > 0)
  <2>1. CASE x \in Stuck
    <3>1. due' = Aged(ticks) /\ UNCHANGED <<status, retry>>
      BY <1>1, <2>1
    <3>2. due' \in [Docs -> Int] /\ Flow(ticks)
      BY <3>1, AllAged
    <3>3. ~ ToCome(status'[x])
      BY <1>2, <3>1 DEF ToCome
    <3> QED  BY <2>1, <3>1, <3>2, <3>3 DEF IInv, TypeOK
  <2>2. CASE x \notin Stuck
    <3>1. \/ queue = "sent" /\ Checked(x, ticks)
          \/ queue # "sent" /\ Attempted(x, ticks)
      BY <1>1, <2>2
    <3>2. /\ PutOff(x, ticks)
          /\ \/ queue = "sent" /\ status'[x] \in {"sent", "done", "stopped"}
             \/ queue # "sent" /\ status'[x] \in {"sent", "done", "stopped", "error"}
      BY <3>1, CheckedPutsOff, AttemptedPutsOff DEF IInv
    <3>3. Flow(ticks)
      <4>1. Docs \ {x} \in SUBSET Docs /\ \A e \in Docs \ (Docs \ {x}) : e = x
        OBVIOUS
      <4> QED  BY <3>2, <4>1, AgedFlow DEF PutOff
    <3>4. ~ ToCome(status'[x])
      BY <3>2 DEF ToCome
    <3> QED  BY <3>2, <3>3, <3>4 DEF PutOff
  <2> QED  BY <2>1, <2>2
<1>5. TypeOK'
  <2>1. timer' \in 0 .. Interval - 1
    <3>1. timer + ticks \in Int /\ Interval \in Nat \ {0}
      BY Bounds DEF IInv, TypeOK
    <3>2. \A a \in Int, b \in Nat \ {0} : a % b \in 0 .. b - 1
      OBVIOUS
    <3> QED  BY <1>1, <3>1, <3>2
  <2>2. asOf' \in Int
    BY <1>1 DEF IInv, TypeOK
  <2> QED  BY <1>2, <1>4, <2>1, <2>2 DEF IInv, TypeOK
<1>6. BatchInv'
  <2>1. asOf' <= 0
    BY <1>1 DEF IInv, TypeOK, BatchInv
  <2>2. \A d \in batch' : status'[d] = queue'
    BY <1>2, <1>4 DEF IInv, TypeOK, BatchInv
  <2> QED  BY <1>2, <2>1, <2>2 DEF BatchInv, Idle
<1>7. Left' \subseteq Left \ {x}
  <2> SUFFICES ASSUME NEW e \in Docs, e # x, ToCome(status'[e]), due'[e] <= asOf'
               PROVE  ToCome(status[e]) /\ due[e] <= asOf
    BY <1>2, <1>4 DEF Left, ToCome, IInv, TypeOK
  <2>1. status'[e] = status[e] /\ status'[e] \in Waiting
    BY <1>4 DEF ToCome, Waiting
  <2>2. due'[e] \in Int /\ due[e] \in Int /\ asOf \in Int /\ asOf <= 0 /\ asOf' = asOf - ticks
    BY <1>1, <1>5 DEF IInv, TypeOK, BatchInv
  <2>3. ~ (due'[e] > 0)
    BY <2>2
  <2>4. due'[e] >= due[e] - ticks
    BY <1>4, <2>1, <2>3 DEF Flow
  <2> QED  BY <2>1, <2>2, <2>4
<1>8. Gap' + Cardinality(Left') + ticks <= Gap + Cardinality(Left)
  <2>1. IsFiniteSet(Left) /\ Cardinality(Left) \in Nat /\ x \in Left
    BY <1>2, Sizes DEF IInv, Left
  <2>2. IsFiniteSet(Left \ {x}) /\ Cardinality(Left \ {x}) = Cardinality(Left) - 1
    BY <2>1, FS_RemoveElement
  <2>3. Cardinality(Left') <= Cardinality(Left) - 1
    BY <1>7, <2>2, FS_Subset
  <2>4. Cardinality(Left') \in Nat
    BY <1>5, NextState DEF SizesKnown
  <2>5. Gap' = Gap /\ Gap \in Int
    BY <1>2, Bounds DEF Gap, Idle
  <2> QED  BY <2>1, <2>3, <2>4, <2>5
<1>9. ASSUME NEW d \in Docs \ Stuck, status'[d] \in Waiting, due'[d] <= 0
      PROVE  Served(d)'
  <2>1. status[d] = status'[d] /\ due[d] = due'[d] + ticks /\ Line(d)' \subseteq Line(d)
    BY <1>4, <1>5, <1>9, LineShrinks DEF IInv
  <2>2. ASSUME NEW e \in Docs \ Stuck, status'[e] \in Waiting, due'[e] <= 0 PROVE e # x
    <3>1. due'[e] \in Int
      BY <1>5 DEF TypeOK
    <3> QED  BY <1>4, <2>2, <3>1
  <2>3. Turn(d) => Turn(d)'
    <3>1. d # x
      BY <1>9, <2>2
    <3>2. due[d] <= asOf => due'[d] <= asOf'
      BY <1>1, <1>5, <2>1 DEF IInv, TypeOK
    <3> QED  BY <1>2, <2>1, <3>1, <3>2 DEF Turn, ToCome
  <2>4. Line(d)' \ batch' \subseteq Line(d) \ batch
    <3> SUFFICES ASSUME NEW e \in Line(d)' PROVE e # x
      BY <1>2, <2>1
    <3>1. e \in Docs \ Stuck /\ status'[e] = status'[d] /\ due'[e] <= due'[d]
      BY DEF Line
    <3>2. due'[e] <= 0
      BY <1>5, <1>9, <3>1 DEF TypeOK
    <3> QED  BY <1>9, <2>2, <3>1, <3>2
  <2>5. \A p \in Nat :
          Enough(d, p) => Turn(d)' \/ Cardinality(Line(d)' \ batch') <= p * Free
    BY <1>5, <2>1, <2>3, <2>4, TurnKept DEF IInv
  <2> QED  BY <1>2, <1>4, <1>5, <1>8, <1>9, <2>5, SamePass
<1> QED  BY <1>5, <1>6, <1>9 DEF IInv, AllServed

\* A pass starts, the first of those that were still enough.
LEMMA StartPassStep ==
  ASSUME Cardinality(Stuck) < Limit, IInv, StartPass
  PROVE  IInv'
<1>1. /\ queue = "idle" /\ timer = Interval - 1 /\ due' = Aged(1) /\ timer' = 0 /\ asOf' = 0
      /\ queue' = "sent" /\ batch' \in Batches("sent", 1)
      /\ UNCHANGED <<status, retry, deaths>>
  BY DEF StartPass
<1>2. 1 \in 0 .. 1
  OBVIOUS
<1>3. due' \in [Docs -> Int] /\ Flow(1)
  BY <1>1, <1>2, AllAged
<1>4. batch' \subseteq Docs /\ \A d \in batch' : status[d] = "sent"
  BY <1>1 DEF Batches
<1>5. TypeOK'
  BY <1>1, <1>3, <1>4, Bounds DEF IInv, TypeOK, Waiting
<1>6. BatchInv'
  BY <1>1, <1>4 DEF BatchInv, Idle
<1>7. batch = {} /\ Left = {} /\ Cardinality(Left) = 0
  <2>1. batch = {} /\ Left = {}
    BY <1>1 DEF IInv, BatchInv, Left, ToCome, Idle
  <2> QED  BY <2>1, FS_EmptySet
<1>8. ASSUME NEW d \in Docs \ Stuck, status'[d] \in Waiting, due'[d] <= 0
      PROVE  Served(d)'
  <2>1. status[d] = status'[d] /\ due[d] = due'[d] + 1 /\ Line(d)' \subseteq Line(d)
    BY <1>2, <1>3, <1>5, <1>8, LineShrinks DEF IInv
  <2>2. due'[d] \in Int /\ due[d] <= 1
    BY <1>5, <1>8, <2>1 DEF TypeOK
  <2> SUFFICES ASSUME NEW p \in Nat, Enough(d, p), InTime(d, p) PROVE Served(d)'
    BY <1>2, <1>3, <1>5, <1>8, ServedAgain
  <2> DEFINE line == Cardinality(Line(d))
             line2 == Cardinality(Line(d)')
             rest == Cardinality(Line(d) \ batch')
             rest2 == Cardinality(Line(d)' \ batch')
             some == p * Free
             fewer == (p - 1) * Free
  <2>3. ~ Turn(d) /\ Line(d) \ batch = Line(d)
    BY <1>1, <1>7 DEF Turn, ToCome
  <2>4. line <= some
    BY <2>3 DEF Enough
  <2>5. /\ IsFiniteSet(Line(d)) /\ line \in Nat /\ d \in Line(d)
        /\ line2 \in Nat /\ line2 <= line
    <3>1. d \in Line(d)
      BY <2>1, <2>2 DEF Line, IInv, TypeOK
    <3>2. line2 \in Nat /\ line2 <= line
      BY <1>5, <2>1, SmallerLine DEF IInv
    <3> QED  BY <3>1, <3>2, Sizes DEF IInv
  <2>6. Free \in Nat /\ some \in Nat /\ fewer = some - Free /\ (p = 0 => some = 0)
    <3>1. Free \in Nat
      BY Bounds
    <3>2. \A a, b \in Nat : a * b \in Nat /\ (a - 1) * b = a * b - b /\ (a = 0 => a * b = 0)
      OBVIOUS
    <3> QED  BY <3>1, <3>2
  <2>7. line # 0
    BY <2>5, FS_EmptySet
  <2>8. p - 1 \in Nat
    <3> HIDE DEF line, some
    <3>1. p # 0
      BY <2>4, <2>5, <2>6, <2>7
    <3> QED  BY <3>1
  <2>9. Turn(d)' \/ rest2 <= fewer
    <3>1. CASE status[d] = "sent"
      <4>1. CASE d \in batch'
        BY <4>1 DEF Turn
      <4>2. CASE d \notin batch'
        <5>1. rest <= line - Free
          <6>1. 1 \in Int /\ TypeOK /\ batch' \in Batches(status[d], 1)
            BY <1>1, <3>1 DEF IInv
          <6> QED  BY <2>2, <4>2, <6>1, Selection
        <5>2. rest2 <= rest /\ rest \in Nat /\ rest2 \in Nat
          <6>1. Line(d)' \ batch' \subseteq Line(d) \ batch'
            BY <2>1
          <6>2. IsFiniteSet(Line(d) \ batch')
            BY <2>5, FS_Subset
          <6>3. rest2 <= rest /\ IsFiniteSet(Line(d)' \ batch')
            BY <6>1, <6>2, FS_Subset
          <6> QED  BY <6>2, <6>3, FS_CardinalityType
        <5> HIDE DEF line, rest, rest2, some, fewer
        <5> QED  BY <2>4, <2>5, <2>6, <5>1, <5>2
      <4> QED  BY <4>1, <4>2
    <3>2. CASE status[d] # "sent"
      <4>1. status'[d] \in {"error", "pending"} /\ due'[d] <= asOf'
        BY <1>1, <1>8, <2>1, <3>2 DEF Waiting
      <4> QED  BY <1>1, <4>1 DEF Turn, ToCome
    <3> QED  BY <3>1, <3>2
  <2>10. line2 <= (p - 1 + 1) * Free
    <3>1. (p - 1 + 1) * Free = some
      <4>1. p - 1 + 1 = p
        OBVIOUS
      <4> QED  BY <4>1
    <3> HIDE DEF line, line2, some
    <3> QED  BY <2>4, <2>5, <2>6, <3>1
  <2>11. Enough(d, p - 1)'
    BY <2>9, <2>10 DEF Enough
  <2>12. InTime(d, p - 1)'
    <3> DEFINE before == (p + MaxDeaths - deaths) * Cycle
               after == (p - 1 + MaxDeaths - deaths) * Cycle
               left == Cardinality(Left')
    <3>1. Gap = 1 /\ Gap' = Interval
      BY <1>1, Bounds DEF Gap, Idle
    <3>2. 1 - due[d] + 0 + before <= MaxWait
      BY <1>7, <3>1 DEF InTime
    <3>3. /\ Cycle \in Nat /\ Interval \in Nat /\ MaxWait \in Int /\ deaths \in Int
          /\ MaxDeaths \in Int /\ Cardinality(Docs) \in Nat
          /\ Cycle = Cardinality(Docs) + Interval
      BY Bounds DEF IInv, TypeOK
    <3>4. before \in Int /\ after = before - Cycle
      <4>1. \A a, b, c, e \in Int : (a + b - c) * e \in Int
                                    /\ (a - 1 + b - c) * e = (a + b - c) * e - e
        OBVIOUS
      <4> QED  BY <3>3, <4>1
    <3>5. left \in Nat /\ left <= Cardinality(Docs)
      BY <1>5, NextState DEF SizesKnown
    <3> HIDE DEF before, after, left
    <3>6. Interval - due'[d] + left + after <= MaxWait
      BY <2>1, <2>2, <3>2, <3>3, <3>4, <3>5
    <3>7. Gap' - due'[d] + left + after <= MaxWait
      BY <3>1, <3>6
    <3> QED  BY <1>1, <3>7 DEF InTime, after, left
  <2> QED  BY <2>8, <2>11, <2>12 DEF Served
<1> QED  BY <1>5, <1>6, <1>8 DEF IInv, AllServed

\* A death costs a row at most the pass in progress, once more.
LEMMA DieStep ==
  ASSUME Cardinality(Stuck) < Limit, IInv, Die
  PROVE  IInv'
<1>1. /\ deaths < MaxDeaths /\ deaths' = deaths + 1
      /\ queue' = "idle" /\ batch' = {} /\ timer' = 0 /\ asOf' = 0
      /\ \/ UNCHANGED <<status, retry, due>>
         \/ \E x \in batch \ Stuck : Put(x, "pending", retry[x], StaleAfter, 0)
  BY DEF Die
<1>2. 0 \in 0 .. 1
  OBVIOUS
<1>3. /\ status' \in [Docs -> Waiting \cup {"new", "done", "stopped"}]
      /\ retry' \in [Docs -> Nat] /\ due' \in [Docs -> Int] /\ Flow(0)
  <2>1. CASE UNCHANGED <<status, retry, due>>
    BY <2>1 DEF IInv, TypeOK, Flow
  <2>2. ASSUME NEW x \in batch \ Stuck, Put(x, "pending", retry[x], StaleAfter, 0)
        PROVE  /\ status' \in [Docs -> Waiting \cup {"new", "done", "stopped"}]
               /\ retry' \in [Docs -> Nat] /\ due' \in [Docs -> Int] /\ Flow(0)
    <3>1. /\ x \in Docs /\ retry[x] \in Nat /\ StaleAfter \in Nat /\ StaleAfter # 0
          /\ "pending" \in Waiting \cup {"done", "stopped"}
      BY DueWorkAssumption DEF IInv, TypeOK, Waiting
    <3>2. PutOff(x, 0)
      BY <1>2, <2>2, <3>1, PutPutsOff DEF IInv
    <3>3. Docs \ {x} \in SUBSET Docs /\ \A e \in Docs \ (Docs \ {x}) : e = x
      OBVIOUS
    <3>4. Flow(0)
      BY <1>2, <3>2, <3>3, AgedFlow DEF PutOff
    <3> QED  BY <3>2, <3>4 DEF PutOff
  <2> QED  BY <1>1, <2>1, <2>2
<1>4. TypeOK'
  BY <1>1, <1>3, Bounds DEF IInv, TypeOK
<1>5. BatchInv'
  BY <1>1 DEF BatchInv, Idle
<1>6. Left' = {} /\ Cardinality(Left') = 0 /\ Gap' = Interval
  <2>1. Left' = {}
    BY <1>1 DEF Left, ToCome
  <2>2. Gap' = Interval
    BY <1>1, Bounds DEF Gap, Idle
  <2> QED  BY <2>1, <2>2, FS_EmptySet
<1>7. ASSUME NEW d \in Docs \ Stuck, status'[d] \in Waiting, due'[d] <= 0
      PROVE  Served(d)'
  <2>1. due[d] = due'[d] + 0 /\ Line(d)' \subseteq Line(d)
    BY <1>2, <1>3, <1>4, <1>7, LineShrinks DEF IInv
  <2> SUFFICES ASSUME NEW p \in Nat, Enough(d, p), InTime(d, p) PROVE Served(d)'
    BY <1>2, <1>3, <1>4, <1>7, ServedAgain
  <2> DEFINE line == Cardinality(Line(d))
             line2 == Cardinality(Line(d)')
             rest2 == Cardinality(Line(d)' \ batch')
             left == Cardinality(Left)
  <2>2. line \in Nat /\ line2 \in Nat /\ line2 <= line /\ rest2 = line2
    <3>1. line2 \in Nat /\ line2 <= line
      BY <1>4, <2>1, SmallerLine DEF IInv
    <3>2. Line(d)' \ batch' = Line(d)'
      BY <1>1
    <3> QED  BY <3>1, <3>2, Sizes DEF IInv
  <2>3. /\ Cycle \in Nat /\ Interval \in Nat /\ MaxWait \in Int /\ deaths \in Int
        /\ MaxDeaths \in Int /\ Cardinality(Docs) \in Nat /\ Free \in Nat
        /\ Cycle = Cardinality(Docs) + Interval
        /\ due'[d] \in Int /\ due[d] \in Int /\ timer \in Nat
    BY <1>4, Bounds DEF IInv, TypeOK
  <2>4. left \in Nat
    BY Sizes DEF IInv
  <2> DEFINE some == p * Free
             more == (p + 1) * Free
             most == (p + 1 + 1) * Free
             before == (p + MaxDeaths - deaths) * Cycle
             fewer == (p + MaxDeaths - (deaths + 1)) * Cycle
             same == (p + 1 + MaxDeaths - (deaths + 1)) * Cycle
  <2>5. some \in Nat /\ more = some + Free /\ most = more + Free
    <3>1. \A a, b \in Nat : a * b \in Nat /\ (a + 1) * b = a * b + b
      OBVIOUS
    <3>2. p \in Nat /\ p + 1 \in Nat
      OBVIOUS
    <3> QED  BY <2>3, <3>1, <3>2
  <2>6. before \in Int /\ fewer = before - Cycle /\ same = before
    <3>1. \A a, b, c, e \in Int : (a + b - c) * e \in Int
                                  /\ (a + b - (c + 1)) * e = (a + b - c) * e - e
                                  /\ (a + 1 + b - (c + 1)) * e = (a + b - c) * e
      OBVIOUS
    <3> QED  BY <2>3, <3>1
  <2>7. Gap - due[d] + left + before <= MaxWait
    BY DEF InTime
  <2>8. CASE Idle
    <3>1. line <= some
      <4>1. batch = {} /\ ~ Turn(d)
        BY <2>8 DEF IInv, BatchInv, Turn, ToCome, Idle
      <4>2. Line(d) \ batch = Line(d)
        BY <4>1
      <4> QED  BY <4>1, <4>2 DEF Enough
    <3>2. Gap = Interval - timer
      BY <2>8 DEF Gap
    <3>3. line2 <= more /\ rest2 <= some
      <4> HIDE DEF line, line2, rest2, some, more
      <4> QED  BY <2>2, <2>3, <2>5, <3>1
    <3>4. Interval - due'[d] + 0 + fewer <= MaxWait
      <4>1. timer <= Interval
        BY Bounds DEF IInv, TypeOK
      <4> HIDE DEF left, before, fewer
      <4> QED  BY <2>1, <2>3, <2>4, <2>6, <2>7, <3>2, <4>1
    <3>5. Enough(d, p)'
      BY <3>3 DEF Enough
    <3>6. InTime(d, p)'
      BY <1>1, <1>6, <3>4 DEF InTime
    <3> QED  BY <3>5, <3>6 DEF Served
  <2>9. CASE ~ Idle
    <3>1. line <= more
      BY DEF Enough
    <3>2. Gap = Interval
      BY <2>9 DEF Gap
    <3>3. line2 <= most /\ rest2 <= more
      <4> HIDE DEF line, line2, rest2, some, more, most
      <4> QED  BY <2>2, <2>3, <2>5, <3>1
    <3>4. Interval - due'[d] + 0 + same <= MaxWait
      <4> HIDE DEF left, before, same
      <4> QED  BY <2>1, <2>3, <2>4, <2>6, <2>7, <3>2
    <3>5. Enough(d, p + 1)'
      BY <3>3 DEF Enough
    <3>6. InTime(d, p + 1)'
      BY <1>1, <1>6, <3>4 DEF InTime
    <3>7. p + 1 \in Nat
      OBVIOUS
    <3> QED  BY <3>5, <3>6, <3>7 DEF Served
  <2> QED  BY <2>8, <2>9
<1> QED  BY <1>4, <1>5, <1>7 DEF IInv, AllServed

\* At the start no healthy row waits for the job.
LEMMA InitIInv ==
  ASSUME Cardinality(Stuck) < Limit, Init
  PROVE  IInv
<1>1. TypeOK
  BY Bounds DEF Init, TypeOK
<1>2. BatchInv
  BY DEF Init, BatchInv
<1>3. AllServed
  BY DEF Init, AllServed, Waiting
<1> QED  BY <1>1, <1>2, <1>3 DEF IInv

\* Nothing happens, and all is as it was.
LEMMA StutterStep ==
  ASSUME IInv, UNCHANGED vars
  PROVE  IInv'
<1>1. TypeOK' /\ BatchInv'
  BY DEF IInv, vars, TypeOK, BatchInv, Idle
<1>2. \A d \in Docs \ Stuck : Served(d) => Served(d)'
  BY DEF vars, Served, Enough, InTime, Line, Turn, ToCome, Left, Gap, Idle
<1> QED  BY <1>1, <1>2 DEF IInv, AllServed, vars

\* The inductive invariant holds always, whatever the rows and the policy.
LEMMA Invariant ==
  ASSUME Cardinality(Stuck) < Limit
  PROVE  Spec => []IInv
<1>1. Init => IInv
  BY InitIInv
<1>2. IInv /\ [Next]_vars => IInv'
  <2> SUFFICES ASSUME IInv, [Next]_vars PROVE IInv'
    OBVIOUS
  <2>1. CASE \E x \in Docs : Issue(x)
    BY <2>1, IssueStep
  <2>2. CASE \E x \in Docs : WorkOn(x)
    BY <2>2, WorkOnStep
  <2>3. CASE Tick
    BY <2>3, TickStep
  <2>4. CASE StartPass
    BY <2>4, StartPassStep
  <2>5. CASE NextQueue
    BY <2>5, NextQueueStep
  <2>6. CASE Die
    BY <2>6, DieStep
  <2>7. CASE UNCHANGED vars
    BY <2>7, StutterStep
  <2> QED  BY <2>1, <2>2, <2>3, <2>4, <2>5, <2>6, <2>7 DEF Next
<1> QED  BY <1>1, <1>2, PTL DEF Spec

\* runDueWork() comes to every row in time, as long as the stuck rows leave
\* room in a batch: whatever the others go through, and however many there are.
THEOREM NoRowLate ==
  ASSUME Cardinality(Stuck) < Limit
  PROVE  Spec => []NoRowWaitsLong
<1>1. IInv => NoRowWaitsLong
  BY InvImplies
<1> QED  BY <1>1, Invariant, PTL
=============================================================================
