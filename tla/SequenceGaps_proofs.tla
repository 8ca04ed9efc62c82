------------------------- MODULE SequenceGaps_proofs -------------------------
(* The notes on the numbering tell the truth in a series of any length, with *)
(* documents arriving in any order between the two reads.                    *)
EXTENDS SequenceGaps, FoldTheorems, WellFoundedInduction

\* A set of numbers below n that is not empty has a greatest: the set of the
\* distances to n has a least.  This is what ORDER BY number DESC returns.
LEMMA GreatestExists ==
  ASSUME NEW n \in Nat, NEW S, S \subseteq 0 .. n, S # {}
  PROVE  Max(S) \in S /\ \A m \in S : m <= Max(S)
<1> DEFINE D == {n - m : m \in S}
           Less == {r \in Nat \X Nat : r[1] < r[2]}
<1>1. IsWellFoundedOn(Less, Nat)
  <2>1. Less = OpToRel(<, Nat)
    BY Zenon DEF OpToRel
  <2> QED  BY <2>1, NatLessThanWellFounded, Zenon
<1>2. D \subseteq Nat
  <2>1. \A m \in S : n - m \in Nat
    OBVIOUS
  <2> QED  BY <2>1
<1>3. D # {}
  OBVIOUS
<1>4. PICK d \in D : \A e \in D : ~ (<<e, d>> \in Less)
  <2> HIDE DEF D, Less
  <2> QED  BY <1>1, <1>2, <1>3, WFMin
<1>5. \A e \in D : d <= e
  <2> SUFFICES ASSUME NEW e \in D PROVE d <= e
    OBVIOUS
  <2>1. d \in Nat /\ e \in Nat
    BY <1>2
  <2>2. ~ (<<e, d>> \in Less)
    BY <1>4
  <2> HIDE DEF D
  <2>3. ~ (e < d)
    BY <2>1, <2>2
  <2> QED  BY <2>1, <2>3
<1>6. PICK max \in S : d = n - max
  OBVIOUS
<1>7. ASSUME NEW m \in S PROVE max >= m
  <2>1. n - m \in D
    OBVIOUS
  <2>2. n - max <= n - m
    BY <1>5, <1>6, <2>1
  <2>3. max \in Int /\ m \in Int
    OBVIOUS
  <2> HIDE DEF D
  <2> QED  BY <2>2, <2>3
<1> HIDE DEF D, Less
<1>8. \E x \in S : \A y \in S : x >= y
  BY <1>7
<1>9. Max(S) \in S /\ \A m \in S : Max(S) >= m
  BY <1>8 DEF Max
<1>10. \A m \in S : m \in Int
  OBVIOUS
<1> QED  BY <1>9, <1>10

\* The numbers are positive, and there are as many as billing issued.
LEMMA NumbersAreNat == Numbers \subseteq Nat /\ 0 \notin Numbers /\ LastNumber \in Nat
  BY SequenceGapsAssumption DEF Numbers

\* What the second read subtracts is what is there: the holes between two
\* numbers are as many as the numbers between them less the rows.
LEMMA HolesCounted ==
  ASSUME NEW from \in Nat, NEW n \in Nat, from < n
  PROVE  /\ Cardinality(RowsBetween(from, n)) \in 0 .. n - from - 1
         /\ Cardinality(Holes(from, n)) = n - from - 1 - Cardinality(RowsBetween(from, n))
<1> DEFINE I == from + 1 .. n - 1
           between == RowsBetween(from, n)
<1>1. IsFiniteSet(I) /\ Cardinality(I) = n - from - 1
  <2>1. from + 1 \in Int /\ n - 1 \in Int
    OBVIOUS
  <2>2. /\ IsFiniteSet(I)
        /\ Cardinality(I) = IF from + 1 > n - 1 THEN 0 ELSE (n - 1) - (from + 1) + 1
    BY <2>1, FS_Interval
  <2> QED  BY <2>2
<1>2. I \cap Rows = between
  <2>1. \A m \in Nat : m \in I <=> from < m /\ m < n
    OBVIOUS
  <2>2. Rows \subseteq Nat
    BY NumbersAreNat DEF Rows
  <2> HIDE DEF I
  <2> QED  BY <2>1, <2>2 DEF RowsBetween
<1> HIDE DEF I, between
<1>3. Cardinality(I \ Rows) = Cardinality(I) - Cardinality(between)
  <2>1. Cardinality(I \ Rows) = Cardinality(I) - Cardinality(I \cap Rows)
    BY <1>1, FS_Difference
  <2> QED  BY <1>2, <2>1
<1>4. between \subseteq I
  BY <1>2
<1>5. IsFiniteSet(between) /\ Cardinality(between) <= Cardinality(I)
  BY <1>1, <1>4, FS_Subset
<1>6. Cardinality(between) \in Nat
  BY <1>5, FS_CardinalityType
<1>7. Holes(from, n) = I \ Rows
  BY DEF Holes, I
<1> QED  BY <1>1, <1>3, <1>5, <1>6, <1>7 DEF between

\* Rows never go away, so the holes between two numbers can only get fewer.
LEMMA FewerHoles ==
  ASSUME NEW from \in Nat, NEW n \in Nat, NEW most \in Nat, Rows \subseteq Rows',
         Cardinality(Holes(from, n)) <= most
  PROVE  Cardinality((from + 1 .. n - 1) \ Rows') <= most
<1> DEFINE after == (from + 1 .. n - 1) \ Rows'
           before == Holes(from, n)
<1>1. IsFiniteSet(before)
  <2>1. from + 1 \in Int /\ n - 1 \in Int
    OBVIOUS
  <2>2. IsFiniteSet(from + 1 .. n - 1)
    BY <2>1, FS_Interval
  <2> QED  BY <2>2, FS_Subset DEF Holes
<1>2. after \subseteq before
  BY DEF Holes
<1> HIDE DEF after, before
<1>3. IsFiniteSet(after) /\ Cardinality(after) <= Cardinality(before)
  BY <1>1, <1>2, FS_Subset
<1>4. Cardinality(after) \in Nat /\ Cardinality(before) \in Nat
  BY <1>1, <1>3, FS_CardinalityType
<1>5. Cardinality(after) <= most
  BY <1>3, <1>4 DEF before
<1> QED  BY <1>5 DEF after

\* Who is looking has found a lower number, with at least one between.
LookingAtAHole ==
  \A n \in Numbers :
    pc[n] \in {"looking", "noting"} => previous[n] \in Numbers /\ previous[n] + 1 < n

\* Who is about to note has counted some, and no fewer than there are by now.
CountedEnough ==
  \A n \in Numbers :
    pc[n] = "noting" =>
      counted[n] \in Numbers /\ Cardinality(Holes(previous[n], n)) <= counted[n]

NotedEnough ==
  \A n \in Numbers :
    note[n] # NoNote => Cardinality(Holes(note[n].from, n)) <= note[n].missing

IInv == TypeOK /\ LookingAtAHole /\ CountedEnough /\ NotedEnough

\* The first read keeps the types, and who goes looking has found a gap.
LEMMA LatestBeforeStep ==
  ASSUME IInv, NEW n \in Numbers, FindLatestBefore(n)
  PROVE  TypeOK' /\ LookingAtAHole'
<1> DEFINE lower == LowerRows(n)
           prev == IF lower = {} THEN n ELSE Max(lower)
<1>1. n \in Nat /\ lower \subseteq Numbers /\ lower \subseteq 0 .. n
  <2>1. n \in Nat /\ lower \subseteq Numbers /\ \A m \in lower : m < n
    BY NumbersAreNat DEF LowerRows, Rows
  <2> HIDE DEF lower
  <2>2. \A m \in lower : m \in Nat
    BY <2>1, NumbersAreNat
  <2> QED  BY <2>1, <2>2
<1>2. prev \in Numbers /\ prev <= n
  <2>1. CASE lower = {}
    BY <1>1, <2>1
  <2>2. CASE lower # {}
    <3> HIDE DEF lower
    <3>1. Max(lower) \in lower
      BY <1>1, <2>2, GreatestExists
    <3>2. Max(lower) \in Numbers /\ Max(lower) \in 0 .. n
      BY <1>1, <3>1
    <3>3. prev = Max(lower)
      BY <2>2
    <3> HIDE DEF prev
    <3> QED  BY <1>1, <3>2, <3>3
  <2> QED  BY <2>1, <2>2
<1>3. /\ pc[n] = "sent"
      /\ IF n - prev <= 1
         THEN Goes(n, "done") /\ UNCHANGED previous
         ELSE Goes(n, "looking") /\ previous' = [previous EXCEPT ![n] = prev]
      /\ UNCHANGED <<counted, note, late>>
  BY DEF FindLatestBefore
<1> HIDE DEF prev
<1>4. CASE n - prev <= 1
  BY <1>3, <1>4 DEF IInv, TypeOK, LookingAtAHole, Goes, Progress
<1>5. CASE ~ (n - prev <= 1)
  <2>1. prev + 1 < n /\ prev \in 0 .. LastNumber
    BY <1>1, <1>2, <1>5, NumbersAreNat DEF Numbers
  <2>2. pc' = [pc EXCEPT ![n] = "looking"] /\ previous' = [previous EXCEPT ![n] = prev]
    BY <1>3, <1>5 DEF Goes
  <2>3. TypeOK'
    BY <1>3, <2>1, <2>2 DEF IInv, TypeOK, Progress
  <2>4. LookingAtAHole'
    BY <1>2, <2>1, <2>2 DEF IInv, TypeOK, LookingAtAHole
  <2> QED  BY <2>3, <2>4
<1> QED  BY <1>4, <1>5

\* The second read counts the holes there are then.
LEMMA BetweenStep ==
  ASSUME IInv, NEW n \in Numbers, FindBetween(n)
  PROVE  /\ TypeOK' /\ LookingAtAHole'
         /\ counted'[n] = Cardinality(Holes(previous[n], n))
         /\ pc'[n] = "noting" => counted'[n] \in Numbers
         /\ Rows' = Rows
<1> DEFINE between == RowsBetween(previous[n], n)
           missing == n - previous[n] - 1 - Cardinality(between)
<1>1. /\ pc[n] = "looking"
      /\ counted' = [counted EXCEPT ![n] = missing]
      /\ pc' = [pc EXCEPT ![n] = IF missing > 0 THEN "noting" ELSE "done"]
      /\ UNCHANGED <<previous, note, late>>
  BY DEF FindBetween, Goes
<1>2. n \in Nat /\ n <= LastNumber /\ Rows \subseteq Nat
  BY NumbersAreNat DEF Rows, Numbers
<1>3. /\ previous[n] \in Numbers /\ previous[n] \in Nat
      /\ previous[n] < n /\ previous[n] + 1 < n
  <2>1. previous[n] \in Numbers /\ previous[n] + 1 < n
    BY <1>1 DEF IInv, LookingAtAHole
  <2>2. previous[n] \in Nat
    BY <2>1, NumbersAreNat
  <2> QED  BY <1>2, <2>1, <2>2
<1>4. /\ Cardinality(between) \in 0 .. n - previous[n] - 1
      /\ Cardinality(Holes(previous[n], n)) = missing
  BY <1>2, <1>3, HolesCounted
<1> HIDE DEF between
<1>5. missing \in 0 .. LastNumber
  BY <1>2, <1>3, <1>4, NumbersAreNat
<1>6. Cardinality(Holes(previous[n], n)) = missing
  BY <1>4
<1> HIDE DEF missing
<1>7. missing > 0 => missing \in Numbers
  BY <1>5, NumbersAreNat DEF Numbers
<1>8. Rows' = Rows
  BY <1>1 DEF Rows, IInv, TypeOK
<1>9. counted'[n] = missing
  BY <1>1 DEF IInv, TypeOK
<1>10. pc'[n] = "noting" => missing > 0
  BY <1>1 DEF IInv, TypeOK
<1>11. TypeOK'
  BY <1>1, <1>5 DEF IInv, TypeOK, Progress
<1>12. LookingAtAHole'
  BY <1>1, <1>3 DEF IInv, TypeOK, LookingAtAHole
<1> QED  BY <1>6, <1>7, <1>8, <1>9, <1>10, <1>11, <1>12

\* The note is saved as it was counted.
LEMMA SaveNoteStep ==
  ASSUME IInv, NEW n \in Numbers, SaveNote(n)
  PROVE  /\ TypeOK' /\ LookingAtAHole' /\ Rows' = Rows
         /\ note'[n] # NoNote =>
              Cardinality(Holes(note'[n].from, n)) <= note'[n].missing
<1> DEFINE left == [from |-> previous[n], missing |-> counted[n]]
<1>1. /\ pc[n] = "noting" /\ note' = [note EXCEPT ![n] = left]
      /\ pc' = [pc EXCEPT ![n] = "done"] /\ UNCHANGED <<previous, counted, late>>
  BY DEF SaveNote, Goes
<1>2. previous[n] \in Numbers /\ counted[n] \in Numbers
      /\ Cardinality(Holes(previous[n], n)) <= counted[n]
  BY <1>1 DEF IInv, LookingAtAHole, CountedEnough
<1>3. left \in [from : Numbers, missing : Numbers]
  BY <1>2
<1>4. Cardinality(Holes(left.from, n)) <= left.missing
  BY <1>2
<1> HIDE DEF left
<1>5. TypeOK'
  BY <1>1, <1>3 DEF IInv, TypeOK, Progress
<1>6. LookingAtAHole'
  BY <1>1 DEF IInv, TypeOK, LookingAtAHole
<1>7. Rows' = Rows
  BY <1>1 DEF Rows, IInv, TypeOK
<1>8. note'[n] = left
  BY <1>1 DEF IInv, TypeOK
<1> QED  BY <1>4, <1>5, <1>6, <1>7, <1>8

\* Every other step leaves the notes alone and sends no one looking.
LEMMA OtherSteps ==
  ASSUME IInv, NEW n \in Numbers,
         Receive(n) \/ SaveSent(n) \/ Fail(n) \/ Retry(n) \/ Crash(n)
  PROVE  TypeOK' /\ LookingAtAHole' /\ note' = note
<1> USE DEF IInv, TypeOK, LookingAtAHole, Progress, Goes
<1>1. CASE Receive(n)
  BY <1>1 DEF Receive
<1>2. CASE SaveSent(n) \/ Fail(n) \/ Retry(n) \/ Crash(n)
  BY <1>2 DEF SaveSent, Fail, Retry, Crash
<1> QED  BY <1>1, <1>2

\* What a step may do to the count and the note of a number: only its own two
\* steps change them, and no row goes away.
LEMMA OwnSteps ==
  ASSUME IInv, Next, NEW n \in Numbers
  PROVE  /\ Rows \subseteq Rows'
         /\ pc'[n] = "noting" =>
              \/ FindBetween(n)
              \/ pc[n] = "noting" /\ previous'[n] = previous[n] /\ counted'[n] = counted[n]
         /\ note'[n] = note[n] \/ SaveNote(n)
         /\ pc[n] = "looking" /\ pc'[n] \in {"noting", "done"} => FindBetween(n)
<1>1. PICK k \in Numbers :
        \/ Receive(k) \/ SaveSent(k) \/ Fail(k) \/ Retry(k)
        \/ FindLatestBefore(k) \/ FindBetween(k) \/ SaveNote(k) \/ Crash(k)
  BY DEF Next
<1>2. PICK to \in Progress \ {"absent"} : pc' = [pc EXCEPT ![k] = to]
  BY <1>1 DEF Receive, SaveSent, Fail, Retry, Crash, FindLatestBefore, FindBetween,
              SaveNote, Goes, Progress
<1>3. Rows \subseteq Rows'
  BY <1>2 DEF Rows, IInv, TypeOK
<1>4. CASE k # n
  <2>1. pc'[n] = pc[n]
    BY <1>2, <1>4
  <2>2. previous'[n] = previous[n] /\ counted'[n] = counted[n] /\ note'[n] = note[n]
    <3> USE DEF IInv, TypeOK
    <3>1. CASE Receive(k) \/ SaveSent(k) \/ Fail(k) \/ Retry(k) \/ Crash(k)
      BY <3>1 DEF Receive, SaveSent, Fail, Retry, Crash
    <3>2. CASE FindLatestBefore(k)
      <4>1. /\ counted' = counted /\ note' = note
            /\ \/ previous' = previous
               \/ \E prev : previous' = [previous EXCEPT ![k] = prev]
        BY <3>2 DEF FindLatestBefore
      <4> QED  BY <1>4, <4>1
    <3>3. CASE FindBetween(k)
      <4>1. /\ previous' = previous /\ note' = note
            /\ \E missing : counted' = [counted EXCEPT ![k] = missing]
        BY <3>3 DEF FindBetween
      <4> QED  BY <1>4, <4>1
    <3>4. CASE SaveNote(k)
      BY <1>4, <3>4 DEF SaveNote
    <3> QED  BY <1>1, <3>1, <3>2, <3>3, <3>4
  <2> QED  BY <1>3, <2>1, <2>2
<1>5. CASE k = n
  <2>1. CASE FindBetween(n)
    BY <1>3, <2>1 DEF FindBetween
  <2>2. CASE SaveNote(n)
    BY <1>3, <2>2 DEF SaveNote, Goes, IInv, TypeOK
  <2>3. CASE Receive(n) \/ SaveSent(n) \/ Fail(n) \/ Retry(n) \/ Crash(n)
             \/ FindLatestBefore(n)
    <3>1. pc'[n] # "noting" /\ note' = note
      BY <2>3 DEF Receive, SaveSent, Fail, Retry, Crash, FindLatestBefore, Goes, IInv, TypeOK
    <3>2. pc[n] = "looking" => pc'[n] \notin {"noting", "done"}
      BY <2>3 DEF Receive, SaveSent, Fail, Retry, Crash, FindLatestBefore, Goes, IInv, TypeOK
    <3> QED  BY <1>3, <3>1, <3>2
  <2> QED  BY <1>1, <1>5, <2>1, <2>2, <2>3
<1> QED  BY <1>4, <1>5

\* The inductive invariant holds always.
LEMMA Invariant == Spec => []IInv
<1>1. Init => IInv
  <2> SUFFICES ASSUME Init PROVE IInv
    OBVIOUS
  <2>1. 0 \in 0 .. LastNumber
    BY SequenceGapsAssumption
  <2>2. TypeOK
    BY <2>1 DEF Init, TypeOK, Progress
  <2>3. LookingAtAHole /\ CountedEnough /\ NotedEnough
    BY DEF Init, LookingAtAHole, CountedEnough, NotedEnough
  <2> QED  BY <2>2, <2>3 DEF IInv
<1>2. ASSUME IInv, UNCHANGED vars PROVE IInv'
  <2>1. Rows' = Rows
    BY <1>2 DEF vars, Rows
  <2>2. \A from, n : Holes(from, n)' = Holes(from, n)
    BY <2>1 DEF Holes
  <2>3. TypeOK' /\ LookingAtAHole'
    BY <1>2 DEF vars, IInv, TypeOK, LookingAtAHole
  <2>4. CountedEnough' /\ NotedEnough'
    BY <1>2, <2>1 DEF vars, IInv, CountedEnough, NotedEnough, Holes
  <2> QED  BY <2>3, <2>4 DEF IInv
<1>3. ASSUME IInv, Next PROVE IInv'
  <2>1. TypeOK' /\ LookingAtAHole'
    BY <1>3, OtherSteps, LatestBeforeStep, BetweenStep, SaveNoteStep DEF Next
  <2>2. ASSUME NEW n \in Numbers, pc'[n] = "noting"
        PROVE  /\ counted'[n] \in Numbers
               /\ Cardinality((previous'[n] + 1 .. n - 1) \ Rows') <= counted'[n]
    <3>1. CASE FindBetween(n)
      <4>1. /\ counted'[n] = Cardinality(Holes(previous[n], n))
            /\ counted'[n] \in Numbers /\ Rows' = Rows /\ previous' = previous
        BY <1>3, <2>2, <3>1, BetweenStep DEF FindBetween
      <4>2. counted'[n] \in Nat
        BY <4>1, NumbersAreNat
      <4>3. Holes(previous[n], n) = (previous'[n] + 1 .. n - 1) \ Rows'
        BY <4>1 DEF Holes
      <4> QED  BY <4>1, <4>2, <4>3
    <3>2. CASE ~ FindBetween(n)
      <4>1. /\ pc[n] = "noting" /\ previous'[n] = previous[n] /\ counted'[n] = counted[n]
            /\ Rows \subseteq Rows'
        BY <1>3, <2>2, <3>2, OwnSteps
      <4>2. /\ counted[n] \in Numbers /\ previous[n] \in Numbers
            /\ Cardinality(Holes(previous[n], n)) <= counted[n]
        BY <1>3, <4>1 DEF IInv, CountedEnough, LookingAtAHole
      <4>3. counted[n] \in Nat /\ previous[n] \in Nat /\ n \in Nat
        BY <4>2, NumbersAreNat
      <4>4. Cardinality((previous[n] + 1 .. n - 1) \ Rows') <= counted[n]
        BY <4>1, <4>2, <4>3, FewerHoles
      <4> QED  BY <4>1, <4>2, <4>4
    <3> QED  BY <3>1, <3>2
  <2>3. ASSUME NEW n \in Numbers, note'[n] # NoNote
        PROVE  Cardinality((note'[n].from + 1 .. n - 1) \ Rows') <= note'[n].missing
    <3>1. CASE SaveNote(n)
      BY <1>3, <2>3, <3>1, SaveNoteStep DEF Holes
    <3>2. CASE ~ SaveNote(n)
      <4>1. note'[n] = note[n] /\ Rows \subseteq Rows'
        BY <1>3, <3>2, OwnSteps
      <4>2. /\ note[n] \in [from : Numbers, missing : Numbers]
            /\ Cardinality(Holes(note[n].from, n)) <= note[n].missing
        BY <1>3, <2>3, <4>1 DEF IInv, TypeOK, NotedEnough
      <4>3. note[n].from \in Nat /\ note[n].missing \in Nat /\ n \in Nat
        BY <4>2, NumbersAreNat
      <4>4. Cardinality((note[n].from + 1 .. n - 1) \ Rows') <= note[n].missing
        BY <4>1, <4>2, <4>3, FewerHoles
      <4> QED  BY <4>1, <4>4
    <3> QED  BY <3>1, <3>2
  <2>4. CountedEnough' /\ NotedEnough'
    BY <2>2, <2>3 DEF CountedEnough, NotedEnough, Holes
  <2> QED  BY <2>1, <2>4 DEF IInv
<1> QED  BY <1>1, <1>2, <1>3, PTL DEF Spec

\* The variables keep their types; a note names a number of the series and
\* tells at least one hole.
THEOREM GapTypes == Spec => []TypeOK
  BY Invariant, PTL DEF IInv

\* sequenceGapNote counts exactly the holes there are at its second read, for a
\* series of any length and any documents arriving since the first.
THEOREM CountsExact == Spec => CountsAreExact
<1>1. IInv /\ [Next]_vars =>
        [\A n \in Numbers :
          (pc[n] = "looking" /\ pc'[n] \in {"noting", "done"}) =>
            counted'[n] = Cardinality(Holes(previous[n], n))]_vars
  <2> SUFFICES ASSUME IInv, Next, NEW n \in Numbers,
                      pc[n] = "looking", pc'[n] \in {"noting", "done"}
               PROVE  counted'[n] = Cardinality(Holes(previous[n], n))
    OBVIOUS
  <2> QED  BY OwnSteps, BetweenStep
<1> QED  BY <1>1, Invariant, PTL DEF Spec, CountsAreExact

-----------------------------------------------------------------------------
\* Each hole is noted once when the numbers arrive in order: what lies below a
\* number never changes then, so a document notes the holes between itself and
\* the number below it, and those intervals are apart.

\* The number below n, as the first read finds it.
Below(n) == Max(LowerRows(n))

HasGap(n) == LowerRows(n) # {} /\ n - Below(n) > 1

\* Only who is done has left a note, and only who had holes below: all the
\* numbers between.
OrderedNotes ==
  /\ DOMAIN note = Numbers
  /\ \A n \in Numbers : pc[n] # "done" => note[n] = NoNote
  /\ ~ late => \A n \in Numbers :
       /\ pc[n] \in {"looking", "noting"} => HasGap(n) /\ previous[n] = Below(n)
       /\ pc[n] = "noting" => counted[n] = n - Below(n) - 1
       /\ pc[n] = "done" => IF HasGap(n)
                            THEN /\ note[n] # NoNote /\ note[n].from = Below(n)
                                 /\ note[n].missing = n - Below(n) - 1
                            ELSE note[n] = NoNote

\* The number below is a row, and no row is between.
LEMMA BelowIsGreatest ==
  ASSUME NEW n \in Numbers, LowerRows(n) # {}
  PROVE  /\ Below(n) \in Rows /\ Below(n) \in Nat /\ Below(n) < n
         /\ \A m \in Rows : m < n => m <= Below(n)
<1>1. n \in Nat /\ Rows \subseteq Nat
  BY NumbersAreNat DEF Rows
<1>2. LowerRows(n) \subseteq 0 .. n
  <2>1. \A m \in LowerRows(n) : m \in Nat /\ m < n
    BY <1>1 DEF LowerRows
  <2> QED  BY <1>1, <2>1
<1>3. Below(n) \in LowerRows(n) /\ \A m \in LowerRows(n) : m <= Below(n)
  BY <1>1, <1>2, GreatestExists DEF Below
<1> QED  BY <1>1, <1>3 DEF LowerRows

\* So the numbers between a row and the one below it are all holes.
LEMMA NoneBetween ==
  ASSUME NEW n \in Numbers, LowerRows(n) # {}
  PROVE  RowsBetween(Below(n), n) = {}
<1>1. Rows \subseteq Nat /\ Below(n) \in Nat
  BY NumbersAreNat, BelowIsGreatest DEF Rows
<1>2. ASSUME NEW m \in Rows, Below(n) < m, m < n PROVE FALSE
  <2>1. m \in Nat /\ m <= Below(n)
    BY <1>1, <1>2, BelowIsGreatest
  <2> QED  BY <1>1, <1>2, <2>1
<1> QED  BY <1>2 DEF RowsBetween

\* Where rows and what is below stay, so do the gaps.
LEMMA SameBelow ==
  ASSUME NEW n \in Numbers, LowerRows(n)' = LowerRows(n)
  PROVE  Below(n)' = Below(n) /\ HasGap(n)' = HasGap(n)
<1>1. Below(n)' = Below(n)
  BY DEF Below
<1> QED  BY <1>1 DEF HasGap

\* The notes stay in order, whoever looks below while others arrive.
LEMMA OrderedStep ==
  ASSUME IInv, OrderedNotes, [Next]_vars
  PROVE  OrderedNotes'
<1> USE DEF IInv, TypeOK
<1>1. CASE UNCHANGED vars
  <2>1. \A n \in Numbers : LowerRows(n)' = LowerRows(n)
    BY <1>1 DEF vars, LowerRows, Rows
  <2>2. \A n \in Numbers : Below(n)' = Below(n) /\ HasGap(n)' = HasGap(n)
    BY <2>1, SameBelow
  <2> QED  BY <1>1, <2>2 DEF vars, OrderedNotes
<1>2. ASSUME NEW k \in Numbers, Receive(k) PROVE OrderedNotes'
  <2>1. /\ pc[k] = "absent" /\ pc' = [pc EXCEPT ![k] = "received"]
        /\ late' = (late \/ \E m \in Rows : m > k)
        /\ previous' = previous /\ counted' = counted /\ note' = note
    BY <1>2 DEF Receive, Goes
  <2>2. \A n \in Numbers : n # k => pc'[n] = pc[n]
    BY <2>1
  <2>3. pc'[k] = "received"
    BY <2>1
  <2>4. ASSUME ~ late', NEW n \in Numbers, n # k, pc[n] # "absent"
        PROVE  Below(n)' = Below(n) /\ HasGap(n)' = HasGap(n)
    <3>1. Rows' = Rows \cup {k}
      BY <2>1 DEF Rows
    <3>2. n \in Rows
      BY <2>4 DEF Rows
    <3>3. n \in Nat /\ k \in Nat
      BY NumbersAreNat
    <3>4. ~ (n > k)
      BY <2>1, <2>4, <3>2
    <3>5. ~ (k < n)
      BY <3>3, <3>4
    <3>6. LowerRows(n)' = LowerRows(n)
      BY <3>1, <3>5 DEF LowerRows
    <3> QED  BY <3>6, SameBelow
  <2>5. ~ late' => ~ late
    BY <2>1
  <2> QED  BY <2>1, <2>2, <2>3, <2>4, <2>5 DEF OrderedNotes
<1>3. ASSUME NEW k \in Numbers,
             \/ SaveSent(k) \/ Fail(k) \/ Retry(k) \/ Crash(k)
             \/ FindLatestBefore(k) \/ FindBetween(k) \/ SaveNote(k)
      PROVE  OrderedNotes'
  <2>1. late' = late /\ pc[k] # "absent" /\ pc[k] # "done"
    BY <1>3 DEF SaveSent, Fail, Retry, Crash, FindLatestBefore, FindBetween, SaveNote
  <2>2. PICK to \in Progress \ {"absent"} : pc' = [pc EXCEPT ![k] = to]
    BY <1>3 DEF SaveSent, Fail, Retry, Crash, FindLatestBefore, FindBetween,
                SaveNote, Goes, Progress
  <2>3. Rows' = Rows
    BY <2>1, <2>2 DEF Rows
  <2>4. \A n \in Numbers : LowerRows(n)' = LowerRows(n)
    BY <2>3 DEF LowerRows
  <2>5. \A n \in Numbers : Below(n)' = Below(n) /\ HasGap(n)' = HasGap(n)
    BY <2>4, SameBelow
  <2>6. note[k] = NoNote
    BY <2>1 DEF OrderedNotes
  <2>7. CASE SaveSent(k) \/ Fail(k) \/ Retry(k) \/ Crash(k)
    <3>1. /\ pc'[k] \notin {"done", "looking", "noting"} /\ note' = note
          /\ previous' = previous /\ counted' = counted
          /\ \A n \in Numbers : n # k => pc'[n] = pc[n]
      BY <2>7 DEF SaveSent, Fail, Retry, Crash, Goes
    <3> QED  BY <2>1, <2>5, <2>6, <3>1 DEF OrderedNotes
  <2>8. CASE FindLatestBefore(k)
    <3> DEFINE prev == IF LowerRows(k) = {} THEN k ELSE Below(k)
    <3>1. /\ IF k - prev <= 1
             THEN pc' = [pc EXCEPT ![k] = "done"] /\ previous' = previous
             ELSE /\ pc' = [pc EXCEPT ![k] = "looking"]
                  /\ previous' = [previous EXCEPT ![k] = prev]
          /\ note' = note /\ counted' = counted
      BY <2>8 DEF FindLatestBefore, Goes, Below
    <3>2. HasGap(k) <=> ~ (k - prev <= 1)
      <4>1. k \in Nat
        BY NumbersAreNat
      <4>2. CASE LowerRows(k) = {}
        BY <4>1, <4>2 DEF HasGap
      <4>3. CASE LowerRows(k) # {}
        <5>1. Below(k) \in Nat /\ prev = Below(k)
          BY <4>3, BelowIsGreatest
        <5> HIDE DEF prev
        <5> QED  BY <4>1, <4>3, <5>1 DEF HasGap
      <4> QED  BY <4>2, <4>3
    <3>3. HasGap(k) => prev = Below(k)
      BY DEF HasGap
    <3> HIDE DEF prev
    <3>4. CASE HasGap(k)
      <4>1. /\ pc'[k] = "looking" /\ previous'[k] = Below(k)
            /\ \A n \in Numbers : n # k => pc'[n] = pc[n] /\ previous'[n] = previous[n]
        BY <3>1, <3>2, <3>3, <3>4
      <4> QED  BY <2>1, <2>5, <2>6, <3>1, <3>4, <4>1 DEF OrderedNotes
    <3>5. CASE ~ HasGap(k)
      <4>1. /\ pc'[k] = "done" /\ previous' = previous
            /\ \A n \in Numbers : n # k => pc'[n] = pc[n]
        BY <3>1, <3>2, <3>5
      <4> QED  BY <2>1, <2>5, <2>6, <3>1, <3>5, <4>1 DEF OrderedNotes
    <3> QED  BY <3>4, <3>5
  <2>9. CASE FindBetween(k)
    <3> DEFINE missing == k - previous[k] - 1 - Cardinality(RowsBetween(previous[k], k))
    <3>1. /\ pc[k] = "looking" /\ previous' = previous /\ note' = note
          /\ pc' = [pc EXCEPT ![k] = IF missing > 0 THEN "noting" ELSE "done"]
          /\ counted' = [counted EXCEPT ![k] = missing]
      BY <2>9 DEF FindBetween, Goes
    <3>2. \A n \in Numbers : n # k => pc'[n] = pc[n] /\ counted'[n] = counted[n]
      BY <3>1
    <3>3. ASSUME ~ late
          PROVE  /\ HasGap(k) /\ previous[k] = Below(k)
                 /\ missing = k - Below(k) - 1 /\ missing > 0
      <4>1. HasGap(k) /\ previous[k] = Below(k)
        BY <3>1, <3>3 DEF OrderedNotes
      <4>2. k \in Nat /\ Below(k) \in Nat /\ Below(k) + 1 < k
        <5>1. k \in Nat
          BY NumbersAreNat
        <5>2. Below(k) \in Nat
          BY <4>1, BelowIsGreatest DEF HasGap
        <5> QED  BY <4>1, <5>1, <5>2 DEF HasGap
      <4>3. RowsBetween(Below(k), k) = {}
        BY <4>1, NoneBetween DEF HasGap
      <4>4. missing = k - Below(k) - 1
        BY <4>1, <4>2, <4>3, FS_EmptySet
      <4> QED  BY <4>1, <4>2, <4>4
    <3> HIDE DEF missing
    <3>4. counted'[k] = missing /\ (pc'[k] = "noting" \/ pc'[k] = "done")
      BY <3>1
    <3>5. missing > 0 => pc'[k] = "noting"
      BY <3>1
    <3>6. \A n \in Numbers : pc'[n] # "done" => note'[n] = NoNote
      BY <2>6, <3>1, <3>2 DEF OrderedNotes
    <3>7. ASSUME ~ late', NEW n \in Numbers
          PROVE  /\ pc'[n] \in {"looking", "noting"} =>
                      HasGap(n)' /\ previous'[n] = Below(n)'
                 /\ pc'[n] = "noting" => counted'[n] = n - Below(n)' - 1
                 /\ pc'[n] = "done" =>
                      IF HasGap(n)' THEN /\ note'[n] # NoNote /\ note'[n].from = Below(n)'
                                         /\ note'[n].missing = n - Below(n)' - 1
                                    ELSE note'[n] = NoNote
      <4>1. CASE n = k
        BY <2>1, <2>5, <3>1, <3>3, <3>4, <3>5, <3>7, <4>1
      <4>2. CASE n # k
        BY <2>1, <2>5, <3>1, <3>2, <3>7, <4>2 DEF OrderedNotes
      <4> QED  BY <4>1, <4>2
    <3> QED  BY <3>1, <3>6, <3>7 DEF OrderedNotes
  <2>10. CASE SaveNote(k)
    <3> DEFINE left == [from |-> previous[k], missing |-> counted[k]]
    <3>1. /\ pc[k] = "noting" /\ pc' = [pc EXCEPT ![k] = "done"]
          /\ previous' = previous /\ counted' = counted
          /\ note' = [note EXCEPT ![k] = left]
      BY <2>10 DEF SaveNote, Goes
    <3>2. left \in [from : Nat, missing : Nat]
      BY NumbersAreNat
    <3>3. left # NoNote
      BY <3>2, SequenceGapsAssumption
    <3>4. left.from = previous[k] /\ left.missing = counted[k]
      OBVIOUS
    <3> HIDE DEF left
    <3>5. note'[k] = left /\ pc'[k] = "done" /\ DOMAIN note' = Numbers
      BY <3>1 DEF OrderedNotes
    <3>6. \A n \in Numbers : n # k => pc'[n] = pc[n] /\ note'[n] = note[n]
      BY <3>1
    <3>7. ~ late => /\ HasGap(k) /\ previous[k] = Below(k)
                    /\ counted[k] = k - Below(k) - 1
      BY <3>1 DEF OrderedNotes
    <3>8. ASSUME ~ late', NEW n \in Numbers
          PROVE  /\ pc'[n] \in {"looking", "noting"} =>
                      HasGap(n)' /\ previous'[n] = Below(n)'
                 /\ pc'[n] = "noting" => counted'[n] = n - Below(n)' - 1
                 /\ pc'[n] = "done" =>
                      IF HasGap(n)' THEN /\ note'[n] # NoNote /\ note'[n].from = Below(n)'
                                         /\ note'[n].missing = n - Below(n)' - 1
                                    ELSE note'[n] = NoNote
      <4>1. CASE n = k
        BY <2>1, <2>5, <3>3, <3>4, <3>5, <3>7, <3>8, <4>1
      <4>2. CASE n # k
        BY <2>1, <2>5, <3>1, <3>6, <3>8, <4>2 DEF OrderedNotes
      <4> QED  BY <4>1, <4>2
    <3>9. \A n \in Numbers : pc'[n] # "done" => note'[n] = NoNote
      BY <3>5, <3>6 DEF OrderedNotes
    <3> QED  BY <3>5, <3>8, <3>9 DEF OrderedNotes
  <2> QED  BY <1>3, <2>7, <2>8, <2>9, <2>10
<1> QED  BY <1>1, <1>2, <1>3 DEF Next

\* They are in order in every reachable state.
LEMMA OrderedAlways == Spec => []OrderedNotes
<1>1. Init => OrderedNotes
  BY DEF Init, OrderedNotes
<1> QED  BY <1>1, OrderedStep, Invariant, PTL DEF Spec

\* A note never tells fewer than are missing where it looked, and exactly
\* those as long as the numbers arrive in order: for a series of any length and
\* numbers arriving between the two reads, before the save, and ever after.
THEOREM NotesTruthful == Spec => []NotesAreTrue
<1>1. IInv /\ OrderedNotes => NotesAreTrue
  <2> SUFFICES ASSUME IInv, OrderedNotes, NEW n \in Numbers, note[n] # NoNote
               PROVE  /\ Cardinality(Holes(note[n].from, n)) <= note[n].missing
                      /\ ~ late => Cardinality(Holes(note[n].from, n)) = note[n].missing
    BY DEF NotesAreTrue
  <2>1. Cardinality(Holes(note[n].from, n)) <= note[n].missing
    BY DEF IInv, NotedEnough
  <2>2. ASSUME ~ late PROVE Cardinality(Holes(note[n].from, n)) = note[n].missing
    <3>1. HasGap(n) /\ note[n].from = Below(n) /\ note[n].missing = n - Below(n) - 1
      BY <2>2 DEF OrderedNotes
    <3>2. n \in Nat /\ Below(n) \in Nat /\ Below(n) < n /\ RowsBetween(Below(n), n) = {}
      BY <3>1, BelowIsGreatest, NoneBetween, NumbersAreNat DEF HasGap
    <3>3. Cardinality(Holes(Below(n), n)) = n - Below(n) - 1 - Cardinality({})
      BY <3>2, HolesCounted
    <3>4. Cardinality(Holes(Below(n), n)) = n - Below(n) - 1
      BY <3>2, <3>3, FS_EmptySet
    <3> QED  BY <3>1, <3>4
  <2> QED  BY <2>1, <2>2
<1> QED  BY <1>1, Invariant, OrderedAlways, PTL

\* A set of naturals that is not empty has a least.
LEMMA LeastExists ==
  ASSUME NEW S, S \subseteq Nat, S # {}
  PROVE  Min(S) \in S /\ \A m \in S : Min(S) <= m
<1> DEFINE Less == {r \in Nat \X Nat : r[1] < r[2]}
<1>1. IsWellFoundedOn(Less, Nat)
  <2>1. Less = OpToRel(<, Nat)
    BY Zenon DEF OpToRel
  <2> QED  BY <2>1, NatLessThanWellFounded, Zenon
<1>2. PICK least \in S : \A m \in S : ~ (<<m, least>> \in Less)
  <2> HIDE DEF Less
  <2> QED  BY <1>1, WFMin
<1>3. \A m \in S : least <= m
  <2> SUFFICES ASSUME NEW m \in S PROVE least <= m
    OBVIOUS
  <2>1. m \in Nat /\ least \in Nat
    OBVIOUS
  <2>2. ~ (<<m, least>> \in Less)
    BY <1>2
  <2>3. ~ (m < least)
    BY <2>1, <2>2
  <2> QED  BY <2>1, <2>3
<1> HIDE DEF Less
<1>4. \E x \in S : \A y \in S : x <= y
  BY <1>3
<1> QED  BY <1>4 DEF Min

\* HolesAreNotedOnce: the one who notes a hole is the first row above it.
THEOREM HolesNotedOnce == Spec => []HolesAreNotedOnce
<1>1. IInv /\ OrderedNotes => HolesAreNotedOnce
  <2> SUFFICES ASSUME IInv, OrderedNotes, ~ late, Rows # {},
                      \A n \in Rows : pc[n] = "done",
                      NEW hole \in Holes(Min(Rows), Max(Rows))
               PROVE  Cardinality({n \in Numbers : Covers(n, hole)}) = 1
    BY DEF HolesAreNotedOnce
  <2>1. Rows \subseteq Numbers /\ Rows \subseteq Nat /\ Rows \subseteq 0 .. LastNumber
    <3>1. Rows \subseteq Numbers /\ Rows \subseteq Nat
      BY NumbersAreNat DEF Rows
    <3> QED  BY <3>1, NumbersAreNat DEF Numbers
  <2>2. Min(Rows) \in Rows /\ Max(Rows) \in Rows
    BY <2>1, LeastExists, GreatestExists, NumbersAreNat
  <2>3. /\ hole \in Nat /\ hole \notin Rows
        /\ Min(Rows) < hole /\ hole < Max(Rows)
    <3>1. Min(Rows) \in Nat /\ Max(Rows) \in Nat
      BY <2>1, <2>2
    <3>2. hole \in Min(Rows) + 1 .. Max(Rows) - 1 /\ hole \notin Rows
      BY DEF Holes
    <3> QED  BY <3>1, <3>2
  <2> DEFINE above == {r \in Rows : hole < r}
  <2>4. PICK n \in Rows : hole < n /\ \A r \in Rows : hole < r => n <= r
    <3>1. above \subseteq Nat /\ above # {}
      BY <2>1, <2>2, <2>3
    <3>2. Min(above) \in above /\ \A r \in above : Min(above) <= r
      BY <3>1, LeastExists
    <3> QED  BY <3>2
  <2> HIDE DEF above
  <2>5. n \in Numbers /\ n \in Nat /\ pc[n] = "done"
    BY <2>1, <2>4
  <2>6. Covers(n, hole)
    <3>1. Min(Rows) \in Nat /\ Min(Rows) < n
      <4>1. Min(Rows) \in Nat
        BY <2>1, <2>2
      <4> QED  BY <2>3, <2>4, <2>5, <4>1
    <3>2. LowerRows(n) # {}
      BY <2>2, <3>1 DEF LowerRows
    <3>3. /\ Below(n) \in Rows /\ Below(n) \in Nat /\ Below(n) < n
      BY <2>5, <3>2, BelowIsGreatest
    <3>4. Below(n) < hole
      <4>1. ~ (hole < Below(n))
        BY <2>4, <2>5, <3>3
      <4>2. Below(n) # hole
        BY <2>3, <3>3
      <4> QED  BY <2>3, <3>3, <4>1, <4>2
    <3>5. n - Below(n) > 1
      BY <2>3, <2>4, <2>5, <3>3, <3>4
    <3>6. note[n] # NoNote /\ note[n].from = Below(n)
      BY <2>5, <3>2, <3>5 DEF OrderedNotes, HasGap
    <3> QED  BY <2>4, <3>4, <3>6 DEF Covers
  <2>7. ASSUME NEW k \in Numbers, Covers(k, hole) PROVE k = n
    <3>1. k \in Nat /\ note[k] # NoNote /\ note[k].from < hole /\ hole < k
      BY <2>7, NumbersAreNat DEF Covers
    <3>2. pc[k] = "done" /\ k \in Rows
      BY <3>1 DEF OrderedNotes, Rows
    <3>3. HasGap(k) /\ note[k].from = Below(k)
      BY <3>1, <3>2 DEF OrderedNotes
    <3>4. n <= k
      BY <2>4, <3>1, <3>2
    <3>5. ~ (n < k)
      <4>1. Below(k) \in Nat /\ \A m \in Rows : m < k => m <= Below(k)
        BY <3>3, BelowIsGreatest DEF HasGap
      <4>2. n < k => n <= Below(k)
        BY <2>4, <4>1
      <4> QED  BY <2>3, <2>4, <2>5, <3>1, <3>3, <4>1, <4>2
    <3> QED  BY <2>5, <3>1, <3>4, <3>5
  <2>8. {k \in Numbers : Covers(k, hole)} = {n}
    BY <2>5, <2>6, <2>7
  <2> QED  BY <2>8, FS_Singleton
<1> QED  BY <1>1, Invariant, OrderedAlways, PTL

-----------------------------------------------------------------------------
(* The report.  A number's rank is how many of the numbers are up to it.     *)

Rank(S, x) == Cardinality({m \in S : m <= x})

\* Higher numbers have higher ranks, from 1 to as many as there are.
LEMMA RankAscends ==
  ASSUME NEW S \in SUBSET Nat, IsFiniteSet(S)
  PROVE  /\ \A x \in S : Rank(S, x) \in 1 .. Cardinality(S)
         /\ \A x, y \in S : x < y => Rank(S, x) < Rank(S, y)
<1>1. ASSUME NEW x \in S PROVE Rank(S, x) \in 1 .. Cardinality(S)
  <2> DEFINE upTo == {m \in S : m <= x}
  <2>1. IsFiniteSet(upTo) /\ Cardinality(upTo) <= Cardinality(S)
    BY FS_Subset
  <2>2. upTo # {}
    OBVIOUS
  <2> HIDE DEF upTo
  <2>3. Cardinality(upTo) \in Nat /\ Cardinality(upTo) # 0 /\ Cardinality(S) \in Nat
    BY <2>1, <2>2, FS_EmptySet, FS_CardinalityType
  <2>4. Cardinality(upTo) \in 1 .. Cardinality(S)
    BY <2>1, <2>3
  <2> QED  BY <2>4 DEF Rank, upTo
<1>2. ASSUME NEW x \in S, NEW y \in S, x < y PROVE Rank(S, x) < Rank(S, y)
  <2> DEFINE X == {m \in S : m <= x}
             Y == {m \in S : m <= y}
  <2>1. X \subseteq Y /\ y \in Y \ X /\ Y \subseteq S
    <3>1. \A m \in S : m \in Nat
      OBVIOUS
    <3>2. \A m \in S : m <= x => m <= y
      BY <1>2, <3>1
    <3>3. y \in Y /\ y \notin X
      BY <1>2, <3>1
    <3> QED  BY <3>2, <3>3
  <2> HIDE DEF X, Y
  <2>2. IsFiniteSet(Y)
    BY <2>1, FS_Subset
  <2>3. IsFiniteSet(X) /\ Cardinality(X) <= Cardinality(Y) /\ Cardinality(X) # Cardinality(Y)
    BY <2>1, <2>2, FS_Subset
  <2>4. Cardinality(X) \in Nat /\ Cardinality(Y) \in Nat
    BY <2>2, <2>3, FS_CardinalityType
  <2>5. Cardinality(X) < Cardinality(Y)
    BY <2>3, <2>4
  <2> QED  BY <2>5 DEF Rank, X, Y
<1> QED  BY <1>1, <1>2

\* So the sorted numbers are the numbers, each once, in ascending order.
LEMMA SortedAscends ==
  ASSUME NEW S \in SUBSET Nat, IsFiniteSet(S)
  PROVE  /\ DOMAIN Sorted(S) = 1 .. Cardinality(S)
         /\ Len(Sorted(S)) = Cardinality(S)
         /\ ListsUp(Sorted(S), S)
<1> DEFINE c == Cardinality(S)
           s == Sorted(S)
           rank == [x \in S |-> Rank(S, x)]
<1>1. c \in Nat
  BY FS_CardinalityType
<1>2. \A x \in S : rank[x] \in 1 .. c
  BY RankAscends
<1>3. \A x, y \in S : x < y => rank[x] < rank[y]
  BY RankAscends
<1>4. rank \in [S -> 1 .. c]
  BY <1>2
<1>5. s = [i \in 1 .. c |-> CHOOSE n \in S : Rank(S, n) = i]
  BY DEF Sorted, Rank
<1>0. \A n \in S : rank[n] = Rank(S, n)
  OBVIOUS
<1> HIDE DEF rank, c, s
<1>6. ASSUME NEW x \in S, NEW y \in S, rank[x] = rank[y] PROVE x = y
  <2>1. rank[x] \in Nat /\ x \in Nat /\ y \in Nat
    BY <1>1, <1>2
  <2> QED  BY <1>3, <1>6, <2>1
<1>7. rank \in Injection(S, 1 .. c)
  BY <1>4, <1>6, Zenon DEF Injection, IsInjective
<1>8. IsFiniteSet(1 .. c) /\ Cardinality(1 .. c) = c
  BY <1>1, FS_Interval
<1>9. rank \in Surjection(S, 1 .. c)
  BY <1>7, <1>8, FS_Injection DEF c
<1>10. \A i \in 1 .. c : s[i] \in S /\ rank[s[i]] = i
  <2> TAKE i \in 1 .. c
  <2>1. \E n \in S : rank[n] = i
    BY <1>9 DEF Surjection
  <2>2. s[i] = CHOOSE n \in S : Rank(S, n) = i
    BY <1>5
  <2>3. s[i] \in S /\ Rank(S, s[i]) = i
    BY <1>0, <2>1, <2>2
  <2> QED  BY <1>0, <2>3
<1>11. DOMAIN s = 1 .. c
  BY <1>5
<1>12. Len(s) = c /\ s \in Seq(Nat)
  <2>1. \A i \in 1 .. c : s[i] \in Nat
    BY <1>10
  <2>2. s = [i \in 1 .. c |-> s[i]]
    BY <1>5, <1>11
  <2> QED  BY <1>1, <1>11, <2>1, <2>2
<1>13. Ascends(s)
  <2> SUFFICES ASSUME NEW i \in 1 .. c, NEW j \in 1 .. c, i < j PROVE s[i] < s[j]
    BY <1>11 DEF Ascends
  <2>1. s[i] \in Nat /\ s[j] \in Nat /\ rank[s[i]] = i /\ rank[s[j]] = j
    BY <1>10
  <2>2. s[i] # s[j]
    BY <2>1, <1>1
  <2>3. ~ (s[j] < s[i])
    <3>1. s[j] < s[i] => rank[s[j]] < rank[s[i]]
      BY <1>3, <1>10
    <3> QED  BY <1>1, <2>1, <3>1
  <2> QED  BY <2>1, <2>2, <2>3
<1>14. \A n \in S : \E i \in DOMAIN s : s[i] = n
  <2> TAKE n \in S
  <2>1. rank[n] \in 1 .. c
    BY <1>2
  <2>2. s[rank[n]] \in S /\ rank[s[rank[n]]] = rank[n]
    BY <1>10, <2>1
  <2>3. s[rank[n]] = n
    BY <1>6, <2>2
  <2> QED  BY <1>11, <2>1, <2>3
<1> QED  BY <1>10, <1>11, <1>12, <1>13, <1>14 DEF ListsUp, c, s

\* What lies between two numbers, in order.
LEMMA BetweenLists ==
  ASSUME NEW from \in Nat, NEW to \in Nat, from < to
  PROVE  ListsUp(Between(from, to), from + 1 .. to - 1)
<1> DEFINE s == Between(from, to)
           n == to - from - 1
<1>1. n \in Nat
  OBVIOUS
<1>2. s = [i \in 1 .. n |-> from + i]
  BY DEF Between
<1> HIDE DEF s
<1>3. DOMAIN s = 1 .. n /\ \A i \in 1 .. n : s[i] = from + i
  BY <1>2
<1>4. s \in Seq(Nat)
  <2>1. \A i \in 1 .. n : from + i \in Nat
    OBVIOUS
  <2> HIDE DEF n
  <2> QED  BY <1>1, <1>2, <2>1
<1>5. \A i \in 1 .. n : s[i] \in from + 1 .. to - 1
  BY <1>3
<1>6. \A h \in from + 1 .. to - 1 : \E i \in 1 .. n : s[i] = h
  <2> TAKE h \in from + 1 .. to - 1
  <2>1. h - from \in 1 .. n
    OBVIOUS
  <2>2. s[h - from] = from + (h - from)
    BY <1>3, <2>1
  <2> QED  BY <2>1, <2>2
<1>7. Ascends(s)
  BY <1>3 DEF Ascends
<1> QED  BY <1>3, <1>4, <1>5, <1>6, <1>7 DEF ListsUp, s

\* The report lists every number without a row between the first and the last,
\* and no other.
LEMMA MissingExact ==
  ASSUME NEW S \in SUBSET Nat, IsFiniteSet(S), S # {}
  PROVE  ListsUp(MissingAfterFirst(S), (Min(S) + 1 .. Max(S) - 1) \ S)
<1> DEFINE c == Cardinality(S)
           s == Sorted(S)
           seqs == [i \in 1 .. c - 1 |-> Between(s[i], s[i + 1])]
           Gap(from, to) == (from + 1 .. to - 1) \ S
<1>1. c \in Nat /\ c # 0
  BY FS_CardinalityType, FS_EmptySet
<1>2. DOMAIN s = 1 .. c /\ Len(s) = c /\ ListsUp(s, S)
  BY SortedAscends
<1>3. MissingAfterFirst(S) = FlattenSeq(seqs)
  BY <1>2 DEF MissingAfterFirst
<1>4. /\ \A i \in 1 .. c : s[i] \in S /\ s[i] \in Nat
      /\ \A i, j \in 1 .. c : i < j => s[i] < s[j]
      /\ \A n \in S : \E i \in 1 .. c : s[i] = n
  BY <1>2 DEF ListsUp, Ascends
<1> HIDE DEF s, c
<1>5. \A i, j \in 1 .. c : i <= j => s[i] <= s[j]
  BY <1>1, <1>4
<1>6. Min(S) = s[1] /\ Max(S) = s[c]
  <2>1. 1 \in 1 .. c /\ c \in 1 .. c
    BY <1>1
  <2>2. \A n \in S : s[1] <= n /\ n <= s[c]
    <3> TAKE n \in S
    <3>1. PICK i \in 1 .. c : s[i] = n
      BY <1>4
    <3>2. 1 <= i /\ i <= c
      BY <1>1
    <3> QED  BY <1>5, <2>1, <3>1, <3>2
  <2>3. \A m, n \in Nat : m <= n /\ n <= m => m = n
    OBVIOUS
  <2>4. s[1] \in S /\ s[c] \in S
    BY <1>4, <2>1
  <2>5. \A x \in S : (\A y \in S : x <= y) => x = s[1]
    BY <2>2, <2>3, <2>4
  <2>6. \A x \in S : (\A y \in S : x >= y) => x = s[c]
    BY <2>2, <2>3, <2>4
  <2>7. \A x, y \in S : y <= x => x >= y
    OBVIOUS
  <2>8. Min(S) = s[1]
    BY <2>2, <2>4, <2>5 DEF Min
  <2>9. Max(S) = s[c]
    BY <2>2, <2>4, <2>6, <2>7 DEF Max
  <2> QED  BY <2>8, <2>9
<1>7. ASSUME NEW i \in 1 .. c - 1
      PROVE  /\ i \in 1 .. c /\ i + 1 \in 1 .. c /\ s[i] < s[i + 1]
             /\ Gap(s[i], s[i + 1]) = s[i] + 1 .. s[i + 1] - 1
             /\ ListsUp(seqs[i], Gap(s[i], s[i + 1]))
  <2>1. i \in 1 .. c /\ i + 1 \in 1 .. c /\ i < i + 1
    BY <1>1
  <2>2. s[i] < s[i + 1] /\ s[i] \in Nat /\ s[i + 1] \in Nat
    BY <1>4, <2>1
  <2>3. ASSUME NEW n \in S PROVE n <= s[i] \/ s[i + 1] <= n
    <3>1. PICK j \in 1 .. c : s[j] = n
      BY <1>4
    <3>2. j <= i \/ i + 1 <= j
      BY <1>1
    <3> QED  BY <1>5, <2>1, <3>1, <3>2
  <2>4. \A n \in S : n \notin s[i] + 1 .. s[i + 1] - 1
    BY <2>2, <2>3
  <2>5. Gap(s[i], s[i + 1]) = s[i] + 1 .. s[i + 1] - 1
    BY <2>4
  <2>6. seqs[i] = Between(s[i], s[i + 1])
    OBVIOUS
  <2>7. ListsUp(Between(s[i], s[i + 1]), s[i] + 1 .. s[i + 1] - 1)
    BY <2>2, BetweenLists
  <2> HIDE DEF seqs, Gap
  <2> QED  BY <2>1, <2>2, <2>5, <2>6, <2>7
<1>8. DOMAIN seqs = 1 .. c - 1
  OBVIOUS
<1>9. Len(seqs) = c - 1
  BY <1>1
<1>10. CASE c = 1
  <2>1. seqs = <<>>
    BY <1>10
  <2>2. FlattenSeq(<<>>) = <<>>
    BY DEF FlattenSeq
  <2>3. s[1] \in Nat /\ Min(S) = s[1] /\ Max(S) = s[1]
    BY <1>4, <1>6, <1>10
  <2>4. (s[1] + 1 .. s[1] - 1) \ S = {}
    BY <2>3
  <2>5. ListsUp(<<>>, {})
    BY DEF ListsUp, Ascends
  <2> QED  BY <1>3, <2>1, <2>2, <2>3, <2>4, <2>5
<1>11. CASE c # 1
  <2> DEFINE n == c - 1
  <2>1. n \in Nat \ {0} /\ Len(seqs) = n
    BY <1>1, <1>9, <1>11
  <2>2. \A i \in 1 .. n : i \in 1 .. c - 1
    OBVIOUS
  <2>3. c = n + 1
    BY <1>1
  <2> HIDE DEF n, seqs
  <2>4. PICK F : IsFlattening(F, seqs, n) /\ FlattenSeq(seqs) = F[n]
    BY <2>1, FlattenEquation
  <2>5. /\ F[1] = seqs[1]
        /\ \A m \in Nat : 0 < m /\ m < n => F[m + 1] = F[m] \o seqs[m + 1]
    <3>1. IsFlattening(F, seqs, n)
      BY <2>4
    <3>2. n \in Nat \ {0}
      BY <2>1
    <3> QED  BY <3>1, <3>2, FlatteningSteps, Zenon
  <2> DEFINE good == {m \in 1 .. n : ListsUp(F[m], Gap(s[1], s[m + 1]))}
  <2>6. 1 \in good
    <3>1. 1 \in 1 .. n
      BY <2>1
    <3>2. ListsUp(seqs[1], Gap(s[1], s[1 + 1]))
      BY <1>7, <2>2, <3>1
    <3> HIDE DEF Gap
    <3> QED  BY <2>5, <3>1, <3>2
  <2>7. ASSUME NEW m \in Nat, 0 < m, m < n, m \in good PROVE m + 1 \in good
    <3> DEFINE H == Gap(s[1], s[m + 1])
               K == Gap(s[m + 1], s[m + 1 + 1])
    <3>1. m + 1 \in 1 .. n /\ m + 1 \in 1 .. c - 1 /\ 1 \in 1 .. c /\ m + 1 \in 1 .. c
          /\ 1 < m + 1 /\ m + 1 + 1 \in 1 .. c
      BY <2>1, <2>3, <2>7
    <3>2. F[m + 1] = F[m] \o seqs[m + 1]
      BY <2>5, <2>7, Zenon
    <3>3. ListsUp(F[m], H)
      BY <2>7
    <3>4. /\ s[m + 1] < s[m + 1 + 1]
          /\ ListsUp(seqs[m + 1], K)
      BY <1>7, <3>1
    <3>5. s[1] \in Nat /\ s[m + 1] \in S /\ s[m + 1] \in Nat /\ s[m + 1 + 1] \in Nat
          /\ s[1] < s[m + 1]
      BY <1>4, <3>1
    <3>6. H \in SUBSET Nat /\ K \in SUBSET Nat /\ \A h \in H : \A k \in K : h < k
      BY <3>5
    <3>7. H \cup K = Gap(s[1], s[m + 1 + 1])
      <4> DEFINE a == s[1]
                 b == s[m + 1]
                 d == s[m + 1 + 1]
      <4>1. a \in Nat /\ b \in Nat /\ d \in Nat /\ a < b /\ b < d /\ b \in S
        BY <3>4, <3>5
      <4> HIDE DEF a, b, d
      <4>2. Gap(a, b) \cup Gap(b, d) = Gap(a, d)
        BY <4>1
      <4> QED  BY <4>2 DEF a, b, d
    <3> HIDE DEF H, K
    <3>8. ListsUp(F[m] \o seqs[m + 1], H \cup K)
      BY <3>3, <3>4, <3>6, ListsFollow
    <3> HIDE DEF Gap
    <3> QED  BY <3>1, <3>2, <3>7, <3>8
  <2>8. \A m \in 1 .. n : m \in good
    <3> HIDE DEF good
    <3>1. n \in Nat
      BY <2>1
    <3> QED  BY <2>1, <2>6, <2>7, <3>1, CountingInduction
  <2>9. n \in 1 .. n
    BY <2>1
  <2>10. ListsUp(F[n], Gap(s[1], s[n + 1]))
    BY <2>8, <2>9
  <2> HIDE DEF good
  <2> QED  BY <1>3, <1>6, <2>3, <2>4, <2>10
<1> QED  BY <1>10, <1>11

\* The lower of two numbers.
LEMMA MinOfTwo ==
  ASSUME NEW a \in Nat, NEW b \in Nat
  PROVE  Min({a, b}) \in 0 .. b
<1>1. \E x \in {a, b} : \A y \in {a, b} : x <= y
  OBVIOUS
<1>2. Min({a, b}) \in {a, b} /\ \A y \in {a, b} : Min({a, b}) <= y
  BY <1>1 DEF Min
<1> QED  BY <1>2

\* findSequenceGaps, for any numbers that have a row, so in every state, and
\* any limit: it counts every hole and lists the lowest, in ascending order.
THEOREM ReportsExact == Spec => []ReportIsExact
<1>1. ReportIsExact
  <2> SUFFICES ASSUME Rows # {} PROVE ReportIsExact
    BY DEF ReportIsExact
  <2> DEFINE missing == MissingAfterFirst(Rows)
             holes == Holes(Min(Rows), Max(Rows))
             k == Min({Limit, Len(missing)})
             report == FindSequenceGaps(Rows)
             listed == {report.missing[i] : i \in DOMAIN report.missing}
  <2>1. Rows \in SUBSET Nat /\ IsFiniteSet(Rows)
    <3>1. IsFiniteSet(1 .. LastNumber)
      BY SequenceGapsAssumption, FS_Interval
    <3>2. Rows \in SUBSET (1 .. LastNumber) /\ Rows \subseteq Nat
      BY NumbersAreNat DEF Rows, Numbers
    <3> QED  BY <3>1, <3>2, FS_Subset
  <2>2. ListsUp(missing, holes)
    BY <2>1, MissingExact DEF Holes
  <2>3. holes \in SUBSET Nat
    <3>1. Min(Rows) + 1 \in Nat
      <4>1. \E x \in Rows : \A y \in Rows : x <= y
        BY <2>1, LeastNatural
      <4>2. Min(Rows) \in Rows
        BY <4>1 DEF Min
      <4> DEFINE least == Min(Rows)
      <4>3. least \in Nat
        BY <2>1, <4>2
      <4> HIDE DEF least
      <4>4. least + 1 \in Nat
        BY <4>3
      <4> QED  BY <4>4 DEF least
    <3> QED  BY <3>1 DEF Holes
  <2>4. report.missing = SubSeq(missing, 1, k) /\ report.missingCount = Len(missing)
    BY DEF FindSequenceGaps
  <2> HIDE DEF missing, holes, report
  <2>5. Len(missing) = Cardinality(holes) /\ Len(missing) \in Nat
    BY <2>2, ListLength
  <2>6. k \in 0 .. Len(missing)
    BY <2>5, SequenceGapsAssumption, MinOfTwo
  <2>7. k = Min({Limit, Cardinality(holes)})
    BY <2>5
  <2> HIDE DEF k
  <2> DEFINE start == SubSeq(missing, 1, k)
  <2>8. /\ Len(start) = k
        /\ {start[i] : i \in DOMAIN start} \subseteq holes
        /\ Ascends(start)
        /\ \A h \in holes \ {start[i] : i \in DOMAIN start},
              other \in {start[i] : i \in DOMAIN start} : h > other
    BY <2>2, <2>3, <2>6, ListStart
  <2> HIDE DEF start
  <2>9. report.missing = start
    BY <2>4 DEF start
  <2>10. /\ report.missingCount = Cardinality(holes)
         /\ Len(report.missing) = Min({Limit, Cardinality(holes)})
         /\ listed \subseteq holes
         /\ \A i, j \in DOMAIN report.missing :
              i < j => report.missing[i] < report.missing[j]
         /\ \A hole \in holes \ listed, other \in listed : hole > other
    BY <2>4, <2>5, <2>7, <2>8, <2>9 DEF Ascends
  <2> QED  BY <2>10 DEF ReportIsExact, report, holes
<1> QED  BY <1>1, PTL
=============================================================================
