---------------------------- MODULE SequenceGaps ----------------------------
(* Holes in the numbering of one series (organization, document type,        *)
(* establishment and emission point).  Billing numbers without skipping, so  *)
(* a hole is an event that was lost.  Two mechanisms look for it: the note   *)
(* each document leaves once the SRI received it (sequenceGapNote), made of  *)
(* two reads and a save with other documents arriving between any of them,   *)
(* and the report asked for on demand (findSequenceGaps).                    *)
EXTENDS Naturals, FiniteSets, Sequences, SequencesExt, FiniteSetsExt

CONSTANTS LastNumber,  \* billing has issued the numbers 1 .. LastNumber
          Limit,       \* the most numbers a report lists
          NoNote

ASSUME SequenceGapsAssumption ==
  /\ LastNumber \in Nat /\ Limit \in Nat
  /\ NoNote \notin [from : Nat, missing : Nat]

Numbers == 1 .. LastNumber

VARIABLES
  pc,        \* each number's progress; "absent": its event has not arrived
  previous,  \* the number findLatestBefore gave to the one looking
  counted,   \* what it made of findBetween: how many are missing
  note,      \* the sequence_gap event each document left, or NoNote
  late       \* some number arrived below one already there

vars == <<pc, previous, counted, note, late>>

Progress ==
  {"absent", "received", "failed", "sent", "looking", "noting", "done", "unnoted"}

(* Every document has a row from the moment it is first worked on, also one  *)
(* that failed.                                                              *)
Rows == {n \in Numbers : pc[n] # "absent"}

-----------------------------------------------------------------------------
(* The report: the numbers sorted, then what is missing between each pair.   *)

\* In ascending order, the i-th has i of the numbers up to it.
Sorted(numbers) ==
  [i \in 1 .. Cardinality(numbers) |->
     CHOOSE n \in numbers : Cardinality({m \in numbers : m <= n}) = i]

BetweenInclusive(from, to) == [i \in 1 .. to - from |-> from + i]

Between(from, to) == [i \in 1 .. to - from - 1 |-> from + i]

MissingAfterFirst(numbers) ==
  LET sorted == Sorted(numbers)
  IN FlattenSeq([i \in 1 .. Len(sorted) - 1 |-> Between(sorted[i], sorted[i + 1])])

FindSequenceGaps(numbers) ==
  LET missing == MissingAfterFirst(numbers)
  IN [first |-> Min(numbers), last |-> Max(numbers), count |-> Cardinality(numbers),
      missing |-> SubSeq(missing, 1, Min({Limit, Len(missing)})),
      missingCount |-> Len(missing)]

-----------------------------------------------------------------------------
Init ==
  /\ pc = [n \in Numbers |-> "absent"]
  /\ previous = [n \in Numbers |-> 0]
  /\ counted = [n \in Numbers |-> 0]
  /\ note = [n \in Numbers |-> NoNote]
  /\ late = FALSE

Goes(n, to) == pc' = [pc EXCEPT ![n] = to]

(* The event of a number arrives and gets its row.                           *)
Receive(n) ==
  /\ pc[n] = "absent"
  /\ Goes(n, "received")
  /\ late' = (late \/ \E m \in Rows : m > n)
  /\ UNCHANGED <<previous, counted, note>>

(* The SRI received it: 'sent' is saved, then the numbering is looked at.    *)
SaveSent(n) ==
  /\ pc[n] = "received"
  /\ Goes(n, "sent")
  /\ UNCHANGED <<previous, counted, note, late>>

(* The emission ends in an error, or one of the two reads does, or the save  *)
(* of the note: the row says 'error' and the document will be tried again.   *)
Fail(n) ==
  /\ pc[n] \in {"received", "sent", "looking", "noting"}
  /\ Goes(n, "failed")
  /\ UNCHANGED <<previous, counted, note, late>>

Retry(n) ==
  /\ pc[n] = "failed"
  /\ Goes(n, "received")
  /\ UNCHANGED <<previous, counted, note, late>>

LowerRows(n) == {m \in Rows : m < n}

\* Faulty: the numbers at both ends are taken for some in between.
RowsBetweenInclusive(from, to) == {m \in Rows : from <= m /\ m <= to}

RowsBetween(from, to) == {m \in Rows : from < m /\ m < to}

(* The first read: nothing before, or the number before, is no hole.         *)
FindLatestBeforeFirst(n) ==
  /\ pc[n] = "sent"
  /\ LET prev == IF LowerRows(n) = {} THEN n ELSE Min(LowerRows(n))
     IN IF n - prev <= 1
        THEN Goes(n, "done") /\ UNCHANGED previous
        ELSE Goes(n, "looking") /\ previous' = [previous EXCEPT ![n] = prev]
  /\ UNCHANGED <<counted, note, late>>

FindLatestBefore(n) ==
  /\ pc[n] = "sent"
  /\ LET prev == IF LowerRows(n) = {} THEN n ELSE Max(LowerRows(n))
     IN IF n - prev <= 1
        THEN Goes(n, "done") /\ UNCHANGED previous
        ELSE Goes(n, "looking") /\ previous' = [previous EXCEPT ![n] = prev]
  /\ UNCHANGED <<counted, note, late>>

\* Faulty: every number in between is taken for a missing one.
FindBetweenUncounted(n) ==
  /\ pc[n] = "looking"
  /\ LET missing == n - previous[n] - 1
     IN /\ counted' = [counted EXCEPT ![n] = missing]
        /\ Goes(n, IF missing > 0 THEN "noting" ELSE "done")
  /\ UNCHANGED <<previous, note, late>>

(* The second read: what arrived in between since the first one.             *)
FindBetween(n) ==
  /\ pc[n] = "looking"
  /\ LET missing == n - previous[n] - 1 - Cardinality(RowsBetween(previous[n], n))
     IN /\ counted' = [counted EXCEPT ![n] = missing]
        /\ Goes(n, IF missing > 0 THEN "noting" ELSE "done")
  /\ UNCHANGED <<previous, note, late>>

(* The note is saved, whatever arrived since the second read.                *)
SaveNote(n) ==
  /\ pc[n] = "noting"
  /\ note' = [note EXCEPT ![n] = [from |-> previous[n], missing |-> counted[n]]]
  /\ Goes(n, "done")
  /\ UNCHANGED <<previous, counted, late>>

(* The process dies after saving 'sent': nothing looks at the numbering of   *)
(* this document again.                                                      *)
Crash(n) ==
  /\ pc[n] \in {"sent", "looking", "noting"}
  /\ Goes(n, "unnoted")
  /\ UNCHANGED <<previous, counted, note, late>>

Next ==
  \E n \in Numbers :
    \/ Receive(n) \/ SaveSent(n) \/ Fail(n) \/ Retry(n)
    \/ FindLatestBefore(n) \/ FindBetween(n) \/ SaveNote(n) \/ Crash(n)

Spec == Init /\ [][Next]_vars

-----------------------------------------------------------------------------
(* What no row explains between two numbers.                                 *)
Holes(from, to) == (from + 1 .. to - 1) \ Rows

Covers(n, hole) == note[n] # NoNote /\ note[n].from < hole /\ hole < n

TypeOK ==
  /\ pc \in [Numbers -> Progress]
  /\ previous \in [Numbers -> 0 .. LastNumber]
  /\ counted \in [Numbers -> 0 .. LastNumber]
  /\ note \in [Numbers -> [from : Numbers, missing : Numbers] \cup {NoNote}]
  /\ late \in BOOLEAN

(* The second read counts the holes there are at that moment, whatever       *)
(* arrived since the first one: findBetween against findLatestBefore.        *)
CountsAreExact ==
  [][\A n \in Numbers :
       (pc[n] = "looking" /\ pc'[n] \in {"noting", "done"}) =>
         counted'[n] = Cardinality(Holes(previous[n], n))]_vars

(* A note never tells fewer numbers than are missing where it looked, with   *)
(* others arriving between the two reads, between the second and the save,   *)
(* and ever after; and as long as none arrives below one already there, it   *)
(* tells exactly those.                                                      *)
NotesAreTrue ==
  \A n \in Numbers :
    note[n] # NoNote =>
      LET holes == Cardinality(Holes(note[n].from, n))
      IN holes <= note[n].missing /\ (~ late => holes = note[n].missing)

(* A note's number is exact at the moment it is saved.  It need not be: the  *)
(* count is of the second read.                                              *)
NotesAreExact ==
  [][\A n \in Numbers :
       note'[n] # note[n] =>
         note'[n].missing = Cardinality(Holes(note'[n].from, n))]_vars

(* When the events arrive in the order of their numbers and every document   *)
(* got through, each hole has been noted by exactly one document: none is    *)
(* overlooked and none is reported again by the documents that follow.       *)
HolesAreNotedOnce ==
  (~ late /\ Rows # {} /\ \A n \in Rows : pc[n] = "done") =>
    \A hole \in Holes(Min(Rows), Max(Rows)) :
      Cardinality({n \in Numbers : Covers(n, hole)}) = 1

(* In any order of arrival the report counts every hole and lists the lowest *)
(* of them, in ascending order, up to the limit.                             *)
ReportIsExact ==
  Rows # {} =>
    LET report == FindSequenceGaps(Rows)
        holes  == Holes(Min(Rows), Max(Rows))
        listed == {report.missing[i] : i \in DOMAIN report.missing}
    IN /\ report.missingCount = Cardinality(holes)
       /\ Len(report.missing) = Min({Limit, Cardinality(holes)})
       /\ listed \subseteq holes
       /\ \A i, j \in DOMAIN report.missing :
            i < j => report.missing[i] < report.missing[j]
       /\ \A hole \in holes \ listed, other \in listed : hole > other
=============================================================================
