----------------------------- MODULE Numbering -----------------------------
(***************************************************************************)
(* What the numbering of the documents issued here promises (ports.ts,     *)
(* createNumbered): the documents of a series take the numbers 1, 2, 3...  *)
(* in the order in which they come to exist.  A request that fails leaves  *)
(* nothing behind, and there is nothing to see between two documents.      *)
(***************************************************************************)
EXTENDS Naturals

CONSTANTS Callers, Series

VARIABLES
  last,      \* the last number of each series
  documents  \* the documents that exist

vars == <<last, documents>>

Document(r, s, n) == [request |-> r, series |-> s, number |-> n]

Init ==
  /\ last = [s \in Series |-> 0]
  /\ documents = {}

Issue(r, s) ==
  /\ \A d \in documents : d.request # r
  /\ last' = [last EXCEPT ![s] = @ + 1]
  /\ documents' = documents \cup {Document(r, s, last[s] + 1)}

Next == \E r \in Callers, s \in Series : Issue(r, s)

Spec == Init /\ [][Next]_vars
=============================================================================
