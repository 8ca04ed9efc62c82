------------------------- MODULE MCFiscalProcessor -------------------------
(***************************************************************************)
(* Small instances of FiscalProcessor for TLC.                             *)
(***************************************************************************)
EXTENDS FiscalProcessor, TLC

\* The HTTP handlers are interchangeable, and so are the documents of a kind.
Symmetry == Permutations(Workers) \cup Permutations(Invoices) \cup Permutations(Directs)
=============================================================================
