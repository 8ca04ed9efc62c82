---------------------------- MODULE Withholdings ----------------------------
(* A withholding document (comprobante de retención, type 07): what          *)
(* POST /withholdings accepts, what computeWithholdings works out for it and *)
(* what accounting is told once the SRI authorizes it.                       *)
(*                                                                           *)
(* Amounts are cents.  A rate is in thousandths of a percent, so that a      *)
(* percentage with three decimals, which the code refuses, can be asked for. *)
(* The identity of the parties, the codes and the texts are left out.        *)
EXTENDS Integers, Sequences, SequencesExt

CONSTANTS Supports,  \* the supplier's documents a request may quote
          Requests,  \* the sequences of lines a request may carry
          Nothing    \* no document, no event

Taxes == {"income", "vat", "isd"}
SupportTaxes == [code : {"2", "3", "5"}, amount : Nat]
SupportRecords == [subtotal : Nat, total : Nat, taxes : Seq(SupportTaxes)]
RequestLines == [tax : Taxes, base : Nat, rate : Int]
WithholdingLines == [tax : Taxes, base : Nat, rate : Int, amount : Nat]

ASSUME WithholdingsAssumption ==
  /\ Supports \subseteq SupportRecords
  /\ Requests \subseteq Seq(RequestLines)
  /\ Nothing \notin [support : SupportRecords, lines : Seq(WithholdingLines), total : Int]

VARIABLES
  document,  \* the payload stored for the SRI, or Nothing
  event,     \* fiscal.ec.withholding.issued, or Nothing
  refused    \* the last request was answered with an error

vars == <<document, event, refused>>

-----------------------------------------------------------------------------
(* The amounts                                                               *)

FullRate == 100000  \* 100 %

Hundredths(rate) == rate \div 10

WithheldAmountTruncated(base, rate) == (base * Hundredths(rate)) \div 10000

(* The code works on base x rate with whole numbers, rounding half up.       *)
WithheldAmount(base, rate) == (base * Hundredths(rate) + 5000) \div 10000

AmountsOf(entries) == [i \in DOMAIN entries |-> entries[i].amount]

VatAmount(support) ==
  SumFunctionOnSet(AmountsOf(support.taxes),
                   {i \in DOMAIN support.taxes : support.taxes[i].code = "2"})

TaxesAmount(support) == SumFunction(AmountsOf(support.taxes))

(* The most a line of this tax may be computed on.                           *)
Ceiling(support, tax) ==
  CASE tax = "income" -> support.subtotal
    [] tax = "vat"    -> VatAmount(support)
    [] tax = "isd"    -> support.total

(* Between 0 and 100 %, two decimals, and at most three digits once the      *)
(* decimals' trailing zeros are gone: ten per cent or more leaves one        *)
(* decimal.                                                                  *)
ValidRate(rate) ==
  /\ 0 <= rate /\ rate <= FullRate
  /\ rate % 10 = 0
  /\ Hundredths(rate) >= 1000 => Hundredths(rate) % 10 = 0

SupportAddsUp(support) == support.total = support.subtotal + TaxesAmount(support)

ValidLine(support, line) ==
  /\ ValidRate(line.rate)
  /\ line.base <= Ceiling(support, line.tax)

Valid(support, lines) ==
  /\ SupportAddsUp(support)
  /\ lines # <<>>
  /\ \A i \in DOMAIN lines : ValidLine(support, lines[i])

Withheld(line) ==
  [tax |-> line.tax, base |-> line.base, rate |-> line.rate,
   amount |-> WithheldAmount(line.base, line.rate)]

ComputeWithholdings(support, lines) ==
  LET withheld == [i \in DOMAIN lines |-> Withheld(lines[i])]
  IN [support |-> support, lines |-> withheld, total |-> SumFunction(AmountsOf(withheld))]

(* What accounting receives: the lines, one sum per tax, and the total the   *)
(* document was stored with.                                                 *)
OfTax(payload, tax) ==
  SumFunctionOnSet(AmountsOf(payload.lines),
                   {i \in DOMAIN payload.lines : payload.lines[i].tax = tax})

IssuedPayloadWithoutIsd(payload) ==
  [lines |-> payload.lines, incomeTax |-> OfTax(payload, "income"),
   vat |-> OfTax(payload, "vat"), isd |-> 0, total |-> payload.total]

IssuedPayload(payload) ==
  [lines |-> payload.lines, incomeTax |-> OfTax(payload, "income"),
   vat |-> OfTax(payload, "vat"), isd |-> OfTax(payload, "isd"),
   total |-> payload.total]

-----------------------------------------------------------------------------
Init == document = Nothing /\ event = Nothing /\ refused = FALSE

(* POST /withholdings with a request that stands: the payload is stored.     *)
IssueWithholding(support, lines) ==
  /\ document = Nothing
  /\ Valid(support, lines)
  /\ document' = ComputeWithholdings(support, lines)
  /\ refused' = FALSE
  /\ UNCHANGED event

(* Any problem at all, with the amounts or with anything else of the         *)
(* request: it is answered with an error, nothing is stored.                 *)
Refuse ==
  /\ document = Nothing
  /\ refused' = TRUE
  /\ UNCHANGED <<document, event>>

(* The SRI authorized the document: accounting is told.                      *)
Announce ==
  /\ document # Nothing
  /\ event = Nothing
  /\ event' = IssuedPayload(document)
  /\ UNCHANGED <<document, refused>>

Next ==
  \/ \E support \in Supports, lines \in Requests : IssueWithholding(support, lines)
  \/ Refuse
  \/ Announce

Spec == Init /\ [][Next]_vars

-----------------------------------------------------------------------------
(* The payload is one a request can have produced; an answer of error means  *)
(* that nothing was stored.                                                  *)
TypeOK ==
  /\ document # Nothing =>
       /\ document.support \in Supports
       /\ document.lines \in Seq(WithholdingLines)
       /\ ~ refused
  /\ event # Nothing => document # Nothing
  /\ refused \in BOOLEAN

(* The amount is the whole number of cents nearest to base x rate, half up.  *)
IsNearest(amount, base, rate) ==
  10000 * amount - base * Hundredths(rate) \in (-4999) .. 5000

(* The line withholds no more than its base and is computed on no more than  *)
(* its part of the document.                                                 *)
IsDue(support, line) ==
  /\ line.amount <= line.base
  /\ line.base <= Ceiling(support, line.tax)
  /\ IsNearest(line.amount, line.base, line.rate)

ThreeDigits(rate) ==
  \E digits \in 0 .. 999, scale \in {10, 100, 1000} : rate = digits * scale

(* Every line of a stored document is due: what computeWithholdings works    *)
(* out is the nearest cent and stays within the document.                    *)
WithheldIsDue ==
  document # Nothing =>
    \A i \in DOMAIN document.lines : IsDue(document.support, document.lines[i])

(* Every accepted rate can be written with at most three digits, as the      *)
(* SRI's schema wants <porcentajeRetener>.                                   *)
RatesFitTheXml ==
  document # Nothing =>
    \A i \in DOMAIN document.lines : ThreeDigits(document.lines[i].rate)

(* What accounting books by tax adds up to the total of the document: no     *)
(* line is lost between the taxes, or counted under two of them.             *)
EventBalances ==
  event # Nothing => event.incomeTax + event.vat + event.isd = event.total

(* What the comment in computeWithholdings says: one cannot withhold on more *)
(* than the document has.  Then no tax is withheld beyond the whole of its   *)
(* part of the document; but the code compares each line by itself, and two  *)
(* lines on the same VAT may together withhold more than that VAT.           *)
WithinTheDocument ==
  document # Nothing =>
    \A tax \in Taxes : OfTax(document, tax) <= Ceiling(document.support, tax)
=============================================================================
