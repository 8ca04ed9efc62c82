-------------------------- MODULE InvoiceDocument ---------------------------
(* From a billing invoice, credit note or debit note to the document the SRI *)
(* registers: the checks of validateInvoiceForSri, the tax codes of          *)
(* resolveTax, what a note reads of the document it modifies, the totals and *)
(* the buyer of the three builders, over the attempts one document may need. *)
(* Every attempt builds it again, with whatever tax-service and              *)
(* organization-service answer then, and of the day it is made on when the   *)
(* invoice has no date.                                                      *)
(*                                                                           *)
(* Amounts are cents, quantities thousandths, rates whole percentages (a     *)
(* negative one stands for a rate that is no number).  The issuer's data in  *)
(* the invoice but for the address, the sequential, names and descriptions   *)
(* are one flag: complete or not.  A note's reasons and its original's       *)
(* number are in it.                                                         *)
EXTENDS Integers, Sequences, FiniteSets, SequencesExt, FiniteSetsExt

CONSTANTS Invoices,  \* what billing.invoice.issued may carry
          CodeOf,    \* tax-service's catalogue: rate id -> code
          Settings,  \* organization -> the profiles its settings give, in time
          IssueDay,  \* the day, in Ecuador, of the invoice a note modifies
          LastDay,   \* bound on the days over which attempts are made
          Nothing    \* no document, no date, no value

Taxes == [id : STRING, kind : STRING, rate : Int, base : Int, amount : Int]

Lines == [quantity : Int, unitPrice : Int, discount : Int, subtotal : Int,
          taxes : Seq(Taxes)]

DateForms == {"local", "moment", "evening", "day"}

(* What the settings of the issuer say.  When organization-service does not  *)
(* answer they say nothing.                                                  *)
NoProfile ==
  [dirMatriz |-> Nothing, obligado |-> Nothing, legends |-> {}, payment |-> Nothing]

ProfilesOf(organization) == Settings[organization] \cup {NoProfile}

(* Amounts are numbers, and the dates that may come with a note are all of   *)
(* the document it modifies.                                                 *)
ASSUME InvoicesAssumption ==
  /\ {IssueDay, LastDay} \subseteq Nat
  /\ \A i \in Invoices :
       /\ i.lines \in Seq(Lines)
       /\ i.organization \in DOMAIN Settings
       /\ {i.subtotal, i.taxTotal, i.total} \subseteq Int
       /\ {i.relatedDate, i.originalDate} \ {Nothing} \subseteq DateForms \X {IssueDay}

VARIABLES
  today,      \* the day in Ecuador
  invoice,    \* the payload being issued
  original,   \* how far the document it modifies is, if it is a note
  status,     \* "received", "error" (may be tried again) or "sent"
  xml,        \* the document of the last attempt that built one
  registered  \* the document the SRI took, the first that reached it

vars == <<today, invoice, original, status, xml, registered>>

ConsumidorFinalMax == 5000

(* Catalogue codes -> <<Tabla 17 code, rate>>; NoRate where it depends.      *)
NoRate == -1

IvaByCatalogCode ==
  [IVA0  |-> <<"0", 0>>,   IVA5  |-> <<"5", 5>>,  IVA12 |-> <<"2", 12>>,
   IVA13 |-> <<"10", 13>>, IVA14 |-> <<"3", 14>>, IVA15 |-> <<"4", 15>>,
   NO_OBJETO |-> <<"6", 0>>, EXENTO |-> <<"7", 0>>, IVA_EXENTO |-> <<"7", 0>>,
   IVA_DIFERENCIADO |-> <<"8", NoRate>>]

(* Without the catalogue only these rates name their code.                   *)
IvaByPositiveRate == {<<"5", 5>>, <<"2", 12>>, <<"10", 13>>, <<"3", 14>>, <<"4", 15>>}

-----------------------------------------------------------------------------
(* Sums                                                                      *)

Subtotals(lines) == [i \in DOMAIN lines |-> lines[i].subtotal]

(* Every tax of every line, in order.                                        *)
TaxesOf(lines) == FlattenSeq([i \in DOMAIN lines |-> lines[i].taxes])

Amounts(taxes) == [i \in DOMAIN taxes |-> taxes[i].amount]

Bases(taxes) == [i \in DOMAIN taxes |-> taxes[i].base]

-----------------------------------------------------------------------------
(* The checks made before anything is signed                                 *)

Within(expected, actual) == actual - expected \in -1 .. 1

ExpectedSubtotal(line) ==
  (line.quantity * line.unitPrice + 500) \div 1000 - line.discount

ExpectedTax(tax) == (tax.base * tax.rate + 50) \div 100

ValidTaxAnyBase(line, tax) ==
  tax.rate >= 0 => Within(ExpectedTax(tax), tax.amount)

ValidTax(line, tax) ==
  /\ tax.kind = "vat" => tax.base = line.subtotal
  /\ tax.rate >= 0 => Within(ExpectedTax(tax), tax.amount)

ValidLine(line) ==
  /\ line.quantity > 0 /\ line.unitPrice >= 0 /\ line.discount >= 0
  /\ Within(ExpectedSubtotal(line), line.subtotal)
  /\ line.taxes # <<>>
  /\ \A i \in DOMAIN line.taxes : ValidTax(line, line.taxes[i])

(* The check looks at the identification as it came: missing, or the generic *)
(* one.                                                                      *)
FinalAsGiven(identification) == identification \in {"absent", "final"}

ValidTotals(i) ==
  /\ SumFunction(Subtotals(i.lines)) = i.subtotal
  /\ SumFunction(Amounts(TaxesOf(i.lines))) = i.taxTotal
  /\ i.subtotal + i.taxTotal = i.total

ValidForSri(i) ==
  /\ i.complete
  /\ i.lines # <<>>
  /\ \A n \in DOMAIN i.lines : ValidLine(i.lines[n])
  /\ ValidTotals(i)
  /\ FinalAsGiven(i.customer.identification) => i.total <= ConsumidorFinalMax

-----------------------------------------------------------------------------
(* Tax codes.  Each is a set: the one entry that applies, or none, in which  *)
(* case the attempt ends with an error.                                      *)

CatalogEntry(tax) ==
  IF CodeOf[tax.id] \in DOMAIN IvaByCatalogCode
  THEN {IvaByCatalogCode[CodeOf[tax.id]]} ELSE {}

(* The catalogue answered, and has the rate of the line.                     *)
InCatalog(tax, rates) == rates /\ tax.id \in DOMAIN CodeOf

EntryZeroGuessed(tax, rates) ==
  IF InCatalog(tax, rates) THEN CatalogEntry(tax)
  ELSE {e \in IvaByPositiveRate \cup {<<"0", 0>>} : e[2] = tax.rate}

Entry(tax, rates) ==
  IF InCatalog(tax, rates) THEN CatalogEntry(tax)
  ELSE {e \in IvaByPositiveRate : e[2] = tax.rate}

ResolveTaxUnchecked(tax, rates) ==
  IF tax.kind # "vat" \/ tax.rate < 0 THEN {}
  ELSE {e[1] : e \in Entry(tax, rates)}

ResolveTax(tax, rates) ==
  IF tax.kind # "vat" \/ tax.rate < 0 THEN {}
  ELSE {e[1] : e \in {f \in Entry(tax, rates) : f[2] \in {NoRate, tax.rate}}}

-----------------------------------------------------------------------------
(* The buyer: the builder trims the identification first.                    *)

FinalAsIssued(identification) ==
  identification \in {"absent", "blank", "final", "padded final"}

(* Tabla 6: the type of identification of the buyer.                         *)
SriIdTypeMap ==
  [RUC |-> "04", CEDULA |-> "05", PASAPORTE |-> "06", CONSUMIDOR_FINAL |-> "07",
   EXTERIOR |-> "08"]

IdTypeOf(code) == IF code \in DOMAIN SriIdTypeMap THEN {SriIdTypeMap[code]} ELSE {}

GuessIdType(identification) ==
  CASE identification = "thirteen digits" -> {"04"}
    [] identification = "ten digits" -> {"05"}
    [] OTHER -> {"06"}

(* The customer's snapshot carries the type's code, or tax-service is asked, *)
(* apart from the rates; it may not know the type ("none").                  *)
IdType(customer, types) ==
  IF FinalAsIssued(customer.identification) THEN {"07"}
  ELSE IF customer.coded \/ (types /\ customer.typeCode # "none")
       THEN IdTypeOf(customer.typeCode)
       ELSE GuessIdType(customer.identification)

-----------------------------------------------------------------------------
(* The document a note modifies.  Its row comes from an event of its own and *)
(* bears a key from the moment an attempt gets past the first checks, sent   *)
(* or not; so does a row in error.                                           *)

IsNote(i) == i.type \in {"04", "05"}

Unkeyed == {"absent", "refused"}

Reached == {"sent", "authorized", "rejected"}

(* A date as it comes: <<"local", day>> for dd/mm/yyyy, <<"moment", day>> for *)
(* an instant that in UTC is on that day already, <<"evening", day>> for one *)
(* of Ecuador's last five hours, when UTC has the next day, <<"day", day>>    *)
(* for yyyy-mm-dd alone, which JavaScript reads as midnight in UTC.          *)
SustentoDateInUtc(date) == IF date[1] = "evening" THEN date[2] + 1 ELSE date[2]

SustentoDate(date) == IF date[1] = "day" THEN date[2] - 1 ELSE date[2]

(* payload.relatedIssueDate ?? original.original_payload.issueDate           *)
OriginalIssueDate(i) ==
  IF i.relatedDate # Nothing THEN i.relatedDate ELSE i.originalDate

ValidNoteRefs(i) == i.related /\ (i.type = "04" => i.reason)

NoteStands(i) ==
  IsNote(i) =>
    /\ ValidNoteRefs(i)
    /\ original \notin Unkeyed
    /\ OriginalIssueDate(i) # Nothing

-----------------------------------------------------------------------------
(* What the issuer's profile gives.                                          *)

(* It declares its main address, or that of the establishment.               *)
DirMatriz(i, profile) ==
  IF profile.dirMatriz # Nothing THEN profile.dirMatriz ELSE i.address

Issuer(i, profile) ==
  [dirMatriz |-> DirMatriz(i, profile),
   obligado |-> IF profile.obligado # Nothing THEN profile.obligado ELSE "SI",
   legends |-> profile.legends]

PaymentMethod(i, profile) ==
  CASE i.payment # Nothing -> i.payment
    [] i.payment = Nothing /\ profile.payment # Nothing -> profile.payment
    [] OTHER -> "01"

(* Only the form of a code is checked: two digits.                           *)
TwoDigits == {"01", "19", "20"}

-----------------------------------------------------------------------------
(* The document.  A group per tax code adds up its lines' bases and amounts. *)

(* What an attempt has besides the invoice: whether tax-service answered     *)
(* with its rates and with its types of identification, the issuer's profile *)
(* it was given, and the day.                                                *)
Attempts(i) ==
  [rates : BOOLEAN, types : BOOLEAN, profile : ProfilesOf(i.organization), day : {today}]

IssueDate(i, attempt) == IF i.issueDate # Nothing THEN i.issueDate ELSE attempt.day

Buildable(i, attempt) ==
  /\ \A n \in DOMAIN TaxesOf(i.lines) : ResolveTax(TaxesOf(i.lines)[n], attempt.rates) # {}
  /\ IdType(i.customer, attempt.types) # {}
  /\ DirMatriz(i, attempt.profile) # Nothing
  /\ i.type # "04" => PaymentMethod(i, attempt.profile) \in TwoDigits

Declared(i, rates) ==
  LET taxes == TaxesOf(i.lines)
  IN [n \in DOMAIN taxes |->
        [code |-> CHOOSE c \in ResolveTax(taxes[n], rates) : TRUE,
         rate |-> taxes[n].rate, base |-> taxes[n].base, amount |-> taxes[n].amount]]

(* The places of the taxes of a code.                                        *)
OfCode(declared, code) == {n \in DOMAIN declared : declared[n].code = code}

GroupOfLast(declared, code) ==
  [code |-> code, base |-> SumFunctionOnSet(Bases(declared), OfCode(declared, code)),
   amount |-> declared[Max(OfCode(declared, code))].amount]

GroupOf(declared, code) ==
  [code |-> code, base |-> SumFunctionOnSet(Bases(declared), OfCode(declared, code)),
   amount |-> SumFunctionOnSet(Amounts(declared), OfCode(declared, code))]

TaxTotals(declared) ==
  {GroupOf(declared, declared[n].code) : n \in DOMAIN declared}

Buyer(i, types) == CHOOSE t \in IdType(i.customer, types) : TRUE

InvoiceXml(i, attempt) ==
  [type |-> "01",
   issued |-> IssueDate(i, attempt),
   issuer |-> Issuer(i, attempt.profile),
   buyer |-> Buyer(i, attempt.types),
   lines |-> Subtotals(i.lines),
   taxes |-> Declared(i, attempt.rates),
   totalTaxes |-> TaxTotals(Declared(i, attempt.rates)),
   subtotal |-> i.subtotal,
   total |-> i.total,
   payment |-> PaymentMethod(i, attempt.profile),
   modifies |-> Nothing,
   rateOf |-> <<>>]

(* A credit note has no payment.                                             *)
CreditNoteXml(i, attempt) ==
  [InvoiceXml(i, attempt) EXCEPT
     !.type = "04",
     !.payment = Nothing,
     !.modifies = SustentoDate(OriginalIssueDate(i))]

(* A debit note has reasons with a value where the others have lines, and    *)
(* taxes by group only, each under the rate of the first it found.           *)
DebitNoteXml(i, attempt) ==
  LET declared == Declared(i, attempt.rates)
  IN [InvoiceXml(i, attempt) EXCEPT
        !.type = "05",
        !.modifies = SustentoDate(OriginalIssueDate(i)),
        !.rateOf = [code \in {g.code : g \in TaxTotals(declared)} |->
                      declared[Min(OfCode(declared, code))].rate]]

Build(i, attempt) ==
  CASE i.type = "04" -> CreditNoteXml(i, attempt)
    [] i.type = "05" -> DebitNoteXml(i, attempt)
    [] OTHER -> InvoiceXml(i, attempt)

-----------------------------------------------------------------------------
Init ==
  /\ today = IssueDay
  /\ invoice \in Invoices
  /\ original = "absent"
  /\ status = "received"
  /\ xml = Nothing
  /\ registered = Nothing

(* The document a note modifies gets on by itself: its attempts may be       *)
(* refused before they have a key, fail with one, or reach the SRI.          *)
OriginalAdvances ==
  /\ IsNote(invoice)
  /\ original' \in
       CASE original = "absent" -> {"refused", "keyed", "sent", "rejected"}
         [] original \in {"refused", "keyed"} -> {"keyed", "sent", "rejected"}
         [] original = "sent" -> {"authorized", "rejected"}
         [] OTHER -> {}
  /\ UNCHANGED <<today, invoice, status, xml, registered>>

Midnight ==
  /\ today < LastDay
  /\ today' = today + 1
  /\ UNCHANGED <<invoice, original, status, xml, registered>>

(* An attempt that cannot be built ends as an error: an invalid invoice, a   *)
(* note whose original has no key yet, a tax or a buyer without a code, an   *)
(* issuer without an address, a payment without a code.  It can be tried     *)
(* again.                                                                    *)
Refuse(attempt) ==
  /\ status # "sent"
  /\ ~ (ValidForSri(invoice) /\ NoteStands(invoice) /\ Buildable(invoice, attempt))
  /\ status' = "error"
  /\ UNCHANGED <<today, invoice, original, xml, registered>>

(* An attempt that builds and stores a document.  It may never reach the SRI,*)
(* reach it with the answer lost, or be answered; the SRI keeps the first    *)
(* document with the number and answers the same to a later one.             *)
Emit(attempt) ==
  /\ status # "sent"
  /\ ValidForSri(invoice)
  /\ NoteStands(invoice)
  /\ Buildable(invoice, attempt)
  /\ xml' = Build(invoice, attempt)
  /\ \E outcome \in {"unreached", "unanswered", "answered"} :
       /\ registered' =
            IF outcome # "unreached" /\ registered = Nothing THEN xml' ELSE registered
       /\ status' = IF outcome = "answered" THEN "sent" ELSE "error"
  /\ UNCHANGED <<today, invoice, original>>

Next ==
  \/ OriginalAdvances
  \/ Midnight
  \/ \E attempt \in Attempts(invoice) : Refuse(attempt) \/ Emit(attempt)

Spec == Init /\ [][Next]_vars

-----------------------------------------------------------------------------
(* What is sent adds up: the lines make the subtotal, and the subtotal with  *)
(* the amounts of the tax groups makes the total.                            *)
DocumentAddsUp ==
  xml # Nothing =>
    /\ SumFunction(xml.lines) = xml.subtotal
    /\ xml.subtotal + SumFunction([g \in xml.totalTaxes |-> g.amount]) = xml.total

(* A group's amount is its rate of its base, up to the rounding of its lines:*)
(* at most a cent and a half for each.  Where every line has its one tax,    *)
(* the bases of the groups are together the subtotal: no tax is charged on a *)
(* price that already includes it.                                           *)
GroupsMatchTheirRate ==
  xml # Nothing =>
    /\ \A g \in xml.totalTaxes :
         LET exact == [n \in DOMAIN xml.taxes |-> xml.taxes[n].base * xml.taxes[n].rate]
             most  == 150 * Cardinality(OfCode(xml.taxes, g.code))
         IN 100 * g.amount - SumFunctionOnSet(exact, OfCode(xml.taxes, g.code))
              \in -most .. most
    /\ Len(xml.taxes) = Len(xml.lines) =>
         SumFunction([g \in xml.totalTaxes |-> g.base]) = xml.subtotal

(* Every tax of a document is declared at the rate of its code: nothing      *)
(* unknown becomes VAT at some other rate.                                   *)
CodesMatchRates ==
  xml # Nothing =>
    \A n \in DOMAIN xml.taxes :
      \E code \in DOMAIN IvaByCatalogCode :
        /\ IvaByCatalogCode[code][1] = xml.taxes[n].code
        /\ IvaByCatalogCode[code][2] \in {NoRate, xml.taxes[n].rate}

(* What the issuer's profile gives of a document: the issuer's main address, *)
(* its legends and, if the invoice does not name one, the form of payment.   *)
FromTheProfile ==
  IF invoice.payment = Nothing THEN {"issuer", "payment"} ELSE {"issuer"}

(* The day, the buyer and the codes of the invoice do not depend on when it  *)
(* is built nor on tax-service: it has a date and the type of its buyer, and *)
(* none of its taxes has a rate of its own.                                  *)
SelfContained ==
  /\ invoice.issueDate # Nothing
  /\ invoice.customer.coded
  /\ \A n \in DOMAIN TaxesOf(invoice.lines) :
       LET id == TaxesOf(invoice.lines)[n].id
       IN id \in DOMAIN CodeOf => CodeOf[id] # "IVA_DIFERENCIADO"

(* A document that needed several attempts over several days, some with      *)
(* tax-service down, is kept as the SRI registered it in all but what the    *)
(* issuer's profile gives, when the invoice has its date, the type of its    *)
(* buyer, and no tax with a rate of its own.                                 *)
KeptIsRegistered ==
  status = "sent" /\ SelfContained =>
    \A field \in DOMAIN xml \ FromTheProfile : xml[field] = registered[field]

(* Of the profile too.  But organization-service may be down in one attempt  *)
(* and not in another, and settings may be changed in between.               *)
KeptIsWhollyRegistered == status = "sent" /\ SelfContained => xml = registered

(* A note names the day of the document it modifies as it was in Ecuador,    *)
(* whatever time of that day and whichever of the two events it comes from:  *)
(* five hours each evening are of the next day in UTC.                       *)
NoteNamesItsDay ==
  xml # Nothing /\ IsNote(invoice) /\ OriginalIssueDate(invoice)[1] # "day" =>
    xml.modifies = IssueDay

(* What the comment of sustentoDate says: the date may come as ISO.  One     *)
(* without a time is declared as the day before.                             *)
NoteNamesIsoDay ==
  xml # Nothing /\ IsNote(invoice) => xml.modifies = IssueDay

(* What the error for an original without a key says: it was not sent to the *)
(* SRI yet.  A key is there before any send, and stays after one that fails. *)
NoteFollowsItsOriginal ==
  registered # Nothing /\ IsNote(invoice) => original \in Reached

(* What the builder of debit notes says of its groups: each one's amount is  *)
(* the rate it declares of its base.  Taxes of a code without a rate of its  *)
(* own share a group, under the rate of the first.                           *)
DebitGroupsHaveOneRate ==
  xml # Nothing /\ xml.type = "05" =>
    \A g \in xml.totalTaxes :
      100 * g.amount - g.base * xml.rateOf[g.code]
        \in -(150 * Len(xml.taxes)) .. 150 * Len(xml.taxes)

(* What sri-tax-codes.ts says of the table of rates: without the catalogue a *)
(* code is deduced only where there is no ambiguity.  A differentiated VAT   *)
(* may have one of those rates.                                              *)
GuessIsUnambiguous ==
  xml # Nothing =>
    \A n \in DOMAIN xml.taxes :
      LET codes == ResolveTax(TaxesOf(invoice.lines)[n], TRUE)
      IN codes # {} => xml.taxes[n].code \in codes

(* What invoice-validation.ts says of CONSUMIDOR_FINAL_MAX_CENTS: no invoice *)
(* to an unidentified buyer goes above it.  The check and the builder read   *)
(* the identification differently.                                           *)
FinalConsumerWithinCap ==
  xml # Nothing /\ xml.buyer = "07" => xml.total <= ConsumidorFinalMax
=============================================================================
