----------------------- MODULE InvoiceDocument_proofs -----------------------
(* The amounts, codes and dates of a document, and that the attempts which   *)
(* build it agree, whatever invoices, catalogue and taxes there are.         *)
EXTENDS InvoiceDocument, FoldTheorems

(* Some attempt on this invoice, which stands by itself, builds it, with     *)
(* tax-service or without, with any profile and on any day.                  *)
BuiltFor(i, document) ==
  /\ ValidForSri(i)
  /\ IsNote(i) => OriginalIssueDate(i) # Nothing
  /\ \E attempt :
       /\ attempt.rates \in BOOLEAN /\ attempt.types \in BOOLEAN
       /\ Buildable(i, attempt) /\ document = Build(i, attempt)

(* What is stored and what the SRI has come from attempts on this invoice.   *)
BuiltInv ==
  /\ invoice \in Invoices
  /\ xml # Nothing => BuiltFor(invoice, xml)
  /\ registered # Nothing => BuiltFor(invoice, registered)
  /\ status = "sent" => BuiltFor(invoice, xml) /\ BuiltFor(invoice, registered)

\* So it is in every reachable state.
LEMMA BuiltInvHolds == Spec => []BuiltInv
<1>1. Init => BuiltInv
  BY DEF Init, BuiltInv
<1>2. BuiltInv /\ [Next]_vars => BuiltInv'
  <2> SUFFICES ASSUME BuiltInv, [Next]_vars PROVE BuiltInv'
    OBVIOUS
  <2>1. CASE OriginalAdvances \/ Midnight
    BY <2>1 DEF OriginalAdvances, Midnight, BuiltInv
  <2>2. ASSUME NEW attempt \in Attempts(invoice), Refuse(attempt) PROVE BuiltInv'
    BY <2>2 DEF Refuse, BuiltInv
  <2>3. ASSUME NEW attempt \in Attempts(invoice), Emit(attempt) PROVE BuiltInv'
    <3>1. invoice' = invoice /\ BuiltFor(invoice, xml')
      <4>1. attempt.rates \in BOOLEAN /\ attempt.types \in BOOLEAN
        BY DEF Attempts
      <4> QED  BY <2>3, <4>1 DEF Emit, BuiltFor, NoteStands
    <3>2. registered' = xml' \/ registered' = registered
      BY <2>3 DEF Emit
    <3>3. status' = "sent" => registered' # Nothing \/ registered' = xml'
      BY <2>3 DEF Emit
    <3>4. registered' # Nothing => BuiltFor(invoice, registered')
      BY <3>1, <3>2 DEF BuiltInv
    <3> QED  BY <3>1, <3>3, <3>4 DEF BuiltInv
  <2>4. CASE UNCHANGED vars
    BY <2>4 DEF vars, BuiltInv
  <2> QED  BY <2>1, <2>2, <2>3, <2>4 DEF Next
<1> QED  BY <1>1, <1>2, PTL DEF Spec

-----------------------------------------------------------------------------
(* What the three kinds of document carry.                                   *)
Fields ==
  {"type", "issued", "issuer", "buyer", "lines", "taxes", "totalTaxes", "subtotal", "total",
   "payment", "modifies", "rateOf"}

(* The rates of the groups of a debit note.                                  *)
RatesOf(i, rates) ==
  LET declared == Declared(i, rates)
  IN IF i.type = "05"
     THEN [code \in {g.code : g \in TaxTotals(declared)} |->
             declared[Min(OfCode(declared, code))].rate]
     ELSE <<>>

(* A document has these fields; those of the profile apart, this is what is  *)
(* in them.                                                                  *)
LEMMA FieldsOfBuild ==
  ASSUME NEW i, NEW attempt
  PROVE  LET x == Build(i, attempt)
             declared == Declared(i, attempt.rates)
         IN /\ DOMAIN x = Fields
            /\ x.type = IF IsNote(i) THEN i.type ELSE "01"
            /\ x.issued = IssueDate(i, attempt)
            /\ x.buyer = Buyer(i, attempt.types)
            /\ x.lines = Subtotals(i.lines)
            /\ x.taxes = declared
            /\ x.totalTaxes = TaxTotals(declared)
            /\ x.subtotal = i.subtotal
            /\ x.total = i.total
            /\ x.payment = IF i.type = "04" THEN Nothing ELSE PaymentMethod(i, attempt.profile)
            /\ x.modifies = IF IsNote(i) THEN SustentoDate(OriginalIssueDate(i)) ELSE Nothing
            /\ x.rateOf = RatesOf(i, attempt.rates)
<1> DEFINE plain == InvoiceXml(i, attempt)
           declared == Declared(i, attempt.rates)
<1>1. /\ DOMAIN plain = Fields
      /\ plain.type = "01" /\ plain.issued = IssueDate(i, attempt)
      /\ plain.buyer = Buyer(i, attempt.types) /\ plain.lines = Subtotals(i.lines)
      /\ plain.taxes = declared /\ plain.totalTaxes = TaxTotals(declared)
      /\ plain.subtotal = i.subtotal /\ plain.total = i.total
      /\ plain.payment = PaymentMethod(i, attempt.profile)
      /\ plain.modifies = Nothing /\ plain.rateOf = <<>>
  BY DEF InvoiceXml, Fields
<1> HIDE DEF plain, declared
<1>r. i.type # "05" => RatesOf(i, attempt.rates) = <<>>
  BY DEF RatesOf
<1>2. CASE i.type = "04"
  <2>1. Build(i, attempt) =
          [plain EXCEPT !.type = "04", !.payment = Nothing,
                        !.modifies = SustentoDate(OriginalIssueDate(i))]
    BY <1>2 DEF Build, CreditNoteXml, plain
  <2> QED  BY <1>1, <1>2, <1>r, <2>1 DEF IsNote, Fields, declared
<1>3. CASE i.type = "05"
  <2>1. PICK rates : rates = RatesOf(i, attempt.rates)
    OBVIOUS
  <2>r. rates = [code \in {g.code : g \in TaxTotals(declared)} |->
                   declared[Min(OfCode(declared, code))].rate]
    BY <1>3, <2>1 DEF RatesOf, declared
  <2>b. Build(i, attempt) =
          [plain EXCEPT !.type = "05", !.modifies = SustentoDate(OriginalIssueDate(i)),
                        !.rateOf = rates]
    BY <1>3, <2>r DEF Build, DebitNoteXml, plain, declared
  <2>2. Build(i, attempt).rateOf = rates
    BY <1>1, <2>b DEF Fields
  <2>3. /\ DOMAIN Build(i, attempt) = Fields
        /\ Build(i, attempt).type = "05"
        /\ Build(i, attempt).modifies = SustentoDate(OriginalIssueDate(i))
        /\ \A field \in Fields \ {"type", "modifies", "rateOf"} :
             Build(i, attempt)[field] = plain[field]
    BY <1>1, <2>b DEF Fields
  <2> QED  BY <1>1, <1>3, <2>1, <2>2, <2>3 DEF IsNote, Fields, declared
<1>4. CASE ~ IsNote(i)
  <2>1. Build(i, attempt) = plain
    BY <1>4 DEF Build, IsNote, plain
  <2> QED  BY <1>1, <1>4, <1>r, <2>1 DEF IsNote, declared
<1> QED  BY <1>2, <1>3, <1>4 DEF IsNote

(* What a code resolves to is an entry of one of the two tables, at the rate *)
(* of the tax or at none.                                                    *)
LEMMA ResolvedEntry ==
  ASSUME NEW tax, NEW rates \in BOOLEAN, NEW code \in ResolveTax(tax, rates)
  PROVE  \E e \in Entry(tax, rates) : e[1] = code /\ e[2] \in {NoRate, tax.rate}
  BY DEF ResolveTax

\* What a code resolves to has the rate of the tax, or none, in the table of codes.
LEMMA CodeHasRate ==
  ASSUME NEW tax, NEW rates \in BOOLEAN, NEW code \in ResolveTax(tax, rates)
  PROVE  \E c \in DOMAIN IvaByCatalogCode :
            /\ IvaByCatalogCode[c][1] = code
            /\ IvaByCatalogCode[c][2] \in {NoRate, tax.rate}
<1>1. PICK e \in Entry(tax, rates) : e[1] = code /\ e[2] \in {NoRate, tax.rate}
  BY ResolvedEntry
<1>2. CASE InCatalog(tax, rates)
  <2>1. CodeOf[tax.id] \in DOMAIN IvaByCatalogCode /\ e = IvaByCatalogCode[CodeOf[tax.id]]
    BY <1>2 DEF Entry, CatalogEntry
  <2> QED  BY <1>1, <2>1
<1>3. CASE ~ InCatalog(tax, rates)
  <2>1. e \in IvaByPositiveRate
    BY <1>3 DEF Entry
  <2>2. \E c \in DOMAIN IvaByCatalogCode : IvaByCatalogCode[c] = e
    BY <2>1 DEF IvaByPositiveRate, IvaByCatalogCode
  <2> QED  BY <1>1, <2>2
<1> QED  BY <1>2, <1>3

(* Every tax of a document is declared at the rate of its code, for any      *)
(* catalogue tax-service may have.                                           *)
THEOREM CodesMatch == Spec => []CodesMatchRates
<1>1. BuiltInv => CodesMatchRates
  <2> SUFFICES ASSUME BuiltInv, xml # Nothing, NEW n \in DOMAIN xml.taxes
               PROVE  \E c \in DOMAIN IvaByCatalogCode :
                        /\ IvaByCatalogCode[c][1] = xml.taxes[n].code
                        /\ IvaByCatalogCode[c][2] \in {NoRate, xml.taxes[n].rate}
    BY DEF CodesMatchRates
  <2>1. PICK attempt : /\ attempt.rates \in BOOLEAN
                       /\ Buildable(invoice, attempt) /\ xml = Build(invoice, attempt)
    BY DEF BuiltInv, BuiltFor
  <2>2. xml.taxes = Declared(invoice, attempt.rates)
    BY <2>1, FieldsOfBuild
  <2> DEFINE tax == TaxesOf(invoice.lines)[n]
  <2>3. n \in DOMAIN TaxesOf(invoice.lines)
    BY <2>2 DEF Declared
  <2>4. /\ xml.taxes[n].code = (CHOOSE c \in ResolveTax(tax, attempt.rates) : TRUE)
        /\ xml.taxes[n].rate = tax.rate
    BY <2>2, <2>3 DEF Declared
  <2>5. ResolveTax(tax, attempt.rates) # {}
    BY <2>1, <2>3 DEF Buildable
  <2>6. xml.taxes[n].code \in ResolveTax(tax, attempt.rates)
    BY <2>4, <2>5
  <2> QED  BY <2>1, <2>4, <2>6, CodeHasRate
<1> QED  BY <1>1, BuiltInvHolds, PTL

-----------------------------------------------------------------------------
(* With the rate of its code, a tax has the same code with tax-service and   *)
(* without.                                                                  *)
LEMMA CodesAgree ==
  ASSUME NEW tax, NEW a \in BOOLEAN, NEW b \in BOOLEAN,
         tax.id \in DOMAIN CodeOf => CodeOf[tax.id] # "IVA_DIFERENCIADO",
         NEW c \in ResolveTax(tax, a), NEW d \in ResolveTax(tax, b)
  PROVE  c = d
<1>1. PICK e \in Entry(tax, a) : e[1] = c /\ e[2] \in {NoRate, tax.rate}
  BY ResolvedEntry
<1>2. PICK f \in Entry(tax, b) : f[1] = d /\ f[2] \in {NoRate, tax.rate}
  BY ResolvedEntry
<1>3. ASSUME NEW rates \in BOOLEAN, InCatalog(tax, rates),
             NEW g \in Entry(tax, rates), g[2] \in {NoRate, tax.rate}
      PROVE  /\ g = IvaByCatalogCode[CodeOf[tax.id]]
             /\ CodeOf[tax.id] \in DOMAIN IvaByCatalogCode \ {"IVA_DIFERENCIADO"}
             /\ g[2] = tax.rate
  <2>1. g = IvaByCatalogCode[CodeOf[tax.id]] /\ CodeOf[tax.id] \in DOMAIN IvaByCatalogCode
    BY <1>3 DEF Entry, CatalogEntry
  <2>2. CodeOf[tax.id] # "IVA_DIFERENCIADO"
    BY <1>3 DEF InCatalog
  <2>3. g[2] # NoRate
    BY <2>1, <2>2 DEF IvaByCatalogCode, NoRate
  <2> QED  BY <1>3, <2>1, <2>2, <2>3
<1>4. ASSUME NEW rates \in BOOLEAN, ~ InCatalog(tax, rates),
             NEW g \in Entry(tax, rates)
      PROVE  g \in IvaByPositiveRate /\ g[2] = tax.rate
  BY <1>4 DEF Entry
<1>5. ASSUME NEW code \in DOMAIN IvaByCatalogCode \ {"IVA_DIFERENCIADO"},
             NEW g \in IvaByPositiveRate, g[2] = IvaByCatalogCode[code][2]
      PROVE  g[1] = IvaByCatalogCode[code][1]
  BY <1>5 DEF IvaByCatalogCode, IvaByPositiveRate, NoRate
<1>6. ASSUME NEW g \in IvaByPositiveRate, NEW h \in IvaByPositiveRate, g[2] = h[2]
      PROVE  g[1] = h[1]
  BY <1>6 DEF IvaByPositiveRate
<1>7. CASE InCatalog(tax, a) /\ InCatalog(tax, b)
  BY <1>1, <1>2, <1>3, <1>7
<1>8. CASE InCatalog(tax, a) /\ ~ InCatalog(tax, b)
  BY <1>1, <1>2, <1>3, <1>4, <1>5, <1>8
<1>9. CASE ~ InCatalog(tax, a) /\ InCatalog(tax, b)
  BY <1>1, <1>2, <1>3, <1>4, <1>5, <1>9
<1>10. CASE ~ InCatalog(tax, a) /\ ~ InCatalog(tax, b)
  BY <1>1, <1>2, <1>4, <1>6, <1>10
<1> QED  BY <1>7, <1>8, <1>9, <1>10

(* So any two attempts that build this document, on any two days and with    *)
(* any two profiles, build the same but for what the profile gives.          *)
LEMMA SameDocument ==
  ASSUME SelfContained,
         NEW a, a.rates \in BOOLEAN, Buildable(invoice, a),
         NEW b, b.rates \in BOOLEAN, Buildable(invoice, b)
  PROVE  \A field \in DOMAIN Build(invoice, a) \ FromTheProfile :
           Build(invoice, a)[field] = Build(invoice, b)[field]
<1> DEFINE taxes == TaxesOf(invoice.lines)
           x == Build(invoice, a)
           y == Build(invoice, b)
<1>1. IdType(invoice.customer, a.types) = IdType(invoice.customer, b.types)
  BY DEF IdType, SelfContained
<1>2. Buyer(invoice, a.types) = Buyer(invoice, b.types)
  BY <1>1 DEF Buyer
<1>3. ASSUME NEW n \in DOMAIN taxes
      PROVE  ResolveTax(taxes[n], a.rates) = ResolveTax(taxes[n], b.rates)
  <2>1. ResolveTax(taxes[n], a.rates) # {} /\ ResolveTax(taxes[n], b.rates) # {}
    BY DEF Buildable
  <2>2. taxes[n].id \in DOMAIN CodeOf => CodeOf[taxes[n].id] # "IVA_DIFERENCIADO"
    BY DEF SelfContained
  <2> HIDE DEF taxes
  <2>3. \A c \in ResolveTax(taxes[n], a.rates), d \in ResolveTax(taxes[n], b.rates) : c = d
    BY <2>2, CodesAgree
  <2> QED  BY <2>1, <2>3
<1>4. Declared(invoice, a.rates) = Declared(invoice, b.rates)
  BY <1>3 DEF Declared
<1>5. IssueDate(invoice, a) = IssueDate(invoice, b)
  BY DEF IssueDate, SelfContained
<1>6. invoice.payment # Nothing =>
        PaymentMethod(invoice, a.profile) = PaymentMethod(invoice, b.profile)
  BY DEF PaymentMethod
<1>f. PICK f : f = FromTheProfile
  OBVIOUS
<1>7. Declared(invoice, a.rates) = Declared(invoice, b.rates)
      /\ RatesOf(invoice, a.rates) = RatesOf(invoice, b.rates)
  BY <1>4 DEF RatesOf
<1> HIDE DEF x, y, taxes
<1>8. /\ DOMAIN x = Fields
      /\ x.type = y.type /\ x.issued = y.issued /\ x.buyer = y.buyer
      /\ x.lines = y.lines /\ x.taxes = y.taxes /\ x.totalTaxes = y.totalTaxes
      /\ x.subtotal = y.subtotal /\ x.total = y.total
      /\ x.modifies = y.modifies /\ x.rateOf = y.rateOf
  <2>1. /\ DOMAIN x = Fields
        /\ x.type = IF IsNote(invoice) THEN invoice.type ELSE "01"
        /\ x.issued = IssueDate(invoice, a) /\ x.buyer = Buyer(invoice, a.types)
        /\ x.lines = Subtotals(invoice.lines) /\ x.taxes = Declared(invoice, a.rates)
        /\ x.totalTaxes = TaxTotals(Declared(invoice, a.rates))
        /\ x.subtotal = invoice.subtotal /\ x.total = invoice.total
        /\ x.modifies = IF IsNote(invoice) THEN SustentoDate(OriginalIssueDate(invoice))
                        ELSE Nothing
        /\ x.rateOf = RatesOf(invoice, a.rates)
    BY FieldsOfBuild DEF x
  <2>2. /\ y.type = IF IsNote(invoice) THEN invoice.type ELSE "01"
        /\ y.issued = IssueDate(invoice, b) /\ y.buyer = Buyer(invoice, b.types)
        /\ y.lines = Subtotals(invoice.lines) /\ y.taxes = Declared(invoice, b.rates)
        /\ y.totalTaxes = TaxTotals(Declared(invoice, b.rates))
        /\ y.subtotal = invoice.subtotal /\ y.total = invoice.total
        /\ y.modifies = IF IsNote(invoice) THEN SustentoDate(OriginalIssueDate(invoice))
                        ELSE Nothing
        /\ y.rateOf = RatesOf(invoice, b.rates)
    BY FieldsOfBuild DEF y
  <2> QED  BY <1>2, <1>5, <1>7, <2>1, <2>2, Zenon
<1>9. x.payment = IF invoice.type = "04" THEN Nothing ELSE PaymentMethod(invoice, a.profile)
  BY FieldsOfBuild DEF x
<1>10. y.payment = IF invoice.type = "04" THEN Nothing ELSE PaymentMethod(invoice, b.profile)
  BY FieldsOfBuild DEF y
<1>p. x.payment = y.payment \/ "payment" \in f
  BY <1>6, <1>9, <1>10, <1>f DEF FromTheProfile
<1>11. "issuer" \in f
  BY <1>f DEF FromTheProfile
<1>12. ASSUME NEW field \in Fields, field \notin f
       PROVE  x[field] = y[field]
  BY <1>8, <1>11, <1>12, <1>p DEF Fields
<1> QED  BY <1>f, <1>8, <1>12 DEF x, y

(* What is kept of a document is, but for what the issuer's profile gives,   *)
(* what the SRI registered, over any number of attempts, days, profiles and  *)
(* outages of tax-service and organization-service.                          *)
THEOREM KeptRegistered == Spec => []KeptIsRegistered
<1>1. BuiltInv => KeptIsRegistered
  <2> SUFFICES ASSUME BuiltInv, status = "sent", SelfContained
               PROVE  \A field \in DOMAIN xml \ FromTheProfile :
                        xml[field] = registered[field]
    BY DEF KeptIsRegistered
  <2>1. PICK a : /\ a.rates \in BOOLEAN
                 /\ Buildable(invoice, a) /\ xml = Build(invoice, a)
    BY DEF BuiltInv, BuiltFor
  <2>2. PICK b : /\ b.rates \in BOOLEAN
                 /\ Buildable(invoice, b) /\ registered = Build(invoice, b)
    BY DEF BuiltInv, BuiltFor
  <2> QED  BY <2>1, <2>2, SameDocument
<1> QED  BY <1>1, BuiltInvHolds, PTL

-----------------------------------------------------------------------------
(* The amounts.                                                              *)

(* The taxes of an invoice are those of its lines.                           *)
LEMMA TypedTaxes ==
  ASSUME NEW i \in Invoices
  PROVE  /\ TaxesOf(i.lines) \in Seq(Taxes)
         /\ \A n \in DOMAIN TaxesOf(i.lines) :
              \E l \in DOMAIN i.lines : \E k \in DOMAIN i.lines[l].taxes :
                TaxesOf(i.lines)[n] = i.lines[l].taxes[k]
<1> DEFINE seqs == [l \in DOMAIN i.lines |-> i.lines[l].taxes]
<1>1. i.lines \in Seq(Lines)
  BY InvoicesAssumption
<1>2. \A l \in DOMAIN i.lines : i.lines[l].taxes \in Seq(Taxes)
  <2>1. \A l \in DOMAIN i.lines : i.lines[l] \in Lines
    BY <1>1
  <2> QED  BY <2>1 DEF Lines
<1>3. seqs \in Seq(Seq(Taxes)) /\ DOMAIN seqs = DOMAIN i.lines
  BY <1>1, <1>2
<1>4. \A l \in DOMAIN i.lines : seqs[l] = i.lines[l].taxes
  OBVIOUS
<1>5. TaxesOf(i.lines) = FlattenSeq(seqs)
  BY DEF TaxesOf
<1> HIDE DEF seqs
<1>6. /\ FlattenSeq(seqs) \in Seq(Taxes)
      /\ \A n \in DOMAIN FlattenSeq(seqs) :
           \E l \in DOMAIN seqs : \E k \in DOMAIN seqs[l] :
             FlattenSeq(seqs)[n] = seqs[l][k]
  BY <1>3, FlattenParts
<1> DEFINE whole == FlattenSeq(seqs)
<1> HIDE DEF whole
<1>7. \A n \in DOMAIN whole : \E l \in DOMAIN i.lines : \E k \in DOMAIN i.lines[l].taxes :
        whole[n] = i.lines[l].taxes[k]
  <2> SUFFICES ASSUME NEW n \in DOMAIN whole
               PROVE  \E l \in DOMAIN i.lines : \E k \in DOMAIN i.lines[l].taxes :
                        whole[n] = i.lines[l].taxes[k]
    OBVIOUS
  <2>1. PICK l \in DOMAIN seqs : \E k \in DOMAIN seqs[l] : whole[n] = seqs[l][k]
    BY <1>6 DEF whole
  <2>2. l \in DOMAIN i.lines /\ seqs[l] = i.lines[l].taxes
    BY <1>3, <1>4
  <2> QED  BY <2>1, <2>2
<1>8. TaxesOf(i.lines) = whole /\ whole \in Seq(Taxes)
  BY <1>5, <1>6 DEF whole
<1> QED  BY <1>7, <1>8

(* A declared tax is the tax of the invoice in its place, with a code.       *)
LEMMA DeclaredTaxes ==
  ASSUME NEW i \in Invoices, NEW rates
  PROVE  LET declared == Declared(i, rates)
             taxes == TaxesOf(i.lines)
         IN /\ DOMAIN declared = DOMAIN taxes
            /\ Len(declared) = Len(taxes)
            /\ IsFiniteSet(DOMAIN declared)
            /\ \A n \in DOMAIN declared :
                 /\ taxes[n] \in Taxes
                 /\ declared[n].base = taxes[n].base /\ declared[n].base \in Int
                 /\ declared[n].amount = taxes[n].amount /\ declared[n].amount \in Int
                 /\ declared[n].rate = taxes[n].rate /\ declared[n].rate \in Int
<1> DEFINE declared == Declared(i, rates)
           taxes == TaxesOf(i.lines)
<1>1. taxes \in Seq(Taxes)
  BY TypedTaxes
<1>2. DOMAIN taxes = 1 .. Len(taxes) /\ Len(taxes) \in Nat
      /\ \A n \in DOMAIN taxes : taxes[n] \in Taxes
  BY <1>1
<1>3. DOMAIN declared = DOMAIN taxes
      /\ \A n \in DOMAIN taxes : /\ declared[n].base = taxes[n].base
                                 /\ declared[n].amount = taxes[n].amount
                                 /\ declared[n].rate = taxes[n].rate
  BY DEF Declared
<1>4. Len(declared) = Len(taxes)
  <2>1. DOMAIN declared = 1 .. Len(taxes)
    BY <1>2, <1>3
  <2> HIDE DEF declared, taxes
  <2> QED  BY <1>2, <2>1
<1>5. IsFiniteSet(DOMAIN declared)
  <2>1. IsFiniteSet(1 .. Len(taxes))
    <3> DEFINE n == Len(taxes)
    <3>1. n \in Int
      BY <1>2
    <3> HIDE DEF n
    <3>2. IsFiniteSet(1 .. n)
      BY <3>1, FS_Interval
    <3> QED  BY <3>2 DEF n
  <2> HIDE DEF declared, taxes
  <2> QED  BY <1>2, <1>3, <2>1
<1>6. \A n \in DOMAIN taxes :
        taxes[n].base \in Int /\ taxes[n].amount \in Int /\ taxes[n].rate \in Int
  BY <1>2 DEF Taxes
<1> HIDE DEF declared, taxes
<1> QED  BY <1>2, <1>3, <1>4, <1>5, <1>6 DEF declared, taxes

(* Each tax is in the group of its code and in no other, so the groups       *)
(* together have the amounts and the bases of all.                           *)
LEMMA GroupsAddUp ==
  ASSUME NEW declared, IsFiniteSet(DOMAIN declared),
         \A n \in DOMAIN declared : declared[n].base \in Int /\ declared[n].amount \in Int
  PROVE  LET groups == TaxTotals(declared)
         IN /\ SumFunction([g \in groups |-> g.amount]) = SumFunction(Amounts(declared))
            /\ SumFunction([g \in groups |-> g.base]) = SumFunction(Bases(declared))
<1> DEFINE groups == TaxTotals(declared)
           places == DOMAIN declared
           part == [g \in groups |-> OfCode(declared, g.code)]
           amounts == Amounts(declared)
           bases == Bases(declared)
           amountOf == [g \in groups |-> g.amount]
           baseOf == [g \in groups |-> g.base]
<1>1. IsFiniteSet(groups)
  <2> DEFINE group == [n \in places |-> GroupOf(declared, declared[n].code)]
  <2>1. groups = {group[n] : n \in places}
    BY DEF TaxTotals
  <2> HIDE DEF group, places, groups
  <2>2. IsFiniteSet(places)
    BY DEF places
  <2>3. group \in Surjection(places, groups)
    BY <2>1 DEF Surjection, group
  <2> QED  BY <2>2, <2>3, FS_Surjection
<1>2. \A g \in groups : /\ g = GroupOf(declared, g.code)
                        /\ g.amount = SumFunctionOnSet(amounts, OfCode(declared, g.code))
                        /\ g.base = SumFunctionOnSet(bases, OfCode(declared, g.code))
  BY DEF TaxTotals, GroupOf
<1>3. \A g \in groups : part[g] \subseteq places
  BY DEF OfCode
<1>4. \A n \in places : \E g \in groups : n \in part[g]
  <2> TAKE n \in places
  <2> DEFINE g == GroupOf(declared, declared[n].code)
  <2>1. g \in groups /\ g.code = declared[n].code
    BY DEF TaxTotals, GroupOf
  <2> HIDE DEF g
  <2> QED  BY <2>1 DEF OfCode
<1>5. \A f, g \in groups : \A n \in places : n \in part[f] /\ n \in part[g] => f = g
  <2> SUFFICES ASSUME NEW f \in groups, NEW g \in groups, NEW n \in places,
                      n \in part[f], n \in part[g]
               PROVE  f = g
    OBVIOUS
  <2>1. f.code = g.code
    BY DEF OfCode
  <2> QED  BY <1>2, <2>1
<1>6. \A n \in places : amounts[n] \in Int
  BY DEF Amounts
<1>7. \A n \in places : bases[n] \in Int
  BY DEF Bases
<1>8. /\ \A g \in groups : amountOf[g] = SumFunctionOnSet(amounts, part[g])
      /\ \A g \in groups : baseOf[g] = SumFunctionOnSet(bases, part[g])
  BY <1>2
<1>9. /\ SumFunction(amountOf) = SumFunctionOnSet(amountOf, groups)
      /\ SumFunction(baseOf) = SumFunctionOnSet(baseOf, groups)
      /\ SumFunction(amounts) = SumFunctionOnSet(amounts, places)
      /\ SumFunction(bases) = SumFunctionOnSet(bases, places)
  BY DEF SumFunction, Amounts, Bases
<1> HIDE DEF part, amounts, bases, amountOf, baseOf, groups
<1>10. SumFunctionOnSet(amountOf, groups) = SumFunctionOnSet(amounts, places)
  BY <1>1, <1>3, <1>4, <1>5, <1>6, <1>8, SumByPart
<1>11. SumFunctionOnSet(baseOf, groups) = SumFunctionOnSet(bases, places)
  BY <1>1, <1>3, <1>4, <1>5, <1>7, <1>8, SumByPart
<1> QED  BY <1>9, <1>10, <1>11 DEF amounts, bases, amountOf, baseOf, groups

(* What is sent adds up, however many lines, taxes and codes it has.         *)
THEOREM DocumentsAddUp == Spec => []DocumentAddsUp
<1>1. BuiltInv => DocumentAddsUp
  <2> SUFFICES ASSUME BuiltInv, xml # Nothing
               PROVE  /\ SumFunction(xml.lines) = xml.subtotal
                      /\ xml.subtotal + SumFunction([g \in xml.totalTaxes |-> g.amount])
                           = xml.total
    BY DEF DocumentAddsUp
  <2>1. PICK attempt : xml = Build(invoice, attempt)
    BY DEF BuiltInv, BuiltFor
  <2>2. invoice \in Invoices /\ ValidForSri(invoice)
    BY DEF BuiltInv, BuiltFor
  <2> DEFINE declared == Declared(invoice, attempt.rates)
             taxes == TaxesOf(invoice.lines)
  <2>3. /\ SumFunction(Subtotals(invoice.lines)) = invoice.subtotal
        /\ SumFunction(Amounts(taxes)) = invoice.taxTotal
        /\ invoice.subtotal + invoice.taxTotal = invoice.total
    BY <2>2 DEF ValidForSri, ValidTotals
  <2>4. /\ DOMAIN declared = DOMAIN taxes /\ IsFiniteSet(DOMAIN declared)
        /\ \A n \in DOMAIN declared :
             /\ declared[n].base \in Int /\ declared[n].amount \in Int
             /\ declared[n].amount = taxes[n].amount
    BY <2>2, DeclaredTaxes
  <2>5. /\ xml.lines = Subtotals(invoice.lines) /\ xml.totalTaxes = TaxTotals(declared)
        /\ xml.subtotal = invoice.subtotal /\ xml.total = invoice.total
    BY <2>1, FieldsOfBuild
  <2> HIDE DEF declared, taxes
  <2>6. Amounts(declared) = Amounts(taxes)
    BY <2>4 DEF Amounts
  <2>7. SumFunction([g \in TaxTotals(declared) |-> g.amount]) = SumFunction(Amounts(declared))
    BY <2>4, GroupsAddUp
  <2> QED  BY <2>3, <2>5, <2>6, <2>7
<1> QED  BY <1>1, BuiltInvHolds, PTL

(* A tax that passed the checks is its rate of its base, to a cent and a     *)
(* half: one for the tolerance, half for the rounding of what is expected.   *)
LEMMA TaxNearRate ==
  ASSUME NEW i \in Invoices, ValidForSri(i), NEW attempt, Buildable(i, attempt),
         NEW n \in DOMAIN TaxesOf(i.lines)
  PROVE  LET tax == TaxesOf(i.lines)[n]
         IN /\ tax.kind = "vat"
            /\ 100 * tax.amount - tax.base * tax.rate \in (-150) .. 150
<1> DEFINE tax == TaxesOf(i.lines)[n]
<1>1. tax \in Taxes
  BY TypedTaxes
<1>2. PICK l \in DOMAIN i.lines : \E k \in DOMAIN i.lines[l].taxes : tax = i.lines[l].taxes[k]
  BY TypedTaxes
<1>3. ValidTax(i.lines[l], tax)
  BY <1>2 DEF ValidForSri, ValidLine
<1>4. ResolveTax(tax, attempt.rates) # {}
  BY DEF Buildable
<1> HIDE DEF tax
<1>5. tax.rate \in Int /\ tax.base \in Int /\ tax.amount \in Int
  BY <1>1 DEF Taxes
<1>6. tax.kind = "vat" /\ ~ (tax.rate < 0)
  BY <1>4 DEF ResolveTax
<1> DEFINE exact == tax.base * tax.rate
<1>7. exact \in Int /\ tax.amount - (exact + 50) \div 100 \in -1 .. 1
  <2>1. Within(ExpectedTax(tax), tax.amount)
    BY <1>3, <1>5, <1>6 DEF ValidTax
  <2> QED  BY <1>5, <2>1 DEF Within, ExpectedTax
<1> HIDE DEF exact
<1>8. 100 * tax.amount - exact \in (-150) .. 150
  BY <1>5, <1>7
<1> QED  BY <1>6, <1>8 DEF tax, exact

(* Each group's amount is its rate of its base, to a cent and a half for     *)
(* each of its taxes, and the bases make the subtotal where each line has    *)
(* one tax.                                                                  *)
THEOREM GroupsMatch == Spec => []GroupsMatchTheirRate
<1>1. BuiltInv => GroupsMatchTheirRate
  <2> SUFFICES ASSUME BuiltInv, xml # Nothing PROVE GroupsMatchTheirRate
    BY DEF GroupsMatchTheirRate
  <2>1. PICK attempt : Buildable(invoice, attempt) /\ xml = Build(invoice, attempt)
    BY DEF BuiltInv, BuiltFor
  <2>2. invoice \in Invoices /\ ValidForSri(invoice)
    BY DEF BuiltInv, BuiltFor
  <2> DEFINE declared == Declared(invoice, attempt.rates)
             taxes == TaxesOf(invoice.lines)
             lines == invoice.lines
  <2>3. /\ DOMAIN declared = DOMAIN taxes /\ Len(declared) = Len(taxes)
        /\ IsFiniteSet(DOMAIN declared)
        /\ \A n \in DOMAIN declared :
             /\ declared[n].base = taxes[n].base /\ declared[n].base \in Int
             /\ declared[n].amount = taxes[n].amount /\ declared[n].amount \in Int
             /\ declared[n].rate = taxes[n].rate /\ declared[n].rate \in Int
    BY <2>2, DeclaredTaxes
  <2>4. /\ xml.lines = Subtotals(lines) /\ xml.totalTaxes = TaxTotals(declared)
        /\ xml.subtotal = invoice.subtotal /\ xml.taxes = declared
    BY <2>1, FieldsOfBuild
  <2>5. \A n \in DOMAIN taxes :
          /\ taxes[n].kind = "vat"
          /\ 100 * taxes[n].amount - taxes[n].base * taxes[n].rate \in (-150) .. 150
    BY <2>1, <2>2, TaxNearRate
  <2> HIDE DEF declared
  <2> DEFINE exact == [n \in DOMAIN declared |-> declared[n].base * declared[n].rate]
  <2>6. ASSUME NEW g \in TaxTotals(declared)
        PROVE  LET most == 150 * Cardinality(OfCode(declared, g.code))
               IN 100 * g.amount - SumFunctionOnSet(exact, OfCode(declared, g.code))
                    \in -most .. most
    <3> DEFINE places == OfCode(declared, g.code)
               amounts == Amounts(declared)
    <3>1. g.amount = SumFunctionOnSet(amounts, places)
      BY DEF TaxTotals, GroupOf
    <3>2. IsFiniteSet(places) /\ places \subseteq DOMAIN declared
      BY <2>3, FS_Subset DEF OfCode
    <3>3. \A n \in places : /\ amounts[n] \in Int /\ exact[n] \in Int
                            /\ 100 * amounts[n] - exact[n] \in (-150) .. 150
      <4> TAKE n \in places
      <4>1. n \in DOMAIN declared
        BY <3>2
      <4>2. amounts[n] = declared[n].amount /\ exact[n] = declared[n].base * declared[n].rate
        BY <4>1 DEF Amounts
      <4> HIDE DEF taxes, amounts, exact
      <4>3. /\ declared[n].amount = taxes[n].amount /\ declared[n].amount \in Int
            /\ declared[n].base = taxes[n].base /\ declared[n].base \in Int
            /\ declared[n].rate = taxes[n].rate /\ declared[n].rate \in Int
        BY <2>3, <4>1
      <4>4. 100 * taxes[n].amount - taxes[n].base * taxes[n].rate \in (-150) .. 150
        BY <2>3, <2>5, <4>1
      <4> DEFINE product == declared[n].base * declared[n].rate
      <4>5. product \in Int
        BY <4>3
      <4>6. 100 * declared[n].amount - product \in (-150) .. 150
        <5>1. product = taxes[n].base * taxes[n].rate
          BY <4>3
        <5> HIDE DEF product
        <5> QED  BY <4>3, <4>4, <5>1, SMTT(30)
      <4>7. exact[n] = product
        BY <4>2
      <4> HIDE DEF product
      <4> QED  BY <4>2, <4>3, <4>5, <4>6, <4>7
    <3> HIDE DEF places, amounts, exact
    <3>4. 100 * SumFunctionOnSet(amounts, places) - SumFunctionOnSet(exact, places)
            \in (-(150 * Cardinality(places))) .. (150 * Cardinality(places))
      <4> DEFINE hundred == 100
                 most == 150
      <4>1. hundred \in Int /\ most \in Nat
        OBVIOUS
      <4>2. \A n \in places : /\ amounts[n] \in Int /\ exact[n] \in Int
                              /\ hundred * amounts[n] - exact[n] \in (-most) .. most
        BY <3>3
      <4> HIDE DEF hundred, most
      <4>3. hundred * SumFunctionOnSet(amounts, places) - SumFunctionOnSet(exact, places)
              \in (-(most * Cardinality(places))) .. (most * Cardinality(places))
        BY <3>2, <4>1, <4>2, SumWithin
      <4> QED  BY <4>3 DEF hundred, most
    <3> QED  BY <3>1, <3>4 DEF places
  <2>7. ASSUME Len(declared) = Len(Subtotals(lines))
        PROVE  SumFunction([g \in TaxTotals(declared) |-> g.base]) = invoice.subtotal
    <3> DEFINE seqs == [l \in DOMAIN lines |-> lines[l].taxes]
    <3>1. lines \in Seq(Lines) /\ \A l \in DOMAIN lines : ValidLine(lines[l])
      BY <2>2, InvoicesAssumption DEF ValidForSri
    <3>2. \A l \in DOMAIN lines : lines[l].taxes \in Seq(Taxes) /\ lines[l].taxes # <<>>
      <4>1. \A l \in DOMAIN lines : lines[l] \in Lines
        BY <3>1
      <4> QED  BY <3>1, <4>1 DEF Lines, ValidLine
    <3>3. seqs \in Seq(Seq(Taxes)) /\ DOMAIN seqs = DOMAIN lines /\ Len(seqs) = Len(lines)
      BY <3>1, <3>2
    <3>4. Len(Subtotals(lines)) = Len(lines) /\ DOMAIN Subtotals(lines) = DOMAIN lines
      BY <3>1 DEF Subtotals
    <3>5. taxes = FlattenSeq(seqs)
      BY DEF TaxesOf
    <3>6. \A l \in DOMAIN lines : seqs[l] = lines[l].taxes
      OBVIOUS
    <3> HIDE DEF seqs, taxes, lines
    <3>7. \A l \in DOMAIN lines : taxes[l] = lines[l].taxes[1]
      <4>1. Len(FlattenSeq(seqs)) = Len(seqs)
        BY <2>3, <2>7, <3>3, <3>4, <3>5
      <4>2. \A l \in DOMAIN seqs : seqs[l] # <<>>
        BY <3>2, <3>3, <3>6
      <4>3. \A l \in DOMAIN seqs : FlattenSeq(seqs)[l] = seqs[l][1]
        BY <3>3, <4>1, <4>2, FlattenOnes
      <4> QED  BY <3>3, <3>5, <3>6, <4>3
    <3>8. DOMAIN taxes = DOMAIN lines
      <4>1. taxes \in Seq(Taxes)
        BY <2>2, TypedTaxes DEF taxes, lines
      <4> QED  BY <2>3, <2>7, <3>1, <3>4, <4>1
    <3>9. \A l \in DOMAIN lines : taxes[l].base = lines[l].subtotal
      <4> TAKE l \in DOMAIN lines
      <4>1. 1 \in DOMAIN lines[l].taxes
        <5>1. \A s \in Seq(Taxes) : s # <<>> => 1 \in DOMAIN s
          OBVIOUS
        <5> QED  BY <3>2, <5>1
      <4>2. ValidTax(lines[l], taxes[l])
        BY <3>1, <3>7, <4>1 DEF ValidLine
      <4> QED  BY <2>5, <3>8, <4>2 DEF ValidTax
    <3>10. Bases(declared) = Subtotals(lines)
      BY <2>3, <3>8, <3>9 DEF Bases, Subtotals
    <3>11. SumFunction([g \in TaxTotals(declared) |-> g.base]) = SumFunction(Bases(declared))
      BY <2>3, GroupsAddUp
    <3>12. SumFunction(Subtotals(lines)) = invoice.subtotal
      BY <2>2 DEF ValidForSri, ValidTotals, lines
    <3> QED  BY <3>10, <3>11, <3>12
  <2> QED  BY <2>4, <2>6, <2>7 DEF GroupsMatchTheirRate
<1> QED  BY <1>1, BuiltInvHolds, PTL

-----------------------------------------------------------------------------
(* A note names the day in Ecuador of the document it modifies, for any day  *)
(* and either source of its date, unless that is a day without a time.       *)
THEOREM NotesNameTheirDay == Spec => []NoteNamesItsDay
<1>1. BuiltInv => NoteNamesItsDay
  <2> SUFFICES ASSUME BuiltInv, xml # Nothing, IsNote(invoice),
                      OriginalIssueDate(invoice)[1] # "day"
               PROVE  xml.modifies = IssueDay
    BY DEF NoteNamesItsDay
  <2> DEFINE date == OriginalIssueDate(invoice)
  <2>1. xml.modifies = SustentoDate(date)
    BY FieldsOfBuild DEF BuiltInv, BuiltFor
  <2>2. date \in {invoice.relatedDate, invoice.originalDate} \ {Nothing}
    BY DEF BuiltInv, BuiltFor, OriginalIssueDate
  <2>3. date \in DateForms \X {IssueDay}
    BY <2>2, InvoicesAssumption DEF BuiltInv
  <2> QED  BY <2>1, <2>3 DEF SustentoDate
<1> QED  BY <1>1, BuiltInvHolds, PTL
=============================================================================
