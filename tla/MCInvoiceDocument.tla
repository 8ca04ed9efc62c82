------------------------- MODULE MCInvoiceDocument --------------------------
(* A small instance: lines around the tolerances, taxes of every fate,       *)
(* buyers identified in every way, invoices of one line and of two; and a    *)
(* plain invoice of an organization whose settings change, with and without  *)
(* an address, a date and a payment of its own.                              *)
EXTENDS InvoiceDocument

Catalog ==
  [t15 |-> "IVA15", t0 |-> "IVA0", tno |-> "NO_OBJETO", t5 |-> "IVA5",
   diff |-> "IVA_DIFERENCIADO", odd |-> "IVA9"]

Tax(id, kind, rate, base, amount) ==
  [id |-> id, kind |-> kind, rate |-> rate, base |-> base, amount |-> amount]

Line(quantity, price, discount, off, taxes) ==
  LET bare == [quantity |-> quantity, unitPrice |-> price, discount |-> discount,
               subtotal |-> 0, taxes |-> <<>>]
      subtotal == ExpectedSubtotal(bare) + off
  IN [bare EXCEPT !.subtotal = subtotal,
        !.taxes = [n \in DOMAIN taxes |->
          LET t == taxes[n]
              base == subtotal + t[4]
          IN Tax(t[1], t[2], t[3], base,
                 ExpectedTax([base |-> base, rate |-> t[3]]) + t[5])]]

(* Each tax: id, kind, rate, what its base has beyond the subtotal, what its *)
(* amount has beyond the rounded one.                                        *)
TaxChoices ==
  {<<"t15", "vat", 15, 0, 0>>, <<"t15", "vat", 15, 0, 1>>, <<"t15", "vat", 15, 0, -2>>,
   <<"t15", "vat", 15, 600, 0>>, <<"t15", "vat", 12, 0, 0>>, <<"t0", "vat", 0, 0, 0>>,
   <<"tno", "vat", 0, 0, 0>>, <<"t5", "vat", 5, 0, -1>>, <<"diff", "vat", 8, 0, 0>>,
   <<"diff", "vat", 15, 0, 0>>, <<"odd", "vat", 9, 0, 0>>, <<"t15", "ice", 15, 0, 0>>,
   <<"t15", "vat", -1, 0, 0>>, <<"gone", "vat", 15, 0, 0>>}

FirstLines ==
  {Line(q, 4000, d, off, <<t>>) :
     q \in {0, 1000, 1333}, d \in {0, 10}, off \in {-1, 0, 2}, t \in TaxChoices}
  \cup {Line(1000, 4000, 0, 0, <<>>)}

SecondLines ==
  {Line(2000, 33, 0, off, <<t>>) : off \in {0, 1}, t \in TaxChoices}

OneLine == {<<>>} \cup {<<a>> : a \in FirstLines}

TwoLines == {<<a, b>> : a \in {l \in FirstLines : ValidLine(l)}, b \in SecondLines}

Customer(identification, coded, typeCode) ==
  [identification |-> identification, coded |-> coded, typeCode |-> typeCode]

Customers ==
  {Customer("absent", FALSE, "none"), Customer("blank", TRUE, "CEDULA"),
   Customer("ten digits", TRUE, "CEDULA"), Customer("ten digits", FALSE, "PASAPORTE"),
   Customer("ten digits", FALSE, "none"),
   Customer("thirteen digits", TRUE, "RUC"), Customer("other", TRUE, "NIT")}

Known == Customer("ten digits", TRUE, "CEDULA")

Day == 10

(* Settings that say something, and others, with a payment that is no code.  *)
FullProfile ==
  [dirMatriz |-> "main", obligado |-> "NO", legends |-> {"rimpe"}, payment |-> "19"]

BadProfile == [NoProfile EXCEPT !.payment = "cash"]

SmallSettings == [bare |-> {}, changing |-> {FullProfile, BadProfile}]

Invoice(lines, customer, extra) ==
  LET subtotal == SumFunction(Subtotals(lines))
      taxTotal == SumFunction(Amounts(TaxesOf(lines))) + extra
  IN [type |-> "01", complete |-> TRUE, organization |-> "bare", address |-> "shop",
      issueDate |-> Day, payment |-> Nothing, customer |-> customer, lines |-> lines,
      subtotal |-> subtotal, taxTotal |-> taxTotal, total |-> subtotal + taxTotal,
      related |-> FALSE, reason |-> FALSE, relatedDate |-> Nothing,
      originalDate |-> Nothing]

SmallInvoices ==
  {Invoice(lines, customer, 0) : lines \in OneLine, customer \in Customers}
  \cup {Invoice(lines, customer, 0) :
          lines \in TwoLines, customer \in {Known, Customer("blank", TRUE, "CEDULA")}}
  \cup {Invoice(lines, Known, 3) : lines \in OneLine \cup TwoLines}

(* Notes of one line or two, among them two of the differentiated VAT, with  *)
(* every way to quote, or not to quote, the document they modify.            *)
Dates == {<<form, Day>> : form \in {"local", "moment", "evening", "day"}}

NoteLines ==
  {<<Line(1000, 4000, d, 0, <<t>>)>> : d \in {0, 10}, t \in TaxChoices}
  \cup {<<Line(1000, 4000, 0, 0, <<a>>), Line(2000, 33, 0, 0, <<b>>)>> :
          a \in TaxChoices, b \in TaxChoices}

Note(type, lines, related, reason, relatedDate, originalDate) ==
  [Invoice(lines, Known, 0) EXCEPT
     !.type = type, !.related = related, !.reason = reason,
     !.relatedDate = relatedDate, !.originalDate = originalDate]

SmallNotes ==
  {Note(type, lines, TRUE, TRUE, <<"evening", Day>>, Nothing) :
     type \in {"04", "05"}, lines \in NoteLines}
  \cup {Note(type, <<Line(1000, 4000, 0, 0, <<<<"t15", "vat", 15, 0, 0>>>>)>>,
              related, reason, relatedDate, originalDate) :
           type \in {"04", "05"}, related \in BOOLEAN, reason \in BOOLEAN,
           relatedDate \in Dates \cup {Nothing},
           originalDate \in {Nothing, <<"moment", Day>>, <<"evening", Day>>}}

(* One line, or a credit or debit note of it, tried again over two days      *)
(* while the settings of the issuer change or cannot be read.                *)
SmallRetried ==
  {[Note(type, <<Line(1000, 4000, 0, 0, <<tax>>)>>, TRUE, TRUE, <<"local", Day>>, Nothing)
      EXCEPT !.organization = "changing", !.address = address, !.issueDate = issueDate,
             !.payment = payment, !.customer = customer] :
     type \in {"01", "04", "05"},
     tax \in {<<"t15", "vat", 15, 0, 0>>, <<"diff", "vat", 15, 0, 0>>},
     address \in {Nothing, "shop"}, issueDate \in {Nothing, Day},
     payment \in {Nothing, "20", "cash"},
     customer \in {Known, Customer("ten digits", FALSE, "PASAPORTE")}}

SmallDocuments == SmallInvoices \cup SmallNotes \cup SmallRetried
=============================================================================
