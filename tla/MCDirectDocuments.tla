------------------------- MODULE MCDirectDocuments --------------------------
(* A small instance: the last day of a month and the first of the next, a    *)
(* day of another century on each side; supports that add up and one that    *)
(* does not, lines of bases and rates around the limits, and bodies that     *)
(* each layer has something to say about.                                    *)
EXTENDS DirectDocuments

Tax(code, amount) == [code |-> code, amount |-> amount]

SmallSupports ==
  { [subtotal |-> 100, total |-> 118, taxes |-> <<Tax("2", 15), Tax("3", 3)>>],
    [subtotal |-> 7,   total |-> 8,   taxes |-> <<Tax("2", 1), Tax("2", 0)>>],
    [subtotal |-> 100, total |-> 100, taxes |-> <<Tax("2", 15)>>] }

SmallLines ==
  [tax : Taxes, base : {0, 3, 15, 118},
   rate : {-10, 0, 1750, 2755, 12500, 12550, 50000, 100000, 100010}]

SmallCalendar ==
  [day \in 1 .. 6 |->
     CASE day = 1 -> <<1999, 12>> [] day \in {2, 3} -> <<2026, 1>>
       [] day \in {4, 5} -> <<2026, 2>> [] day = 6 -> <<2100, 1>>]

SmallPairs ==
  LET lines == [tax : Taxes, base : {3, 15, 118}, rate : {1750, 12500, 100000}]
  IN {<<a, b>> : a \in lines, b \in lines}

DirectRequests == {<<>>} \cup { <<a>> : a \in SmallLines } \cup SmallPairs

(* A document that is not taxed at all as well.                              *)
DirectSupports == SmallSupports \cup {[subtotal |-> 7, total |-> 7, taxes |-> <<>>]}

Withholding(support, lines, numbered, payment, identified, address, period, supportDay) ==
  [support |-> support, lines |-> lines, numbered |-> numbered, payment |-> payment,
   identified |-> identified, address |-> address, period |-> period,
   supportDay |-> supportDay]

PlainSupport == CHOOSE s \in SmallSupports : s.subtotal = 100 /\ SupportAddsUp(s)

PlainLines == <<[tax |-> "income", base |-> 15, rate |-> 1750]>>

SmallWithholdings ==
  {Withholding(support, lines, TRUE, TRUE, TRUE, TRUE, Nothing, 3) :
     support \in DirectSupports, lines \in DirectRequests}
  \cup
  {Withholding(PlainSupport, PlainLines, numbered, payment, identified, address,
               period, supportDay) :
     numbered \in BOOLEAN, payment \in BOOLEAN, identified \in BOOLEAN,
     address \in BOOLEAN,
     period \in {Nothing, <<2026, 1>>, <<2026, 13>>, <<1999, 12>>}, supportDay \in 1 .. 4}

Goods == {<<>>, <<0>>, <<4>>, <<16, 10000000>>}

SupportChoices == {Nothing} \cup [numbered : BOOLEAN, day : {1, 3}]

RecipientChoices == [items : Goods, support : SupportChoices]

SmallGuides ==
  [identified : BOOLEAN, address : BOOLEAN, origin : BOOLEAN,
   start : {3, 4, 6}, end : {3, 4, 6},
   recipients : {<<>>} \cup {<<r>> : r \in RecipientChoices}]
  \cup
  [identified : {TRUE}, address : {TRUE}, origin : {FALSE}, start : {4}, end : {4},
   recipients : {<<r, s>> : r \in RecipientChoices, s \in RecipientChoices}]
=============================================================================
