----------------------- MODULE DirectDocuments_proofs -----------------------
(* What DirectDocuments adds to Withholdings leaves its amounts alone, and   *)
(* what the request was checked for is still so at each attempt.  The number *)
(* it is given is the next one (the last section, about DirectNumbering).    *)
EXTENDS DirectDocuments, DirectNumbering, FoldTheorems

-----------------------------------------------------------------------------
(* The amounts: Withholdings by itself, for every base, rate and request.    *)

\* Withholding at no more than 100 % gives the nearest cent, never above the
\* base.  The product of base and rate is the only quantity that matters.
LEMMA NearestCent ==
  ASSUME NEW base \in Nat, NEW rate \in Int, 0 <= rate, rate <= FullRate
  PROVE  /\ WithheldAmount(base, rate) \in Nat
         /\ WithheldAmount(base, rate) <= base
         /\ IsNearest(WithheldAmount(base, rate), base, rate)
<1> DEFINE h == Hundredths(rate)
           exact == base * h
           amount == (exact + 5000) \div 10000
<1>1. h \in Nat /\ h <= 10000
  BY DEF Hundredths, FullRate
<1>2. exact \in Nat /\ exact <= base * 10000
  <2> HIDE DEF h
  <2>1. exact \in Nat
    BY <1>1
  <2>2. base * (10000 - h) >= 0
    BY <1>1
  <2>3. base * (10000 - h) = base * 10000 - exact
    BY <1>1
  <2> HIDE DEF exact
  <2> QED  BY <2>1, <2>2, <2>3
<1> HIDE DEF exact
<1>3. amount \in Nat /\ amount <= base /\ 10000 * amount - exact \in (-4999) .. 5000
  BY <1>2
<1>4. WithheldAmount(base, rate) = amount /\ base * Hundredths(rate) = exact
  BY DEF exact, WithheldAmount
<1> HIDE DEF amount
<1> QED  BY <1>3, <1>4 DEF IsNearest

\* A valid request has typed lines whose rates the lemma covers.
LEMMA ValidLines ==
  ASSUME NEW support \in Supports, NEW lines \in Requests, Valid(support, lines),
         NEW i \in DOMAIN lines
  PROVE  /\ lines[i] \in RequestLines
         /\ 0 <= lines[i].rate /\ lines[i].rate <= FullRate
         /\ lines[i].base <= Ceiling(support, lines[i].tax)
<1>1. lines[i] \in RequestLines
  BY WithholdingsAssumption
<1>2. ValidLine(support, lines[i])
  BY DEF Valid
<1> QED  BY <1>1, <1>2 DEF ValidLine, ValidRate

\* The lines computed are those asked for, each with its amount.
LEMMA ComputedLines ==
  ASSUME NEW support \in Supports, NEW lines \in Requests, Valid(support, lines)
  PROVE  LET computed == ComputeWithholdings(support, lines)
         IN /\ computed.support = support
            /\ computed.lines \in Seq(WithholdingLines)
            /\ DOMAIN computed.lines = DOMAIN lines
            /\ \A i \in DOMAIN lines : computed.lines[i] = Withheld(lines[i])
<1> DEFINE withheld == [i \in DOMAIN lines |-> Withheld(lines[i])]
<1>1. lines \in Seq(RequestLines)
  BY WithholdingsAssumption
<1>2. ASSUME NEW i \in DOMAIN lines PROVE Withheld(lines[i]) \in WithholdingLines
  <2>1. lines[i] \in RequestLines
    BY <1>2, ValidLines
  <2>2. lines[i].base \in Nat /\ lines[i].rate \in Int /\ lines[i].tax \in Taxes
    BY <2>1 DEF RequestLines
  <2>3. 0 <= lines[i].rate /\ lines[i].rate <= FullRate
    BY <1>2, ValidLines
  <2>4. WithheldAmount(lines[i].base, lines[i].rate) \in Nat
    BY <2>2, <2>3, NearestCent
  <2> QED  BY <2>2, <2>4 DEF Withheld, WithholdingLines
<1>3. withheld \in Seq(WithholdingLines)
  <2>1. DOMAIN lines = 1 .. Len(lines) /\ Len(lines) \in Nat
    BY <1>1
  <2> QED  BY <1>2, <2>1
<1> HIDE DEF withheld
<1>4. ComputeWithholdings(support, lines) =
        [support |-> support, lines |-> withheld, total |-> SumFunction(AmountsOf(withheld))]
  BY DEF ComputeWithholdings, withheld
<1> QED  BY <1>3, <1>4 DEF withheld

\* What holds of the document and of nothing else.
DocumentIsSound ==
  document # Nothing =>
    /\ document.support \in Supports
    /\ document.lines \in Seq(WithholdingLines)
    /\ \A i \in DOMAIN document.lines :
         LET line == document.lines[i]
         IN /\ ValidRate(line.rate)
            /\ line.base <= Ceiling(document.support, line.tax)
            /\ line.amount = WithheldAmount(line.base, line.rate)

\* An issued document is sound.
LEMMA IssuedIsSound ==
  ASSUME NEW support \in Supports, NEW lines \in Requests,
         IssueWithholding(support, lines)
  PROVE  DocumentIsSound'
<1> DEFINE computed == ComputeWithholdings(support, lines)
<1>1. document' = computed
  BY DEF IssueWithholding
<1>2. Valid(support, lines)
  BY DEF IssueWithholding
<1>3. /\ computed.support = support
      /\ computed.lines \in Seq(WithholdingLines)
      /\ DOMAIN computed.lines = DOMAIN lines
      /\ \A i \in DOMAIN lines : computed.lines[i] = Withheld(lines[i])
  BY <1>2, ComputedLines
<1> HIDE DEF computed
<1>4. ASSUME NEW i \in DOMAIN lines
      PROVE  LET line == computed.lines[i]
             IN /\ ValidRate(line.rate)
                /\ line.base <= Ceiling(support, line.tax)
                /\ line.amount = WithheldAmount(line.base, line.rate)
  <2>1. computed.lines[i] = Withheld(lines[i])
    BY <1>3
  <2>2. ValidRate(lines[i].rate) /\ lines[i].base <= Ceiling(support, lines[i].tax)
    BY <1>2 DEF Valid, ValidLine
  <2> QED  BY <2>1, <2>2 DEF Withheld
<1> QED  BY <1>1, <1>3, <1>4 DEF DocumentIsSound

\* The inductive invariant: the typing and the soundness of the document.
LEMMA SoundAlways == Spec => [](TypeOK /\ DocumentIsSound)
<1>1. Init => TypeOK /\ DocumentIsSound
  BY DEF Init, TypeOK, DocumentIsSound
<1>2. TypeOK /\ DocumentIsSound /\ [Next]_vars => (TypeOK /\ DocumentIsSound)'
  <2> SUFFICES ASSUME TypeOK, DocumentIsSound, [Next]_vars
               PROVE  (TypeOK /\ DocumentIsSound)'
    OBVIOUS
  <2>1. ASSUME NEW support \in Supports, NEW lines \in Requests,
               IssueWithholding(support, lines)
        PROVE  (TypeOK /\ DocumentIsSound)'
    <3>1. DocumentIsSound'
      BY <2>1, IssuedIsSound
    <3>2. refused' = FALSE /\ event' = event /\ document = Nothing
      BY <2>1 DEF IssueWithholding
    <3> QED  BY <3>1, <3>2 DEF TypeOK, DocumentIsSound
  <2>2. CASE Refuse
    BY <2>2 DEF Refuse, TypeOK, DocumentIsSound
  <2>3. CASE Announce
    BY <2>3 DEF Announce, TypeOK, DocumentIsSound
  <2>4. CASE UNCHANGED vars
    BY <2>4 DEF vars, TypeOK, DocumentIsSound
  <2> QED  BY <2>1, <2>2, <2>3, <2>4 DEF Next
<1> QED  BY <1>1, <1>2, PTL DEF Spec

\* A stored withholding is well typed, and a request that was answered with
\* an error stored nothing.
THEOREM WithholdingTypes == Spec => []TypeOK
  BY SoundAlways, PTL

\* Each line withholds the nearest cent and no more than its base, which is
\* no more than its part of the document: computeWithholdings for every
\* document and every list of lines.
THEOREM EveryLineIsDue == Spec => []WithheldIsDue
<1>1. DocumentIsSound => WithheldIsDue
  <2> SUFFICES ASSUME DocumentIsSound, document # Nothing,
                      NEW i \in DOMAIN document.lines
               PROVE  IsDue(document.support, document.lines[i])
    BY DEF WithheldIsDue
  <2> DEFINE line == document.lines[i]
             amount == WithheldAmount(line.base, line.rate)
  <2>1. line \in WithholdingLines
    BY DEF DocumentIsSound
  <2>2. /\ ValidRate(line.rate)
        /\ line.base <= Ceiling(document.support, line.tax)
        /\ line.amount = amount
    BY DEF DocumentIsSound
  <2>3. line.base \in Nat /\ line.rate \in Int
    BY <2>1 DEF WithholdingLines
  <2>4. 0 <= line.rate /\ line.rate <= FullRate
    BY <2>2 DEF ValidRate
  <2> HIDE DEF line
  <2>5. /\ amount <= line.base
        /\ IsNearest(amount, line.base, line.rate)
    BY <2>3, <2>4, NearestCent
  <2> HIDE DEF amount
  <2>6. IsDue(document.support, line)
    BY <2>2, <2>5 DEF IsDue
  <2> QED  BY <2>6 DEF line
<1> QED  BY <1>1, SoundAlways, PTL

\* Every rate in a stored withholding has at most three digits.
THEOREM EveryRateFits == Spec => []RatesFitTheXml
<1>1. ASSUME NEW rate \in Int, ValidRate(rate) PROVE ThreeDigits(rate)
  <2>1. 0 <= rate /\ rate <= 100000 /\ rate % 10 = 0
    BY <1>1 DEF ValidRate, FullRate
  <2>2. CASE rate < 10000
    <3>1. rate \div 10 \in 0 .. 999
      BY <2>1, <2>2, SMTT(30)
    <3>2. rate = (rate \div 10) * 10
      BY <2>1, SMTT(30)
    <3> QED  BY <3>1, <3>2 DEF ThreeDigits
  <2>3. CASE rate >= 10000 /\ rate < 100000
    <3>1. (rate \div 10) % 10 = 0
      <4>1. rate \div 10 >= 1000
        BY <2>1, <2>3
      <4> QED  BY <1>1, <4>1 DEF ValidRate, Hundredths
    <3>2. rate \div 100 \in 0 .. 999 /\ rate = (rate \div 100) * 100
      BY <2>1, <2>3, <3>1
    <3> QED  BY <3>2 DEF ThreeDigits
  <2>4. CASE rate = 100000
    <3>1. 100 \in 0 .. 999 /\ rate = 100 * 1000
      BY <2>4
    <3> QED  BY <3>1 DEF ThreeDigits
  <2> QED  BY <2>1, <2>2, <2>3, <2>4
<1>2. DocumentIsSound => RatesFitTheXml
  <2> SUFFICES ASSUME DocumentIsSound, document # Nothing,
                      NEW i \in DOMAIN document.lines
               PROVE  ThreeDigits(document.lines[i].rate)
    BY DEF RatesFitTheXml
  <2>1. document.lines[i] \in WithholdingLines
    BY DEF DocumentIsSound
  <2>2. ValidRate(document.lines[i].rate)
    BY DEF DocumentIsSound
  <2>3. document.lines[i].rate \in Int
    BY <2>1 DEF WithholdingLines
  <2> QED  BY <1>1, <2>2, <2>3
<1> QED  BY <1>2, SoundAlways, PTL

\* The lines of a payload split by tax: whatever their number, the three sums
\* make the sum of all, since each line has one tax and there are no others.
LEMMA TaxesPartitionLines ==
  ASSUME NEW payload, payload.lines \in Seq(WithholdingLines)
  PROVE  OfTax(payload, "income") + OfTax(payload, "vat") + OfTax(payload, "isd")
           = SumFunction(AmountsOf(payload.lines))
<1> DEFINE lines == payload.lines
           places == DOMAIN lines
           amounts == AmountsOf(lines)
           part == [tax \in Taxes |-> {i \in places : lines[i].tax = tax}]
           byTax == [tax \in Taxes |-> OfTax(payload, tax)]
           total(taxes) == SumFunctionOnSet(byTax, taxes)
<1>1. IsFiniteSet(places)
  <2>1. places = 1 .. Len(lines) /\ Len(lines) \in Nat
    OBVIOUS
  <2> QED  BY <2>1, FS_Interval
<1>2. \A i \in places : amounts[i] \in Int /\ lines[i].tax \in Taxes
  <2>1. \A i \in places : lines[i] \in WithholdingLines
    OBVIOUS
  <2> QED  BY <2>1 DEF AmountsOf, WithholdingLines
<1>3. /\ \A tax \in Taxes : part[tax] \subseteq places
      /\ \A i \in places : \E tax \in Taxes : i \in part[tax]
      /\ \A a, b \in Taxes : \A i \in places : i \in part[a] /\ i \in part[b] => a = b
      /\ \A tax \in Taxes : byTax[tax] = SumFunctionOnSet(amounts, part[tax])
  BY <1>2 DEF OfTax
<1>4. \A tax \in Taxes : byTax[tax] \in Int
  <2> TAKE tax \in Taxes
  <2>1. IsFiniteSet(part[tax]) /\ \A i \in part[tax] : amounts[i] \in Int
    BY <1>1, <1>2, <1>3, FS_Subset
  <2> HIDE DEF amounts, byTax, part, places
  <2> QED  BY <1>3, <2>1, SumType
<1>5. IsFiniteSet(Taxes)
  <2>1. Taxes = ({"income"} \cup {"vat"}) \cup {"isd"}
    BY DEF Taxes
  <2> QED  BY <2>1, FS_Singleton, FS_Union
<1>6. total(Taxes) = SumFunctionOnSet(amounts, places)
  <2>1. \A i \in places : amounts[i] \in Int
    BY <1>2
  <2> HIDE DEF amounts, byTax, part, places
  <2> QED  BY <1>1, <1>3, <1>5, <2>1, SumByPart
<1>7. total(Taxes) = byTax["income"] + byTax["vat"] + byTax["isd"]
  <2>1. Taxes \ {"isd"} = {"income", "vat"} /\ {"income", "vat"} \ {"vat"} = {"income"}
        /\ {"income"} \ {"income"} = {}
    BY DEF Taxes
  <2>2. \A taxes \in SUBSET Taxes : IsFiniteSet(taxes) /\ \A tax \in taxes : byTax[tax] \in Int
    BY <1>4, <1>5, FS_Subset
  <2> HIDE DEF byTax
  <2>3. \A taxes \in SUBSET Taxes : \A tax \in taxes :
          total(taxes) = total(taxes \ {tax}) + byTax[tax]
    BY <2>2, SumOneMore
  <2>4. total({}) = 0
    BY SumEmpty
  <2> HIDE DEF total
  <2>5. total(Taxes) = total({"income", "vat"}) + byTax["isd"]
    BY <2>1, <2>3 DEF Taxes
  <2>6. total({"income", "vat"}) = total({"income"}) + byTax["vat"]
    BY <2>1, <2>3 DEF Taxes
  <2>7. total({"income"}) = total({}) + byTax["income"]
    BY <2>1, <2>3 DEF Taxes
  <2>8. {byTax["income"], byTax["vat"], byTax["isd"]} \subseteq Int
    BY <1>4 DEF Taxes
  <2> QED  BY <2>4, <2>5, <2>6, <2>7, <2>8
<1>8. SumFunction(amounts) = SumFunctionOnSet(amounts, places)
  BY DEF SumFunction, AmountsOf
<1> QED  BY <1>6, <1>7, <1>8 DEF Taxes

\* The total that was stored is that of the lines, and the event is made of
\* the document and of nothing else, which does not change any more.
EventFollows ==
  /\ document # Nothing => document.total = SumFunction(AmountsOf(document.lines))
  /\ event # Nothing => document # Nothing /\ event = IssuedPayload(document)

\* So it is in every reachable state.
LEMMA EventAlwaysFollows == Spec => []EventFollows
<1>1. Init => EventFollows
  BY DEF Init, EventFollows
<1>2. EventFollows /\ [Next]_vars => EventFollows'
  <2> SUFFICES ASSUME EventFollows, [Next]_vars PROVE EventFollows'
    OBVIOUS
  <2>1. ASSUME NEW support \in Supports, NEW lines \in Requests,
               IssueWithholding(support, lines)
        PROVE  EventFollows'
    <3>1. document' = ComputeWithholdings(support, lines)
      BY <2>1 DEF IssueWithholding
    <3>2. document'.total = SumFunction(AmountsOf(document'.lines))
      BY <3>1 DEF ComputeWithholdings
    <3>3. event' = Nothing
      BY <2>1 DEF IssueWithholding, EventFollows
    <3> QED  BY <3>2, <3>3 DEF EventFollows
  <2>2. CASE Refuse
    BY <2>2 DEF Refuse, EventFollows, IssuedPayload
  <2>3. CASE Announce
    BY <2>3 DEF Announce, EventFollows, IssuedPayload
  <2>4. CASE UNCHANGED vars
    BY <2>4 DEF vars, EventFollows
  <2> QED  BY <2>1, <2>2, <2>3, <2>4 DEF Next
<1> QED  BY <1>1, <1>2, PTL DEF Spec

\* What accounting books by tax is the total of the document, for any lines.
THEOREM EventAddsUp == Spec => []EventBalances
<1>1. DocumentIsSound /\ EventFollows => EventBalances
  <2> SUFFICES ASSUME DocumentIsSound, EventFollows, event # Nothing
               PROVE  event.incomeTax + event.vat + event.isd = event.total
    BY DEF EventBalances
  <2>1. document # Nothing /\ event = IssuedPayload(document)
    BY DEF EventFollows
  <2>2. document.lines \in Seq(WithholdingLines)
        /\ document.total = SumFunction(AmountsOf(document.lines))
    BY <2>1 DEF DocumentIsSound, EventFollows
  <2>3. /\ event.incomeTax = OfTax(document, "income")
        /\ event.vat = OfTax(document, "vat")
        /\ event.isd = OfTax(document, "isd")
        /\ event.total = document.total
    BY <2>1 DEF IssuedPayload
  <2> QED  BY <2>2, <2>3, TaxesPartitionLines
<1> QED  BY <1>1, SoundAlways, EventAlwaysFollows, PTL

-----------------------------------------------------------------------------
(* The whole.                                                                *)

\* Every step of the whole is a step of Withholdings, or leaves its state
\* alone: the dates and the clock decide when amounts are computed, not how.
THEOREM DirectImplementsWithholdings == DirectSpec => Spec
<1>1. DirectInit => Init
  BY DEF DirectInit
<1>2. [DirectNext]_directVars => [Next]_vars
  <2> SUFFICES ASSUME [DirectNext]_directVars PROVE [Next]_vars
    OBVIOUS
  <2>1. ASSUME NEW body \in WithholdingBodies, NumberWithholding(body) PROVE Next
    <3>1. body.support \in Supports /\ body.lines \in Requests
      BY DirectAssumption
    <3>2. IssueWithholding(body.support, body.lines)
      BY <2>1 DEF NumberWithholding
    <3> QED  BY <3>1, <3>2 DEF Next
  <2>2. ASSUME NEW body \in GuideBodies, NumberGuide(body) PROVE UNCHANGED vars
    BY <2>2 DEF NumberGuide, vars
  <2>3. CASE RefuseBody
    BY <2>3 DEF RefuseBody, Next
  <2>4. CASE AttemptBuilds \/ AttemptFails \/ TimePasses \/ ProfileChanges
    BY <2>4 DEF AttemptBuilds, AttemptFails, TimePasses, ProfileChanges, vars
  <2>5. CASE Authorized
    BY <2>5 DEF Authorized, Next
  <2>6. CASE UNCHANGED directVars
    BY <2>6 DEF directVars, vars
  <2> QED  BY <2>1, <2>2, <2>3, <2>4, <2>5, <2>6 DEF DirectNext
<1> QED  BY <1>1, <1>2, PTL DEF DirectSpec, Spec

\* Each line of a withholding that went through all the layers is due.
THEOREM DirectLinesAreDue == DirectSpec => []WithheldIsDue
  BY DirectImplementsWithholdings, EveryLineIsDue, PTL

\* ... what accounting gets of it adds up ...
THEOREM DirectEventAddsUp == DirectSpec => []EventBalances
  BY DirectImplementsWithholdings, EventAddsUp, PTL

\* ... and each of its rates fits the XML.
THEOREM DirectRatesFit == DirectSpec => []RatesFitTheXml
  BY DirectImplementsWithholdings, EveryRateFits, PTL

-----------------------------------------------------------------------------
\* What a stored payload was checked for, by one layer or another.
WithholdingIsSound ==
  /\ stored.type = "07"
  /\ stored.numbered /\ stored.payment
  /\ PeriodStands(stored.period)
  /\ document.lines # <<>> /\ document.support.taxes # <<>>
  /\ stored.supportDay <= stored.issued[1]
  /\ stored.ownPeriod => stored.period = Calendar[stored.issued[1]]

GuideIsSound ==
  /\ stored.type = "06"
  /\ stored.recipients # <<>>
  /\ \A i \in DOMAIN stored.recipients :
       /\ stored.recipients[i].items # <<>>
       /\ Quotes(stored.recipients[i]) => stored.recipients[i].support.numbered
  /\ stored.issued[1] <= stored.start
  /\ stored.start <= stored.end

ErrorIsExplained ==
  lastError # "none" =>
    /\ stored # Nothing
    /\ lastError \in {"address", "year"}
    /\ lastError = "address" => ~ stored.address

\* The inductive invariant: the payload is sound from the moment it is stored,
\* it never changes, and the XML is always that of the payload.
DirectInv ==
  /\ now[1] \in FirstDay .. LastDay
  /\ stored # Nothing => WithholdingIsSound \/ GuideIsSound
  /\ xml # Nothing => stored # Nothing /\ xml = Xml(stored)
  /\ ErrorIsExplained

\* A withholding that is stored is sound.
LEMMA NumberedWithholdingIsSound ==
  ASSUME NEW body \in WithholdingBodies, NumberWithholding(body),
         now[1] \in FirstDay .. LastDay
  PROVE  WithholdingIsSound'
<1>1. /\ body.support \in Supports /\ body.lines \in Requests
      /\ Valid(body.support, body.lines)
      /\ document' = ComputeWithholdings(body.support, body.lines)
  BY DirectAssumption DEF NumberWithholding, IssueWithholding
<1>2. /\ document'.support = body.support
      /\ DOMAIN document'.lines = DOMAIN body.lines
  BY <1>1, ComputedLines
<1>3. document'.lines # <<>>
  <2>1. body.lines \in Seq(RequestLines) /\ body.lines # <<>>
    BY <1>1, WithholdingsAssumption DEF Valid
  <2>a. ASSUME NEW s \in Seq(RequestLines), s # <<>> PROVE DOMAIN s # {}
    <3>1. Len(s) \in Nat /\ Len(s) # 0 /\ DOMAIN s = 1 .. Len(s)
      BY <2>a
    <3>2. 1 \in 1 .. Len(s)
      BY <3>1
    <3> QED  BY <3>1, <3>2
  <2>2. DOMAIN body.lines # {}
    BY <2>1, <2>a
  <2> QED  BY <1>2, <2>2
<1>4. /\ stored' = WithholdingPayload(body, now)
      /\ WithholdingSchema(body) /\ WithholdingChecks(body, now[1])
  BY DEF NumberWithholding, EcuadorToday
<1>5. PeriodStands(FiscalPeriod(body, now[1]))
  <2>1. CASE body.period = Nothing
    BY <2>1, DirectAssumption DEF FiscalPeriod, PeriodStands
  <2>2. CASE body.period # Nothing
    BY <2>2, <1>4 DEF FiscalPeriod, PeriodStands, WithholdingSchema, PeriodSchema
  <2> QED  BY <2>1, <2>2
<1>6. /\ stored'.type = "07" /\ stored'.numbered = body.numbered
      /\ stored'.payment = body.payment /\ stored'.period = FiscalPeriod(body, now[1])
      /\ stored'.supportDay = body.supportDay /\ stored'.issued = now
      /\ stored'.ownPeriod = (body.period = Nothing)
  BY <1>4 DEF WithholdingPayload, EcuadorToday
<1>7. body.numbered /\ body.payment /\ body.supportDay <= now[1]
      /\ body.support.taxes # <<>>
  BY <1>4 DEF WithholdingSchema, WithholdingChecks
<1>8. stored'.ownPeriod => stored'.period = Calendar[stored'.issued[1]]
  BY <1>6 DEF FiscalPeriod
<1> QED  BY <1>2, <1>3, <1>5, <1>6, <1>7, <1>8 DEF WithholdingIsSound, PeriodStands, InCentury

\* So is a guide.
LEMMA NumberedGuideIsSound ==
  ASSUME NEW body \in GuideBodies, NumberGuide(body)
  PROVE  GuideIsSound'
<1>1. /\ stored' = GuidePayload(body, now)
      /\ GuideSchema(body) /\ GuideChecks(body, now[1])
  BY DEF NumberGuide, EcuadorToday
<1>2. /\ stored'.type = "06" /\ stored'.recipients = body.recipients
      /\ stored'.start = body.start /\ stored'.end = body.end /\ stored'.issued = now
  BY <1>1 DEF GuidePayload
<1>3. /\ body.recipients # <<>>
      /\ \A i \in DOMAIN body.recipients :
           /\ body.recipients[i].items # <<>>
           /\ Quotes(body.recipients[i]) => body.recipients[i].support.numbered
      /\ now[1] <= body.start /\ body.start <= body.end
  BY <1>1 DEF GuideChecks
<1> QED  BY <1>2, <1>3 DEF GuideIsSound, Quotes

\* A sound payload fails for want of an address or for a year, and nothing else.
LEMMA SoundProblems ==
  ASSUME stored # Nothing, WithholdingIsSound \/ GuideIsSound
  PROVE  /\ Problems(stored) \subseteq {"address", "year"}
         /\ "address" \in Problems(stored) => ~ stored.address
<1>1. CASE WithholdingIsSound
  <2>1. Problems(stored) = WithholdingProblems(stored)
    BY <1>1 DEF Problems, WithholdingIsSound
  <2>2. \A problem \in WithholdingProblems(stored) :
          /\ problem \in {"address", "year"}
          /\ problem = "address" => ~ HasDirMatriz(stored)
    BY <1>1 DEF WithholdingProblems, WithholdingIsSound
  <2> QED  BY <2>1, <2>2 DEF HasDirMatriz
<1>2. CASE GuideIsSound
  <2>1. Problems(stored) = GuideProblems(stored)
    BY <1>2 DEF Problems, GuideIsSound
  <2>2. \A problem \in GuideProblems(stored) :
          /\ problem \in {"address", "year"}
          /\ problem = "address" => ~ HasDirMatriz(stored)
    BY <1>2 DEF GuideProblems, GuideIsSound
  <2> QED  BY <2>1, <2>2 DEF HasDirMatriz
<1> QED  BY <1>1, <1>2

\* The invariant of the dates and of the data holds in every reachable state.
LEMMA DirectInvHolds == DirectSpec => []DirectInv
<1>1. DirectInit => DirectInv
  <2> SUFFICES ASSUME DirectInit PROVE DirectInv
    OBVIOUS
  <2>1. now[1] = FirstDay
    BY DEF DirectInit
  <2> QED  BY <2>1, DirectAssumption DEF DirectInit, DirectInv, ErrorIsExplained
<1>2. DirectInv /\ [DirectNext]_directVars => DirectInv'
  <2> SUFFICES ASSUME DirectInv, [DirectNext]_directVars PROVE DirectInv'
    OBVIOUS
  <2>a. ASSUME UNCHANGED <<document, stored, xml, lastError>>,
               now'[1] \in FirstDay .. LastDay
        PROVE  DirectInv'
    BY <2>a DEF DirectInv, ErrorIsExplained, WithholdingIsSound, GuideIsSound, Xml,
                WithholdingXml, GuideXml
  <2>1. ASSUME NEW body \in WithholdingBodies, NumberWithholding(body) PROVE DirectInv'
    <3>1. WithholdingIsSound'
      BY <2>1, NumberedWithholdingIsSound DEF DirectInv
    <3>2. stored = Nothing /\ xml = Nothing /\ lastError = "none"
      BY <2>1 DEF NumberWithholding, DirectInv, ErrorIsExplained
    <3>3. UNCHANGED <<now, xml, lastError>>
      BY <2>1 DEF NumberWithholding
    <3> QED  BY <3>1, <3>2, <3>3 DEF DirectInv, ErrorIsExplained
  <2>2. ASSUME NEW body \in GuideBodies, NumberGuide(body) PROVE DirectInv'
    <3>1. GuideIsSound'
      BY <2>2, NumberedGuideIsSound
    <3>2. stored = Nothing /\ xml = Nothing /\ lastError = "none"
      BY <2>2 DEF NumberGuide, DirectInv, ErrorIsExplained
    <3>3. UNCHANGED <<now, xml, lastError>>
      BY <2>2 DEF NumberGuide
    <3> QED  BY <3>1, <3>2, <3>3 DEF DirectInv, ErrorIsExplained
  <2>3. CASE RefuseBody
    BY <2>3, <2>a DEF RefuseBody, Refuse, DirectInv
  <2>4. CASE AttemptBuilds
    <3>1. xml' = Xml(stored) /\ lastError' = "none" /\ stored # Nothing
          /\ UNCHANGED <<document, now, stored>>
      BY <2>4 DEF AttemptBuilds
    <3> QED  BY <3>1 DEF DirectInv, ErrorIsExplained, WithholdingIsSound, GuideIsSound,
                         Xml, WithholdingXml, GuideXml
  <2>5. CASE AttemptFails
    <3>1. lastError' \in Problems(stored) /\ stored # Nothing
          /\ UNCHANGED <<document, now, stored, xml>>
      BY <2>5 DEF AttemptFails
    <3>2. /\ lastError' \in {"address", "year"}
          /\ lastError' = "address" => ~ stored.address
      BY <3>1, SoundProblems DEF DirectInv
    <3> QED  BY <3>1, <3>2 DEF DirectInv, ErrorIsExplained, WithholdingIsSound,
                               GuideIsSound, Xml, WithholdingXml, GuideXml
  <2>6. CASE Authorized
    BY <2>6, <2>a DEF Authorized, Announce, DirectInv
  <2>7. CASE TimePasses
    <3>1. now'[1] \in FirstDay .. LastDay
      BY <2>7, DirectAssumption DEF TimePasses, DirectInv
    <3> QED  BY <2>7, <3>1, <2>a DEF TimePasses
  <2>8. CASE ProfileChanges
    BY <2>8, <2>a DEF ProfileChanges, DirectInv
  <2>9. CASE UNCHANGED directVars
    BY <2>9, <2>a DEF directVars, DirectInv
  <2> QED
    BY <2>1, <2>2, <2>3, <2>4, <2>5, <2>6, <2>7, <2>8, <2>9 DEF DirectNext
<1> QED  BY <1>1, <1>2, PTL DEF DirectSpec

\* No data of an accepted request but a year outside this century, and no lack
\* but that of an address, keeps the builders from building it, ever.
THEOREM AcceptedIsBuilt == DirectSpec => []AcceptedCanBeBuilt
<1>1. DirectInv => AcceptedCanBeBuilt
  BY DEF DirectInv, ErrorIsExplained, AcceptedCanBeBuilt
<1> QED  BY <1>1, DirectInvHolds, PTL

\* The dates of a document stand by the day it was asked for, however late it
\* is built.
THEOREM DatesStand == DirectSpec => []DatesStandAtIssue
<1>1. DirectInv => DatesStandAtIssue
  <2> SUFFICES ASSUME DirectInv, xml # Nothing PROVE DatesStandAtIssue
    BY DEF DatesStandAtIssue
  <2>1. stored # Nothing /\ xml = Xml(stored) /\ (WithholdingIsSound \/ GuideIsSound)
    BY DEF DirectInv
  <2>2. CASE WithholdingIsSound
    <3>1. xml = WithholdingXml(stored)
      BY <2>1, <2>2 DEF WithholdingIsSound, Xml
    <3>2. /\ xml.type = "07" /\ xml.issueDay = stored.issued[1]
          /\ xml.supportDay = stored.supportDay /\ xml.period = stored.period
      BY <3>1 DEF WithholdingXml, SriDate
    <3> QED  BY <2>2, <3>2 DEF WithholdingIsSound, DatesStandAtIssue
  <2>3. CASE GuideIsSound
    <3>1. xml = GuideXml(stored)
      BY <2>1, <2>3 DEF GuideIsSound, Xml
    <3>2. /\ xml.type = "06" /\ xml.issueDay = stored.issued[1]
          /\ xml.start = stored.start /\ xml.end = stored.end
      BY <3>1 DEF GuideXml, SriDate
    <3> QED  BY <2>3, <3>2 DEF GuideIsSound, DatesStandAtIssue
  <2> QED  BY <2>1, <2>2, <2>3
<1> QED  BY <1>1, DirectInvHolds, PTL

-----------------------------------------------------------------------------
(* The numbering: DirectNumbering, for any number of callers, of series and  *)
(* of documents.  The invariant that carries everything is the discipline of *)
(* the lock, LocksAreExclusive: it says what the request that commits holds  *)
(* in its hands, namely the number after the committed one.                  *)

NumbersInv == NumberingTypeOK /\ LocksAreExclusive /\ NumbersAreConsecutive

\* What a request that is about to commit knows: nobody has moved the
\* counter since it read it, and it has no document yet.
LEMMA ReadyToCommit ==
  ASSUME NumberingTypeOK, LocksAreExclusive, NEW r \in Callers, pc[r] = "created"
  PROVE  /\ series[r] \in Series
         /\ holder[series[r]] = r
         /\ counter[series[r]] = committed[series[r]] + 1
         /\ own[r] = committed[series[r]] + 1
         /\ \A d \in documents : d.request # r
<1>1. series[r] \in Series /\ holder[series[r]] = r
  BY DEF NumberingTypeOK, LocksAreExclusive, Locking
<1>2. counter[series[r]] = committed[series[r]] + 1
  BY <1>1, NoRequestAssumption DEF NumberingTypeOK, LocksAreExclusive
<1>3. own[r] = counter[series[r]]
  BY DEF LocksAreExclusive
<1>4. \A d \in documents : d.request # r
  BY DEF LocksAreExclusive
<1> QED  BY <1>1, <1>2, <1>3, <1>4

\* The initial state: no documents, no locks, every counter at 0.
LEMMA InitNumbersInv == NumberingInit => NumbersInv
<1> SUFFICES ASSUME NumberingInit PROVE NumbersInv
  OBVIOUS
<1>1. NumberingTypeOK
  BY DEF NumberingInit, NumberingTypeOK, Positions
<1>2. LocksAreExclusive
  BY DEF NumberingInit, LocksAreExclusive, Locking
<1>3. NumbersAreConsecutive
  <2>1. \A s \in Series : NumbersOf(s) = {} /\ committed[s] = 0
    BY DEF NumberingInit, NumbersOf
  <2>2. 1..0 = {}
    OBVIOUS
  <2> QED  BY <2>1, <2>2 DEF NumberingInit, NumbersAreConsecutive
<1> QED  BY <1>1, <1>2, <1>3 DEF NumbersInv

\* Every action keeps the variables in their types.
LEMMA NumberTypesPreserved ==
  ASSUME NumberingTypeOK, LocksAreExclusive, NumberingNext
  PROVE  NumberingTypeOK'
<1>1. CASE Crash
  <2>1. PICK lost \in SUBSET Callers :
          /\ counter' = [s \in Series |-> IF holder[s] \in lost THEN committed[s]
                                                               ELSE counter[s]]
          /\ holder' = [s \in Series |-> IF holder[s] \in lost THEN NoRequest
                                                              ELSE holder[s]]
          /\ pc' = [r \in Callers |-> IF r \in lost THEN "failed" ELSE pc[r]]
          /\ UNCHANGED <<committed, documents, series, own>>
    BY <1>1 DEF Crash
  <2>2. counter' \in [Series -> Nat] /\ holder' \in [Series -> Callers \cup {NoRequest}]
    BY <2>1 DEF NumberingTypeOK
  <2>3. pc' \in [Callers -> Positions]
    BY <2>1 DEF NumberingTypeOK, Positions
  <2>4. UNCHANGED <<committed, documents, series, own>>
    BY <2>1
  <2> QED  BY <2>2, <2>3, <2>4 DEF NumberingTypeOK
<1>2. ASSUME NEW r \in Callers, Serve(r) PROVE NumberingTypeOK'
  <2>1. CASE RefuseUnnumbered(r)
    BY <2>1 DEF NumberingTypeOK, RefuseUnnumbered, Positions
  <2>2. CASE Increment(r)
    <3>1. series[r] \in Series
      BY <2>2 DEF Increment, LocksAreExclusive
    <3> QED  BY <2>2, <3>1 DEF NumberingTypeOK, Increment, Positions
  <2>3. CASE ReadBack(r)
    <3>1. series[r] \in Series
      BY <2>3 DEF ReadBack, LocksAreExclusive
    <3> QED  BY <2>3, <3>1 DEF NumberingTypeOK, ReadBack, Positions
  <2>4. CASE Create(r)
    BY <2>4 DEF NumberingTypeOK, Create, Positions
  <2>5. CASE Commit(r)
    <3>1. series[r] \in Series
      BY <2>5 DEF Commit, LocksAreExclusive
    <3>2. Document(r, series[r], own[r])
            \in [request : Callers, series : Series, number : Nat]
      BY <3>1 DEF NumberingTypeOK, Document
    <3>3. documents' \subseteq [request : Callers, series : Series, number : Nat]
      BY <2>5, <3>2 DEF NumberingTypeOK, Commit
    <3> QED  BY <2>5, <3>1, <3>3 DEF NumberingTypeOK, Commit, Release, Positions
  <2>6. CASE Rollback(r)
    <3>1. series[r] \in Series
      BY <2>6 DEF Rollback, LocksAreExclusive, Locking
    <3> QED  BY <2>6, <3>1 DEF NumberingTypeOK, Rollback, Release, Positions
  <2>7. CASE GiveUp(r)
    BY <2>7 DEF NumberingTypeOK, GiveUp, Positions
  <2>8. ASSUME NEW s \in Series, Start(r, s) PROVE NumberingTypeOK'
    BY <2>8 DEF NumberingTypeOK, Start, Positions
  <2> QED
    BY <1>2, <2>1, <2>2, <2>3, <2>4, <2>5, <2>6, <2>7, <2>8 DEF Serve
<1> QED  BY <1>1, <1>2 DEF NumberingNext

\* Every action keeps the discipline of the locks.
LEMMA LocksPreserved ==
  ASSUME NumberingTypeOK, LocksAreExclusive, NumberingNext
  PROVE  LocksAreExclusive'
<1> USE NoRequestAssumption DEF Locking
<1>1. CASE Crash
  BY <1>1 DEF NumberingTypeOK, LocksAreExclusive, Crash
<1>2. ASSUME NEW r \in Callers, Serve(r) PROVE LocksAreExclusive'
  <2>1. CASE RefuseUnnumbered(r)
    BY <2>1 DEF NumberingTypeOK, LocksAreExclusive, RefuseUnnumbered
  <2>2. CASE Increment(r)
    BY <2>2 DEF NumberingTypeOK, LocksAreExclusive, Increment
  <2>3. CASE ReadBack(r)
    BY <2>3 DEF NumberingTypeOK, LocksAreExclusive, ReadBack
  <2>4. CASE Create(r)
    BY <2>4 DEF NumberingTypeOK, LocksAreExclusive, Create
  <2>5. CASE Commit(r)
    BY <2>5 DEF NumberingTypeOK, LocksAreExclusive, Commit, Release, Document
  <2>6. CASE Rollback(r)
    BY <2>6 DEF NumberingTypeOK, LocksAreExclusive, Rollback, Release
  <2>7. CASE GiveUp(r)
    BY <2>7 DEF NumberingTypeOK, LocksAreExclusive, GiveUp
  <2>8. ASSUME NEW s \in Series, Start(r, s) PROVE LocksAreExclusive'
    BY <2>8 DEF NumberingTypeOK, LocksAreExclusive, Start
  <2> QED
    BY <1>2, <2>1, <2>2, <2>3, <2>4, <2>5, <2>6, <2>7, <2>8 DEF Serve
<1> QED  BY <1>1, <1>2 DEF NumberingNext

\* Only a commit touches what is committed, and it adds the next number.
LEMMA OnlyCommitsShow ==
  ASSUME NumberingNext, ~ \E r \in Callers : Commit(r)
  PROVE  UNCHANGED <<committed, documents>>
BY DEF NumberingNext, Serve, Crash, RefuseUnnumbered, Increment, ReadBack, Create,
       Rollback, GiveUp, Start

\* A commit appends one document to one series.
LEMMA NumbersPreserved ==
  ASSUME NumberingTypeOK, LocksAreExclusive, NumbersAreConsecutive,
         NumberingNext
  PROVE  NumbersAreConsecutive'
<1>1. CASE ~ \E r \in Callers : Commit(r)
  BY <1>1, OnlyCommitsShow DEF NumbersAreConsecutive, NumbersOf
<1>2. ASSUME NEW r \in Callers, Commit(r) PROVE NumbersAreConsecutive'
  <2>a. PICK s \in Series : \E d :
          /\ d.series = s /\ d.number = committed[s] + 1
          /\ committed' = [committed EXCEPT ![s] = committed[s] + 1]
          /\ documents' = documents \cup {d}
    BY <1>2, ReadyToCommit DEF Commit, Document
  <2>1. PICK new :
          /\ new.series = s /\ new.number = committed[s] + 1
          /\ committed' = [committed EXCEPT ![s] = committed[s] + 1]
          /\ documents' = documents \cup {new}
    BY <2>a
  <2>2. committed \in [Series -> Nat]
    BY DEF NumberingTypeOK
  <2>4. ASSUME NEW t \in Series, t # s PROVE NumbersOf(t)' = 1..committed'[t]
    <3>1. NumbersOf(t)' = NumbersOf(t)
      BY <2>1, <2>4 DEF NumbersOf
    <3>2. committed'[t] = committed[t]
      BY <2>1, <2>2, <2>4
    <3> QED  BY <2>4, <3>1, <3>2 DEF NumbersAreConsecutive
  <2>5. NumbersOf(s)' = 1..committed'[s]
    <3>1. NumbersOf(s)' = NumbersOf(s) \cup {committed[s] + 1}
      BY <2>1 DEF NumbersOf
    <3>2. NumbersOf(s) = 1..committed[s]
      BY <2>1 DEF NumbersAreConsecutive
    <3>3. committed'[s] = committed[s] + 1 /\ committed[s] \in Nat
      BY <2>1, <2>2
    <3>4. (1..committed[s]) \cup {committed[s] + 1} = 1..(committed[s] + 1)
      BY <3>3
    <3> QED  BY <3>1, <3>2, <3>3, <3>4
  <2>6. ASSUME NEW d \in documents, d.series = s PROVE d.number # committed[s] + 1
    <3>1. d.number \in NumbersOf(s)
      BY <2>6 DEF NumbersOf
    <3>2. d.number \in 1..committed[s]
      BY <3>1, <2>1 DEF NumbersAreConsecutive
    <3>3. committed[s] \in Nat
      BY <2>1, <2>2
    <3> QED  BY <3>2, <3>3
  <2>7. ASSUME NEW d \in documents', NEW e \in documents',
               d.series = e.series, d.number = e.number
        PROVE  d = e
    BY <2>1, <2>6, <2>7 DEF NumbersAreConsecutive
  <2> QED  BY <2>4, <2>5, <2>7 DEF NumbersAreConsecutive
<1> QED  BY <1>1, <1>2

\* The invariant is inductive.
LEMMA NextNumbersInv == NumbersInv /\ [NumberingNext]_numberingVars => NumbersInv'
<1> SUFFICES ASSUME NumbersInv, [NumberingNext]_numberingVars PROVE NumbersInv'
  OBVIOUS
<1>1. CASE NumberingNext
  BY <1>1, NumberTypesPreserved, LocksPreserved, NumbersPreserved DEF NumbersInv
<1>2. CASE UNCHANGED numberingVars
  BY <1>2 DEF numberingVars, NumbersInv, NumberingTypeOK, LocksAreExclusive,
              NumbersAreConsecutive, NumbersOf
<1> QED  BY <1>1, <1>2

\* The invariant holds in every reachable state.
LEMMA NumbersInvHolds == NumberingSpec => []NumbersInv
<1> QED  BY InitNumbersInv, NextNumbersInv, PTL DEF NumberingSpec

\* The variables of createNumbered keep their types.
THEOREM NumberingTypes == NumberingSpec => []NumberingTypeOK
<1>1. NumbersInv => NumberingTypeOK
  BY DEF NumbersInv
<1> QED  BY <1>1, NumbersInvHolds, PTL

\* At most one transaction has a counter in its hands, and what it has in
\* its hands is the number after the last committed one.
THEOREM ExclusiveLocks == NumberingSpec => []LocksAreExclusive
<1>1. NumbersInv => LocksAreExclusive
  BY DEF NumbersInv
<1> QED  BY <1>1, NumbersInvHolds, PTL

\* The documents of a series bear the numbers from 1 to its counter, each
\* one once, whatever requests and processes fail.
THEOREM ConsecutiveNumbers == NumberingSpec => []NumbersAreConsecutive
<1>1. NumbersInv => NumbersAreConsecutive
  BY DEF NumbersInv
<1> QED  BY <1>1, NumbersInvHolds, PTL

\* The four statements implement one step that takes the next number.
THEOREM NumberingPromise == NumberingSpec => KeepsPromise
<1>1. NumberingInit => Promise!Init
  BY DEF NumberingInit, Promise!Init
<1>2. NumbersInv /\ [NumberingNext]_numberingVars => [Promise!Next]_(Promise!vars)
  <2> SUFFICES ASSUME NumbersInv, [NumberingNext]_numberingVars
               PROVE  Promise!Next \/ UNCHANGED <<committed, documents>>
    BY DEF Promise!vars
  <2>1. CASE \E r \in Callers : Commit(r)
    <3>1. PICK r \in Callers : Commit(r)
      BY <2>1
    <3>2. Promise!Issue(r, series[r])
      BY <3>1, ReadyToCommit
      DEF NumbersInv, Commit, Promise!Issue, Promise!Document, Document
    <3>3. series[r] \in Series
      BY <3>1, ReadyToCommit DEF NumbersInv, Commit
    <3> QED  BY <3>2, <3>3 DEF Promise!Next
  <2>2. CASE NumberingNext /\ ~ \E r \in Callers : Commit(r)
    BY <2>2, OnlyCommitsShow
  <2>3. CASE UNCHANGED numberingVars
    BY <2>3 DEF numberingVars
  <2> QED  BY <2>1, <2>2, <2>3
<1> QED
  BY <1>1, <1>2, NumbersInvHolds, PTL
  DEF NumberingSpec, KeepsPromise, Promise!Spec
=============================================================================
