--------------------------- MODULE DirectDocuments ---------------------------
(* Withholdings and delivery guides (types 07 and 06) from the request of a  *)
(* person to the XML the SRI gets.  Three layers check the same data at      *)
(* three moments: the schemas of the routes and the issuer when it is asked  *)
(* for, and the builder at each attempt, when the document has its number    *)
(* and its data cannot change any more.                                      *)
(*                                                                           *)
(* Withholdings has the amounts; this module adds the dates, the fields that *)
(* more than one layer looks at, and time.  What only one layer checks for   *)
(* each document is one flag: identified (the parties and their names).      *)
(* Days are numbers, a calendar gives their year and month; a quantity is in *)
(* ten-millionths, one decimal more than the XML has.                        *)
EXTENDS Withholdings

CONSTANTS WithholdingBodies,  \* bodies of POST /withholdings
          GuideBodies,        \* bodies of POST /delivery-guides
          Calendar,           \* day -> <<year, month>>
          FirstDay, LastDay   \* the days the clock goes through (a bound)

InCentury(year) == year \in 2000 .. 2099

(* The clock goes through days of this century, each in one of its months.   *)
ASSUME DirectAssumption ==
  /\ \A body \in WithholdingBodies : body.support \in Supports /\ body.lines \in Requests
  /\ FirstDay \in Int /\ LastDay \in Int /\ FirstDay <= LastDay
  /\ \A day \in FirstDay .. LastDay :
       InCentury(Calendar[day][1]) /\ Calendar[day][2] \in 1 .. 12

VARIABLES
  now,        \* <<day in Ecuador, "daytime" or "evening">>
  profile,    \* tax-service answers with the issuer's head office address
  stored,     \* original_payload of the numbered document, or Nothing
  xml,        \* the document of the last attempt that built one
  lastError   \* why the last attempt could not build it, or "none"

directVars == <<document, event, refused, now, profile, stored, xml, lastError>>

(* Ecuador's last five hours are the next day in UTC, where the pod runs.    *)
DayInUtc(moment) == IF moment[2] = "evening" THEN moment[1] + 1 ELSE moment[1]

EcuadorToday(moment) == moment[1]

SriDate(moment) == moment[1]

-----------------------------------------------------------------------------
(* Withholdings                                                              *)

(* The schema and the builder each have their own pattern for MM/20yy.       *)
PeriodSchemaAnyYear(period) == period # Nothing => period[2] \in 1 .. 12

PeriodSchema(period) ==
  period # Nothing => InCentury(period[1]) /\ period[2] \in 1 .. 12

PeriodStands(period) == InCentury(period[1]) /\ period[2] \in 1 .. 12

WithholdingSchema(body) ==
  /\ body.numbered
  /\ body.payment
  /\ PeriodSchema(body.period)
  /\ body.support.taxes # <<>>
  /\ body.lines # <<>>

WithholdingChecks(body, today) ==
  /\ body.identified
  /\ body.numbered
  /\ body.supportDay <= today

(* The month of the request, unless it says another.                         *)
FiscalPeriod(body, today) == IF body.period = Nothing THEN Calendar[today] ELSE body.period

WithholdingPayload(body, moment) ==
  [type |-> "07", issued |-> moment, address |-> body.address,
   numbered |-> body.numbered, payment |-> body.payment,
   period |-> FiscalPeriod(body, EcuadorToday(moment)), ownPeriod |-> body.period = Nothing,
   supportDay |-> body.supportDay]

-----------------------------------------------------------------------------
(* Guides.  A recipient has the quantities of its goods and may quote a      *)
(* document by its number and date.                                          *)

Quotes(recipient) == recipient.support # Nothing

GuideSchema(body) ==
  /\ body.recipients # <<>>
  /\ \A i \in DOMAIN body.recipients :
       LET r == body.recipients[i]
       IN /\ r.items # <<>>
          /\ \A n \in DOMAIN r.items : r.items[n] > 0
          /\ Quotes(r) => r.support.numbered

GuideChecks(body, today) ==
  /\ body.identified
  /\ today <= body.start
  /\ body.start <= body.end
  /\ body.recipients # <<>>
  /\ \A i \in DOMAIN body.recipients :
       LET r == body.recipients[i]
       IN /\ r.items # <<>>
          /\ \A n \in DOMAIN r.items : r.items[n] > 0
          /\ Quotes(r) => r.support.numbered

(* The place of departure as given, else the establishment's.                *)
HasOrigin(body) == body.origin \/ body.address

GuidePayload(body, moment) ==
  [type |-> "06", issued |-> moment, address |-> body.address,
   start |-> body.start, end |-> body.end, recipients |-> body.recipients]

-----------------------------------------------------------------------------
(* The XML.  A builder stops at the first problem it finds.                  *)

HasDirMatriz(payload) == profile \/ payload.address

(* The days of a payload that go through sriDateFromIsoDay.                  *)
IsoDays(payload) ==
  IF payload.type = "07" THEN {payload.supportDay}
  ELSE {payload.start, payload.end} \cup
       {payload.recipients[i].support.day :
          i \in {n \in DOMAIN payload.recipients : Quotes(payload.recipients[n])}}

SriDateFromIsoDay(day) == InCentury(Calendar[day][1])

WithholdingProblems(payload) ==
  {problem \in {"address", "lines", "taxes", "number", "payment", "period", "year"} :
     CASE problem = "address" -> ~ HasDirMatriz(payload)
       [] problem = "lines"   -> document.lines = <<>>
       [] problem = "taxes"   -> document.support.taxes = <<>>
       [] problem = "number"  -> ~ payload.numbered
       [] problem = "payment" -> ~ payload.payment
       [] problem = "period"  -> ~ PeriodStands(payload.period)
       [] OTHER               -> ~ SriDateFromIsoDay(payload.supportDay)}

GuideProblems(payload) ==
  {problem \in {"address", "recipients", "items", "number", "year"} :
     CASE problem = "address"    -> ~ HasDirMatriz(payload)
       [] problem = "recipients" -> payload.recipients = <<>>
       [] problem = "items"      ->
            \E i \in DOMAIN payload.recipients : payload.recipients[i].items = <<>>
       [] problem = "number"     ->
            \E i \in DOMAIN payload.recipients :
              Quotes(payload.recipients[i]) /\ ~ payload.recipients[i].support.numbered
       [] OTHER                  ->
            \E day \in IsoDays(payload) : ~ SriDateFromIsoDay(day)}

Problems(payload) ==
  IF payload.type = "07" THEN WithholdingProblems(payload) ELSE GuideProblems(payload)

(* Six decimals.  Which way an exact half goes depends on the binary fraction*)
(* of the number; up here.                                                   *)
Quantity(tenMillionths) == (tenMillionths + 5) \div 10

WithholdingXml(payload) ==
  [type |-> "07", issueDay |-> SriDate(payload.issued), period |-> payload.period,
   supportDay |-> payload.supportDay,
   lines |-> document.lines, total |-> document.support.total]

(* A guide has no date of issue but the one in its access key.               *)
GuideXml(payload) ==
  [type |-> "06", issueDay |-> SriDate(payload.issued),
   start |-> payload.start, end |-> payload.end,
   quantities |-> [i \in DOMAIN payload.recipients |->
     [n \in DOMAIN payload.recipients[i].items |-> Quantity(payload.recipients[i].items[n])]]]

Xml(payload) ==
  IF payload.type = "07" THEN WithholdingXml(payload) ELSE GuideXml(payload)

-----------------------------------------------------------------------------
DirectInit ==
  /\ Init
  /\ now \in {FirstDay} \X {"daytime", "evening"}
  /\ profile \in BOOLEAN
  /\ stored = Nothing
  /\ xml = Nothing
  /\ lastError = "none"

NumberWithholding(body) ==
  /\ stored = Nothing
  /\ WithholdingSchema(body)
  /\ WithholdingChecks(body, EcuadorToday(now))
  /\ IssueWithholding(body.support, body.lines)
  /\ stored' = WithholdingPayload(body, now)
  /\ UNCHANGED <<now, profile, xml, lastError>>

NumberGuide(body) ==
  /\ stored = Nothing
  /\ GuideSchema(body)
  /\ GuideChecks(body, EcuadorToday(now))
  /\ HasOrigin(body)
  /\ stored' = GuidePayload(body, now)
  /\ UNCHANGED <<document, event, refused, now, profile, xml, lastError>>

(* Any problem, at the schema, the issuer or inside the transaction that     *)
(* numbers the document: an answer of error, nothing stored.                 *)
RefuseBody ==
  /\ stored = Nothing
  /\ \/ \E body \in WithholdingBodies :
          ~ (/\ WithholdingSchema(body) /\ WithholdingChecks(body, EcuadorToday(now))
             /\ Valid(body.support, body.lines))
     \/ \E body \in GuideBodies :
          ~ (/\ GuideSchema(body) /\ GuideChecks(body, EcuadorToday(now))
             /\ HasOrigin(body))
  /\ Refuse
  /\ UNCHANGED <<now, profile, stored, xml, lastError>>

(* An attempt, in the request itself or days later, that builds its document.*)
AttemptBuilds ==
  /\ stored # Nothing
  /\ event = Nothing
  /\ Problems(stored) = {}
  /\ xml' = Xml(stored)
  /\ lastError' = "none"
  /\ UNCHANGED <<document, event, refused, now, profile, stored>>

AttemptFails ==
  /\ stored # Nothing
  /\ event = Nothing
  /\ lastError' \in Problems(stored)
  /\ UNCHANGED <<document, event, refused, now, profile, stored, xml>>

(* The SRI authorized a withholding it was sent.                             *)
Authorized ==
  /\ xml # Nothing
  /\ xml.type = "07"
  /\ Announce
  /\ UNCHANGED <<now, profile, stored, xml, lastError>>

TimePasses ==
  /\ \/ now[2] = "daytime" /\ now' = <<now[1], "evening">>
     \/ now[2] = "evening" /\ now[1] < LastDay /\ now' = <<now[1] + 1, "daytime">>
  /\ UNCHANGED <<document, event, refused, profile, stored, xml, lastError>>

(* The profile is filled in or emptied, or tax-service stops answering.      *)
ProfileChanges ==
  /\ profile' = ~ profile
  /\ UNCHANGED <<document, event, refused, now, stored, xml, lastError>>

DirectNext ==
  \/ \E body \in WithholdingBodies : NumberWithholding(body)
  \/ \E body \in GuideBodies : NumberGuide(body)
  \/ RefuseBody
  \/ AttemptBuilds \/ AttemptFails
  \/ Authorized
  \/ TimePasses
  \/ ProfileChanges

DirectSpec == DirectInit /\ [][DirectNext]_directVars

-----------------------------------------------------------------------------
(* A document that was accepted, and has its number, fails for no data of    *)
(* the request but a year the SRI does not write: two layers agree on every  *)
(* field both look at.  The address of the head office, which may be missing *)
(* where the establishment has none either, is not in the request.           *)
AcceptedCanBeBuilt ==
  /\ lastError \in {"none", "address", "year"}
  /\ lastError = "address" => ~ stored.address

(* A document built after midnight, or days later, keeps the day it was      *)
(* asked for, and its other dates stand by that day: the supplier's document *)
(* not after it, the journey not before, and the fiscal period the month of  *)
(* the day the document shows, in the evenings of the month's last day too.  *)
DatesStandAtIssue ==
  xml # Nothing =>
    IF xml.type = "07"
    THEN /\ xml.supportDay <= xml.issueDay
         /\ stored.ownPeriod => xml.period = Calendar[xml.issueDay]
    ELSE xml.issueDay <= xml.start /\ xml.start <= xml.end

(* What the comment of DirectDocumentIssuer says: the document is never      *)
(* lost.  One that quotes a day before 2000 or after 2099 has its number and *)
(* can never be built.                                                       *)
NumberedIsNotLost == lastError # "year"

(* What the error for a quantity says, at the issuer: it must be greater     *)
(* than zero.  One below half a millionth is, and is printed as zero.        *)
QuantitiesArePositive ==
  xml # Nothing /\ xml.type = "06" =>
    \A i \in DOMAIN xml.quantities :
      \A n \in DOMAIN xml.quantities[i] : xml.quantities[i][n] > 0
=============================================================================
