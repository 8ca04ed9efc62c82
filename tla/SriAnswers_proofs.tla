------------------------- MODULE SriAnswers_proofs -------------------------
(* What an answer of the SRI makes of a document is true of the SRI, for any *)
(* number of actors, submissions and checks, whatever outages, pages and     *)
(* late writes come in between.  The key it is asked about is the one it has *)
(* (the last section, about AccessKeys).                                     *)
EXTENDS SriAnswers, AccessKeys, TLAPS, SequenceTheorems

USE SriAnswersAssumption

\* The invariant says of each actor's copy and answer, as of the row, what is
\* true of the results the SRI has; results are given, to compare two lists.
Refused(results, n) ==
  \A i \in DOMAIN results : i <= n => results[i].estado = "NO AUTORIZADO"

\* The SRI takes a new submission only of a key it did not authorize: all its
\* results but the newest are refusals.
OlderRefused(results) ==
  \A i \in DOMAIN results : i < Len(results) => results[i].estado = "NO AUTORIZADO"

\* What a row or a copy that is under way looks like.
Open(record, results) ==
  /\ record.status \in {"error", "pending", "sent"}
  /\ record.file = Nothing /\ record.response = Nothing
  /\ record.status = "sent" => results # <<>>

\* An answer stays true, whatever comes after it.
AnswerStands(answer, asOf, results) ==
  /\ answer.estado = "AUTORIZADO" =>
       /\ answer.of \in DOMAIN results
       /\ results[answer.of].estado = "AUTORIZADO"
       /\ results[answer.of].xml = answer.xml
  /\ NewestFirst /\ answer.estado = "NO AUTORIZADO" => Refused(results, asOf)

Truthful(w, results) ==
  /\ Open(w.record, results)
  /\ w.reply.asOf <= Len(results)
  /\ w.at = "answered" =>
       /\ ToldReceived(w.reply.answer) => results # <<>>
       /\ ToldReturned(w.reply.answer) => Refused(results, w.reply.asOf)
  /\ w.at \in {"checking", "told"} => w.record.status = "sent"
  /\ w.at = "told" => AnswerStands(w.reply.answer, w.reply.asOf, results)

\* The legal document is where Download looks for it.
Served(record, results) ==
  \E i \in DOMAIN results :
    /\ results[i].estado = "AUTORIZADO"
    /\ IF results[i].xml
       THEN record.file = i \/ (record.file = Nothing /\ record.response = i)
       ELSE record.file = Nothing /\ record.response = Nothing

Stands(record, results) ==
  \/ Open(record, results)
  \/ record.status = "authorized" /\ Served(record, results)
  \/ /\ record.status = "rejected"
     /\ record.asOf <= Len(results)
     /\ NewestFirst => Refused(results, record.asOf)

IInv ==
  /\ TypeOK
  /\ OlderRefused(authorizations)
  /\ Stands(invoice, authorizations)
  /\ \A a \in Actors : Truthful(work[a], authorizations)

-----------------------------------------------------------------------------
\* What time does to the list: it gets longer, and a verdict is final.
Grows(old, new) ==
  /\ new \in Seq(Results)
  /\ OlderRefused(new)
  /\ Len(old) <= Len(new)
  /\ \A i \in DOMAIN old :
       i \in DOMAIN new /\ (old[i].estado # "EN PROCESAMIENTO" => new[i] = old[i])

\* What the provers need to know of a list.
LEMMA ListFacts ==
  ASSUME NEW list \in Seq(Results)
  PROVE  /\ Len(list) \in Nat /\ DOMAIN list = 1 .. Len(list)
         /\ \A i \in 1 .. Len(list) : list[i] \in Results
         /\ list = <<>> <=> Len(list) = 0
<1>1. Len(list) \in Nat /\ DOMAIN list = 1 .. Len(list)
  BY LenProperties
<1>2. \A i \in 1 .. Len(list) : list[i] \in Results
  BY ElementOfSeq
<1>3. list = <<>> <=> Len(list) = 0
  BY EmptySeq
<1> QED  BY <1>1, <1>2, <1>3

LEMMA GrowsFacts ==
  ASSUME NEW old \in Seq(Results), NEW new, Grows(old, new)
  PROVE  /\ Len(old) \in Nat /\ Len(new) \in Nat /\ Len(old) <= Len(new)
         /\ DOMAIN old = 1 .. Len(old) /\ DOMAIN new = 1 .. Len(new)
<1>1. new \in Seq(Results) /\ Len(old) <= Len(new)
  BY DEF Grows
<1> QED  BY <1>1, ListFacts

\* What was refused then is refused now.
LEMMA StillRefused ==
  ASSUME NEW old \in Seq(Results), NEW new, Grows(old, new), NEW n \in Nat,
         n <= Len(old), Refused(old, n)
  PROVE  Refused(new, n)
<1> SUFFICES ASSUME NEW i \in DOMAIN new, i <= n
             PROVE  new[i].estado = "NO AUTORIZADO"
  BY DEF Refused
<1>1. i \in DOMAIN old
  BY GrowsFacts
<1> QED  BY <1>1 DEF Refused, Grows

\* What there was, there is.
LEMMA StillThere ==
  ASSUME NEW old \in Seq(Results), NEW new, Grows(old, new), old # <<>>
  PROVE  new # <<>>
<1>1. new \in Seq(Results) /\ Len(old) # 0
  BY ListFacts DEF Grows
<1> QED  BY <1>1, ListFacts, GrowsFacts

LEMMA StillOpen ==
  ASSUME NEW old \in Seq(Results), NEW new, Grows(old, new), NEW record, Open(record, old)
  PROVE  Open(record, new)
  BY StillThere DEF Open

\* So what an actor was told stays true while it waits,
LEMMA StillTruthful ==
  ASSUME NEW old \in Seq(Results), NEW new, Grows(old, new),
         NEW w \in Works, Truthful(w, old)
  PROVE  Truthful(w, new)
<1>1. w.reply.asOf \in Nat /\ Len(old) \in Nat /\ Len(new) \in Nat /\ Len(old) <= Len(new)
  BY GrowsFacts DEF Works
<1>2. Open(w.record, new)
  BY StillOpen DEF Truthful
<1>3. w.reply.asOf <= Len(new) /\ w.reply.asOf <= Len(old)
  BY <1>1 DEF Truthful
<1>4. Refused(old, w.reply.asOf) => Refused(new, w.reply.asOf)
  BY <1>1, <1>3, StillRefused
<1>5. w.at = "answered" =>
        /\ ToldReceived(w.reply.answer) => new # <<>>
        /\ ToldReturned(w.reply.answer) => Refused(new, w.reply.asOf)
  BY <1>4, StillThere DEF Truthful
<1>6. ASSUME AnswerStands(w.reply.answer, w.reply.asOf, old)
      PROVE  AnswerStands(w.reply.answer, w.reply.asOf, new)
  BY <1>4, <1>6 DEF AnswerStands, Grows
<1> QED  BY <1>2, <1>3, <1>5, <1>6 DEF Truthful

\* and what the row says too.
LEMMA StillStands ==
  ASSUME NEW old \in Seq(Results), NEW new, Grows(old, new),
         NEW record \in Invoices, Stands(record, old)
  PROVE  Stands(record, new)
<1>1. CASE Open(record, old)
  BY <1>1, StillOpen DEF Stands
<1>2. CASE record.status = "authorized" /\ Served(record, old)
  <2>1. PICK i \in DOMAIN old :
          /\ old[i].estado = "AUTORIZADO"
          /\ IF old[i].xml
             THEN record.file = i \/ (record.file = Nothing /\ record.response = i)
             ELSE record.file = Nothing /\ record.response = Nothing
    BY <1>2 DEF Served
  <2>2. i \in DOMAIN new /\ new[i] = old[i]
    BY <2>1 DEF Grows
  <2> QED  BY <1>2, <2>1, <2>2 DEF Served, Stands
<1>3. CASE /\ record.status = "rejected" /\ record.asOf <= Len(old)
           /\ NewestFirst => Refused(old, record.asOf)
  <2>1. record.asOf \in Nat /\ Len(old) \in Nat /\ Len(new) \in Nat /\ Len(old) <= Len(new)
    BY GrowsFacts DEF Invoices
  <2>2. record.asOf <= Len(new)
    BY <1>3, <2>1
  <2> QED  BY <1>3, <2>1, <2>2, StillRefused DEF Stands
<1> QED  BY <1>1, <1>2, <1>3 DEF Stands

\* A list that stays as it is grows, in this sense.
LEMMA SameGrows ==
  ASSUME NEW results \in Seq(Results), OlderRefused(results)
  PROVE  Grows(results, results)
<1>1. Len(results) \in Nat
  OBVIOUS
<1> QED  BY <1>1 DEF Grows

\* Of a key the SRI does not hold everything is refused, and holding it takes
\* a result.
LEMMA NotHeld ==
  ASSUME TypeOK
  PROVE  /\ Submissions \in Nat
         /\ Holds => authorizations # <<>>
         /\ ~ Holds => \A n : Refused(authorizations, n)
<1>1. authorizations \in Seq(Results)
  BY DEF TypeOK
<1>2. Submissions \in Nat
  BY <1>1, ListFacts DEF Submissions
<1>3. Holds => authorizations # <<>>
  <2>1. Holds => DOMAIN authorizations # {}
    BY DEF Holds
  <2>2. authorizations = <<>> => DOMAIN authorizations = {}
    OBVIOUS
  <2> QED  BY <2>1, <2>2
<1>4. ~ Holds => \A n : Refused(authorizations, n)
  BY DEF Holds, Refused
<1> QED  BY <1>2, <1>3, <1>4

\* The SRI takes a submission of a key it does not hold.
LEMMA TakesGrows ==
  ASSUME TypeOK, MayTake, Takes
  PROVE  Grows(authorizations, authorizations') /\ authorizations' # <<>>
<1>1. PICK r : r = [estado |-> "EN PROCESAMIENTO", xml |-> FALSE]
  OBVIOUS
<1>2. PICK n : n = Len(authorizations)
  OBVIOUS
<1>3. authorizations \in Seq(Results) /\ r \in Results
  BY <1>1 DEF Results, TypeOK
<1>4. n \in Nat /\ DOMAIN authorizations = 1 .. n
  BY <1>2, <1>3, ListFacts
<1>5. authorizations' = Append(authorizations, r)
  BY <1>1 DEF Takes
<1>6. /\ authorizations' \in Seq(Results)
      /\ Len(authorizations') = n + 1
      /\ \A i \in 1 .. n : authorizations'[i] = authorizations[i]
  BY <1>2, <1>3, <1>5, AppendProperties
<1>7. DOMAIN authorizations' = 1 .. n + 1 /\ authorizations' # <<>>
  BY <1>4, <1>6, ListFacts
<1>8. OlderRefused(authorizations')
  <2> SUFFICES ASSUME NEW i \in DOMAIN authorizations', i < Len(authorizations')
               PROVE  authorizations'[i].estado = "NO AUTORIZADO"
    BY DEF OlderRefused
  <2>1. i \in 1 .. n
    BY <1>4, <1>6, <1>7
  <2>2. authorizations[i].estado = "NO AUTORIZADO"
    BY <1>4, <2>1 DEF MayTake, Holds
  <2> QED  BY <1>6, <2>1, <2>2
<1>9. Len(authorizations) <= Len(authorizations') /\ \A i \in 1 .. n : i \in 1 .. n + 1
  BY <1>2, <1>4, <1>6
<1> QED  BY <1>4, <1>6, <1>7, <1>8, <1>9 DEF Grows

\* It decides on the newest, which was open until then.
LEMMA DecidesGrows ==
  ASSUME TypeOK, OlderRefused(authorizations), SriDecides
  PROVE  Grows(authorizations, authorizations')
<1>1. PICK n : n = Len(authorizations)
  OBVIOUS
<1>2. authorizations \in Seq(Results)
  BY DEF TypeOK
<1>3. n \in Nat /\ n # 0 /\ DOMAIN authorizations = 1 .. n
  BY <1>1, <1>2, ListFacts DEF SriDecides
<1>4. n \in 1 .. n /\ n <= n /\ \A i \in 1 .. n : i < n => i # n
  BY <1>3
<1>5. authorizations[n].estado = "EN PROCESAMIENTO"
  BY <1>1 DEF SriDecides, Submissions
<1>6. PICK r \in Results : authorizations' = [authorizations EXCEPT ![n] = r]
  <2>1. PICK outcome \in {"AUTORIZADO", "NO AUTORIZADO"}, xml \in BOOLEAN :
          authorizations' = [authorizations EXCEPT ![n] = [estado |-> outcome, xml |-> xml]]
    BY <1>1 DEF SriDecides, Submissions
  <2>2. [estado |-> outcome, xml |-> xml] \in Results
    BY DEF Results
  <2> QED  BY <2>1, <2>2
<1>7. authorizations' \in Seq(Results) /\ Len(authorizations') = n
  BY <1>1, <1>2, <1>4, <1>6, ExceptSeq
<1>8. DOMAIN authorizations' = 1 .. n
  BY <1>7, ListFacts
<1>9. \A i \in 1 .. n : i # n => authorizations'[i] = authorizations[i]
  BY <1>3, <1>6
<1>10. OlderRefused(authorizations')
  BY <1>1, <1>3, <1>4, <1>7, <1>8, <1>9 DEF OlderRefused
<1>11. \A i \in DOMAIN authorizations :
         /\ i \in DOMAIN authorizations'
         /\ authorizations[i].estado # "EN PROCESAMIENTO" => authorizations'[i] = authorizations[i]
  BY <1>3, <1>5, <1>8, <1>9
<1> QED  BY <1>1, <1>4, <1>7, <1>10, <1>11 DEF Grows

\* What the client makes of a list whose older results are refusals: a verdict
\* it tells is one of the results, and, as long as the newest comes first, a
\* refusal is one of the newest, so of all.
LEMMA ChosenStands ==
  ASSUME TypeOK, OlderRefused(authorizations)
  PROVE  Chosen \in Queried /\ AnswerStands(Chosen, Submissions, authorizations)
<1>n. PICK n : n = Len(authorizations)
  OBVIOUS
<1> DEFINE A == {i \in DOMAIN authorizations : authorizations[i].estado = "AUTORIZADO"}
           listed == IF A # {} THEN A ELSE DOMAIN authorizations
           f == First(listed)
<1>1. n \in Nat /\ DOMAIN authorizations = 1 .. n /\ Submissions = n
      /\ \A i \in 1 .. n : authorizations[i] \in Results
  BY <1>n, ListFacts DEF TypeOK, Submissions
<1>2. Chosen = IF listed = {} THEN NoAuthorization
               ELSE [estado |-> authorizations[f].estado, xml |-> authorizations[f].xml,
                     of |-> f]
  BY DEF Chosen
<1>3. \A i \in A : i = n
  <2> SUFFICES ASSUME NEW i \in A PROVE i = n
    OBVIOUS
  <2>1. i \in 1 .. n /\ ~ (i < n)
    BY <1>1, <1>n DEF OlderRefused
  <2> QED  BY <1>1, <2>1
<1>4. A \subseteq 1 .. n
  BY <1>1
<1>5. listed = IF A # {} THEN A ELSE 1 .. n
  BY <1>1
<1> HIDE DEF A
<1>6. CASE listed = {}
  BY <1>2, <1>6 DEF NoAuthorization, Queried, AnswerStands
<1>7. CASE listed # {}
  <2>1. \E i \in listed : \A j \in listed : IF NewestFirst THEN j <= i ELSE i <= j
    <3>1. CASE A # {}
      <4>1. listed = {n} /\ n \in Nat
        BY <1>1, <1>3, <1>5, <3>1
      <4> HIDE DEF listed
      <4> QED  BY <4>1
    <3>2. CASE A = {}
      <4>1. listed = 1 .. n
        BY <1>5, <3>2
      <4>2. n # 0
        BY <1>7, <4>1
      <4>3. n \in 1 .. n /\ 1 \in 1 .. n
        BY <1>1, <4>2
      <4>4. \A j \in 1 .. n : 1 <= j /\ j <= n
        BY <1>1
      <4> HIDE DEF listed
      <4> QED  BY <4>1, <4>3, <4>4
    <3> QED  BY <3>1, <3>2
  <2> HIDE DEF listed
  <2>2. f \in listed /\ \A j \in listed : IF NewestFirst THEN j <= f ELSE f <= j
    BY <2>1 DEF First
  <2>3. f \in 1 .. n
    BY <1>4, <1>5, <2>2
  <2> HIDE DEF f
  <2>4. /\ Chosen.estado = authorizations[f].estado
        /\ Chosen.xml = authorizations[f].xml /\ Chosen.of = f
    BY <1>2, <1>7
  <2>5. Chosen \in Queried
    <3>1. f \in Nat /\ authorizations[f] \in Results
      BY <1>1, <2>3
    <3> QED  BY <1>2, <1>7, <3>1 DEF Queried, Results
  <2>6. ASSUME NewestFirst, Chosen.estado = "NO AUTORIZADO"
        PROVE  Refused(authorizations, Submissions)
    <3>1. A = {}
      BY <1>5, <2>2, <2>4, <2>6 DEF A
    <3>2. n \in listed
      BY <1>1, <1>5, <2>3, <3>1
    <3>3. n <= f
      BY <2>2, <2>6, <3>2, Zenon
    <3>4. f = n
      BY <1>1, <2>3, <3>3
    <3> SUFFICES ASSUME NEW i \in 1 .. n PROVE authorizations[i].estado = "NO AUTORIZADO"
      BY <1>1 DEF Refused
    <3>5. i = n \/ i < n
      BY <1>1
    <3> QED  BY <1>1, <1>n, <2>4, <2>6, <3>4, <3>5 DEF OlderRefused
  <2> QED  BY <1>1, <2>3, <2>4, <2>5, <2>6 DEF AnswerStands
<1> QED  BY <1>6, <1>7

-----------------------------------------------------------------------------
\* A step that leaves the others alone keeps the invariant if the list grows,
\* the actor's new work is truthful and the row stands.
LEMMA StepKeeps ==
  ASSUME IInv, NEW a \in Actors, NEW w \in Works,
         work' = [work EXCEPT ![a] = w],
         Grows(authorizations, authorizations'),
         Truthful(w, authorizations'),
         invoice' \in Invoices, Stands(invoice', authorizations')
  PROVE  IInv'
<1>1. authorizations \in Seq(Results) /\ authorizations' \in Seq(Results)
      /\ OlderRefused(authorizations')
  BY DEF IInv, TypeOK, Grows
<1>2. work' \in [Actors -> Works]
  BY DEF IInv, TypeOK
<1>3. ASSUME NEW b \in Actors PROVE Truthful(work'[b], authorizations')
  <2>1. CASE b = a
    BY <2>1 DEF IInv, TypeOK
  <2>2. CASE b # a
    <3>1. work'[b] = work[b] /\ work[b] \in Works /\ Truthful(work[b], authorizations)
      BY <2>2 DEF IInv, TypeOK
    <3> QED  BY <1>1, <3>1, StillTruthful
  <2> QED  BY <2>1, <2>2
<1> QED  BY <1>1, <1>2, <1>3 DEF IInv, TypeOK

\* A record that is under way becomes the work of an actor, before any answer.
LEMMA WorkBegun ==
  ASSUME NEW results \in Seq(Results), NEW record \in Invoices, Open(record, results),
         NEW place \in {"idle", "emitting", "sending", "checking"},
         place = "checking" => record.status = "sent"
  PROVE  LET w == [at |-> place, record |-> record, reply |-> NoReply]
         IN w \in Works /\ Truthful(w, results)
<1>1. 0 <= Len(results)
  OBVIOUS
<1> QED  BY <1>1 DEF Works, Truthful, NoReply

LEMMA IdleTruthful ==
  ASSUME NEW results \in Seq(Results)
  PROVE  Idle \in Works /\ Truthful(Idle, results) /\ NewInvoice \in Invoices
<1>1. NewInvoice \in Invoices /\ Open(NewInvoice, results) /\ NewInvoice.status # "sent"
  BY DEF NewInvoice, Invoices, Open
<1> QED  BY <1>1, WorkBegun DEF Idle

\* What is true of an actor, in the words of the invariant.
LEMMA ActorFacts ==
  ASSUME IInv, NEW a \in Actors
  PROVE  /\ authorizations \in Seq(Results)
         /\ work[a].record \in Invoices /\ Open(work[a].record, authorizations)
         /\ work[a].reply.asOf \in Nat /\ work[a].reply.asOf <= Len(authorizations)
         /\ Grows(authorizations, authorizations)
<1>1. work[a] \in Works /\ Truthful(work[a], authorizations)
      /\ authorizations \in Seq(Results) /\ OlderRefused(authorizations)
  BY DEF IInv, TypeOK
<1> QED  BY <1>1, SameGrows DEF Works, Truthful

\* Who saves is done: the row must stand.
LEMMA EndsKeeps ==
  ASSUME IInv, NEW a \in Actors, NEW record \in Invoices, Ends(a, record),
         authorizations' = authorizations, Stands(record, authorizations)
  PROVE  IInv'
<1>1. Idle \in Works /\ Truthful(Idle, authorizations)
  BY ActorFacts, IdleTruthful
<1>2. PICK w \in Works : w = Idle
  BY <1>1
<1>3. work' = [work EXCEPT ![a] = w] /\ invoice' = record
  BY <1>2 DEF Ends
<1> QED  BY <1>1, <1>2, <1>3, ActorFacts, StepKeeps

\* Who begins, an attempt or a check, has read the row.
LEMMA BeginKeeps ==
  ASSUME IInv, NEW a \in Actors,
         BeginAttempt(a) \/ BeginCheck(a) \/ StorePending(a) \/ Drops(a)
  PROVE  IInv'
<1>1. invoice \in Invoices /\ Stands(invoice, authorizations)
      /\ authorizations \in Seq(Results)
  BY DEF IInv, TypeOK
<1>2. CASE BeginAttempt(a) \/ BeginCheck(a)
  <2>1. PICK place \in {"emitting", "checking"} :
          /\ work' = [work EXCEPT
                        ![a] = [at |-> place, record |-> invoice, reply |-> NoReply]]
          /\ UNCHANGED <<invoice, authorizations>>
          /\ invoice.status \in {"error", "pending", "sent"}
          /\ place = "checking" => invoice.status = "sent"
    BY <1>2 DEF BeginAttempt, BeginCheck, Goes
  <2>2. Open(invoice, authorizations)
    BY <1>1, <2>1 DEF Stands
  <2>3. PICK w : w = [at |-> place, record |-> invoice, reply |-> NoReply]
    OBVIOUS
  <2>4. w \in Works /\ Truthful(w, authorizations)
    BY <1>1, <2>1, <2>2, <2>3, WorkBegun
  <2>5. work' = [work EXCEPT ![a] = w]
    BY <2>1, <2>3
  <2>6. invoice' \in Invoices /\ Stands(invoice', authorizations')
    BY <1>1, <2>1
  <2>7. Truthful(w, authorizations')
    BY <2>1, <2>4
  <2>8. Grows(authorizations, authorizations')
    BY <2>1, ActorFacts
  <2> QED  BY <2>4, <2>5, <2>6, <2>7, <2>8, StepKeeps
<1>3. CASE StorePending(a)
  <2>1. PICK stored \in BOOLEAN :
          LET record == [work[a].record EXCEPT !.status = "pending", !.signed = @ \/ stored]
          IN invoice' = record /\ Goes(a, "sending", record, NoReply)
    BY <1>3 DEF StorePending
  <2>2. PICK record :
          record = [work[a].record EXCEPT !.status = "pending", !.signed = @ \/ stored]
    OBVIOUS
  <2>3. record \in Invoices /\ Open(record, authorizations)
    BY <2>2, ActorFacts DEF Invoices, Open
  <2>4. invoice' = record /\ authorizations' = authorizations
        /\ work' = [work EXCEPT ![a] = [at |-> "sending", record |-> record, reply |-> NoReply]]
    BY <1>3, <2>1, <2>2 DEF StorePending, Goes
  <2>5. PICK w : w = [at |-> "sending", record |-> record, reply |-> NoReply]
    OBVIOUS
  <2>6. w \in Works /\ Truthful(w, authorizations)
    BY <1>1, <2>3, <2>5, WorkBegun
  <2>7. work' = [work EXCEPT ![a] = w]
    BY <2>4, <2>5
  <2>8. invoice' \in Invoices /\ Stands(invoice', authorizations')
    BY <2>3, <2>4 DEF Stands
  <2>9. Truthful(w, authorizations') /\ Grows(authorizations, authorizations')
    BY <2>4, <2>6, ActorFacts
  <2> QED  BY <2>6, <2>7, <2>8, <2>9, StepKeeps
<1>4. CASE Drops(a)
  <2>1. PICK w \in Works : w = Idle /\ Truthful(w, authorizations)
    BY <1>1, IdleTruthful
  <2>2. work' = [work EXCEPT ![a] = w] /\ UNCHANGED <<invoice, authorizations>>
    BY <1>4, <2>1 DEF Drops
  <2>3. invoice' \in Invoices /\ Stands(invoice', authorizations')
        /\ Truthful(w, authorizations')
    BY <1>1, <2>1, <2>2
  <2>4. Grows(authorizations, authorizations')
    BY <2>2, ActorFacts
  <2> QED  BY <2>2, <2>3, <2>4, StepKeeps
<1> QED  BY <1>2, <1>3, <1>4

\* Who hears an answer of the SRI waits with it.
LEMMA HearsKeeps ==
  ASSUME IInv, NEW a \in Actors, NEW answer \in Sent, Hears(a, answer),
         Grows(authorizations, authorizations'),
         ToldReceived(answer) => authorizations' # <<>>,
         ToldReturned(answer) => Refused(authorizations', Submissions)
  PROVE  IInv'
<1>1. PICK record : record = IF Unavailable(answer) THEN work[a].record
                             ELSE [work[a].record EXCEPT !.response = Nothing]
  OBVIOUS
<1>2. PICK w : w = [at |-> "answered", record |-> record,
                    reply |-> [answer |-> answer, asOf |-> Submissions]]
  OBVIOUS
<1>3. record \in Invoices /\ Open(record, authorizations)
  BY <1>1, ActorFacts DEF Invoices, Open
<1>4. Submissions \in Nat /\ Len(authorizations') \in Nat /\ Submissions <= Len(authorizations')
  BY ActorFacts, GrowsFacts DEF Submissions
<1>5. Open(record, authorizations')
  BY <1>3, ActorFacts, StillOpen
<1>6. w \in Works
  BY <1>2, <1>3, <1>4 DEF Works
<1>7. Truthful(w, authorizations')
  BY <1>2, <1>4, <1>5 DEF Truthful
<1>8. work' = [work EXCEPT ![a] = w] /\ invoice' = invoice
  BY <1>1, <1>2 DEF Hears, Goes
<1>9. invoice' \in Invoices /\ Stands(invoice', authorizations')
  BY <1>8, ActorFacts, StillStands DEF IInv, TypeOK
<1> QED  BY <1>6, <1>7, <1>8, <1>9, StepKeeps

\* The SRI says what it does.
LEMMA SendKeeps ==
  ASSUME IInv, NEW a \in Actors,
         SendAgain(a) \/ SendTaken(a) \/ SendReturned(a) \/ SendUnavailable(a)
  PROVE  IInv'
<1>1. Grows(authorizations, authorizations) /\ TypeOK
  BY ActorFacts DEF IInv
<1>2. CASE SendAgain(a)
  <2>1. PICK ids \in {{}, {"43"}, {"45"}, {"35", "43"}}, says \in BOOLEAN :
          /\ ids \cap {"43", "45"} # {} \/ says
          /\ Hears(a, Reception("DEVUELTA", ids, says))
    BY <1>2 DEF SendAgain
  <2>2. PICK answer : answer = Reception("DEVUELTA", ids, says)
    OBVIOUS
  <2>3. answer \in Sent /\ ToldReceived(answer)
    BY <2>1, <2>2 DEF Sent, Reception, ToldReceived, Unavailable, IsAlreadyReceived
  <2>4. authorizations' = authorizations /\ authorizations # <<>>
    BY <1>1, <1>2, NotHeld DEF SendAgain
  <2> QED  BY <1>1, <2>1, <2>2, <2>3, <2>4, HearsKeeps DEF ToldReturned
<1>3. CASE SendTaken(a)
  <2>1. PICK answer : answer = Reception("RECIBIDA", {}, FALSE)
    OBVIOUS
  <2>2. answer \in Sent /\ ToldReceived(answer)
    BY <2>1 DEF Sent, Reception, ToldReceived, Unavailable
  <2> QED  BY <1>1, <1>3, <2>1, <2>2, TakesGrows, HearsKeeps DEF SendTaken, ToldReturned
<1>4. CASE SendReturned(a)
  <2>1. PICK ids \in {{}, {"35"}} : Hears(a, Reception("DEVUELTA", ids, FALSE))
    BY <1>4 DEF SendReturned
  <2>2. PICK answer : answer = Reception("DEVUELTA", ids, FALSE)
    OBVIOUS
  <2>3. answer \in Sent /\ ~ ToldReceived(answer)
    BY <2>1, <2>2 DEF Sent, Reception, ToldReceived, IsAlreadyReceived
  <2>4. authorizations' = authorizations /\ Refused(authorizations, Submissions)
    BY <1>1, <1>4, NotHeld DEF SendReturned
  <2> QED  BY <1>1, <2>1, <2>2, <2>3, <2>4, HearsKeeps
<1>5. CASE SendUnavailable(a)
  <2>1. PICK answer \in Garbage : Hears(a, answer)
    BY <1>5 DEF SendUnavailable
  <2>2. answer \in Sent /\ Unavailable(answer)
    <3> DEFINE R(ok, fault, estado) ==
                 [ok |-> ok, fault |-> fault, estado |-> estado,
                  ids |-> {}, saysRegistered |-> FALSE]
    <3>1. \/ answer = R(FALSE, TRUE, NoEstado)
          \/ answer = R(TRUE, FALSE, NoEstado)
          \/ answer = R(FALSE, FALSE, "RECIBIDA")
      BY <2>1 DEF Garbage, Reception
    <3>2. \A ok, fault \in BOOLEAN, estado \in {NoEstado, "RECIBIDA", "DEVUELTA"} :
            R(ok, fault, estado) \in Sent
      BY DEF Sent
    <3> HIDE DEF R
    <3>3. answer \in Sent
      BY <3>1, <3>2, Zenon
    <3>4. Unavailable(answer)
      BY <3>1 DEF Unavailable, NoEstado, R
    <3> QED  BY <3>3, <3>4
  <2>3. Grows(authorizations, authorizations')
    BY <1>1, <1>5, TakesGrows DEF SendUnavailable
  <2> QED  BY <2>1, <2>2, <2>3, HearsKeeps DEF ToldReceived, ToldReturned
<1> QED  BY <1>2, <1>3, <1>4, <1>5

\* The end of an attempt.
LEMMA AttemptEndsKeeps ==
  ASSUME IInv, NEW a \in Actors, StoreSent(a) \/ StoreReturned(a) \/ StoreError(a)
  PROVE  IInv'
<1>1. Truthful(work[a], authorizations)
  BY DEF IInv
<1>2. CASE StoreSent(a)
  <2>1. PICK record : record = [work[a].record EXCEPT !.status = "sent", !.checks = 0]
    OBVIOUS
  <2>2. authorizations # <<>>
    BY <1>1, <1>2 DEF StoreSent, At, Heard, Truthful
  <2>3. record \in Invoices /\ Open(record, authorizations)
    BY <2>1, <2>2, ActorFacts DEF Invoices, Open
  <2> QED  BY <1>2, <2>1, <2>3, EndsKeeps DEF StoreSent, Stands
<1>3. CASE StoreReturned(a)
  <2>1. PICK record : record = [work[a].record EXCEPT
                                  !.status = "rejected", !.asOf = work[a].reply.asOf]
    OBVIOUS
  <2>2. Refused(authorizations, work[a].reply.asOf)
    BY <1>1, <1>3 DEF StoreReturned, At, Heard, Truthful
  <2>3. record \in Invoices /\ record.status = "rejected"
        /\ record.asOf = work[a].reply.asOf
    BY <2>1, ActorFacts DEF Invoices
  <2>4. Stands(record, authorizations)
    BY <2>2, <2>3, ActorFacts DEF Stands
  <2> QED  BY <1>3, <2>1, <2>3, <2>4, EndsKeeps DEF StoreReturned
<1>4. CASE StoreError(a)
  <2>1. PICK record : record = [work[a].record EXCEPT !.status = "error"]
    OBVIOUS
  <2>2. record \in Invoices /\ Open(record, authorizations)
    BY <2>1, ActorFacts DEF Invoices, Open
  <2> QED  BY <1>4, <2>1, <2>2, EndsKeeps DEF StoreError, Stands
<1> QED  BY <1>2, <1>3, <1>4

\* A query is answered with what the client chooses, or with nothing.
LEMMA QueryKeeps ==
  ASSUME IInv, NEW a \in Actors, Query(a)
  PROVE  IInv'
<1>1. /\ authorizations' = authorizations /\ invoice' = invoice /\ work[a].at = "checking"
      /\ \E answer \in {Chosen, NoAuthorization} :
           work' = [work EXCEPT ![a] = [at |-> "told", record |-> work[a].record,
                                        reply |-> [answer |-> answer, asOf |-> Submissions]]]
  BY DEF Query, Goes, At
<1>2. PICK answer \in {Chosen, NoAuthorization} :
        work' = [work EXCEPT ![a] = [at |-> "told", record |-> work[a].record,
                                     reply |-> [answer |-> answer, asOf |-> Submissions]]]
  BY <1>1
<1>3. answer \in Queried /\ AnswerStands(answer, Submissions, authorizations)
  <2>1. NoAuthorization \in Queried
        /\ AnswerStands(NoAuthorization, Submissions, authorizations)
    BY DEF NoAuthorization, Queried, AnswerStands
  <2> QED  BY <1>2, <2>1, ChosenStands DEF IInv
<1>4. PICK w : w = [at |-> "told", record |-> work[a].record,
                    reply |-> [answer |-> answer, asOf |-> Submissions]]
  OBVIOUS
<1>5. work[a].record.status = "sent"
  BY <1>1 DEF IInv, Truthful
<1>6. Submissions \in Nat /\ Submissions <= Len(authorizations)
  BY ActorFacts DEF Submissions
<1>7. w \in Works
  BY <1>3, <1>4, <1>6, ActorFacts DEF Works
<1>8. Truthful(w, authorizations)
  BY <1>3, <1>4, <1>5, <1>6, ActorFacts DEF Truthful
<1>9. work' = [work EXCEPT ![a] = w]
  BY <1>2, <1>4
<1>10. invoice' \in Invoices /\ Stands(invoice', authorizations')
  BY <1>1 DEF IInv, TypeOK
<1>11. Truthful(w, authorizations') /\ Grows(authorizations, authorizations')
  BY <1>1, <1>8, ActorFacts
<1> QED  BY <1>7, <1>9, <1>10, <1>11, StepKeeps

\* The end of a check.
LEMMA CheckEndsKeeps ==
  ASSUME IInv, NEW a \in Actors,
         StoreAuthorized(a) \/ StoreNotAuthorized(a) \/ StoreUndecided(a)
  PROVE  IInv'
<1> DEFINE answer == Heard(a)
           asOf == work[a].reply.asOf
<1>1. /\ work[a].at = "told" /\ work[a] \in Works
      /\ authorizations' = authorizations
      /\ Truthful(work[a], authorizations)
  BY DEF IInv, TypeOK, StoreAuthorized, StoreNotAuthorized, StoreUndecided, At
<1>2. answer \in Queried /\ AnswerStands(answer, asOf, authorizations)
      /\ work[a].record.status = "sent"
  BY <1>1 DEF Works, Truthful, Heard
<1>3. /\ work[a].record \in Invoices /\ Open(work[a].record, authorizations)
      /\ asOf \in Nat /\ asOf <= Len(authorizations)
  BY ActorFacts
<1>4. CASE StoreAuthorized(a)
  <2> DEFINE authorized == [work[a].record EXCEPT !.status = "authorized", !.response = Nothing]
  <2>1. PICK uploaded \in BOOLEAN :
          Ends(a, IF ~ answer.xml THEN authorized
                  ELSE IF uploaded THEN [authorized EXCEPT !.file = answer.of]
                  ELSE [authorized EXCEPT !.response = answer.of])
    BY <1>4 DEF StoreAuthorized
  <2>2. PICK record : record = IF ~ answer.xml THEN authorized
                               ELSE IF uploaded THEN [authorized EXCEPT !.file = answer.of]
                               ELSE [authorized EXCEPT !.response = answer.of]
    OBVIOUS
  <2>3. /\ answer.of \in DOMAIN authorizations
        /\ authorizations[answer.of].estado = "AUTORIZADO"
        /\ authorizations[answer.of].xml = answer.xml
        /\ answer.of \in Nat /\ answer.xml \in BOOLEAN
    BY <1>2, <1>4 DEF StoreAuthorized, AnswerStands, Queried
  <2> HIDE DEF answer
  <2>4. record \in Invoices /\ record.status = "authorized"
    BY <1>3, <2>2, <2>3 DEF Invoices
  <2>5. work[a].record.file = Nothing
    BY <1>3 DEF Open
  <2>6. IF answer.xml
        THEN record.file = answer.of \/ (record.file = Nothing /\ record.response = answer.of)
        ELSE record.file = Nothing /\ record.response = Nothing
    BY <1>3, <2>2, <2>3, <2>5 DEF Invoices
  <2>7. Served(record, authorizations)
    BY <2>3, <2>6 DEF Served
  <2>8. Stands(record, authorizations)
    BY <2>4, <2>7 DEF Stands
  <2>9. Ends(a, record)
    BY <2>1, <2>2
  <2> QED  BY <1>1, <2>4, <2>8, <2>9, EndsKeeps
<1>5. CASE StoreNotAuthorized(a)
  <2>1. PICK record : record = [work[a].record EXCEPT
                !.status = "rejected", !.asOf = asOf,
                !.response = IF answer.xml THEN answer.of ELSE Nothing]
    OBVIOUS
  <2>2. NewestFirst => Refused(authorizations, asOf)
    BY <1>2, <1>5 DEF StoreNotAuthorized, AnswerStands
  <2>3. Ends(a, record)
    BY <1>5, <2>1 DEF StoreNotAuthorized
  <2>4. answer.of \in Nat
    BY <1>2 DEF Queried
  <2> HIDE DEF answer, asOf
  <2>5. record \in Invoices /\ record.status = "rejected" /\ record.asOf = asOf
    BY <1>3, <2>1, <2>4 DEF Invoices
  <2>6. Stands(record, authorizations)
    BY <1>3, <2>2, <2>5 DEF Stands
  <2> QED  BY <1>1, <2>3, <2>5, <2>6, EndsKeeps
<1>6. CASE StoreUndecided(a)
  <2>1. PICK checks, status :
          /\ checks = work[a].record.checks + 1
          /\ status = IF checks >= MaxChecks THEN "error" ELSE work[a].record.status
    OBVIOUS
  <2>2. PICK record : record = [work[a].record EXCEPT !.checks = checks, !.status = status]
    OBVIOUS
  <2>3. Ends(a, record)
    BY <1>6, <2>1, <2>2 DEF StoreUndecided
  <2>4. checks \in Nat /\ status \in {"sent", "error"}
    BY <1>2, <1>3, <2>1 DEF Invoices
  <2>5. record \in Invoices /\ Open(record, authorizations)
    BY <1>2, <1>3, <2>2, <2>4 DEF Invoices, Open
  <2> QED  BY <1>1, <2>3, <2>5, EndsKeeps DEF Stands
<1> QED  BY <1>4, <1>5, <1>6

\* Before anything is sent, the SRI has no result.
LEMMA InitIInv == Init => IInv
<1> SUFFICES ASSUME Init PROVE IInv
  OBVIOUS
<1>1. authorizations \in Seq(Results) /\ DOMAIN authorizations = {}
  BY DEF Init
<1>2. Idle \in Works /\ Truthful(Idle, authorizations) /\ NewInvoice \in Invoices
  BY <1>1, IdleTruthful
<1>3. TypeOK /\ \A a \in Actors : Truthful(work[a], authorizations)
  BY <1>1, <1>2 DEF Init, TypeOK
<1>4. Stands(invoice, authorizations) /\ OlderRefused(authorizations)
  BY <1>1 DEF Init, Stands, Open, NewInvoice, OlderRefused
<1> QED  BY <1>3, <1>4 DEF IInv

\* The invariant is inductive.
LEMMA NextIInv ==
  ASSUME IInv, [Next]_vars
  PROVE  IInv'
<1>1. CASE SriDecides
  <2>1. Grows(authorizations, authorizations') /\ UNCHANGED <<invoice, work>>
    BY <1>1, DecidesGrows DEF IInv, SriDecides
  <2>2. authorizations \in Seq(Results) /\ authorizations' \in Seq(Results)
        /\ OlderRefused(authorizations')
    BY <2>1 DEF IInv, TypeOK, Grows
  <2>3. Stands(invoice', authorizations')
    BY <2>1, <2>2, StillStands DEF IInv, TypeOK
  <2>4. \A a \in Actors : Truthful(work'[a], authorizations')
    BY <2>1, <2>2, StillTruthful DEF IInv, TypeOK
  <2> QED  BY <2>1, <2>2, <2>3, <2>4 DEF IInv, TypeOK
<1>2. CASE UNCHANGED vars
  BY <1>2 DEF vars, IInv, TypeOK
<1> QED
  BY <1>1, <1>2, BeginKeeps, SendKeeps, AttemptEndsKeeps, QueryKeeps, CheckEndsKeeps DEF Next

\* It holds in every reachable state.
LEMMA IInvHolds == Spec => []IInv
<1>1. IInv /\ [Next]_vars => IInv'
  BY NextIInv
<1> QED  BY <1>1, InitIInv, PTL DEF Spec

\* What is kept of the SRI's answers has the shape of an answer, and no state
\* of the document is one the code does not know.
THEOREM TypeCorrect == Spec => []TypeOK
  BY IInvHolds, PTL DEF IInv

\* As long as the SRI lists its results newest first, no outage, page, old
\* result or overlapping attempt makes a rejection of a document of which, when
\* the SRI was asked, something was authorized or might still be.
THEOREM RejectionsAreTrue ==
  ASSUME NewestFirst
  PROVE  Spec => []RejectionIsTrue
<1>1. IInv => RejectionIsTrue
  BY DEF IInv, Stands, Open, Refused, RefusedUpTo, RejectionIsTrue
<1> QED  BY <1>1, IInvHolds, PTL

\* A document that is being checked is one the SRI took.
THEOREM SentAreHeld == Spec => []SentIsHeld
<1>1. IInv => SentIsHeld
  BY DEF IInv, Stands, Open, SentIsHeld
<1> QED  BY <1>1, IInvHolds, PTL

\* An 'authorized' document was authorized, what is downloaded of it is the XML
\* of that authorization, and of no document under way is one served as
\* authorized: in any order of the results, and with any overlap.
THEOREM LegalDocumentsAreServed == Spec => []LegalDocumentIsServed
<1>1. IInv => LegalDocumentIsServed
  <2> SUFFICES ASSUME IInv PROVE LegalDocumentIsServed
    OBVIOUS
  <2>1. CASE Open(invoice, authorizations)
    <3>1. Download = Signed /\ Signed[1] # "authorized"
      BY <2>1 DEF Open, Download, Signed
    <3> QED  BY <2>1, <3>1 DEF Open, LegalDocumentIsServed
  <2>2. CASE invoice.status = "authorized" /\ Served(invoice, authorizations)
    <3>1. PICK i \in DOMAIN authorizations :
            /\ authorizations[i].estado = "AUTORIZADO"
            /\ IF authorizations[i].xml
               THEN invoice.file = i \/ (invoice.file = Nothing /\ invoice.response = i)
               ELSE invoice.file = Nothing /\ invoice.response = Nothing
      BY <2>2 DEF Served
    <3>2. i \in Nat /\ i # Nothing
      BY DEF IInv, TypeOK
    <3>3. IF authorizations[i].xml
          THEN Download = <<"authorized", i>>
          ELSE Download[1] # "authorized"
      BY <3>1, <3>2 DEF Download, Signed
    <3> QED  BY <2>2, <3>1, <3>3 DEF LegalDocumentIsServed
  <2>3. CASE invoice.status = "rejected"
    BY <2>3 DEF LegalDocumentIsServed
  <2> QED  BY <2>1, <2>2, <2>3 DEF IInv, Stands
<1> QED  BY <1>1, IInvHolds, PTL

-----------------------------------------------------------------------------
(* The key that is asked about: AccessKeys, where a document goes through    *)
(* any number of attempts, losses, crashes and days.  With its date of issue *)
(* in the payload it has one key, so that "the SRI has this document", of    *)
(* which the section above speaks, means one thing.                          *)

\* Every key in the system is the one of the day of issue.
OneKey ==
  /\ row.key \in {NoKey, IssueDay}
  /\ registered \in {NoKey, IssueDay}
  /\ \A a \in Attempts : pc[a] # "idle" => copy[a].key = IssueDay
  /\ \A a \in Attempts : pc[a] = "answered" => registered = IssueDay
  /\ row.status = "sent" => row.key = IssueDay /\ registered = IssueDay

\* The variables keep their types.
LEMMA KeyTypes == KeySpec => []KeyTypeOK
<1>1. KeyInit => KeyTypeOK
  BY AccessKeysAssumption DEF KeyInit, KeyTypeOK, Rows, Statuses, Keys, Days
<1>2. KeyTypeOK /\ [KeyNext]_keyVars => KeyTypeOK'
  <2> SUFFICES ASSUME KeyTypeOK, [KeyNext]_keyVars PROVE KeyTypeOK'
    OBVIOUS
  <2> USE AccessKeysAssumption DEF KeyTypeOK, Rows, Statuses, Keys, Days
  <2>1. CASE Check
    <3>1. row.checks + 1 \in Nat
      OBVIOUS
    <3>2. PICK checks \in Nat, status \in Statuses :
            row' = [row EXCEPT !.checks = checks, !.status = status]
      <4>2. CASE row' = [row EXCEPT !.status = "authorized"]
        <5>1. row' = [row EXCEPT !.checks = row.checks, !.status = "authorized"]
          BY <4>2
        <5> QED  BY <5>1
      <4>3. CASE row' = [row EXCEPT !.status = "rejected"]
        <5>1. row' = [row EXCEPT !.checks = row.checks, !.status = "rejected"]
          BY <4>3
        <5> QED  BY <5>1
      <4>4. CASE row' = [row EXCEPT !.checks = @ + 1,
                                   !.status = IF row.checks + 1 >= MaxKeyChecks
                                              THEN "error" ELSE "sent"]
        BY <3>1, <4>4
      <4> QED  BY <2>1, <4>2, <4>3, <4>4, Zenon DEF Check
    <3>3. row' \in Rows
      BY <3>2
    <3> QED  BY <2>1, <3>3 DEF Check
  <2>2. CASE SriDecidesKey \/ Midnight \/ Crash
    BY <2>2 DEF SriDecidesKey, Midnight, Crash
  <2>3. ASSUME NEW a \in Attempts, Build(a) PROVE KeyTypeOK'
    <3>1. KeyFor \in 0..LastDay
      BY DEF KeyFor
    <3> DEFINE new == [row EXCEPT !.key = KeyFor]
    <3>2. new \in Rows
      BY <3>1
    <3>3. copy' = [copy EXCEPT ![a] = new] /\ pc' = [pc EXCEPT ![a] = "built"]
      BY <2>3 DEF Build
    <3>4. UNCHANGED <<today, row, registered, verdict>>
      BY <2>3 DEF Build
    <3> HIDE DEF new
    <3>5. copy' \in [Attempts -> Rows]
      BY <3>2, <3>3 DEF KeyTypeOK
    <3>6. pc' \in [Attempts -> {"idle", "built", "ready", "answered", "unanswered"}]
      BY <3>3
    <3> QED  BY <3>4, <3>5, <3>6
  <2>4. ASSUME NEW a \in Attempts, Fail(a) \/ SavePending(a) PROVE KeyTypeOK'
    <3>1. CASE Fail(a)
      BY <3>1 DEF Fail
    <3>2. CASE SavePending(a)
      <4>1. row' \in Rows /\ copy' = [copy EXCEPT ![a] = row']
        BY <3>2 DEF SavePending
      <4>2. copy' \in [Attempts -> Rows]
        BY <4>1 DEF KeyTypeOK
      <4>3. /\ pc' = [pc EXCEPT ![a] = "ready"]
            /\ UNCHANGED <<today, registered, verdict>>
        BY <3>2 DEF SavePending
      <4>4. pc' \in [Attempts -> {"idle", "built", "ready", "answered", "unanswered"}]
        BY <4>3
      <4> QED  BY <4>1, <4>2, <4>3, <4>4
    <3> QED  BY <2>4, <3>1, <3>2
  <2>5. ASSUME NEW a \in Attempts, Send(a) PROVE KeyTypeOK'
    <3>1. CASE registered = NoKey
      <4>1. copy[a].key \in 0..LastDay \cup {NoKey}
        OBVIOUS
      <4> QED  BY <2>5, <3>1, <4>1 DEF Send
    <3>2. CASE registered # NoKey
      BY <2>5, <3>2 DEF Send
    <3> QED  BY <3>1, <3>2
  <2>6. ASSUME NEW a \in Attempts,
               SendNeverArrives(a) \/ SaveSent(a) \/ SaveLost(a)
        PROVE  KeyTypeOK'
    <3>1. CASE SendNeverArrives(a)
      BY <3>1 DEF SendNeverArrives
    <3>2. CASE SaveSent(a)
      BY <3>2 DEF SaveSent
    <3>3. CASE SaveLost(a)
      BY <3>3 DEF SaveLost
    <3> QED  BY <2>6, <3>1, <3>2, <3>3
  <2>7. CASE UNCHANGED keyVars
    BY <2>7 DEF keyVars
  <2> QED  BY <2>1, <2>2, <2>3, <2>4, <2>5, <2>6, <2>7 DEF KeyNext
<1> QED  BY <1>1, <1>2, PTL DEF KeySpec

\* With a date of issue, the one key is never left.
LEMMA OneKeyPreserved ==
  ASSUME Dated, KeyTypeOK, OneKey, [KeyNext]_keyVars
  PROVE  OneKey' /\ (row.key # NoKey => row'.key = row.key)
<1> USE AccessKeysAssumption DEF KeyTypeOK, Rows, OneKey
<1>1. CASE Check
  BY <1>1 DEF Check
<1>2. CASE SriDecidesKey \/ Midnight \/ Crash
  BY <1>2 DEF SriDecidesKey, Midnight, Crash
<1>3. ASSUME NEW a \in Attempts, Build(a)
      PROVE  OneKey' /\ (row.key # NoKey => row'.key = row.key)
  BY <1>3 DEF Build, KeyFor
<1>4. ASSUME NEW a \in Attempts, Fail(a) \/ SavePending(a)
      PROVE  OneKey' /\ (row.key # NoKey => row'.key = row.key)
  BY <1>4 DEF Fail, SavePending
<1>5. ASSUME NEW a \in Attempts, Send(a)
      PROVE  OneKey' /\ (row.key # NoKey => row'.key = row.key)
  BY <1>5 DEF Send
<1>6. ASSUME NEW a \in Attempts, SendNeverArrives(a) \/ SaveLost(a)
      PROVE  OneKey' /\ (row.key # NoKey => row'.key = row.key)
  BY <1>6 DEF SendNeverArrives, SaveLost
<1>7. ASSUME NEW a \in Attempts, SaveSent(a)
      PROVE  OneKey' /\ (row.key # NoKey => row'.key = row.key)
  BY <1>7 DEF SaveSent
<1>8. CASE UNCHANGED keyVars
  BY <1>8 DEF keyVars
<1> QED  BY <1>1, <1>2, <1>3, <1>4, <1>5, <1>6, <1>7, <1>8 DEF KeyNext

\* It is the one key from the start.
LEMMA InitOneKey == KeyInit => OneKey
BY DEF KeyInit, OneKey

\* The key of a dated document never changes once it has one.
THEOREM DatedKeyIsStable ==
  ASSUME Dated
  PROVE  KeySpec => KeyIsStable
<1>1. KeyTypeOK /\ OneKey /\ [KeyNext]_keyVars
        => OneKey' /\ [KeyNeverChanges]_keyVars
  BY OneKeyPreserved DEF KeyNeverChanges
<1> QED  BY <1>1, InitOneKey, KeyTypes, PTL DEF KeySpec, KeyIsStable

\* A dated document that is "sent" is one whose key the SRI has: asking for
\* its authorization is never in vain, even after 43 or 45.
THEOREM DatedSentIsRegistered ==
  ASSUME Dated
  PROVE  KeySpec => []SentIsRegistered
<1>1. KeyTypeOK /\ OneKey /\ [KeyNext]_keyVars => OneKey'
  BY OneKeyPreserved
<1>2. OneKey => SentIsRegistered
  BY DEF OneKey, SentIsRegistered
<1> QED  BY <1>1, <1>2, InitOneKey, KeyTypes, PTL DEF KeySpec
=============================================================================
