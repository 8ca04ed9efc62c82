----------------------------- MODULE SriAnswers -----------------------------
(* How an answer of the SRI becomes a state of the document: what the SOAP   *)
(* client makes of a response of reception or of authorization, and what     *)
(* signAndSend and checkAuthorization save from it.  Several callers (the    *)
(* consumer, the job, HTTP requests) may be at it at once: each reads the    *)
(* row, waits for the SRI and then saves its whole copy, over whatever the   *)
(* others saved meanwhile.  The SRI may be down, be behind a proxy that      *)
(* answers with a page, or hold several authorizations of one access key.    *)
(* And which XML the routes serve of it: the authorized one is the legal     *)
(* document, the signed one is not.                                          *)
EXTENDS Naturals, Sequences

CONSTANTS Actors,          \* who works on the document
          MaxSubmissions,  \* bound on the submissions the SRI takes
          MaxChecks,       \* maxAuthorizationChecks
          NewestFirst,     \* the order in which the SRI lists its results
          Nothing

ASSUME SriAnswersAssumption ==
  /\ MaxSubmissions \in Nat \ {0} /\ MaxChecks \in Nat \ {0}
  /\ NewestFirst \in BOOLEAN
  /\ Nothing \notin Nat

VARIABLES
  invoice,        \* the row of fiscal_invoices
  work,           \* what each actor is at: its copy of the row, and the answer
                  \* it was given with how many submissions the SRI had then
  authorizations  \* the SRI's result of each submission of the key, by age

vars == <<invoice, work, authorizations>>

(* In a row: retry_count while 'sent', whether there is a signed XML, of     *)
(* which submission are authorized_xml_file_id and the xmlAutorizado inside  *)
(* sri_response, and (history) the asOf of the answer that rejected it.      *)
Invoices ==
  [status : {"error", "pending", "sent", "authorized", "rejected"}, checks : Nat,
   signed : BOOLEAN, file : Nat \cup {Nothing}, response : Nat \cup {Nothing}, asOf : Nat]

Results == [estado : {"AUTORIZADO", "NO AUTORIZADO", "EN PROCESAMIENTO"}, xml : BOOLEAN]

-----------------------------------------------------------------------------
(* A response: whether the HTTP status is 200, whether the body is a SOAP    *)
(* Fault, and the content its operation looks for.                           *)

NoEstado == "none"

Reception(estado, ids, says) ==
  [ok |-> TRUE, fault |-> FALSE, estado |-> estado, ids |-> ids, saysRegistered |-> says]

Garbage ==
  {[Reception(NoEstado, {}, FALSE) EXCEPT !.ok = FALSE, !.fault = TRUE],
   Reception(NoEstado, {}, FALSE),
   [Reception("RECIBIDA", {}, FALSE) EXCEPT !.ok = FALSE]}

(* Not an answer: the client throws SriUnavailableError.                     *)
Unavailable(answer) ==
  answer.fault \/ ~ answer.ok \/ answer.estado \notin {"RECIBIDA", "DEVUELTA"}

IsAlreadyReceivedAnyMessage(answer) == answer.estado = "DEVUELTA"

IsAlreadyReceived(answer) ==
  /\ answer.estado = "DEVUELTA"
  /\ answer.ids \cap {"43", "45"} # {} \/ answer.saysRegistered

(* A list without results means that there is none yet, and so does no       *)
(* usable answer.                                                            *)
NoAuthorization == [estado |-> "EN PROCESAMIENTO", xml |-> FALSE, of |-> 0]

First(submissions) ==
  CHOOSE i \in submissions :
    \A j \in submissions : IF NewestFirst THEN j <= i ELSE i <= j

(* The first authorized result if there is one, else the first.              *)
Chosen ==
  LET authorized == {i \in DOMAIN authorizations : authorizations[i].estado = "AUTORIZADO"}
      listed     == IF authorized # {} THEN authorized ELSE DOMAIN authorizations
      first      == First(listed)
  IN IF listed = {}
     THEN NoAuthorization
     ELSE [estado |-> authorizations[first].estado, xml |-> authorizations[first].xml,
           of |-> first]

-----------------------------------------------------------------------------
(* The SRI, as the client and its tests use it: one submission of a key is   *)
(* open at a time, and a key it did not authorize can be submitted again.    *)

Submissions == Len(authorizations)

Holds == \E i \in DOMAIN authorizations : authorizations[i].estado # "NO AUTORIZADO"

MayTake == ~ Holds /\ Submissions < MaxSubmissions

Takes == authorizations' = Append(authorizations, [estado |-> "EN PROCESAMIENTO", xml |-> FALSE])

SriDecides ==
  /\ authorizations # <<>>
  /\ authorizations[Submissions].estado = "EN PROCESAMIENTO"
  /\ \E verdict \in {"AUTORIZADO", "NO AUTORIZADO"}, xml \in BOOLEAN :
       authorizations' =
         [authorizations EXCEPT ![Submissions] = [estado |-> verdict, xml |-> xml]]
  /\ UNCHANGED <<invoice, work>>

-----------------------------------------------------------------------------
NoReply == [answer |-> Nothing, asOf |-> 0]

(* An attempt that failed before it sent anything.                           *)
NewInvoice ==
  [status |-> "error", checks |-> 0, signed |-> FALSE,
   file |-> Nothing, response |-> Nothing, asOf |-> 0]

Idle == [at |-> "idle", record |-> NewInvoice, reply |-> NoReply]

Init ==
  /\ invoice = NewInvoice
  /\ work = [a \in Actors |-> Idle]
  /\ authorizations = <<>>

At(a, place) == work[a].at = place

Goes(a, place, record, reply) ==
  work' = [work EXCEPT ![a] = [at |-> place, record |-> record, reply |-> reply]]

(* The whole copy is saved, by id alone, and the actor is done.              *)
Ends(a, record) == invoice' = record /\ work' = [work EXCEPT ![a] = Idle]

(* The process dies, or the actor's last save fails.                         *)
Drops(a) ==
  /\ ~ At(a, "idle")
  /\ work' = [work EXCEPT ![a] = Idle]
  /\ UNCHANGED <<invoice, authorizations>>

(* An attempt (first, automatic or asked for) reads a row that is not        *)
(* settled.                                                                  *)
BeginAttempt(a) ==
  /\ At(a, "idle")
  /\ invoice.status \in {"error", "pending"}
  /\ Goes(a, "emitting", invoice, NoReply)
  /\ UNCHANGED <<invoice, authorizations>>

(* It signs the document and stores the signed XML, if the storage lets it.  *)
StorePending(a) ==
  /\ At(a, "emitting")
  /\ \E stored \in BOOLEAN :
       LET record == [work[a].record EXCEPT !.status = "pending", !.signed = @ \/ stored]
       IN invoice' = record /\ Goes(a, "sending", record, NoReply)
  /\ UNCHANGED authorizations

(* The answer to a send, with the submissions the SRI had before it.         *)
Hears(a, answer) ==
  /\ At(a, "sending")
  /\ Goes(a, "answered",
          IF Unavailable(answer) THEN work[a].record
          ELSE [work[a].record EXCEPT !.response = Nothing],
          [answer |-> answer, asOf |-> Submissions])
  /\ UNCHANGED invoice

(* The SRI holds the key already: it says so, by identifier or in words.     *)
SendAgain(a) ==
  /\ Holds
  /\ \E ids \in {{}, {"43"}, {"45"}, {"35", "43"}}, says \in BOOLEAN :
       /\ ids \cap {"43", "45"} # {} \/ says
       /\ Hears(a, Reception("DEVUELTA", ids, says))
  /\ UNCHANGED authorizations

(* The SRI takes the submission and says so.                                 *)
SendTaken(a) == MayTake /\ Takes /\ Hears(a, Reception("RECIBIDA", {}, FALSE))

(* It returns it: the document does not comply.                              *)
SendReturned(a) ==
  /\ ~ Holds
  /\ \E ids \in {{}, {"35"}} : Hears(a, Reception("DEVUELTA", ids, FALSE))
  /\ UNCHANGED authorizations

(* No answer that can be used; the submission may have been taken.           *)
SendUnavailable(a) ==
  /\ \E answer \in Garbage : Hears(a, answer)
  /\ UNCHANGED authorizations \/ (MayTake /\ Takes)

Heard(a) == work[a].reply.answer

ToldReceived(answer) ==
  /\ ~ Unavailable(answer)
  /\ answer.estado = "RECIBIDA" \/ IsAlreadyReceived(answer)

ToldReturned(answer) == ~ Unavailable(answer) /\ ~ ToldReceived(answer)

StoreSent(a) ==
  /\ At(a, "answered")
  /\ ToldReceived(Heard(a))
  /\ Ends(a, [work[a].record EXCEPT !.status = "sent", !.checks = 0])
  /\ UNCHANGED authorizations

\* Faulty: what is not 'received' is a rejection, an outage with it.
StoreReturnedUnheard(a) ==
  /\ At(a, "answered")
  /\ ~ ToldReceived(Heard(a))
  /\ Ends(a, [work[a].record EXCEPT !.status = "rejected", !.asOf = work[a].reply.asOf])
  /\ UNCHANGED authorizations

StoreReturned(a) ==
  /\ At(a, "answered")
  /\ ToldReturned(Heard(a))
  /\ Ends(a, [work[a].record EXCEPT !.status = "rejected", !.asOf = work[a].reply.asOf])
  /\ UNCHANGED authorizations

(* fail: something on the way did not work, the answer of the SRI or a save  *)
(* among them.  The document will be sent again.                             *)
StoreError(a) ==
  /\ work[a].at \in {"emitting", "sending", "answered"}
  /\ Ends(a, [work[a].record EXCEPT !.status = "error"])
  /\ UNCHANGED authorizations

(* The job takes a row that is 'sent', and asks for the result some time     *)
(* after.                                                                    *)
BeginCheck(a) ==
  /\ At(a, "idle")
  /\ invoice.status = "sent"
  /\ Goes(a, "checking", invoice, NoReply)
  /\ UNCHANGED <<invoice, authorizations>>

Query(a) ==
  /\ At(a, "checking")
  /\ \E answer \in {Chosen, NoAuthorization} :
       Goes(a, "told", work[a].record, [answer |-> answer, asOf |-> Submissions])
  /\ UNCHANGED <<invoice, authorizations>>

StoreAuthorizedFileOnly(a) ==
  /\ At(a, "told")
  /\ Heard(a).estado = "AUTORIZADO"
  /\ \E uploaded \in BOOLEAN :
       LET authorized == [work[a].record EXCEPT !.status = "authorized", !.response = Nothing]
       IN Ends(a, IF Heard(a).xml /\ uploaded
                  THEN [authorized EXCEPT !.file = Heard(a).of]
                  ELSE authorized)
  /\ UNCHANGED authorizations

(* Authorized: the XML the SRI returns is the legal document.  It is stored  *)
(* as a file, or inside the answer when the storage fails.                   *)
StoreAuthorized(a) ==
  /\ At(a, "told")
  /\ Heard(a).estado = "AUTORIZADO"
  /\ \E uploaded \in BOOLEAN :
       LET authorized == [work[a].record EXCEPT !.status = "authorized", !.response = Nothing]
       IN Ends(a, IF ~ Heard(a).xml THEN authorized
                  ELSE IF uploaded THEN [authorized EXCEPT !.file = Heard(a).of]
                  ELSE [authorized EXCEPT !.response = Heard(a).of])
  /\ UNCHANGED authorizations

(* Refused: the whole answer is kept in sri_response, its XML included.      *)
StoreNotAuthorized(a) ==
  /\ At(a, "told")
  /\ Heard(a).estado = "NO AUTORIZADO"
  /\ Ends(a, [work[a].record EXCEPT
                !.status = "rejected", !.asOf = work[a].reply.asOf,
                !.response = IF Heard(a).xml THEN Heard(a).of ELSE Nothing])
  /\ UNCHANGED authorizations

(* In process, nothing yet, or no usable answer: one check is counted, and   *)
(* the last one allowed gives the document up as an error.                   *)
StoreUndecided(a) ==
  /\ At(a, "told")
  /\ Heard(a).estado = "EN PROCESAMIENTO"
  /\ LET checks == work[a].record.checks + 1
     IN Ends(a, [work[a].record EXCEPT
                   !.checks = checks, !.status = IF checks >= MaxChecks THEN "error" ELSE @])
  /\ UNCHANGED authorizations

(* GET /fiscal-invoices/:id/xml and its /download.                            *)
Signed == <<IF invoice.signed THEN "signed" ELSE "none", Nothing>>

Link == IF invoice.file # Nothing THEN <<"authorized", invoice.file>> ELSE Signed

Download ==
  IF invoice.file # Nothing THEN <<"authorized", invoice.file>>
  ELSE IF invoice.response # Nothing THEN <<"authorized", invoice.response>>
  ELSE Signed

-----------------------------------------------------------------------------
Next ==
  \/ SriDecides
  \/ \E a \in Actors :
       \/ BeginAttempt(a) \/ StorePending(a)
       \/ SendAgain(a) \/ SendTaken(a) \/ SendReturned(a) \/ SendUnavailable(a)
       \/ StoreSent(a) \/ StoreReturned(a) \/ StoreError(a)
       \/ BeginCheck(a) \/ Query(a)
       \/ StoreAuthorized(a) \/ StoreNotAuthorized(a) \/ StoreUndecided(a)
       \/ Drops(a)

Spec == Init /\ [][Next]_vars

-----------------------------------------------------------------------------
(* An answer is one of the operation it answers: of a send, or of a query.   *)
Sent ==
  [ok : BOOLEAN, fault : BOOLEAN, estado : {NoEstado, "RECIBIDA", "DEVUELTA"},
   ids : SUBSET {"35", "43", "45"}, saysRegistered : BOOLEAN]

Queried ==
  [estado : {"AUTORIZADO", "NO AUTORIZADO", "EN PROCESAMIENTO"}, xml : BOOLEAN, of : Nat]

Works ==
  [at : {"idle", "emitting", "sending", "checking"},
   record : Invoices, reply : [answer : {Nothing}, asOf : Nat]]
  \cup [at : {"answered"}, record : Invoices, reply : [answer : Sent, asOf : Nat]]
  \cup [at : {"told"}, record : Invoices, reply : [answer : Queried, asOf : Nat]]

TypeOK ==
  /\ invoice \in Invoices
  /\ work \in [Actors -> Works]
  /\ authorizations \in Seq(Results)

RefusedUpTo(n) ==
  \A i \in DOMAIN authorizations : i <= n => authorizations[i].estado = "NO AUTORIZADO"

(* A document is 'rejected' only when, of all the SRI had of it at the       *)
(* answer that rejected it, nothing was authorized nor may ever be: no       *)
(* outage, page, old result or overlapping attempt makes a rejection of a    *)
(* document that was alive.  What may be alive is a submission made after    *)
(* that answer, by an attempt that overlapped it.                            *)
RejectionIsTrue == invoice.status = "rejected" => RefusedUpTo(invoice.asOf)

(* A document is 'authorized' only when the SRI authorized it; the XML that   *)
(* is then downloaded is the one the SRI returned, of the submission that it *)
(* authorized, also when the storage failed; and of no document that is      *)
(* under way is one served as authorized.                                    *)
LegalDocumentIsServed ==
  /\ invoice.status = "authorized" =>
       \E i \in DOMAIN authorizations :
         /\ authorizations[i].estado = "AUTORIZADO"
         /\ IF authorizations[i].xml
            THEN Download = <<"authorized", i>>
            ELSE Download[1] # "authorized"
  /\ Download[1] = "authorized" => invoice.status \in {"authorized", "rejected"}

(* A document that is being checked is one the SRI took: an answer in words  *)
(* only, or of several messages, is not taken for what it is not.            *)
SentIsHeld == invoice.status = "sent" => authorizations # <<>>

(* What the comment of GET /fiscal-invoices/:id/xml says: once the SRI has    *)
(* authorized the document, it is the authorized XML.  One that could not be *)
(* stored lives in the answer of the SRI, and this route names the signed.   *)
LinkIsLegal ==
  invoice.status = "authorized" /\ Download[1] = "authorized" => Link[1] = "authorized"

(* What the comment in GET /fiscal-invoices/:id/xml/download says of the XML  *)
(* inside the answer: the SRI authorized it.  A refusal is kept whole, with  *)
(* the XML that it refused.                                                  *)
DownloadIsAuthorized ==
  Download[1] = "authorized" =>
    \E i \in DOMAIN authorizations :
      Download[2] = i /\ authorizations[i].estado = "AUTORIZADO"

(* A rejected document is dead at the SRI.  With attempts that overlap it    *)
(* need not be: one may submit it while another is saving the refusal.       *)
RejectedIsDead == invoice.status = "rejected" => ~ Holds
=============================================================================
