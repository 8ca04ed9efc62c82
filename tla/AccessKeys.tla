----------------------------- MODULE AccessKeys -----------------------------
(***************************************************************************)
(* The access key ("clave de acceso") of one document across its           *)
(* attempts.  emit builds the key anew in every attempt, from the date of  *)
(* issue, the number, the issuer and a code derived from billing's id.     *)
(* All but the date are fixed for a document, so a key is named here by    *)
(* its date.  The date is the payload's issueDate; billing's older events  *)
(* carry none, and then it is the day of the attempt.                      *)
(*                                                                         *)
(* The SRI keeps one document per number, under the key of the first       *)
(* attempt that reached it, and authorizes that key only.  An attempt for  *)
(* the same number is returned with 43 (same key) or 45 (another key), and *)
(* isAlreadyReceived takes both for "sent".  FiscalProcessor speaks of the *)
(* SRI's knowledge of a DOCUMENT: that is sound because, as checked here,  *)
(* a document with a date of issue has one key.                            *)
(***************************************************************************)
EXTENDS Naturals

CONSTANTS
  Attempts,     \* callers of emit: the consumer, the job, HTTP requests
  Dated,        \* the payload carries issueDate
  IssueDay,     \* its day in Ecuador
  LastDay,      \* bound: the last day of the run
  MaxKeyChecks, \* RETRY_POLICY.maxAuthorizationChecks (30)
  NoKey         \* access_key is null

Days == 0..LastDay
Keys == Days

ASSUME AccessKeysAssumption ==
  /\ Dated \in BOOLEAN
  /\ LastDay \in Nat
  /\ IssueDay \in Days
  /\ MaxKeyChecks \in Nat \ {0}
  /\ NoKey \notin Nat

VARIABLES
  today,      \* the day in Ecuador
  row,        \* the document's row: status, key, checks
  copy,       \* the copy each attempt works on
  pc,         \* how far each attempt is
  registered, \* the key under which the SRI has the number, or NoKey
  verdict     \* what the SRI says of that key

keyVars == <<today, row, copy, pc, registered, verdict>>

Statuses == {"none", "pending", "sent", "authorized", "rejected", "error"}
Rows == [status : Statuses, key : Keys \cup {NoKey}, checks : Nat]

KeyTypeOK ==
  /\ today \in Days
  /\ row \in Rows
  /\ copy \in [Attempts -> Rows]
  /\ pc \in [Attempts -> {"idle", "built", "ready", "answered", "unanswered"}]
  /\ registered \in Keys \cup {NoKey}
  /\ verdict \in {"none", "processing", "authorized", "denied"}

KeyInit ==
  /\ today = IssueDay
  /\ row = [status |-> "none", key |-> NoKey, checks |-> 0]
  /\ copy = [a \in Attempts |-> row]
  /\ pc = [a \in Attempts |-> "idle"]
  /\ registered = NoKey
  /\ verdict = "none"

----------------------------------------------------------------------------

\* Mutant: the day of the attempt, whatever the payload says.
KeyForToday == today

\* emit: issueDate = payload.issueDate ? new Date(payload.issueDate) : now.
KeyFor == IF Dated THEN IssueDay ELSE today

\* An attempt reads a row that is not settled and builds the key in its copy.
\* The first is the consumer's alone; later ones (a redelivered message, the
\* job, a person's retry) may overlap.  Data that emit refuses before it
\* builds a key are refused in every attempt, and never reach the SRI.
Build(a) ==
  /\ pc[a] = "idle"
  /\ row.status \in {"none", "pending", "error"}
  /\ row.status = "none" => \A b \in Attempts : pc[b] = "idle"
  /\ copy' = [copy EXCEPT ![a] = [row EXCEPT !.key = KeyFor]]
  /\ pc' = [pc EXCEPT ![a] = "built"]
  /\ UNCHANGED <<today, row, registered, verdict>>

\* The attempt fails before anything is sent (data, certificate, storage):
\* fail saves the copy, the new key with it.
Fail(a) ==
  /\ pc[a] = "built"
  /\ row' = [copy[a] EXCEPT !.status = "error"]
  /\ pc' = [pc EXCEPT ![a] = "idle"]
  /\ UNCHANGED <<today, copy, registered, verdict>>

SavePending(a) ==
  /\ pc[a] = "built"
  /\ row' = [copy[a] EXCEPT !.status = "pending"]
  /\ copy' = [copy EXCEPT ![a] = row']
  /\ pc' = [pc EXCEPT ![a] = "ready"]
  /\ UNCHANGED <<today, registered, verdict>>

\* The SRI registers the number the first time; later attempts are returned
\* as already received.  Either answer, or none, may come back.
Send(a) ==
  /\ pc[a] = "ready"
  /\ IF registered = NoKey
     THEN registered' = copy[a].key /\ verdict' = "processing"
     ELSE UNCHANGED <<registered, verdict>>
  /\ \E answer \in {"answered", "unanswered"} : pc' = [pc EXCEPT ![a] = answer]
  /\ UNCHANGED <<today, row, copy>>

SendNeverArrives(a) ==
  /\ pc[a] = "ready"
  /\ pc' = [pc EXCEPT ![a] = "unanswered"]
  /\ UNCHANGED <<today, row, copy, registered, verdict>>

\* RECIBIDA, 43 and 45 are one case: "sent", and the job will ask.
SaveSent(a) ==
  /\ pc[a] = "answered"
  /\ row' = [copy[a] EXCEPT !.status = "sent", !.checks = 0]
  /\ pc' = [pc EXCEPT ![a] = "idle"]
  /\ UNCHANGED <<today, copy, registered, verdict>>

\* Mutant: no answer is taken for the usual one.
SaveLostAsSent(a) ==
  /\ pc[a] = "unanswered"
  /\ row' = [copy[a] EXCEPT !.status = "sent"]
  /\ pc' = [pc EXCEPT ![a] = "idle"]
  /\ UNCHANGED <<today, copy, registered, verdict>>

\* SriUnavailableError: the failure is saved and a retry is due.
SaveLost(a) ==
  /\ pc[a] = "unanswered"
  /\ row' = [copy[a] EXCEPT !.status = "error"]
  /\ pc' = [pc EXCEPT ![a] = "idle"]
  /\ UNCHANGED <<today, copy, registered, verdict>>

\* The process dies: its attempts are gone.
Crash ==
  /\ \E a \in Attempts : pc[a] # "idle"
  /\ pc' = [a \in Attempts |-> "idle"]
  /\ UNCHANGED <<today, row, copy, registered, verdict>>

\* What the SRI answers about a key: no result for one it does not have
\* (numeroComprobantes = 0), which reads as "still processing".
Answer(key) == IF key = registered THEN verdict ELSE "processing"

\* checkAuthorization asks for the key of the row.
Check ==
  /\ row.status = "sent"
  /\ LET answer == Answer(row.key) IN
     \/ /\ answer = "authorized"
        /\ row' = [row EXCEPT !.status = "authorized"]
     \/ /\ answer = "denied"
        /\ row' = [row EXCEPT !.status = "rejected"]
     \/ /\ answer = "processing"
        /\ row' = [row EXCEPT
                     !.checks = @ + 1,
                     !.status = IF row.checks + 1 >= MaxKeyChecks THEN "error"
                                                               ELSE "sent"]
  /\ UNCHANGED <<today, copy, pc, registered, verdict>>

SriDecidesKey ==
  /\ verdict = "processing"
  /\ verdict' \in {"authorized", "denied"}
  /\ UNCHANGED <<today, row, copy, pc, registered>>

Midnight ==
  /\ today < LastDay
  /\ today' = today + 1
  /\ UNCHANGED <<row, copy, pc, registered, verdict>>

KeyNext ==
  \/ Check
  \/ SriDecidesKey
  \/ Midnight
  \/ Crash
  \/ \E a \in Attempts :
       \/ Build(a)
       \/ Fail(a)
       \/ SavePending(a)
       \/ Send(a)
       \/ SendNeverArrives(a)
       \/ SaveSent(a)
       \/ SaveLost(a)

KeySpec == KeyInit /\ [][KeyNext]_keyVars

----------------------------------------------------------------------------
(* Properties.                                                             *)

\* The key of a document never changes once it has one, however many
\* attempts, crashes and midnights there are (README.md:42-44).
KeyNeverChanges == row.key # NoKey => row'.key = row.key

KeyIsStable == [][KeyNeverChanges]_keyVars

\* A "sent" row is one whose key the SRI has, so that asking for it can ever
\* be answered.  This is what makes 43 and 45 the same case, and it takes a
\* first attempt whose answer was lost to tell them apart.
SentIsRegistered == row.status = "sent" => row.key = registered
=============================================================================
