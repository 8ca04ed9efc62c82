---------------------------- MODULE Certificates ----------------------------
(***************************************************************************)
(* The signing certificates (.p12) of an organization.  People upload and  *)
(* revoke them while documents are being signed, and every attempt to sign *)
(* works through pickCertificate in three steps with an await between each *)
(* two: it notes the day, lists the active certificates, marks as expired  *)
(* those of the list that are past, and only then chooses, from the list.  *)
(***************************************************************************)
EXTENDS Naturals

CONSTANTS
  Certs,         \* the certificates that are ever uploaded
  Signers,       \* attempts to sign in progress at the same time
  LastDay,       \* bound: the last day of the run
  NoCert         \* nothing chosen

ASSUME CertificatesAssumption ==
  /\ LastDay \in Nat \ {0}
  /\ NoCert \notin Certs

Days == 1..LastDay

VARIABLES
  today,    \* the day in Ecuador
  cert,     \* rows of the certificates table
  uploads,  \* how many have been inserted: their created_at
  pc,       \* how far each signer is
  day,      \* the day it noted
  listed,   \* the certificates it listed
  chosen,   \* what it chose to sign with
  lacked    \* history: signers that saw a moment with nothing to sign with

vars == <<today, cert, uploads, pc, day, listed, chosen, lacked>>
signerVars == <<pc, day, listed, chosen>>

Statuses == {"absent", "uploading", "active", "expired", "revoked"}
Rows == [status : Statuses, from : Days, until : Days, created : Nat]
Positions == {"idle", "noted", "listed", "marked", "signing", "refused"}
Asking == {"noted", "listed", "marked"}

Absent == [status |-> "absent", from |-> 1, until |-> 1, created |-> 0]

TypeOK ==
  /\ today \in Days
  /\ cert \in [Certs -> Rows]
  /\ uploads \in Nat
  /\ pc \in [Signers -> Positions]
  /\ day \in [Signers -> Days]
  /\ listed \in [Signers -> SUBSET Certs]
  /\ chosen \in [Signers -> Certs \cup {NoCert}]
  /\ lacked \in SUBSET Signers

Init ==
  /\ today = 1
  /\ cert = [c \in Certs |-> Absent]
  /\ uploads = 0
  /\ pc = [s \in Signers |-> "idle"]
  /\ day = [s \in Signers |-> 1]
  /\ listed = [s \in Signers |-> {}]
  /\ chosen = [s \in Signers |-> NoCert]
  /\ lacked = {}

Covers(row, d) == row.from <= d /\ d <= row.until

----------------------------------------------------------------------------
(* POST and DELETE /certificates.                                          *)

\* The password opens the file and the dates it bears include today; the
\* file then goes to document storage, which takes a while or fails.
CheckUpload(c) ==
  /\ cert[c].status = "absent"
  /\ \E from \in Days, until \in Days :
       /\ from <= today /\ today <= until
       /\ cert' = [cert EXCEPT ![c] = [@ EXCEPT !.status = "uploading",
                                                !.from = from,
                                                !.until = until]]
  /\ UNCHANGED <<today, uploads, signerVars>>

\* The row is inserted "active" with what was checked then.
InsertCertificate(c) ==
  /\ cert[c].status = "uploading"
  /\ cert' = [cert EXCEPT ![c] = [@ EXCEPT !.status = "active",
                                           !.created = uploads + 1]]
  /\ uploads' = uploads + 1
  /\ UNCHANGED <<today, signerVars>>

\* Nothing has been inserted yet.
UploadFails(c) ==
  /\ cert[c].status = "uploading"
  /\ cert' = [cert EXCEPT ![c] = Absent]
  /\ UNCHANGED <<today, uploads, signerVars>>

\* DELETE updates by id alone, whatever the status is by now.
Revoke(c) ==
  /\ cert[c].status \in {"active", "expired"}
  /\ cert' = [cert EXCEPT ![c].status = "revoked"]
  /\ UNCHANGED <<today, uploads, signerVars>>

----------------------------------------------------------------------------
(* pickCertificate.                                                        *)

NoteDay(s) ==
  /\ pc[s] = "idle"
  /\ pc' = [pc EXCEPT ![s] = "noted"]
  /\ day' = [day EXCEPT ![s] = today]
  /\ UNCHANGED <<today, cert, uploads, listed, chosen>>

ListActive(s) ==
  /\ pc[s] = "noted"
  /\ pc' = [pc EXCEPT ![s] = "listed"]
  /\ listed' = [listed EXCEPT ![s] = {c \in Certs : cert[c].status = "active"}]
  /\ UNCHANGED <<today, cert, uploads, day, chosen>>

\* The dates of a row never change, so the listed ones are the row's.
Past(s) == {c \in listed[s] : cert[c].until < day[s]}

\* Mutant: UPDATE ... WHERE id, without the status.
MarkExpiredAny(s) ==
  /\ pc[s] = "listed"
  /\ cert' = [c \in Certs |->
                IF c \in Past(s) THEN [cert[c] EXCEPT !.status = "expired"]
                                 ELSE cert[c]]
  /\ pc' = [pc EXCEPT ![s] = "marked"]
  /\ UNCHANGED <<today, uploads, day, listed, chosen>>

\* Mutant: the last day of validity taken for the first day after it.
MarkExpiredEarly(s) ==
  /\ pc[s] = "listed"
  /\ cert' = [c \in Certs |->
                IF c \in listed[s] /\ cert[c].until <= day[s]
                   /\ cert[c].status = "active"
                THEN [cert[c] EXCEPT !.status = "expired"]
                ELSE cert[c]]
  /\ pc' = [pc EXCEPT ![s] = "marked"]
  /\ UNCHANGED <<today, uploads, day, listed, chosen>>

\* UPDATE ... WHERE id IN (...) AND status = 'active'.
MarkExpired(s) ==
  /\ pc[s] = "listed"
  /\ cert' = [c \in Certs |->
                IF c \in Past(s) /\ cert[c].status = "active"
                THEN [cert[c] EXCEPT !.status = "expired"]
                ELSE cert[c]]
  /\ pc' = [pc EXCEPT ![s] = "marked"]
  /\ UNCHANGED <<today, uploads, day, listed, chosen>>

\* Mutant: a certificate is usable strictly inside its dates.
UsableInside(s) ==
  {c \in listed[s] : cert[c].from <= day[s] /\ day[s] < cert[c].until}

\* Those of the list whose dates cover the day noted.
Usable(s) == {c \in listed[s] : Covers(cert[c], day[s])}

\* The newest usable one of the list, which may have been revoked since; with
\* none, the attempt is refused and the document waits for a person.
Choose(s) ==
  /\ pc[s] = "marked"
  /\ \/ \E c \in Usable(s) :
          /\ \A d \in Usable(s) : cert[d].created <= cert[c].created
          /\ chosen' = [chosen EXCEPT ![s] = c]
          /\ pc' = [pc EXCEPT ![s] = "signing"]
     \/ /\ Usable(s) = {}
        /\ pc' = [pc EXCEPT ![s] = "refused"]
        /\ UNCHANGED chosen
  /\ UNCHANGED <<today, cert, uploads, day, listed>>

\* The attempt ends, signed or refused; a query that fails ends it too.
EndAttempt(s) ==
  /\ pc[s] # "idle"
  /\ pc' = [pc EXCEPT ![s] = "idle"]
  /\ chosen' = [chosen EXCEPT ![s] = NoCert]
  /\ UNCHANGED <<today, cert, uploads, day, listed>>

Midnight ==
  /\ today < LastDay
  /\ today' = today + 1
  /\ UNCHANGED <<cert, uploads, signerVars>>

\* There is a certificate to sign with, right now.
CanSign == \E c \in Certs : cert[c].status = "active" /\ Covers(cert[c], today)

\* The history variable follows every step.
Remember ==
  lacked' = {s \in Signers : pc'[s] \in Asking \cup {"refused"}
                             /\ (s \in lacked \/ (pc'[s] \in Asking /\ ~CanSign'))}

Next ==
  /\ \/ \E c \in Certs :
          CheckUpload(c) \/ InsertCertificate(c) \/ UploadFails(c) \/ Revoke(c)
     \/ \E s \in Signers :
          \/ NoteDay(s)
          \/ ListActive(s)
          \/ MarkExpired(s)
          \/ Choose(s)
          \/ EndAttempt(s)
     \/ Midnight
  /\ Remember

Spec == Init /\ [][Next]_vars

----------------------------------------------------------------------------
(* Properties.                                                             *)

\* A revoked certificate is never active, nor merely expired, again: not even
\* when a signer that had listed it before marks what is past.
RevokedStays ==
  \A c \in Certs : cert[c].status = "revoked" => cert'[c].status = "revoked"

RevokedIsFinal == [][RevokedStays]_vars

\* "expired" is true: the last day of the certificate is over.
ExpiredIsPast ==
  \A c \in Certs : cert[c].status = "expired" => cert[c].until < today

\* A signer is refused only if, at some moment of its attempt, there was no
\* certificate to sign with: the list, stale by the time it is used, never
\* invents a refusal.  The day it noted must still be on: an attempt that
\* notes the day before midnight and lists after it may see only
\* certificates that start on the new day, and refuse them.
RefusalsAreHonest ==
  \A s \in Signers : pc[s] = "refused" /\ day[s] = today => s \in lacked
=============================================================================
