------------------------ MODULE Certificates_proofs ------------------------
(***************************************************************************)
(* The signing certificates, for any number of certificates, signers and   *)
(* days.                                                                   *)
(***************************************************************************)
EXTENDS Certificates, TLAPS

Deciding == {"listed", "marked"}

\* The dates of what a signer has listed are settled, and if it has lacked
\* nothing today then its list holds something to sign with.
ListsAreSound ==
  /\ \A s \in Signers : day[s] <= today
  /\ \A s \in Signers : pc[s] \in Deciding =>
       \A c \in listed[s] : cert[c].status \in {"active", "expired", "revoked"}
  /\ \A s \in Signers : pc[s] \in Deciding /\ day[s] = today /\ s \notin lacked =>
       Usable(s) # {}

IInv == TypeOK /\ ListsAreSound /\ ExpiredIsPast /\ RefusalsAreHonest

\* The steps of a certificate's life, and those of a signer.
CertStep ==
  \E c \in Certs : CheckUpload(c) \/ InsertCertificate(c) \/ UploadFails(c) \/ Revoke(c)
SignerStep(s) ==
  NoteDay(s) \/ ListActive(s) \/ MarkExpired(s) \/ Choose(s) \/ EndAttempt(s)

\* The initial state.
LEMMA InitIInv == Init => IInv
<1> SUFFICES ASSUME Init PROVE IInv
  OBVIOUS
<1>1. 1 \in Days
  BY CertificatesAssumption DEF Days
<1>2. TypeOK
  BY <1>1 DEF Init, TypeOK, Rows, Statuses, Positions, Absent
<1>3. ListsAreSound /\ ExpiredIsPast /\ RefusalsAreHonest
  BY DEF Init, ListsAreSound, Deciding, ExpiredIsPast, RefusalsAreHonest, Absent
<1> QED  BY <1>2, <1>3 DEF IInv

\* The variables keep their types.
LEMMA TypePreserved ==
  ASSUME TypeOK, [Next]_vars
  PROVE  TypeOK'
<1> USE CertificatesAssumption DEF TypeOK, Rows, Statuses, Positions, Days
<1>1. CASE CertStep /\ Remember
  <2>1. PICK c \in Certs : CheckUpload(c) \/ InsertCertificate(c) \/ UploadFails(c) \/ Revoke(c)
    BY <1>1 DEF CertStep
  <2>2. lacked' \in SUBSET Signers
    BY <1>1 DEF Remember
  <2>3. CASE CheckUpload(c)
    <3>1. PICK from \in Days, until \in Days :
            cert' = [cert EXCEPT ![c] = [cert[c] EXCEPT !.status = "uploading",
                                                        !.from = from,
                                                        !.until = until]]
      BY <2>3 DEF CheckUpload
    <3> DEFINE new == [cert[c] EXCEPT !.status = "uploading",
                                      !.from = from, !.until = until]
    <3>2. cert[c] \in Rows
      OBVIOUS
    <3>3. new \in Rows
      BY <3>2, ZenonT(40)
    <3>4. cert' \in [Certs -> Rows]
      <4>1. cert' = [cert EXCEPT ![c] = new]
        BY <3>1
      <4> HIDE DEF new
      <4> QED  BY <3>3, <4>1
    <3> QED  BY <2>2, <2>3, <3>4 DEF CheckUpload, signerVars
  <2>4. CASE InsertCertificate(c)
    <3> DEFINE new == [cert[c] EXCEPT !.status = "active",
                                      !.created = uploads + 1]
    <3>1. uploads + 1 \in Nat /\ cert[c] \in Rows
      OBVIOUS
    <3>4. new \in Rows
      BY <3>1, ZenonT(40)
    <3>2. cert' = [cert EXCEPT ![c] = new] /\ uploads' = uploads + 1
      BY <2>4 DEF InsertCertificate
    <3> HIDE DEF new
    <3>3. cert' \in [Certs -> Rows] /\ uploads' \in Nat
      BY <3>1, <3>2, <3>4
    <3> QED  BY <2>2, <2>4, <3>3 DEF InsertCertificate, signerVars
  <2>5. CASE UploadFails(c)
    <3>1. Absent \in Rows
      BY DEF Absent
    <3>2. cert' \in [Certs -> Rows]
      BY <2>5, <3>1 DEF UploadFails
    <3> QED  BY <2>2, <2>5, <3>2 DEF UploadFails, signerVars
  <2>6. CASE Revoke(c)
    <3>1. cert' \in [Certs -> Rows]
      BY <2>6 DEF Revoke
    <3> QED  BY <2>2, <2>6, <3>1 DEF Revoke, signerVars
  <2> QED  BY <2>1, <2>3, <2>4, <2>5, <2>6
<1>2. ASSUME NEW s \in Signers, SignerStep(s), Remember PROVE TypeOK'
  <2>1. lacked' \in SUBSET Signers
    BY <1>2 DEF Remember
  <2>2. CASE NoteDay(s)
    BY <2>1, <2>2 DEF NoteDay
  <2>3. CASE ListActive(s)
    BY <2>1, <2>3 DEF ListActive
  <2>4. CASE MarkExpired(s)
    <3>1. \A c \in Certs : [cert[c] EXCEPT !.status = "expired"] \in Rows
      OBVIOUS
    <3>2. cert' \in [Certs -> Rows]
      BY <2>4, <3>1 DEF MarkExpired
    <3> QED  BY <2>1, <2>4, <3>2 DEF MarkExpired
  <2>5. CASE Choose(s)
    <3>1. Usable(s) \subseteq Certs
      BY DEF Usable
    <3>2. chosen' \in [Signers -> Certs \cup {NoCert}] /\ pc' \in [Signers -> Positions]
      BY <2>5, <3>1 DEF Choose
    <3> QED  BY <2>1, <2>5, <3>2 DEF Choose
  <2>6. CASE EndAttempt(s)
    BY <2>1, <2>6 DEF EndAttempt
  <2> QED  BY <1>2, <2>2, <2>3, <2>4, <2>5, <2>6 DEF SignerStep
<1>3. CASE Midnight /\ Remember
  BY <1>3 DEF Midnight, Remember, signerVars
<1>4. CASE UNCHANGED vars
  BY <1>4 DEF vars
<1> QED  BY <1>1, <1>2, <1>3, <1>4 DEF Next, CertStep, SignerStep

\* No step brings a revoked certificate back.
LEMMA RevocationStep ==
  ASSUME TypeOK, [Next]_vars
  PROVE  RevokedStays
<1> USE DEF RevokedStays, TypeOK
<1>1. ASSUME NEW c \in Certs,
             CheckUpload(c) \/ InsertCertificate(c) \/ UploadFails(c) \/ Revoke(c)
      PROVE  RevokedStays
  BY <1>1 DEF CheckUpload, InsertCertificate, UploadFails, Revoke, Rows
<1>2. ASSUME NEW s \in Signers, MarkExpired(s) PROVE RevokedStays
  BY <1>2 DEF MarkExpired
<1>3. ASSUME NEW s \in Signers,
             NoteDay(s) \/ ListActive(s) \/ Choose(s) \/ EndAttempt(s)
      PROVE  RevokedStays
  BY <1>3 DEF NoteDay, ListActive, Choose, EndAttempt
<1>4. CASE Midnight \/ UNCHANGED vars
  BY <1>4 DEF Midnight, vars
<1> QED  BY <1>1, <1>2, <1>3, <1>4 DEF Next

\* A certificate is marked by a signer that noted a day after its last one.
LEMMA ExpiryStep ==
  ASSUME TypeOK, TypeOK', ListsAreSound, ExpiredIsPast, [Next]_vars
  PROVE  ExpiredIsPast'
<1> USE DEF ExpiredIsPast, TypeOK, Days
<1>1. ASSUME NEW c \in Certs,
             CheckUpload(c) \/ InsertCertificate(c) \/ UploadFails(c) \/ Revoke(c)
      PROVE  ExpiredIsPast'
  <2>1. today' = today /\ \A e \in Certs : e # c => cert'[e] = cert[e]
    BY <1>1 DEF CheckUpload, InsertCertificate, UploadFails, Revoke
  <2>2. cert'[c].status # "expired"
    <3>1. CASE CheckUpload(c)
      BY <3>1 DEF CheckUpload, Rows
    <3>2. CASE InsertCertificate(c)
      BY <3>2 DEF InsertCertificate, Rows
    <3>3. CASE UploadFails(c)
      BY <3>3 DEF UploadFails, Absent
    <3>4. CASE Revoke(c)
      BY <3>4 DEF Revoke, Rows
    <3> QED  BY <1>1, <3>1, <3>2, <3>3, <3>4
  <2> QED  BY <2>1, <2>2
<1>2. ASSUME NEW s \in Signers, MarkExpired(s) PROVE ExpiredIsPast'
  <2>1. ASSUME NEW c \in Past(s) PROVE cert[c].until < today
    <3>1. c \in Certs /\ cert[c].until < day[s] /\ day[s] <= today
      BY <2>1 DEF Past, ListsAreSound
    <3>2. cert[c].until \in Nat /\ day[s] \in Nat /\ today \in Nat
      BY <3>1 DEF Rows
    <3> QED  BY <3>1, <3>2
  <2>2. ASSUME NEW c \in Certs, cert'[c].status = "expired"
        PROVE  cert'[c].until < today'
    BY <1>2, <2>1, <2>2 DEF MarkExpired, Rows
  <2> QED  BY <2>2
<1>3. ASSUME NEW s \in Signers,
             NoteDay(s) \/ ListActive(s) \/ Choose(s) \/ EndAttempt(s)
      PROVE  ExpiredIsPast'
  BY <1>3 DEF NoteDay, ListActive, Choose, EndAttempt
<1>4. CASE Midnight
  <2>1. \A c \in Certs : cert[c].until \in Nat
    BY DEF Rows
  <2> QED  BY <1>4, <2>1 DEF Midnight
<1>5. CASE UNCHANGED vars
  BY <1>5 DEF vars
<1> QED  BY <1>1, <1>2, <1>3, <1>4, <1>5 DEF Next

\* The certificates a signer may have listed keep their dates, and stay what
\* a signer may have listed.
LEMMA ListedKeepDates ==
  ASSUME TypeOK, [Next]_vars, NEW c \in Certs,
         cert[c].status \in {"active", "expired", "revoked"}
  PROVE  /\ cert'[c].from = cert[c].from
         /\ cert'[c].until = cert[c].until
         /\ cert'[c].status \in {"active", "expired", "revoked"}
<1> USE DEF TypeOK, Rows
<1>1. ASSUME NEW e \in Certs,
             CheckUpload(e) \/ InsertCertificate(e) \/ UploadFails(e) \/ Revoke(e)
      PROVE  /\ cert'[c].from = cert[c].from
             /\ cert'[c].until = cert[c].until
             /\ cert'[c].status \in {"active", "expired", "revoked"}
  <2>1. e # c => cert'[c] = cert[c]
    BY <1>1 DEF CheckUpload, InsertCertificate, UploadFails, Revoke
  <2>2. CASE e = c
    <3>1. Revoke(c)
      BY <1>1, <2>2 DEF CheckUpload, InsertCertificate, UploadFails
    <3> QED  BY <3>1 DEF Revoke
  <2> QED  BY <2>1, <2>2
<1>2. ASSUME NEW s \in Signers, MarkExpired(s)
      PROVE  /\ cert'[c].from = cert[c].from
             /\ cert'[c].until = cert[c].until
             /\ cert'[c].status \in {"active", "expired", "revoked"}
  BY <1>2 DEF MarkExpired
<1>3. ASSUME NEW s \in Signers,
             NoteDay(s) \/ ListActive(s) \/ Choose(s) \/ EndAttempt(s)
      PROVE  UNCHANGED cert
  BY <1>3 DEF NoteDay, ListActive, Choose, EndAttempt
<1>4. CASE Midnight \/ UNCHANGED vars
  BY <1>4 DEF Midnight, vars
<1> QED  BY <1>1, <1>2, <1>3, <1>4 DEF Next

\* Everything about a signer that does not move is as it was.
LEMMA SignerAtRest ==
  ASSUME TypeOK, ListsAreSound, RefusalsAreHonest, [Next]_vars,
         NEW s \in Signers, UNCHANGED <<pc[s], day[s], listed[s]>>,
         today' >= today
  PROVE  /\ day'[s] <= today'
         /\ pc'[s] \in Deciding =>
              \A c \in listed'[s] : cert'[c].status \in {"active", "expired", "revoked"}
         /\ pc'[s] \in Deciding /\ day'[s] = today' /\ s \notin lacked' =>
              Usable(s)' # {}
         /\ pc'[s] = "refused" /\ day'[s] = today' => s \in lacked'
<1>1. day[s] \in Nat /\ today \in Nat /\ today' \in Nat /\ day[s] <= today
  <2>1. TypeOK'
    BY TypePreserved
  <2> QED  BY <2>1 DEF TypeOK, ListsAreSound, Days
<1>2. day'[s] = day[s] /\ listed'[s] = listed[s] /\ pc'[s] = pc[s]
  OBVIOUS
<1>3. day'[s] = today' => day[s] = today
  BY <1>1, <1>2
<1>4. s \in lacked /\ pc[s] \in Asking \cup {"refused"} => s \in lacked'
  BY <1>2 DEF Next, Remember, vars
<1>5. ASSUME pc[s] \in Deciding, NEW c \in listed[s]
      PROVE  /\ c \in Certs
             /\ cert'[c].from = cert[c].from
             /\ cert'[c].until = cert[c].until
             /\ cert'[c].status \in {"active", "expired", "revoked"}
  <2>1. c \in Certs /\ cert[c].status \in {"active", "expired", "revoked"}
    BY <1>5 DEF TypeOK, ListsAreSound
  <2> QED  BY <2>1, ListedKeepDates
<1>6. ASSUME pc[s] \in Deciding, day'[s] = today', s \notin lacked'
      PROVE  Usable(s)' # {}
  <2>1. s \notin lacked
    BY <1>4, <1>6 DEF Deciding, Asking
  <2>2. PICK c \in Usable(s) : TRUE
    BY <1>3, <1>6, <2>1 DEF ListsAreSound
  <2>3. c \in Usable(s)'
    BY <1>2, <1>5, <1>6, <2>2 DEF Usable, Covers
  <2> QED  BY <2>3
<1>7. ASSUME pc[s] = "refused", day'[s] = today' PROVE s \in lacked'
  BY <1>3, <1>4, <1>7 DEF RefusalsAreHonest
<1> QED  BY <1>1, <1>2, <1>5, <1>6, <1>7

\* A list made now, by a signer that lacked nothing, is not empty-handed.
LEMMA FreshList ==
  ASSUME TypeOK, ListsAreSound, NEW s \in Signers, ListActive(s), Remember,
         day'[s] = today', s \notin lacked'
  PROVE  Usable(s)' # {}
<1>1. pc'[s] \in Asking
  BY DEF ListActive, Asking, TypeOK
<1>2. CanSign'
  BY <1>1 DEF Remember
<1>3. PICK c \in Certs : cert'[c].status = "active" /\ Covers(cert'[c], today')
  BY <1>2 DEF CanSign
<1>4. c \in listed'[s]
  BY <1>3 DEF ListActive, TypeOK
<1>5. c \in Usable(s)'
  BY <1>3, <1>4 DEF Usable
<1> QED  BY <1>5

\* The lists stay sound, and the refusals honest.
LEMMA ListsPreserved ==
  ASSUME TypeOK, ListsAreSound, RefusalsAreHonest, [Next]_vars
  PROVE  ListsAreSound' /\ RefusalsAreHonest'
<1> DEFINE Good(s) ==
      /\ day'[s] <= today'
      /\ pc'[s] \in Deciding =>
           \A c \in listed'[s] : cert'[c].status \in {"active", "expired", "revoked"}
      /\ pc'[s] \in Deciding /\ day'[s] = today' /\ s \notin lacked' =>
           Usable(s)' # {}
      /\ pc'[s] = "refused" /\ day'[s] = today' => s \in lacked'
<1>1. today \in Nat
  BY DEF TypeOK, Days
<1>2. CASE CertStep \/ Midnight \/ UNCHANGED vars
  <2>1. UNCHANGED <<pc, day, listed>> /\ today' >= today
    <3>1. CASE CertStep
      <4>1. UNCHANGED <<pc, day, listed>> /\ today' = today
        BY <3>1 DEF CertStep, CheckUpload, InsertCertificate, UploadFails,
                    Revoke, signerVars
      <4> QED  BY <1>1, <4>1
    <3>2. CASE Midnight
      BY <1>1, <3>2 DEF Midnight, signerVars
    <3>3. CASE UNCHANGED vars
      BY <1>1, <3>3 DEF vars
    <3> QED  BY <1>2, <3>1, <3>2, <3>3
  <2>2. ASSUME NEW s \in Signers PROVE Good(s)
    BY <2>1, <2>2, SignerAtRest
  <2> QED  BY <2>2 DEF ListsAreSound, RefusalsAreHonest
<1>3. ASSUME NEW s \in Signers, SignerStep(s), Remember PROVE \A t \in Signers : Good(t)
  <2>1. today' = today
    BY <1>3 DEF SignerStep, NoteDay, ListActive, MarkExpired, Choose, EndAttempt
  <2>2. ASSUME NEW t \in Signers, t # s PROVE Good(t)
    <3>1. UNCHANGED <<pc[t], day[t], listed[t]>>
      <4> USE <2>2 DEF TypeOK
      <4>1. CASE NoteDay(s) \/ ListActive(s) \/ MarkExpired(s)
        BY <4>1 DEF NoteDay, ListActive, MarkExpired
      <4>2. CASE Choose(s) \/ EndAttempt(s)
        BY <4>2 DEF Choose, EndAttempt
      <4> QED  BY <1>3, <4>1, <4>2 DEF SignerStep
    <3> QED  BY <1>1, <2>1, <2>2, <3>1, SignerAtRest
  <2>3. day[s] <= today
    BY DEF ListsAreSound
  <2>4. Good(s)
    <3>1. CASE NoteDay(s)
      <4>1. day'[s] = today /\ pc'[s] = "noted"
        BY <3>1 DEF NoteDay, TypeOK
      <4> QED  BY <1>1, <2>1, <4>1 DEF Deciding
    <3>2. CASE ListActive(s)
      <4>1. day'[s] = day[s] /\ pc'[s] = "listed"
        BY <3>2 DEF ListActive, TypeOK
      <4>2. \A c \in listed'[s] : cert'[c].status = "active"
        BY <3>2 DEF ListActive, TypeOK
      <4> QED  BY <1>3, <2>1, <2>3, <3>2, <4>1, <4>2, FreshList
    <3>3. CASE MarkExpired(s)
      <4>1. day'[s] = day[s] /\ listed'[s] = listed[s] /\ pc'[s] = "marked"
        BY <3>3 DEF MarkExpired, TypeOK
      <4>2. pc[s] = "listed"
        BY <3>3 DEF MarkExpired
      <4>3. \A c \in listed[s] :
              /\ cert'[c].status \in {"active", "expired", "revoked"}
              /\ cert'[c].from = cert[c].from /\ cert'[c].until = cert[c].until
        BY <4>2, ListedKeepDates DEF ListsAreSound, TypeOK, Deciding
      <4>4. s \in lacked => s \in lacked'
        BY <1>3, <4>1 DEF Remember, Asking
      <4>5. s \notin lacked' /\ day'[s] = today' => Usable(s) # {}
        BY <2>1, <4>1, <4>2, <4>4 DEF ListsAreSound, Deciding
      <4>6. Usable(s)' = Usable(s)
        BY <4>1, <4>3 DEF Usable, Covers
      <4> QED  BY <2>1, <2>3, <4>1, <4>3, <4>5, <4>6
    <3>4. CASE Choose(s)
      <4>1. /\ UNCHANGED <<day, listed, today, cert>>
            /\ pc[s] = "marked"
            /\ pc'[s] \in {"signing", "refused"}
            /\ pc'[s] = "refused" => Usable(s) = {}
        BY <3>4 DEF Choose, TypeOK
      <4>2. ASSUME pc'[s] = "refused", day'[s] = today' PROVE s \in lacked'
        <5>1. s \in lacked
          BY <4>1, <4>2 DEF ListsAreSound, Deciding
        <5> QED  BY <1>3, <4>2, <5>1 DEF Remember
      <4> QED  BY <2>3, <4>1, <4>2 DEF Deciding
    <3>5. CASE EndAttempt(s)
      <4>1. day'[s] = day[s] /\ pc'[s] = "idle"
        BY <3>5 DEF EndAttempt, TypeOK
      <4> QED  BY <2>1, <2>3, <4>1 DEF Deciding
    <3> QED  BY <1>3, <3>1, <3>2, <3>3, <3>4, <3>5 DEF SignerStep
  <2> QED  BY <2>2, <2>4
<1>4. CASE \E s \in Signers : SignerStep(s) /\ Remember
  BY <1>3, <1>4 DEF ListsAreSound, RefusalsAreHonest
<1> QED  BY <1>2, <1>4 DEF Next, CertStep, SignerStep

\* The invariant is inductive.
LEMMA Invariance == Spec => []IInv
<1>1. IInv /\ [Next]_vars => IInv'
  BY TypePreserved, ExpiryStep, ListsPreserved DEF IInv
<1> QED  BY <1>1, InitIInv, PTL DEF Spec

\* The certificates table and the signers keep their types.
THEOREM CertificateTypes == Spec => []TypeOK
<1>1. IInv => TypeOK
  BY DEF IInv
<1> QED  BY <1>1, Invariance, PTL

\* A revocation is final, whatever lists were made before it.
THEOREM RevocationIsFinal == Spec => RevokedIsFinal
<1>1. IInv /\ [Next]_vars => [RevokedStays]_vars
  BY RevocationStep DEF IInv
<1> QED  BY <1>1, Invariance, PTL DEF Spec, RevokedIsFinal

\* Only certificates whose last day is over are marked as expired.
THEOREM ExpiryIsTrue == Spec => []ExpiredIsPast
<1>1. IInv => ExpiredIsPast
  BY DEF IInv
<1> QED  BY <1>1, Invariance, PTL

\* A refusal to sign always answers to a moment of that day with nothing to
\* sign with.
THEOREM RefusalsHonest == Spec => []RefusalsAreHonest
<1>1. IInv => RefusalsAreHonest
  BY DEF IInv
<1> QED  BY <1>1, Invariance, PTL
=============================================================================
