--------------------------- MODULE Announcements ---------------------------
(***************************************************************************)
(* What the fiscal service promises to the services that listen to it      *)
(* (accounting, notifications, billing's screens), whatever happens inside *)
(* it: fiscal.ec.invoice.sent, .authorized and .rejected are published     *)
(* only once the SRI has established what they say.  The SRI establishes   *)
(* facts about a document one after the other and never takes one back.    *)
(***************************************************************************)
CONSTANT Docs

VARIABLES
  known,  \* what the SRI has established about each document
  said    \* what has been published about each document

vars == <<known, said>>

Verdicts == {"authorized", "notAuthorized"}
Facts == {"received", "returned"} \cup Verdicts
Claims == {"sent", "authorized", "rejected"}

\* The facts of which one makes the claim true.
Grounds(claim) ==
  CASE claim = "sent" -> {"received"}
    [] claim = "authorized" -> {"authorized"}
    [] claim = "rejected" -> {"returned", "notAuthorized"}

Init ==
  /\ known = [d \in Docs |-> {}]
  /\ said = [d \in Docs |-> {}]

\* The SRI gives a verdict only on what it received, and only one.
Establish(d, fact) ==
  /\ fact \in Verdicts => "received" \in known[d] /\ known[d] \cap Verdicts = {}
  /\ known' = [known EXCEPT ![d] = @ \cup {fact}]
  /\ UNCHANGED said

Publish(d, claim) ==
  /\ Grounds(claim) \cap known[d] # {}
  /\ said' = [said EXCEPT ![d] = @ \cup {claim}]
  /\ UNCHANGED known

Next ==
  \E d \in Docs :
     \/ \E fact \in Facts : Establish(d, fact)
     \/ \E claim \in Claims : Publish(d, claim)

Spec == Init /\ [][Next]_vars

=============================================================================
