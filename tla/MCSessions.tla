----------------------------- MODULE MCSessions ------------------------------
(* Sessions on a small instance. *)
EXTENDS Sessions, TLC

CONSTANTS a, b, p, q

\* The salon's owner, whose phone a customer may have as an email address.
MCFounders == {[id |-> 1, phone |-> a, email |-> a, pw |-> p, admin |-> TRUE]}

\* A customer whose email address is the owner's, and one whose phone is.
MCApplicants == {[phone |-> b, email |-> a, pw |-> q],
                 [phone |-> a, email |-> b, pw |-> q]}

MCEdits == {[phone |-> Keep, email |-> b]}

MCSymmetry == Permutations(Workers)
=============================================================================
