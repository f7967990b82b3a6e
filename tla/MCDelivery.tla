----------------------------- MODULE MCDelivery -----------------------------
(* alice sends to bob.  One of them may have two connection values, so that *)
(* a new connection overlaps the unwinding of an old one.                   *)
EXTENDS Delivery, TLC

CONSTANTS alice, bob, a1, a2, b1, b2

MCUsers == {alice, bob}
OneEach == {a1, b1}
SenderTwice == {a1, a2, b1}
RecipientTwice == {a1, b1, b2}
MCOwner == [c \in Conns |-> IF c \in {a1, a2} THEN alice ELSE bob]

\* The two connection values of the recipient are alike.
Symmetry == Permutations({b1, b2})
=============================================================================
