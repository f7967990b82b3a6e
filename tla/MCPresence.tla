----------------------------- MODULE MCPresence -----------------------------
EXTENDS Presence, TLC
CONSTANTS alice, bob, a1, a2, b1
MCUsers == {alice, bob}
MCConns == {a1, a2, b1}
MCOwner == [c \in Conns |-> IF c = b1 THEN bob ELSE alice]
MCContact == [u \in Users |-> IF u = bob THEN {alice} ELSE {}]

Symmetry == Permutations({a1, a2})
=============================================================================
