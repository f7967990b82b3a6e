--------------------------- MODULE MCFileTransfer ---------------------------
EXTENDS FileTransfer, TLC
CONSTANTS alice, bob, carol, t1, t2, f1, f2, r1, r2, c1
MCConvs == {{alice, bob}, {alice, carol}}
\* Bounds: one file gets as far as a message; alice sends from the client and
\* bob's forms come from another HTTP client.
Bounds ==
  /\ Cardinality({m.file : m \in uploaded \cup shown}) <= 1
  /\ \A r \in Requests : upload[r].parts > 0 => (request[r].user = bob <=> upload[r].client = None)
Symmetry == Permutations({t1, t2}) \cup Permutations({f1, f2}) \cup Permutations(Requests)
=============================================================================
