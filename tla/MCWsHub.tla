------------------------------ MODULE MCWsHub ------------------------------
(* Model-checking instances of WsHub. *)
EXTENDS WsHub, TLC

CONSTANTS c1, c2, c3, i1, i2

MCOneClient    == {c1}
MCTwoClients   == {c1, c2}
MCThreeClients == {c1, c2, c3}

\* c1 and c2 share an address, c3 has its own.
MCIpOf == [c \in Client |-> IF c = c3 THEN i2 ELSE i1]

MCSymmetry == Permutations({c1, c2})
=============================================================================
