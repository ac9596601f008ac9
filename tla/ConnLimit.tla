----------------------------- MODULE ConnLimit -----------------------------
(***************************************************************************)
(* What the per-IP cap of internal/ws promises, in terms of sets: at most  *)
(* Max connections of an address are inside at a time, a connection is     *)
(* denied only when its address is full, and it leaves at most once.  A    *)
(* Max that is not positive disables the limit.                            *)
(***************************************************************************)
EXTENDS Integers, FiniteSets

CONSTANTS Conn, Addr, AddrOf, Max
VARIABLES inside, denied, left

limitVars == <<inside, denied, left>>

Init == inside = {} /\ denied = {} /\ left = {}

InsideOf(i) == {c \in inside : AddrOf[c] = i}
Full(i)     == Max > 0 /\ Cardinality(InsideOf(i)) >= Max
Fresh(c)    == c \notin inside \cup denied \cup left

Admit(c) ==
  /\ Fresh(c) /\ ~Full(AddrOf[c])
  /\ inside' = inside \cup {c}
  /\ UNCHANGED <<denied, left>>

Deny(c) ==
  /\ Fresh(c) /\ Full(AddrOf[c])
  /\ denied' = denied \cup {c}
  /\ UNCHANGED <<inside, left>>

Leave(c) ==
  /\ c \in inside
  /\ inside' = inside \ {c}
  /\ left' = left \cup {c}
  /\ UNCHANGED denied

Next == \E c \in Conn : Admit(c) \/ Deny(c) \/ Leave(c)
Spec == Init /\ [][Next]_limitVars
=============================================================================
