------------------------------- MODULE MCIke -------------------------------
(***************************************************************************)
(* Ike with two phones that have each other's keys, and with three phones  *)
(* of which one does not have every key.                                   *)
(***************************************************************************)
EXTENDS IkeInv

CONSTANTS a, b, c

Two == {a, b}
Everybody == [p \in Two |-> {a, b, Guest}]
\* b has set -LX for the guest contact.
GuestIgnoredByB == [p \in Two |-> IF p = b THEN {Guest} ELSE {}]
Nobody == [p \in Two |-> {}]

Three == {a, b, c}
\* c does not have the key of a, and b ignores c.
Partial == [p \in Three |-> IF p = c THEN {b, c, Guest} ELSE {a, b, c, Guest}]
CIgnoredByB == [p \in Three |-> IF p = b THEN {c} ELSE {}]
=============================================================================
