----------------------------- MODULE MCReaders -----------------------------
(* Small instances of Readers for TLC. *)
EXTENDS ReadersProofs

CONSTANTS member, neighbour, here, there, s1

MCHomeOf  == [u \in Users |-> IF u = neighbour THEN there ELSE here]
MCAssocOf == [s \in Surveys |-> here]
=============================================================================
