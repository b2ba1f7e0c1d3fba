------------------------------- MODULE MCSocket -------------------------------
(* Socket for TLC: the objects are interchangeable.                        *)
EXTENDS Socket, TLC

\* A refused argument (EDOM) and an accepted one.
MCMillis == {-1, 1500}

ObjSymmetry == Permutations(Obj)
=============================================================================
