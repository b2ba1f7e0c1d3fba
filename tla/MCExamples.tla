------------------------------ MODULE MCExamples ------------------------------
(* Examples for TLC: all four programs.                                    *)
EXTENDS Examples

MCPrograms == {rr, ps, bc, simple}
=============================================================================
