----------------------------- MODULE MCExamples -----------------------------
(* Every example program, and any client of FgFrame, under answers of NGX     *)
(* whose range is wide, narrow and, as for DLAA, a point.                     *)
EXTENDS Examples

MCRanges == {[min |-> 3, optimal |-> 5, max |-> 10],
             [min |-> 4, optimal |-> 4, max |-> 6],
             [min |-> 8, optimal |-> 8, max |-> 8]}
=============================================================================
