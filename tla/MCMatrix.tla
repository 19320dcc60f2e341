------------------------------ MODULE MCMatrix ------------------------------
(* Two matrix variables of up to 2 x 2 int elements over {0, 1}: row 0,    *)
(* a 1 x 1 matrix and the mismatched sizes all occur.                      *)
EXTENDS Matrix

MCHandles == {"A", "B"}
MCVals == {0, 1}
=============================================================================
