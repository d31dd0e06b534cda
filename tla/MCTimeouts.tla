------------------------------ MODULE MCTimeouts ------------------------------
(***************************************************************************)
(* Three inputs, and room for three captured ones: each of them waits, or  *)
(* one of them waits several times.                                        *)
(***************************************************************************)
EXTENDS Timeouts

CONSTANTS x, y, z
MCInputs == {x, y, z}
=============================================================================
