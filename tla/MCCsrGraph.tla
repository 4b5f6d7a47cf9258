----------------------------- MODULE MCCsrGraph -----------------------------
(* Every file of at most five different pairs over four vertices, loops    *)
(* and repeated lines with another weight included.                        *)
EXTENDS CsrGraph
=============================================================================
