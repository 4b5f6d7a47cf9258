----------------------------- MODULE MCHasTable -----------------------------
(***************************************************************************)
(* Three pairs: m1 is reached at hop 0, m2 at hops 1 and 2, m3 at hop 1.   *)
(* Their eight keys crowd the end of the table, so that the run wraps      *)
(* around and entries of different labels interleave in it.                *)
(***************************************************************************)
EXTENDS HasTable, TLC

CONSTANTS a, b, c, d, m1, m2, m3

MCPair == (a :> m1) @@ (b :> m2) @@ (c :> m2) @@ (d :> m3)
MCHop  == (a :> 0) @@ (b :> 1) @@ (c :> 2) @@ (d :> 1)
MCHome == [x \in {m1, m2, m3} \X (0 .. K) |->
             IF x[1] = m1 /\ x[2] = 0 THEN TS - 1 ELSE TS - 2]
=============================================================================
