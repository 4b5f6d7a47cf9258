---------------------------- MODULE MCGenGather ----------------------------
(***************************************************************************)
(* A block of eight threads in two warps expands seven labels: a row for   *)
(* the whole block, one for the first warp and two that vie for the        *)
(* second, and three short ones that fill a batch and a part of the next.  *)
(* Two warps race for an empty slot with candidates of one key and of      *)
(* another that collides with it where probing wraps around; in the third  *)
(* tier two threads lower the distance of that key at once.  The three     *)
(* keys fill the three slots of das.                                       *)
(***************************************************************************)
EXTENDS GenGather, TLC

CONSTANTS k1, k2, k3

MCRowBegin == (0 :> 0) @@ (1 :> 8)  @@ (2 :> 13) @@ (3 :> 16) @@
              (4 :> 19) @@ (5 :> 23) @@ (6 :> 28)
MCRowEnd   == (0 :> 8) @@ (1 :> 13) @@ (2 :> 16) @@ (3 :> 19) @@
              (4 :> 23) @@ (5 :> 28) @@ (6 :> 31)

MCKey == (<<0, 7>> :> k3) @@
         (<<1, 9>> :> k1) @@ (<<1, 12>> :> k3) @@
         (<<4, 19>> :> k1) @@ (<<4, 22>> :> k2) @@
         (<<2, 14>> :> k1) @@ (<<6, 28>> :> k1) @@
         (<<6, 30>> :> k2)
MCCand == DOMAIN MCKey
MCHome == (k1 :> 2) @@ (k2 :> 2) @@ (k3 :> 0)
MCDist == (<<0, 7>> :> 2) @@
          (<<1, 9>> :> 4) @@ (<<1, 12>> :> 1) @@
          (<<4, 19>> :> 5) @@ (<<4, 22>> :> 3) @@
          (<<2, 14>> :> 3) @@ (<<6, 28>> :> 1) @@
          (<<6, 30>> :> 1)
=============================================================================
