------------------------------ MODULE MCRatMod ------------------------------
(***************************************************************************)
(* Words of four bits: fixnums are -8 .. 7.  Moduli: none, the least, odd  *)
(* and even ones, the largest fixnum, and two that are bignums.  Samples:  *)
(* the ends of the word, their neighbours, and bignums of both signs.      *)
(***************************************************************************)
EXTENDS RatMod

MCModuli == {Nil, 1, 2, 3, 5, 6, 7, 9, 12}
MCSamples == {-21, -9, -8, -7, -3, -1, 0, 1, 2, 4, 6, 7, 8, 20}
=============================================================================
