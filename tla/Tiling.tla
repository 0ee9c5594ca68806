--------------------------------- MODULE Tiling ---------------------------------
(***************************************************************************)
(* The tile tH x tW that a work item loads of a macro tile TH x TW, when   *)
(* it loads tS elements.  A tile <<0, 0>> means that none was found.        *)
(***************************************************************************)
EXTENDS Integers, FiniteSetsExt

Multiples(N) == {d \in 1 .. N : N % d = 0}

NoTile == <<0, 0>>

(* The tallest: the multiples are tried from the largest.                  *)
TileNoChecks(TH, TW, tS) ==
  LET fit == {d \in Multiples(TH) : tS % d = 0 /\ tS \div d <= TW} IN
  IF fit = {} THEN NoTile ELSE <<Max(fit), tS \div Max(fit)>>

(* Two of the answers are composed and not returned, so that the only      *)
(* answer is yes; instead of a no there is an exception, or a division by  *)
(* the width 0 of a tile that was not found.                               *)
Tileability(TH, TW, tS) ==
  IF tS = 0 \/ TileNoChecks(TH, TW, tS) = NoTile THEN "throws"
  ELSE LET t == TileNoChecks(TH, TW, tS) IN
       IF TW % t[2] # 0 \/ t[1] * t[2] # tS THEN "throws" ELSE "yes"

TileDimensions(TH, TW, tS, tall) ==
  IF tall THEN TileNoChecks(TH, TW, tS)
  ELSE LET t == TileNoChecks(TW, TH, tS) IN <<t[2], t[1]>>
================================================================================
