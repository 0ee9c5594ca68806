----------------------------- MODULE DerivedParams -----------------------------
(***************************************************************************)
(* What is derived from hyper-parameters and a geometry, and whether they   *)
(* go together at all.                                                     *)
(***************************************************************************)
EXTENDS HyperParams, Tiling

Cw1LocalWorkSize == 256
Cw1WorkPerThread == 2
Cw2LocalWorkSize == 64
BetacLocalWorkSize == 256
BetacWorkPerThread == 2

---------------------------------------------------------------------------
(* Tiles and work groups.                                                  *)

MacroGrid(hp) == Grid(hp["C"]["MAC"], hp["C"]["SKW"])

MacroTile(hp, x) == MacroGrid(hp)[x] * hp[x]["MIC"]

PreshiftFinalTile(hp, g, x) == 1 + ((NonKDim(g, x) - 1) % MacroTile(hp, x))

NGroups(hp, g, x) ==
  NonKDim(g, x) \div MacroTile(hp, x)
  + (IF PreshiftFinalTile(hp, g, x) # MacroTile(hp, x) THEN 1 ELSE 0)

WorkItems(hp) ==
  (MacroTile(hp, "A") * MacroTile(hp, "B")) \div (hp["A"]["MIC"] * hp["B"]["MIC"])

PaddedTile(hp, x) == MacroTile(hp, x) + hp[x]["VEW"] * hp[x]["PAD"]
ElementsInPaddedUnroll(hp, x) == PaddedTile(hp, x) * hp["C"]["UNR"]

ElementsInUnroll(hp, x) == MacroTile(hp, x) * hp["C"]["UNR"]
LoadPerItem(hp, x) == ElementsInUnroll(hp, x) \div WorkItems(hp)
Cw2LoadPerItem(hp, x) == ElementsInUnroll(hp, x) \div Cw2LocalWorkSize

CeilDiv(a, b) == (a \div b) + (IF a % b # 0 THEN 1 ELSE 0)

MainWorkGroups(hp, g) ==
  hp["C"]["ICE"] * CeilDiv(g.m, MacroTile(hp, "A")) * CeilDiv(g.n, MacroTile(hp, "B"))

UseEdgeTrick(hp, g) == \E x \in Chiral : NonKDim(g, x) % MacroTile(hp, x) # 0

FractionalUnroll(hp, g) == hp["C"]["UFO"] = YES \/ g.k % hp["C"]["UNR"] # 0

SplitOnK(hp) == hp["C"]["ICE"] # 1

(* The floor of the square root of NAW, or of NAW / ICE.                   *)
SuperColumnWidth(hp) ==
  Max({s \in 0 .. hp["C"]["NAW"] : s * s * hp["C"]["ICE"] <= hp["C"]["NAW"]})

LastSuperColumnWidth(hp, g) == NGroups(hp, g, "B") % SuperColumnWidth(hp)

---------------------------------------------------------------------------
(* The workspace.  size_t is taken modulo 2^28, a multiple of the grid of  *)
(* 16 like 2^64 is.                                                        *)

SizeModulus == 2^28
SizeT(x) == x % SizeModulus

Target(grid, above, x) ==
  SizeT(grid * CeilDiv(SizeT(x - above), grid) + above)

CopyPad(x) == IF x = "A" THEN 3 ELSE 6

SmallestLdx(g, x) == IF CoalIsPllK(g, x) THEN g.k ELSE NonKDim(g, x)
TargetLdx(g, x) == Target(16, CopyPad(x), SmallestLdx(g, x))

Packed(hp, x) == hp[x]["WOS"] # UNUSED

CwElements(hp, g, x) ==
  CASE hp[x]["WOS"] = COPY -> TargetLdx(g, x) * Uncoal(g, x)
    [] hp[x]["WOS"] = NFORM -> NGroups(hp, g, x) * MacroTile(hp, x) * g.k
    [] OTHER -> 0

(* A slip: the two start at the same place.                                *)
CwNoOffset(hp, g, x) == 0

CwGlobalOffset(hp, g, x) ==
  IF x = "B" /\ Packed(hp, "A") THEN CwElements(hp, g, "A") ELSE 0

RequiredWorkspace(hp, g) == CwElements(hp, g, "A") + CwElements(hp, g, "B")

---------------------------------------------------------------------------
(* Strides and tiles to load.                                              *)

Stride(hp, g, x, pllK, isMacro, type) ==
  CASE type = UNUSED -> IF CoalIsPllK(g, x) = pllK THEN 1 ELSE g.ld[x]
    [] type = COPY -> IF CoalIsPllK(g, x) = pllK THEN 1 ELSE TargetLdx(g, x)
    [] type = NFORM ->
         IF pllK THEN MacroTile(hp, x) ELSE IF isMacro THEN g.k ELSE 1

(* <<perpendicular, parallel to the unroll>>                               *)
MicroTile(hp, x) ==
  TileDimensions(MacroTile(hp, x), hp["C"]["UNR"], LoadPerItem(hp, x), hp[x]["PLU"] = 0)

Cw2MicroTile(hp, x) ==
  TileDimensions(MacroTile(hp, x), hp["C"]["UNR"], Cw2LoadPerItem(hp, x), TRUE)

MicroTilesPllUnroll(hp, x) == hp["C"]["UNR"] \div MicroTile(hp, x)[2]

InterweaveStride(hp, x) == IF hp[x]["MIW"] = 0 THEN 1 ELSE MacroGrid(hp)[x]

(* VEW elements that are adjacent in memory are loaded and computed at once. *)
Vectorizable(hp, g, x) ==
  LET v == hp[x]["VEW"]
      one == Stride(hp, g, x, TRUE, FALSE, hp[x]["WOS"])
      load == IF hp[x]["LIW"] = YES THEN one * MicroTilesPllUnroll(hp, x) ELSE one
  IN v # 1 => /\ Stride(hp, g, x, FALSE, FALSE, hp[x]["WOS"]) = 1
              /\ MicroTile(hp, x)[1] % v = 0
              /\ hp[x]["MIC"] % v = 0
              /\ load % v = 0

---------------------------------------------------------------------------
(* The tests of set_fragile, in their order.                               *)

TilesInside(hp, g) == \A x \in Chiral : NonKDim(g, x) >= MacroTile(hp, x)
WorkspaceSuffices(hp, g) == g.ws >= RequiredWorkspace(hp, g)

(* A slip: what the items of the packing kernel load is not tested.         *)
DividesMainOnly(hp, x) == ElementsInUnroll(hp, x) % WorkItems(hp) = 0

Divides(hp, x) ==
  /\ ElementsInUnroll(hp, x) % WorkItems(hp) = 0
  /\ hp[x]["WOS"] = NFORM => ElementsInUnroll(hp, x) % Cw2LocalWorkSize = 0

Tileable(hp, x) ==
  /\ Tileability(MacroTile(hp, x), hp["C"]["UNR"], LoadPerItem(hp, x)) = "yes"
  /\ hp[x]["WOS"] = NFORM =>
       Tileability(MacroTile(hp, x), hp["C"]["UNR"], Cw2LoadPerItem(hp, x)) = "yes"

(* What is tested before a tile is looked for, and after.                  *)
BeforeTiles(hp, g) ==
  /\ MacroGrid(hp).isGood
  /\ TilesInside(hp, g) /\ WorkspaceSuffices(hp, g)
  /\ \A x \in Chiral : Divides(hp, x)

(* A slip: no test that the first unroll is a whole one.                   *)
AfterTilesAnyOffset(hp, g) ==
  /\ hp["C"]["GAL"] = SUCOL => SuperColumnWidth(hp) # 0
  /\ \A x \in Chiral : Vectorizable(hp, g, x)

AfterTiles(hp, g) ==
  /\ hp["C"]["UFO"] = YES => g.k > hp["C"]["UNR"]
  /\ hp["C"]["GAL"] = SUCOL => SuperColumnWidth(hp) # 0
  /\ \A x \in Chiral : Vectorizable(hp, g, x)

AllTileable(hp) == \A x \in Chiral : Tileable(hp, x)

Derivability(hp, g) ==
  IF ~BeforeTiles(hp, g) THEN "no"
  ELSE IF ~AllTileable(hp) THEN "throws"
  ELSE IF AfterTiles(hp, g) THEN "yes" ELSE "no"

Derivable(hp, g) == Derivability(hp, g) = "yes"

---------------------------------------------------------------------------
(* What the architecture allows.                                           *)
ArchGood(hp, g, device) ==
  /\ WorkItems(hp) <= device.maxWorkGroup
  /\ FloatBytes(g) * (ElementsInPaddedUnroll(hp, "A") + ElementsInPaddedUnroll(hp, "B"))
       < device.localMem
================================================================================
