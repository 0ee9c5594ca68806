-------------------------------- MODULE MainTiles --------------------------------
(***************************************************************************)
(* Where the work groups and work items of the main kernel work: which     *)
(* tile of C, which part of the summation, which elements they load and    *)
(* where in local memory they put them and look for them.                  *)
(***************************************************************************)
EXTENDS PackKernels

(* get_tint: addresses and identifiers of a buffer of so many elements are  *)
(* unsigned integers of 16 bits if that is enough (of 28 for 32 or 64),    *)
(* unless SZT asks for ulong.                                              *)
ShortModulus == 2^16
TintModulus(size) == IF size < ShortModulus THEN ShortModulus ELSE SizeModulus
TintC(hp, g) == IF hp["C"]["SZT"] = YES THEN SizeModulus ELSE TintModulus(PaddedArea(g, "C"))

GroupId(hp, g, group) == group % TintC(hp, g)

---------------------------------------------------------------------------
(* Tiles of C.                                                             *)

Xy(hp, g, group) == GroupId(hp, g, group) \div hp["C"]["ICE"]
GroupZ(hp, g, group) == GroupId(hp, g, group) % hp["C"]["ICE"]

(* By super-columns, the last of which may be narrower.                    *)
SuperColumns(hp, g, xy) ==
  LET nA == NGroups(hp, g, "A")
      nB == NGroups(hp, g, "B")
      w == SuperColumnWidth(hp)
      last == LastSuperColumnWidth(hp, g)
      column == xy \div (w * nA)
  IN IF last = 0 \/ (last # nB /\ xy < (nB - last) * nA)
     THEN [A |-> (xy \div w) % nA, B |-> column * w + (xy % w)]
     ELSE [A |-> (xy - (nB - last) * nA) \div last, B |-> column * w + (xy % last)]

TileOf(hp, g, group) ==
  LET xy == Xy(hp, g, group)
      n == [x \in Chiral |-> NGroups(hp, g, x)]
  IN CASE hp["C"]["GAL"] = BYCOL -> [A |-> xy % n["A"], B |-> xy \div n["A"]]
       [] hp["C"]["GAL"] = BYROW -> [A |-> xy \div n["B"], B |-> xy % n["B"]]
       [] hp["C"]["GAL"] = SUCOL -> SuperColumns(hp, g, xy)

IsLast(hp, g, tile, x) == tile[x] = NGroups(hp, g, x) - 1

(* A tile on the edge is pulled in, so that it ends with the matrix.       *)
Pulled(hp, g, tile, x) ==
  IF UseEdgeTrick(hp, g) /\ IsLast(hp, g, tile, x)
  THEN MacroTile(hp, x) - PreshiftFinalTile(hp, g, x) ELSE 0

MicroId(hp, item) ==
  IF hp["C"]["MIA"] = 0
  THEN [A |-> item % MacroGrid(hp)["A"], B |-> item \div MacroGrid(hp)["A"]]
  ELSE [A |-> item \div MacroGrid(hp)["B"], B |-> item % MacroGrid(hp)["B"]]

CWorkItemNext(hp, x) == IF hp[x]["MIW"] # 0 THEN hp[x]["VEW"] ELSE hp[x]["MIC"]

WriteStart(hp, g, tile, item, x) ==
  tile[x] * MacroTile(hp, x) - Pulled(hp, g, tile, x) + MicroId(hp, item)[x] * CWorkItemNext(hp, x)

(* A slip: the read zone is not pulled in.                                 *)
ReadStartOfTile(hp, g, tile, x) == tile[x] * MacroTile(hp, x)

(* In normal form the tiles are not pulled in again.                       *)
ReadStart(hp, g, tile, x) ==
  tile[x] * MacroTile(hp, x) - (IF hp[x]["WOS"] = NFORM THEN 0 ELSE Pulled(hp, g, tile, x))

(* What the item writes: pairs of the place in its registers and in C.     *)
RegisterRows(hp, x) ==
  LET v == hp[x]["VEW"] IN
  IF hp[x]["MIW"] = 0 THEN {<<d, d>> : d \in 0 .. hp[x]["MIC"] - 1}
  ELSE {<<(i * v) \div MacroGrid(hp)[x] + lane, i * v + lane>> :
          i \in {j \in 0 .. MacroTile(hp, x) \div v - 1 : j % MacroGrid(hp)[x] = 0}, lane \in 0 .. v - 1}

(* Of what tiles overlap in, the tile that is not on the edge writes it.    *)
Overflows(hp, g, x, at) ==
  at >= MacroTile(hp, x) * (NGroups(hp, g, x) - 1)

(* A slip: the corner is left to nobody.                                   *)
WriteCheckedNoCorner(hp, g, tile, i, j) ==
  \/ Overflows(hp, g, "B", j) /\ ~IsLast(hp, g, tile, "A")
  \/ Overflows(hp, g, "A", i) /\ ~IsLast(hp, g, tile, "B")

WriteChecked(hp, g, tile, i, j) ==
  \/ Overflows(hp, g, "B", j) /\ ~IsLast(hp, g, tile, "A")
  \/ Overflows(hp, g, "A", i) /\ ~IsLast(hp, g, tile, "B")
  \/ /\ IsLast(hp, g, tile, "A") /\ IsLast(hp, g, tile, "B")
     /\ Overflows(hp, g, "B", j) /\ Overflows(hp, g, "A", i)

OnEdge(hp, g, tile) ==
  \E x \in Chiral : PreshiftFinalTile(hp, g, x) # MacroTile(hp, x) /\ IsLast(hp, g, tile, x)

(* Records of the registers and the address in C.                          *)
FinalWrites(hp, g, off, tile, item) ==
  LET start == [x \in Chiral |-> WriteStart(hp, g, tile, item, x)]
      contiguousM == g.t["C"] # g.cm
      address(i, j) == off["C"] + (IF contiguousM THEN 1 ELSE g.ld["C"]) * i
                                + (IF contiguousM THEN g.ld["C"] ELSE 1) * j
  IN {[a |-> r[1][1], b |-> r[2][1],
       to |-> address(start["A"] + r[1][2], start["B"] + r[2][2])] :
        r \in {q \in RegisterRows(hp, "A") \X RegisterRows(hp, "B") :
                 OnEdge(hp, g, tile) =>
                   WriteChecked(hp, g, tile, start["A"] + q[1][2], start["B"] + q[2][2])}}

---------------------------------------------------------------------------
(* The summation: unrolls of UNR, shared by the groups z of a tile.        *)

UnrollOffset(hp, tile) ==
  IF hp["C"]["UFO"] = YES THEN (13 * tile["A"] + 7 * tile["B"]) % hp["C"]["UNR"] ELSE 0

EffectiveK(hp, g, tile) == g.k + UnrollOffset(hp, tile)
GUnroll(hp) == hp["C"]["ICE"] * hp["C"]["UNR"]

WorkGroupsWith1More(hp, g, tile) == (EffectiveK(hp, g, tile) % GUnroll(hp)) \div hp["C"]["UNR"]

UnrollsRemaining(hp, g, tile, z) ==
  IF ~SplitOnK(hp) THEN EffectiveK(hp, g, tile) \div hp["C"]["UNR"]
  ELSE EffectiveK(hp, g, tile) \div GUnroll(hp)
       + (IF z < WorkGroupsWith1More(hp, g, tile) THEN 1 ELSE 0)

Interwoven(hp) == hp["C"]["IWI"] = YES

(* Where group z starts, in elements along k, and how far it jumps.        *)
KStart(hp, g, tile, z) ==
  LET more == WorkGroupsWith1More(hp, g, tile)
      contiguous == (1 + EffectiveK(hp, g, tile) \div GUnroll(hp)) * hp["C"]["UNR"] * z
                    - (IF z > more THEN hp["C"]["UNR"] * (z - more) ELSE 0)
  IN (CASE ~SplitOnK(hp) -> 0
        [] SplitOnK(hp) /\ ~Interwoven(hp) -> contiguous
        [] SplitOnK(hp) /\ Interwoven(hp) -> hp["C"]["UNR"] * z) - UnrollOffset(hp, tile)

Jump(hp) == IF SplitOnK(hp) /\ Interwoven(hp) THEN GUnroll(hp) ELSE hp["C"]["UNR"]

KRemaining(hp, g, tile) == EffectiveK(hp, g, tile) % hp["C"]["UNR"]

HasFirst(hp, z) == hp["C"]["UFO"] = YES /\ (SplitOnK(hp) => z = 0)

HasTail(hp, g, tile, z) ==
  /\ FractionalUnroll(hp, g)
  /\ SplitOnK(hp) =>
       /\ z = (IF Interwoven(hp) THEN WorkGroupsWith1More(hp, g, tile) ELSE hp["C"]["ICE"] - 1)
       /\ KRemaining(hp, g, tile) > 0

---------------------------------------------------------------------------
(* Loads.                                                                  *)

LoadOffset(hp, x, item) ==
  LET n == MicroTilesPllUnroll(hp, x)
      tile == MicroTile(hp, x)
  IN IF hp[x]["LIW"] = 0
     THEN [pll |-> tile[2] * (item % n), perpV |-> (tile[1] \div hp[x]["VEW"]) * (item \div n)]
     ELSE [pll |-> item % n, perpV |-> item \div n]

EveryUpTo(bound, step) == {i \in 0 .. bound - 1 : i % step = 0}

LoadPerp(hp, x) ==
  IF hp[x]["LIW"] = 0 THEN 0 .. MicroTile(hp, x)[1] \div hp[x]["VEW"] - 1
  ELSE EveryUpTo(MacroTile(hp, x) \div hp[x]["VEW"], MacroTile(hp, x) \div MicroTile(hp, x)[1])

LoadPll(hp, x) ==
  IF hp[x]["LIW"] = 0 THEN 0 .. MicroTile(hp, x)[2] - 1
  ELSE EveryUpTo(hp["C"]["UNR"], hp["C"]["UNR"] \div MicroTile(hp, x)[2])

(* Records of the place in local memory, the address that it is loaded     *)
(* from after so many jumps, and how far along the unroll it is.  Vectors  *)
(* of VEW elements are loaded at once.                                     *)
Loads(hp, g, off, tile, z, item, x, jumps) ==
  LET v == hp[x]["VEW"]
      along == Stride(hp, g, x, TRUE, FALSE, hp[x]["WOS"])
      across == Stride(hp, g, x, FALSE, FALSE, hp[x]["WOS"])
      offset == LoadOffset(hp, x, item)
      origin == IF Packed(hp, x) THEN off["W"] + CwGlobalOffset(hp, g, x) ELSE off[x]
      start == origin
               + ReadStart(hp, g, tile, x) * Stride(hp, g, x, FALSE, TRUE, hp[x]["WOS"])
               + (KStart(hp, g, tile, z) + offset.pll) * along
               + v * (across * offset.perpV + jumps * ((along * Jump(hp)) \div v))
      row == PaddedTile(hp, x) \div v
  IN {[to |-> v * (row * (offset.pll + i) + offset.perpV + j) + lane,
       from |-> start + v * ((i * along + v * j * across) \div v) + lane,
       depth |-> offset.pll + i] :
        i \in LoadPll(hp, x), j \in LoadPerp(hp, x), lane \in 0 .. v - 1}

(* Where in local memory the item finds its r-th register, u steps along.   *)
RegisterPlace(hp, x, item, u, r) ==
  LET v == hp[x]["VEW"] IN
  v * ((MicroId(hp, item)[x] * CWorkItemNext(hp, x)) \div v + u * (PaddedTile(hp, x) \div v)
       + (r \div v) * InterweaveStride(hp, x))
  + (r % v)

---------------------------------------------------------------------------
(* Hyper-parameters that are divided by are not 0: nothing in the code     *)
(* tests for it, and the graph has none.  What counts the work groups of a *)
(* problem and the elements of its workspace fits size_t.                  *)
IsProblem(p) ==
  /\ IsHyPas(p.hp) /\ IsGeometry(p.gg) /\ LdxConsistent(p.gg) /\ p.gg.ws \in Nat
  /\ \A x \in Chiral :
       /\ p.hp[x]["MIC"] > 0 /\ p.hp[x]["VEW"] > 0 /\ p.hp[x]["PAD"] >= 0
       /\ p.hp[x]["WOS"] \in {UNUSED, COPY, NFORM}
       /\ Coal(p.gg, x) < SizeModulus - 32
  /\ \A key \in {"UNR", "ICE", "MAC"} : p.hp["C"][key] > 0
  /\ p.hp["C"]["NAW"] >= 0 /\ p.hp["C"]["GAL"] \in {BYROW, BYCOL, SUCOL}
  /\ p.hp["C"]["ICE"] * p.gg.m * p.gg.n <= SizeModulus
  /\ \A o \in {p.off, p.tail} : o \in [Mats \cup {"W"} -> Nat]
================================================================================
