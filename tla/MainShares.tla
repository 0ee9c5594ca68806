------------------------------- MODULE MainShares -------------------------------
(***************************************************************************)
(* What each work group of a problem contributes to the result: the        *)
(* products of the elements of A and B that its share of the summation     *)
(* has, for the elements of C in its tile.                                 *)
(***************************************************************************)
EXTENDS MainTiles, CpuGemm

(* The address of an element of A or B: e across the summation, d along it. *)
AddressOf(p, x, e, d) ==
  p.off[x] + Stride(p.hp, p.gg, x, FALSE, FALSE, UNUSED) * e
           + Stride(p.hp, p.gg, x, TRUE, FALSE, UNUSED) * d

ProductAt(p, i, j, d) == Prod(AddressOf(p, "A", i, d), AddressOf(p, "B", j, d))

ProductsOf(p, i, j, D) == {ProductAt(p, i, j, d) : d \in D}

(* The address of an element of C.                                         *)
CAddress(p, i, j) ==
  p.off["C"] + (IF p.gg.t["C"] # p.gg.cm THEN 1 ELSE p.gg.ld["C"]) * i
             + (IF p.gg.t["C"] # p.gg.cm THEN p.gg.ld["C"] ELSE 1) * j

Cells(p) == (0 .. p.gg.m - 1) \X (0 .. p.gg.n - 1)

(* The ids of the work groups of a problem fit the type that holds them.   *)
Fits(p) == \A id \in 0 .. MainWorkGroups(p.hp, p.gg) - 1 : GroupId(p.hp, p.gg, id) = id

(* Where the tile of a group starts, across the summation.                 *)
TileAt(p, tile, x) == tile[x] * MacroTile(p.hp, x) - Pulled(p.hp, p.gg, tile, x)

(* Step d of unroll n of group z is one that it sums: in its first block,  *)
(* in a full one or in its tail; and where along k that is.                *)
Summing(p, tile, z, n, d) ==
  \/ HasFirst(p.hp, z) /\ n = 0 /\ d >= UnrollOffset(p.hp, tile)
  \/ n < UnrollsRemaining(p.hp, p.gg, tile, z) /\ (HasFirst(p.hp, z) => n > 0)
  \/ /\ n = UnrollsRemaining(p.hp, p.gg, tile, z) /\ HasTail(p.hp, p.gg, tile, z)
     /\ d < KRemaining(p.hp, p.gg, tile)

Position(p, tile, z, n, d) == KStart(p.hp, p.gg, tile, z) + n * Jump(p.hp) + d

(* What of the summation a group has for its share.                        *)
Share(p, tile, z) ==
  {Position(p, tile, z, s[1], s[2]) :
     s \in {r \in (0 .. UnrollsRemaining(p.hp, p.gg, tile, z)) \X (0 .. p.hp["C"]["UNR"] - 1) :
              Summing(p, tile, z, r[1], r[2])}}

(* The groups whose tile an element of C is in.                            *)
HasTile(p, id, cell) ==
  /\ TileOf(p.hp, p.gg, id)["A"] = cell[1] \div MacroTile(p.hp, "A")
  /\ TileOf(p.hp, p.gg, id)["B"] = cell[2] \div MacroTile(p.hp, "B")
=================================================================================
