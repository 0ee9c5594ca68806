------------------------------ MODULE PackKernels ------------------------------
(***************************************************************************)
(* The kernels that run before the main one: those that write A or B into  *)
(* the workspace, line by line (copy) or tile by tile (normal form), and   *)
(* the one that scales C by beta.  Addresses count elements from the start *)
(* of a buffer; off has the offset of the matrix in each of the buffers.   *)
(***************************************************************************)
EXTENDS DerivedParams

GroupsOf(items, size) == CeilDiv(items, size)

(* The pairs <<uncoal, coal>> that a work item of a kernel that goes by     *)
(* line has: perThread of them on one line, or the rest of a line.         *)
ByLine(g, x, perThread, id) ==
  LET full == Coal(g, x) \div perThread
      rest == Coal(g, x) % perThread
      nFull == full * Uncoal(g, x)
      n == CeilDiv(Coal(g, x), perThread) * Uncoal(g, x)
      start == CASE nFull # 0 /\ id < nFull -> <<id \div full, perThread * (id % full)>>
                 [] nFull # 0 /\ nFull <= id /\ id < n ->
                      <<(id - nFull) % Uncoal(g, x), perThread * full>>
                 [] nFull # 0 /\ id >= n -> <<0, 0>>
                 [] nFull = 0 -> <<id % Uncoal(g, x), 0>>
      work == IF id < nFull THEN perThread ELSE IF id < n THEN rest ELSE 0
  IN {<<start[1], start[2] + i>> : i \in 0 .. work - 1}

ByLineItems(g, x, perThread, size) ==
  LET n == CeilDiv(Coal(g, x), perThread) * Uncoal(g, x) IN 0 .. GroupsOf(n, size) * size - 1

(* What a packing kernel writes: records of the work item, the address in  *)
(* the workspace and the address in the matrix that it is read from.       *)
CopyWrites(hp, g, off, x) ==
  UNION {{[item |-> id,
           to |-> CwGlobalOffset(hp, g, x) + off["W"] + cell[1] * TargetLdx(g, x) + cell[2],
           from |-> off[x] + cell[1] * g.ld[x] + cell[2]] :
            cell \in ByLine(g, x, Cw1WorkPerThread, id)} :
         id \in ByLineItems(g, x, Cw1WorkPerThread, Cw1LocalWorkSize)}

UnrollTiles(hp, g) == CeilDiv(g.k, hp["C"]["UNR"])

FinalUnrollDepth(hp, g) ==
  IF g.k % hp["C"]["UNR"] = 0 THEN hp["C"]["UNR"] ELSE g.k % hp["C"]["UNR"]

(* Where an item starts, for the strides of what is read or written.       *)
TileStart(hp, g, x, type, mac, mic) ==
  LET tile == Cw2MicroTile(hp, x)
      stride(pllK, isMacro) == Stride(hp, g, x, pllK, isMacro, type)
  IN stride(TRUE, TRUE) * mac.pll * hp["C"]["UNR"] + stride(FALSE, TRUE) * mac.perp * MacroTile(hp, x)
     + stride(TRUE, FALSE) * mic.pll * tile[2] + stride(FALSE, FALSE) * mic.perp * tile[1]

(* The last of the macro tiles is pulled in, so that it ends with the       *)
(* matrix; in the workspace all of them are side by side.                  *)
NFormItemWrites(hp, g, off, x, group, item) ==
  LET tile == Cw2MicroTile(hp, x)
      nPerp == MacroTile(hp, x) \div tile[1]
      mac == [pll |-> group % UnrollTiles(hp, g), perp |-> group \div UnrollTiles(hp, g)]
      mic == [pll |-> item \div nPerp, perp |-> item % nPerp]
      pulled == IF mac.perp = NGroups(hp, g, x) - 1
                THEN Stride(hp, g, x, FALSE, TRUE, UNUSED)
                     * (MacroTile(hp, x) - PreshiftFinalTile(hp, g, x))
                ELSE 0
      depth == IF mac.pll = UnrollTiles(hp, g) - 1 THEN FinalUnrollDepth(hp, g) ELSE hp["C"]["UNR"]
      along(type, i, j) == i * Stride(hp, g, x, TRUE, FALSE, type)
                           + j * Stride(hp, g, x, FALSE, FALSE, type)
  IN {[item |-> <<group, item>>,
       to |-> CwGlobalOffset(hp, g, x) + off["W"] + TileStart(hp, g, x, NFORM, mac, mic)
              + along(NFORM, cell[1], cell[2]),
       from |-> off[x] + TileStart(hp, g, x, UNUSED, mac, mic) - pulled
                + along(UNUSED, cell[1], cell[2])] :
        cell \in {c \in (0 .. tile[2] - 1) \X (0 .. tile[1] - 1) : mic.pll * tile[2] + c[1] < depth}}

NFormWrites(hp, g, off, x) ==
  UNION {NFormItemWrites(hp, g, off, x, id[1], id[2]) :
           id \in (0 .. UnrollTiles(hp, g) * NGroups(hp, g, x) - 1) \X (0 .. Cw2LocalWorkSize - 1)}

PackWrites(hp, g, off, x) ==
  CASE hp[x]["WOS"] = COPY -> CopyWrites(hp, g, off, x)
    [] hp[x]["WOS"] = NFORM -> NFormWrites(hp, g, off, x)
    [] OTHER -> {}

(* The items of the kernel of beta that scale an address of C.             *)
BetacItems(g, off, address) ==
  {id \in ByLineItems(g, "C", BetacWorkPerThread, BetacLocalWorkSize) :
     \E cell \in ByLine(g, "C", BetacWorkPerThread, id) :
       address = off["C"] + cell[1] * g.ld["C"] + cell[2]}
================================================================================
