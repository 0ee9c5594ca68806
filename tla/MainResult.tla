------------------------------- MODULE MainResult -------------------------------
(***************************************************************************)
(* What the result of the kernels relies on, in each state of a run: what  *)
(* is in the workspace, in local memory, in the registers of a work item   *)
(* and in C, while work groups and work items are at work.                 *)
(***************************************************************************)
EXTENDS MainKernel, MainShares

(* What is packed is the element that it was taken from.                   *)
PackedExactly ==
  at \in {"beta", "main"} => \A x \in Chiral : \A s \in PackWrites(hp, g, off, x) : w[s.to] = s.from

(* Items are past the barrier after the loads together.                    *)
Together ==
  block # "none" => \A i, j \in Items : pc[i] \in {"math", "summed"} => pc[j] \in {"math", "summed"}

(* Who has loaded has put an element where it belongs, by its place across *)
(* the tile and its depth, and zero where there is nothing to sum.         *)
Element(x, s) ==
  IF Guarded(s.depth)
  THEN AddressOf(prob, x, TileAt(prob, Tile, x) + (s.to % PaddedTile(hp, x)),
                 Position(prob, Tile, Z, jumps, s.depth))
  ELSE Zero

LoadedExactly ==
  block \in {"first", "full", "tail"} =>
    \A x \in Chiral, item \in HasLoaded : \A s \in Loads(hp, g, off, Tile, Z, item, x, jumps) :
      lds[x][s.to] = Element(x, s)

MInv == LInv /\ PackedExactly /\ Together /\ LoadedExactly

---------------------------------------------------------------------------
(* The steps of the summation that an item has behind it, and where along  *)
(* k they are.                                                             *)
StepsBehind(item) ==
  {r \in (0 .. jumps) \X (0 .. hp["C"]["UNR"] - 1) :
     Summing(prob, Tile, Z, r[1], r[2]) /\ (r[1] < jumps \/ block = "write" \/ pc[item] = "summed")}

SummedBy(item) == {Position(prob, Tile, Z, s[1], s[2]) : s \in StepsBehind(item)}

(* The registers of an item have the products of what it has summed.       *)
SummedExactly ==
  block # "none" =>
    /\ DOMAIN reg = Items
    /\ \A item \in Items :
         /\ DOMAIN reg[item] = (0 .. hp["A"]["MIC"] - 1) \X (0 .. hp["B"]["MIC"] - 1)
         /\ \A r \in RegisterRows(hp, "A"), s \in RegisterRows(hp, "B") :
              reg[item][<<r[1], s[1]>>] =
                SetToBag(ProductsOf(prob, WriteStart(hp, g, Tile, item, "A") + r[2],
                                  WriteStart(hp, g, Tile, item, "B") + s[2], SummedBy(item)))

(* Who writes has all of its share in its registers.                       *)
AllSummed == block = "write" => jumps = UnrollsRemaining(hp, g, Tile, Z)

SInv == MInv /\ SummedExactly /\ AllSummed

---------------------------------------------------------------------------
(* The work groups that have added their share to an element of C.         *)
Writes(item, cell) ==
  \E s \in FinalWrites(hp, g, off, Tile, item) : s.to = CAddress(prob, cell[1], cell[2])

Written(cell) == block = "write" /\ \E item \in Items : pc[item] = "end" /\ Writes(item, cell)

Added(cell) == {id \in 0 .. group : HasTile(prob, id, cell) /\ (id < group \/ Written(cell))}

AddedPart(cell) ==
  UNION {Share(prob, TileOf(hp, g, id), GroupZ(hp, g, id)) : id \in Added(cell)}

(* C has the products that were added, and is scaled once.                 *)
Scaled(cell) == at # "pack" /\ at # "beta" /\ (SplitOnK(hp) \/ Added(cell) # {})

ResultExactly ==
  at \notin {"derive", "refused", "fill"} =>
    /\ DOMAIN c = 0 .. BufferSize(g, off, prob.tail, "C") - 1
    /\ \A i \in DOMAIN c :
         (\A cell \in Cells(prob) : i # CAddress(prob, cell[1], cell[2])) => c[i] = SetToBag({Old(i)})
    /\ \A cell \in Cells(prob) : LET i == CAddress(prob, cell[1], cell[2]) IN
         c[i] = SetToBag({IF Scaled(cell) THEN <<"beta", Old(i)>> ELSE Old(i)}
                         \cup ProductsOf(prob, cell[1], cell[2], AddedPart(cell)))

AllDone == at \in {"compare", "accurate", "inaccurate"} => group = MainWorkGroups(hp, g)

(* For all of that the work groups have to be told apart.                  *)
RInv == SInv /\ AllDone /\ (ResultExactly \/ ~Fits(prob))

(* They are for all that a graph without constraints has.                  *)
FromGraph ==
  InGraph(Graph(g, Gpu, [range |-> [x \in Mats |-> <<>>], start |-> [x \in Mats |-> <<>>]]), hp)

(* The work groups of the problems that are run.                           *)
IdsFit ==
  \A p \in Problems : p.gg.m * p.gg.n * p.gg.k <= MaxWork /\ Derivable(p.hp, p.gg) => Fits(p)

Identified == at \notin {"derive", "refused"} => Fits(prob)
=================================================================================
