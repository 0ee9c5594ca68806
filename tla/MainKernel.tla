------------------------------- MODULE MainKernel -------------------------------
(***************************************************************************)
(* The kernels that are generated for a solution, run on the device: the   *)
(* packing kernels and the kernel of beta, and then the main one, work     *)
(* group after work group.  The work items of a group interleave: they     *)
(* share local memory, and meet at barriers.  At the end the accuracy test *)
(* compares with what the host computes.                                   *)
(***************************************************************************)
EXTENDS MainTiles, CpuGemm, HyperGraph

CONSTANTS
  Problems,  \* records of hyper-parameters hp, a geometry gg, offsets off
             \* and sizes tail of what follows a matrix, by buffer
  Gpu,       \* the device: wgAtom, maxWorkGroup and localMem
  MaxWork    \* bound: m * n * k of a problem that is run

ASSUME ProblemsAssumption == MaxWork \in Nat /\ \A p \in Problems : IsProblem(p)

VARIABLES
  prob,   \* the problem
  at,     \* where the program is
  host,   \* the matrices A and B
  w, c,   \* the workspace and C
  group,  \* the work group
  block,  \* the block of the main kernel it is in
  left,   \* n_unrolls_remaining
  jumps,  \* how often its pointers have jumped
  pc,     \* where in the block its work items are
  lds,    \* local memory
  reg     \* rC of its work items

groupVars == <<group, block, left, jumps, pc, lds, reg>>
vars == <<prob, at, host, w, c, groupVars>>

Places == {"derive", "refused", "fill", "pack", "beta", "main", "compare", "accurate", "inaccurate"}
Blocks == {"none", "first", "full", "tail", "write"}
Points == {"load", "loaded", "math", "summed", "write", "end"}

Zero == -2      \* the number 0
Outside == -3   \* what is read outside of a buffer

hp == prob.hp
g == prob.gg
off == prob.off

Items == 0 .. WorkItems(hp) - 1
Tile == TileOf(hp, g, group)
Z == GroupZ(hp, g, group)

Init ==
  /\ prob \in Problems
  /\ at = "derive"
  /\ host = <<>> /\ w = <<>> /\ c = <<>>
  /\ group = 0 /\ block = "none" /\ left = 0 /\ jumps = 0
  /\ pc = <<>> /\ lds = <<>> /\ reg = <<>>

Derive ==
  /\ at = "derive"
  /\ g.m * g.n * g.k <= MaxWork
  /\ at' = IF Derivable(hp, g) THEN "fill" ELSE "refused"
  /\ UNCHANGED <<prob, host, w, c, groupVars>>

(* set_abcw, and what is written to the device.                            *)
Fill ==
  /\ at = "fill"
  /\ LET n(x) == BufferSize(g, off, prob.tail, x) IN
     /\ host' = [x \in Chiral |-> Filled(n(x))]
     /\ c' = [i \in 0 .. n("C") - 1 |-> SetToBag({Old(Filled(n("C"))[i])})]
  /\ w' = [i \in 0 .. off["W"] + g.ws + prob.tail["W"] - 1 |-> Junk]
  /\ at' = "pack"
  /\ UNCHANGED <<prob, groupVars>>

Read(memory, address) == IF address \in DOMAIN memory THEN memory[address] ELSE Outside

(* Both of the packing kernels, which do not depend on each other.          *)
Pack ==
  /\ at = "pack"
  /\ LET writes == [x \in Chiral |-> PackWrites(hp, g, off, x)]
         to(x) == {s.to : s \in writes[x]}
         from(x, i) == (CHOOSE s \in writes[x] : s.to = i).from
     IN w' = [i \in DOMAIN w |-> IF i \in to("A") THEN Read(host["A"], from("A", i))
                                 ELSE IF i \in to("B") THEN Read(host["B"], from("B", i)) ELSE w[i]]
  /\ at' = "beta"
  /\ UNCHANGED <<prob, host, c, groupVars>>

(* Where the main kernel splits the summation, it does not scale C.         *)
ScaleC ==
  /\ at = "beta"
  /\ c' = IF SplitOnK(hp) THEN [i \in DOMAIN c |-> IF BetacItems(g, off, i) # {} THEN Scale(c[i]) ELSE c[i]]
          ELSE c
  /\ at' = "main"
  /\ UNCHANGED <<prob, host, w, groupVars>>

---------------------------------------------------------------------------
(* The main kernel.                                                        *)

(* The block that comes after one, with so many unrolls left.              *)
NextBlock(b, n) ==
  IF n > 0 THEN "full" ELSE IF b # "tail" /\ HasTail(hp, g, Tile, Z) THEN "tail" ELSE "write"

Enter(b) ==
  /\ block' = b
  /\ pc' = [i \in Items |-> IF b = "write" THEN "write" ELSE "load"]

StartGroup ==
  /\ at = "main" /\ block = "none" /\ group < MainWorkGroups(hp, g)
  /\ left' = UnrollsRemaining(hp, g, Tile, Z)
  /\ jumps' = 0
  /\ lds' = [x \in Chiral |-> [i \in 0 .. ElementsInPaddedUnroll(hp, x) - 1 |-> Junk]]
  /\ reg' = [i \in Items |-> [r \in (0 .. hp["A"]["MIC"] - 1) \X (0 .. hp["B"]["MIC"] - 1) |-> EmptyBag]]
  /\ Enter(IF HasFirst(hp, Z) THEN "first" ELSE NextBlock("none", left'))
  /\ UNCHANGED <<prob, at, host, w, c, group>>

(* Beyond what there is to sum, in the first block and in the tail, zeros  *)
(* are put in local memory, and nothing is read.                           *)
Guarded(depth) ==
  CASE block = "first" -> depth >= UnrollOffset(hp, Tile)
    [] block = "tail" -> depth < KRemaining(hp, g, Tile)
    [] OTHER -> TRUE

Loaded(item, x) ==
  LET loads == Loads(hp, g, off, Tile, Z, item, x, jumps)
      memory == IF Packed(hp, x) THEN w ELSE host[x]
  IN [p \in {s.to : s \in loads} |->
        LET s == CHOOSE s \in loads : s.to = p IN
        IF Guarded(s.depth) THEN Read(memory, s.from) ELSE Zero]

Stored(new, memory) ==
  [p \in DOMAIN new \cup DOMAIN memory |-> IF p \in DOMAIN new THEN new[p] ELSE memory[p]]

Load(item) ==
  /\ block \in {"first", "full", "tail"} /\ pc[item] = "load"
  /\ lds' = [x \in Chiral |-> Stored(Loaded(item, x), lds[x])]
  /\ pc' = [pc EXCEPT ![item] = "loaded"]
  /\ UNCHANGED <<prob, at, host, w, c, group, block, left, jumps, reg>>

LoadBarrier ==
  /\ block # "none" /\ \A i \in Items : pc[i] = "loaded"
  /\ pc' = [i \in Items |-> "math"]
  /\ UNCHANGED <<prob, at, host, w, c, group, block, left, jumps, lds, reg>>

(* The products of a row a and a column b of the registers.                *)
Summands(item, a, b) ==
  LET n == IF block = "tail" THEN KRemaining(hp, g, Tile) ELSE hp["C"]["UNR"]
      element(x, r, u) == Read(lds[x], RegisterPlace(hp, x, item, u, r))
      factors == [u \in 0 .. n - 1 |-> <<element("A", a, u), element("B", b, u)>>]
      nonzero == {u \in DOMAIN factors : Zero \notin {factors[u][1], factors[u][2]}}
  IN BagOf([u \in nonzero |-> Prod(factors[u][1], factors[u][2])])

Math(item) ==
  /\ block \in {"first", "full", "tail"} /\ pc[item] = "math"
  /\ reg' = [reg EXCEPT ![item] = [r \in DOMAIN @ |-> @[r] (+) Summands(item, r[1], r[2])]]
  /\ pc' = [pc EXCEPT ![item] = "summed"]
  /\ UNCHANGED <<prob, at, host, w, c, group, block, left, jumps, lds>>

(* The pointers of an item have jumped with its loads, but not in the tail. *)
MathBarrier ==
  /\ block # "none" /\ \A i \in Items : pc[i] = "summed"
  /\ left' = IF block = "tail" THEN left ELSE left - 1
  /\ jumps' = IF block = "tail" THEN jumps ELSE jumps + 1
  /\ Enter(NextBlock(block, left'))
  /\ UNCHANGED <<prob, at, host, w, c, group, lds, reg>>

(* An element at a time, and with compare-and-swap where the summation is   *)
(* split.                                                                  *)
Write(item) ==
  /\ block = "write" /\ pc[item] = "write"
  /\ LET writes == FinalWrites(hp, g, off, Tile, item)
         sum(i) == LET s == CHOOSE s \in writes : s.to = i IN reg[item][<<s.a, s.b>>]
     IN c' = [i \in DOMAIN c |->
                IF \A s \in writes : s.to # i THEN c[i]
                ELSE IF SplitOnK(hp) THEN c[i] (+) sum(i) ELSE Scale(c[i]) (+) sum(i)]
  /\ pc' = [pc EXCEPT ![item] = "end"]
  /\ UNCHANGED <<prob, at, host, w, group, block, left, jumps, lds, reg>>

EndGroup ==
  /\ block = "write" /\ \A i \in Items : pc[i] = "end"
  /\ group' = group + 1
  /\ block' = "none"
  /\ UNCHANGED <<prob, at, host, w, c, left, jumps, pc, lds, reg>>

EndMain ==
  /\ at = "main" /\ block = "none" /\ group = MainWorkGroups(hp, g)
  /\ at' = "compare"
  /\ UNCHANGED <<prob, host, w, c, groupVars>>

(* The accuracy test throws if elements differ.                            *)
Compare ==
  /\ at = "compare"
  /\ at' = IF CpuPossible(g) /\ Accurate(g, off, prob.tail, CpuResult(g, off, prob.tail), c)
           THEN "accurate" ELSE "inaccurate"
  /\ UNCHANGED <<prob, host, w, c, groupVars>>

(* The end, and problems too large to be run.                              *)
Finished ==
  /\ at \in {"refused", "accurate"} \/ (at = "derive" /\ g.m * g.n * g.k > MaxWork)
  /\ UNCHANGED vars

Next ==
  \/ Derive \/ Fill \/ Pack \/ ScaleC
  \/ StartGroup \/ LoadBarrier \/ MathBarrier \/ EndGroup \/ EndMain
  \/ at = "main" /\ \E item \in Items : Load(item) \/ Math(item) \/ Write(item)
  \/ Compare \/ Finished

Spec == Init /\ [][Next]_vars
---------------------------------------------------------------------------

(* The types of the variables; a group never has fewer than no unrolls     *)
(* left, also not when the first has its block of its own.                 *)
TypeOK ==
  /\ at \in Places /\ block \in Blocks
  /\ at = "main" => group \in 0 .. MainWorkGroups(hp, g)
  /\ left \in Nat /\ jumps \in Nat
  /\ block # "none" =>
       /\ DOMAIN pc = Items /\ \A i \in Items : pc[i] \in Points
       /\ \A x \in Chiral : DOMAIN lds[x] = 0 .. ElementsInPaddedUnroll(hp, x) - 1

(* Whatever the hyper-parameters: when the kernels have run, every element *)
(* of C has been scaled once and has every product once, and nothing else  *)
(* in the buffer has changed (the accuracy test of the kernels generated). *)
SameAsCpu == at # "inaccurate"

(* The elements of A or B in their buffer, the others are padding.         *)
Elements(x) ==
  {off[x] + i * g.ld[x] + j : i \in 0 .. Uncoal(g, x) - 1, j \in 0 .. Coal(g, x) - 1}

HasLoaded == {i \in Items : pc[i] \in {"loaded", "math", "summed"}}

(* Nothing is loaded but elements of the matrices: no padding, no offset   *)
(* or tail, and no part of the workspace that was not packed (the loads of *)
(* the main kernel and of the packing kernels).                            *)
LoadsInside ==
  /\ at = "beta" => \A i \in DOMAIN w : w[i] \in Elements("A") \cup Elements("B") \cup {Junk}
  /\ block # "none" =>
       \A x \in Chiral : LET inside == Elements(x) \cup {Zero} IN
         \A i \in DOMAIN lds[x] :
           \/ lds[x][i] \in inside
           \/ lds[x][i] = Junk /\ \A item \in HasLoaded :
                                   \A s \in Loads(hp, g, off, Tile, Z, item, x, jumps) : s.to # i

(* Of all the work items of the packing kernels no two write the same      *)
(* element of the workspace, and none writes beyond it.                    *)
PackedOnce ==
  at = "pack" =>
    LET all == PackWrites(hp, g, off, "A") \cup PackWrites(hp, g, off, "B") IN
    /\ \A s \in all : s.to \in off["W"] .. off["W"] + g.ws - 1
    /\ Cardinality({s.to : s \in all}) =
         Cardinality(PackWrites(hp, g, off, "A")) + Cardinality(PackWrites(hp, g, off, "B"))

(* Tiles always fit.  get_tileability composes two of its messages and     *)
(* does not return them; what it then lets through never has to throw.     *)
TilesFit == at = "derive" => Derivability(hp, g) # "throws"

(* Identifiers of work groups fit the integer type that is chosen for      *)
(* addresses of C, for all that the graph of a problem without constraints *)
(* has (get_tint, TINTC group_id).                                         *)
GroupIdsFit ==
  at = "derive" =>
    LET graph == Graph(g, Gpu, [range |-> [x \in Mats |-> <<>>], start |-> [x \in Mats |-> <<>>]]) IN
    InGraph(graph, hp) /\ Derivable(hp, g) =>
      \A id \in {0, MainWorkGroups(hp, g) - 1} : GroupId(hp, g, id) = id

---------------------------------------------------------------------------
(* What the work of a group relies on: the problem could be derived, the   *)
(* block is one that still has unrolls to do where it needs them, and its  *)
(* items are all between the same two barriers.                            *)
Derived ==
  /\ prob \in Problems
  /\ at \notin {"derive", "refused"} => Derivable(hp, g)

InMain ==
  /\ at # "main" => block = "none"
  /\ at \in {"derive", "refused", "fill", "pack", "beta"} => group = 0
  /\ block # "none" => group < MainWorkGroups(hp, g)

UnrollsLeft ==
  /\ block \in {"first", "full"} => left > 0
  /\ block \in {"tail", "write"} => left = 0

BetweenBarriers ==
  block # "none" =>
    \A i \in Items : pc[i] \in IF block = "write" THEN {"write", "end"}
                               ELSE {"load", "loaded", "math", "summed"}

IInv == TypeOK /\ Derived /\ InMain /\ UnrollsLeft /\ BetweenBarriers

(* What the loads rely on: the matrices on the device are those of the     *)
(* host, what is packed has elements of its matrix, the pointers of a      *)
(* group have jumped as often as it has unrolls behind it, and an item has *)
(* loaded all that it was to.                                              *)
Filling ==
  at \notin {"derive", "refused", "fill"} =>
    /\ host = [x \in Chiral |-> Filled(BufferSize(g, off, prob.tail, x))]
    /\ DOMAIN w = 0 .. off["W"] + g.ws + prob.tail["W"] - 1

PackedInside ==
  /\ at = "pack" => \A i \in DOMAIN w : w[i] = Junk
  /\ at \in {"beta", "main"} =>
       \A x \in Chiral : LET inside == Elements(x) IN
         \A s \in PackWrites(hp, g, off, x) : w[s.to] \in inside

Jumping ==
  /\ block \in {"first", "full"} => jumps + left = UnrollsRemaining(hp, g, Tile, Z)
  /\ block = "tail" => jumps = UnrollsRemaining(hp, g, Tile, Z) /\ HasTail(hp, g, Tile, Z)
  /\ block = "first" => jumps = 0 /\ HasFirst(hp, Z)
  /\ block = "full" /\ HasFirst(hp, Z) => jumps > 0

AllLoaded ==
  block # "none" =>
    \A x \in Chiral, item \in HasLoaded :
      \A s \in Loads(hp, g, off, Tile, Z, item, x, jumps) : lds[x][s.to] # Junk

LInv == IInv /\ LoadsInside /\ Filling /\ PackedInside /\ Jumping /\ AllLoaded
================================================================================
