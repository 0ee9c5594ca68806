---------------------------- MODULE MainKernelProofs ----------------------------
(***************************************************************************)
(* Theorems about the kernels that are generated for a solution, for all   *)
(* hyper-parameters and geometries: that a tile can always be found where  *)
(* the areas divide, that local memory is never left, that work groups are *)
(* identified by the integers that are chosen for them, that the packing   *)
(* kernels write every element once, that the main kernel loads nothing    *)
(* but elements of the matrices, and that the result is the one the host   *)
(* computes.                                                               *)
(***************************************************************************)
EXTENDS MainResult, ProblemProofs

---------------------------------------------------------------------------
(* The work of a group.                                                    *)

(* What is known of the problem when the kernels run: there are work       *)
(* items, and a number of work groups.                                     *)
LEMMA Running ==
  ASSUME Derived, at \notin {"derive", "refused"}
  PROVE  /\ prob \in Problems /\ IsProblem(prob) /\ Derivable(prob.hp, prob.gg)
         /\ WorkItems(hp) \in Nat /\ 0 \in Items
         /\ MainWorkGroups(hp, g) \in Nat
<1>1. prob \in Problems /\ IsProblem(prob) /\ Derivable(prob.hp, prob.gg)
  BY ProblemsAssumption DEF Derived, hp, g
<1>2. WorkItems(prob.hp) \in Nat /\ WorkItems(prob.hp) > 0
  BY <1>1, DerivableParts, Tiled
<1>3. MainWorkGroups(prob.hp, prob.gg) \in Nat
  BY <1>1, GroupsAreCounted
<1> QED BY <1>1, <1>2, <1>3 DEF Items, hp, g

(* Nothing but the problem decides how many work items, groups and places  *)
(* of local memory there are.                                              *)
LEMMA Fixed ==
  ASSUME prob' = prob
  PROVE  /\ hp' = hp /\ g' = g /\ off' = off /\ Items' = Items
         /\ MainWorkGroups(hp, g)' = MainWorkGroups(hp, g)
         /\ \A x \in Chiral : ElementsInPaddedUnroll(hp, x)' = ElementsInPaddedUnroll(hp, x)
<1>1. hp' = hp /\ g' = g /\ off' = off
  BY DEF hp, g, off
<1> QED BY <1>1 DEF Items

(* A block that is entered with its number of unrolls left.                *)
LEMMA Entered ==
  ASSUME NEW b, b \in Blocks, b # "none", Enter(b), prob' = prob
  PROVE  /\ block' = b /\ DOMAIN pc' = Items /\ BetweenBarriers'
         /\ \A i \in Items : pc'[i] \in Points
<1>1. Items' = Items
  BY Fixed
<1>2. block' = b /\ pc' = [i \in Items |-> IF b = "write" THEN "write" ELSE "load"]
  BY DEF Enter
<1>3. BetweenBarriers'
  BY <1>1, <1>2 DEF BetweenBarriers
<1> QED BY <1>2, <1>3 DEF Points

(* The block that comes next is one for the unrolls left.                  *)
LEMMA BlockForUnrolls ==
  ASSUME NEW b, NEW n \in Nat, b = "tail" => n = 0
  PROVE  /\ NextBlock(b, n) \in {"full", "tail", "write"}
         /\ NextBlock(b, n) = "full" <=> n > 0
BY DEF NextBlock

(* Initially.                                                              *)
LEMMA InitInvariant == Init => IInv
BY DEF Init, IInv, TypeOK, Derived, InMain, UnrollsLeft, BetweenBarriers, Places, Blocks

(* Everything but the main kernel: no group is at work.                    *)
LEMMA AroundMain ==
  ASSUME IInv, Derive \/ Fill \/ Pack \/ ScaleC \/ EndMain \/ Compare
  PROVE  IInv'
<1>1. block = "none" /\ UNCHANGED <<prob, groupVars>>
  BY DEF IInv, InMain, Derive, Fill, Pack, ScaleC, EndMain, Compare
<1>2. prob' = prob /\ group' = group /\ block' = block /\ left' = left /\ jumps' = jumps
  BY <1>1 DEF groupVars
<1>3. UnrollsLeft' /\ BetweenBarriers'
  BY <1>1, <1>2 DEF UnrollsLeft, BetweenBarriers
<1>4. hp' = hp /\ g' = g /\ MainWorkGroups(hp, g)' = MainWorkGroups(hp, g)
  BY <1>2, Fixed
<1>5. /\ at' \in Places /\ at' # "derive"
      /\ at' # "refused" => Derivable(hp, g)
      /\ at' \in {"refused", "fill", "pack", "beta", "main"} => group = 0
      /\ at' = "main" => at = "beta"
  BY DEF IInv, Derived, InMain, Derive, Fill, Pack, ScaleC, EndMain, Compare, Places
<1>6. Derived'
  BY <1>2, <1>4, <1>5 DEF IInv, Derived
<1>7. InMain'
  BY <1>1, <1>2, <1>5 DEF InMain
<1>8. at' = "main" => MainWorkGroups(hp, g) \in Nat
  BY <1>5, Running DEF IInv
<1>9. TypeOK'
  BY <1>1, <1>2, <1>4, <1>5, <1>8 DEF IInv, TypeOK
<1> QED BY <1>3, <1>6, <1>7, <1>9 DEF IInv

(* A group starts with the unrolls that it has.                            *)
LEMMA Starts ==
  ASSUME IInv, StartGroup
  PROVE  IInv'
<1> DEFINE b == IF HasFirst(hp, Z) THEN "first" ELSE NextBlock("none", left')
<1>1. /\ at = "main" /\ block = "none" /\ group < MainWorkGroups(hp, g)
      /\ left' = UnrollsRemaining(hp, g, Tile, Z) /\ jumps' = 0 /\ Enter(b)
      /\ lds' = [x \in Chiral |-> [i \in 0 .. ElementsInPaddedUnroll(hp, x) - 1 |-> Junk]]
      /\ prob' = prob /\ at' = at /\ group' = group
  BY DEF StartGroup
<1>2. group \in 0 .. MainWorkGroups(hp, g) /\ group \in Nat
  BY <1>1, Running DEF IInv, TypeOK
<1>3. left' \in Nat /\ (HasFirst(hp, Z) => left' > 0)
  <2>1. IsProblem(prob) /\ Derivable(prob.hp, prob.gg)
    BY <1>1, Running DEF IInv
  <2>2. Z \in Nat /\ Tile["A"] \in Int /\ Tile["B"] \in Int
    BY <1>2, <2>1, TilesAreNumbered, IdsAreNatural DEF Z, Tile, hp, g
  <2>3. /\ UnrollsRemaining(prob.hp, prob.gg, Tile, Z) \in Nat
        /\ HasFirst(prob.hp, Z) => UnrollsRemaining(prob.hp, prob.gg, Tile, Z) > 0
    BY <2>1, <2>2, UnrollsAreCounted
  <2> QED BY <1>1, <2>3 DEF hp, g
<1>4. /\ b \in {"first", "full", "tail", "write"}
      /\ b \in {"first", "full"} => left' > 0
      /\ b \in {"tail", "write"} => left' = 0
  BY <1>3, BlockForUnrolls
<1> HIDE DEF b
<1>5. /\ block' = b /\ DOMAIN pc' = Items /\ BetweenBarriers'
      /\ \A i \in Items : pc'[i] \in Points
  BY <1>1, <1>4, Entered DEF Blocks
<1>6. UnrollsLeft'
  BY <1>4, <1>5 DEF UnrollsLeft
<1>7. /\ hp' = hp /\ g' = g /\ Items' = Items /\ MainWorkGroups(hp, g)' = MainWorkGroups(hp, g)
      /\ \A x \in Chiral : ElementsInPaddedUnroll(hp, x)' = ElementsInPaddedUnroll(hp, x)
  BY <1>1, Fixed
<1>8. Derived' /\ InMain'
  BY <1>1, <1>7 DEF IInv, Derived, InMain
<1>9. \A x \in Chiral : DOMAIN lds'[x] = 0 .. ElementsInPaddedUnroll(hp, x) - 1
  BY <1>1
<1>10. TypeOK'
  BY <1>1, <1>2, <1>3, <1>4, <1>5, <1>7, <1>9 DEF TypeOK, Places, Blocks
<1> QED BY <1>5, <1>6, <1>8, <1>10 DEF IInv

(* Items load into local memory, and do not leave it.                      *)
LEMMA Loading ==
  ASSUME IInv, at = "main", NEW item \in Items, Load(item)
  PROVE  IInv'
<1>1. /\ block \in {"first", "full", "tail"} /\ pc[item] = "load"
      /\ lds' = [x \in Chiral |-> Stored(Loaded(item, x), lds[x])]
      /\ pc' = [pc EXCEPT ![item] = "loaded"]
      /\ prob' = prob /\ at' = at /\ group' = group /\ block' = block /\ left' = left /\ jumps' = jumps
  BY DEF Load
<1>2. /\ hp' = hp /\ g' = g /\ Items' = Items /\ MainWorkGroups(hp, g)' = MainWorkGroups(hp, g)
      /\ \A x \in Chiral : ElementsInPaddedUnroll(hp, x)' = ElementsInPaddedUnroll(hp, x)
  BY <1>1, Fixed
<1>3. DOMAIN pc = Items /\ DOMAIN pc' = Items
      /\ \A i \in Items : pc'[i] = IF i = item THEN "loaded" ELSE pc[i]
  BY <1>1 DEF IInv, TypeOK
<1>4. ASSUME NEW x \in Chiral PROVE DOMAIN lds'[x] = 0 .. ElementsInPaddedUnroll(hp, x) - 1
  <2>1. DOMAIN lds'[x] = DOMAIN Loaded(item, x) \cup DOMAIN lds[x]
    BY <1>1 DEF Stored
  <2>2. DOMAIN lds[x] = 0 .. ElementsInPaddedUnroll(hp, x) - 1
    BY <1>1 DEF IInv, TypeOK
  <2>3. ASSUME NEW a \in DOMAIN Loaded(item, x) PROVE a \in 0 .. ElementsInPaddedUnroll(hp, x) - 1
    <3>1. PICK s \in Loads(prob.hp, prob.gg, prob.off, Tile, Z, item, x, jumps) : a = s.to
      BY <2>3 DEF Loaded, hp, g, off
    <3>2. IsProblem(prob) /\ Derivable(prob.hp, prob.gg)
      BY Running DEF IInv
    <3>3. item \in 0 .. WorkItems(prob.hp) - 1
      BY DEF Items, hp
    <3>4. s.to \in 0 .. ElementsInPaddedUnroll(prob.hp, x) - 1
      BY <3>2, <3>3, LocalPlaces
    <3> QED BY <3>1, <3>4 DEF hp
  <2> QED BY <2>1, <2>2, <2>3
<1>5. Derived' /\ InMain' /\ UnrollsLeft'
  BY <1>1, <1>2 DEF IInv, Derived, InMain, UnrollsLeft
<1>6. BetweenBarriers'
  BY <1>1, <1>2, <1>3 DEF IInv, BetweenBarriers
<1>7. TypeOK'
  BY <1>1, <1>2, <1>3, <1>4 DEF IInv, TypeOK, Points
<1> QED BY <1>5, <1>6, <1>7 DEF IInv

(* An item that moves on within its block, and nothing else that IInv      *)
(* speaks of.                                                              *)
LEMMA Moves ==
  ASSUME IInv, at = "main", NEW item \in Items, NEW to, pc' = [pc EXCEPT ![item] = to],
         to \in IF block = "write" THEN {"write", "end"} ELSE {"load", "loaded", "math", "summed"},
         UNCHANGED <<prob, at, group, block, left, jumps, lds>>
  PROVE  IInv'
<1>1. /\ hp' = hp /\ g' = g /\ Items' = Items /\ MainWorkGroups(hp, g)' = MainWorkGroups(hp, g)
      /\ \A x \in Chiral : ElementsInPaddedUnroll(hp, x)' = ElementsInPaddedUnroll(hp, x)
  BY Fixed
<1>2. block # "none" => DOMAIN pc = Items /\ DOMAIN pc' = Items
      /\ \A i \in Items : pc'[i] = IF i = item THEN to ELSE pc[i]
  BY DEF IInv, TypeOK
<1>3. Derived' /\ InMain' /\ UnrollsLeft'
  BY <1>1 DEF IInv, Derived, InMain, UnrollsLeft
<1>4. BetweenBarriers'
  BY <1>1, <1>2 DEF IInv, BetweenBarriers
<1>5. to \in Points
  BY DEF Points
<1>6. TypeOK'
  BY <1>1, <1>2, <1>5 DEF IInv, TypeOK
<1> QED BY <1>3, <1>4, <1>6 DEF IInv

(* Items that sum, and items that write.                                   *)
LEMMA Sums ==
  ASSUME IInv, at = "main", NEW item \in Items, Math(item) \/ Write(item)
  PROVE  IInv'
<1>1. CASE Math(item)
  <2>1. /\ pc' = [pc EXCEPT ![item] = "summed"] /\ block # "write"
        /\ UNCHANGED <<prob, at, group, block, left, jumps, lds>>
    BY <1>1 DEF Math
  <2> QED BY <2>1, Moves
<1>2. CASE Write(item)
  <2>1. /\ pc' = [pc EXCEPT ![item] = "end"] /\ block = "write"
        /\ UNCHANGED <<prob, at, group, block, left, jumps, lds>>
    BY <1>2 DEF Write
  <2> QED BY <2>1, Moves
<1> QED BY <1>1, <1>2

(* The barrier after the loads: the items of no group that writes are      *)
(* there.                                                                  *)
LEMMA PastLoads ==
  ASSUME IInv, LoadBarrier
  PROVE  IInv'
<1>1. /\ block # "none" /\ \A i \in Items : pc[i] = "loaded"
      /\ pc' = [i \in Items |-> "math"]
      /\ UNCHANGED <<prob, at, group, block, left, jumps, lds>>
  BY DEF LoadBarrier
<1>2. /\ hp' = hp /\ g' = g /\ Items' = Items /\ MainWorkGroups(hp, g)' = MainWorkGroups(hp, g)
      /\ \A x \in Chiral : ElementsInPaddedUnroll(hp, x)' = ElementsInPaddedUnroll(hp, x)
  BY <1>1, Fixed
<1>3. at = "main"
  BY <1>1 DEF IInv, InMain
<1>4. 0 \in Items
  BY <1>3, Running DEF IInv
<1>5. block # "write"
  BY <1>1, <1>4 DEF IInv, BetweenBarriers
<1>6. Derived' /\ InMain' /\ UnrollsLeft'
  BY <1>1, <1>2 DEF IInv, Derived, InMain, UnrollsLeft
<1>7. BetweenBarriers'
  BY <1>1, <1>2, <1>5 DEF BetweenBarriers
<1>8. TypeOK'
  BY <1>1, <1>2 DEF IInv, TypeOK, Points
<1> QED BY <1>6, <1>7, <1>8 DEF IInv

(* The barrier after the sums: the block that comes next is one for the    *)
(* unrolls that are then left.                                             *)
LEMMA PastSums ==
  ASSUME IInv, MathBarrier
  PROVE  IInv'
<1>1. /\ block # "none" /\ \A i \in Items : pc[i] = "summed"
      /\ left' = IF block = "tail" THEN left ELSE left - 1
      /\ jumps' = IF block = "tail" THEN jumps ELSE jumps + 1
      /\ Enter(NextBlock(block, left'))
      /\ UNCHANGED <<prob, at, group, lds>>
  BY DEF MathBarrier
<1>2. /\ hp' = hp /\ g' = g /\ Items' = Items /\ MainWorkGroups(hp, g)' = MainWorkGroups(hp, g)
      /\ \A x \in Chiral : ElementsInPaddedUnroll(hp, x)' = ElementsInPaddedUnroll(hp, x)
  BY <1>1, Fixed
<1>3. at = "main"
  BY <1>1 DEF IInv, InMain
<1>4. 0 \in Items
  BY <1>3, Running DEF IInv
<1>5. block # "write"
  BY <1>1, <1>4 DEF IInv, BetweenBarriers
<1>6. block \in {"first", "full", "tail"}
  BY <1>1, <1>5 DEF IInv, TypeOK, Blocks
<1>7. left' \in Nat /\ jumps' \in Nat /\ (block = "tail" => left' = 0)
  BY <1>1, <1>6 DEF IInv, TypeOK, UnrollsLeft
<1> DEFINE b == NextBlock(block, left')
<1>8. /\ b \in {"full", "tail", "write"}
      /\ b = "full" => left' > 0
      /\ b \in {"tail", "write"} => left' = 0
  BY <1>7, BlockForUnrolls
<1>9. Enter(b)
  BY <1>1
<1> HIDE DEF b
<1>10. /\ block' = b /\ DOMAIN pc' = Items /\ BetweenBarriers'
       /\ \A i \in Items : pc'[i] \in Points
  BY <1>1, <1>8, <1>9, Entered DEF Blocks
<1>11. UnrollsLeft'
  BY <1>8, <1>10 DEF UnrollsLeft
<1>12. Derived' /\ InMain'
  BY <1>1, <1>2, <1>3 DEF IInv, Derived, InMain
<1>13. TypeOK'
  BY <1>1, <1>2, <1>7, <1>8, <1>10 DEF IInv, TypeOK, Blocks
<1> QED BY <1>10, <1>11, <1>12, <1>13 DEF IInv

(* A group that has written leaves the place to the next one.              *)
LEMMA Ends ==
  ASSUME IInv, EndGroup
  PROVE  IInv'
<1>1. /\ block = "write" /\ group' = group + 1 /\ block' = "none"
      /\ UNCHANGED <<prob, at, left, jumps>>
  BY DEF EndGroup
<1>2. hp' = hp /\ g' = g /\ MainWorkGroups(hp, g)' = MainWorkGroups(hp, g)
  BY <1>1, Fixed
<1>3. at = "main" /\ group < MainWorkGroups(hp, g)
  BY <1>1 DEF IInv, InMain
<1>4. group' \in 0 .. MainWorkGroups(hp, g)
  BY <1>1, <1>3, Running DEF IInv, TypeOK
<1>5. Derived' /\ InMain' /\ UnrollsLeft' /\ BetweenBarriers'
  BY <1>1, <1>2, <1>3 DEF IInv, Derived, InMain, UnrollsLeft, BetweenBarriers
<1>6. TypeOK'
  BY <1>1, <1>2, <1>4 DEF IInv, TypeOK, Blocks
<1> QED BY <1>5, <1>6 DEF IInv

---------------------------------------------------------------------------
(* Theorems.                                                               *)

(* Invariance: a group always has the unrolls left that its block is for,  *)
(* its items are between the same two barriers, and local memory is what   *)
(* was allocated for it.                                                   *)
THEOREM Invariance == Spec => []IInv
<1>1. Init => IInv
  BY InitInvariant
<1>2. IInv /\ [Next]_vars => IInv'
  <2> SUFFICES ASSUME IInv, [Next]_vars PROVE IInv'
    OBVIOUS
  <2>1. CASE Derive \/ Fill \/ Pack \/ ScaleC \/ EndMain \/ Compare
    BY <2>1, AroundMain
  <2>2. CASE StartGroup
    BY <2>2, Starts
  <2>3. CASE LoadBarrier
    BY <2>3, PastLoads
  <2>4. CASE MathBarrier
    BY <2>4, PastSums
  <2>5. CASE EndGroup
    BY <2>5, Ends
  <2>6. CASE at = "main" /\ \E item \in Items : Load(item) \/ Math(item) \/ Write(item)
    <3>1. PICK item \in Items : Load(item) \/ Math(item) \/ Write(item)
      BY <2>6
    <3>2. CASE Load(item)
      BY <2>6, <3>2, Loading
    <3>3. CASE Math(item) \/ Write(item)
      BY <2>6, <3>3, Sums
    <3> QED BY <3>1, <3>2, <3>3
  <2>7. CASE UNCHANGED vars
    <3>1. UNCHANGED <<prob, at, group, block, left, jumps, pc, lds>>
      BY <2>7 DEF vars, groupVars
    <3>2. /\ hp' = hp /\ g' = g /\ Items' = Items /\ MainWorkGroups(hp, g)' = MainWorkGroups(hp, g)
          /\ \A x \in Chiral : ElementsInPaddedUnroll(hp, x)' = ElementsInPaddedUnroll(hp, x)
      BY <3>1, Fixed
    <3> QED BY <3>1, <3>2 DEF IInv, TypeOK, Derived, InMain, UnrollsLeft, BetweenBarriers
  <2>8. CASE Finished
    BY <2>7, <2>8 DEF Finished
  <2> QED BY <2>1, <2>2, <2>3, <2>4, <2>5, <2>6, <2>7, <2>8 DEF Next
<1> QED BY <1>1, <1>2, PTL DEF Spec

(* What the runs check of the types: whatever the hyper-parameters, a      *)
(* group never counts below no unrolls, no work group is started that has  *)
(* no tile, and no load leaves local memory.                               *)
THEOREM TypeCorrect == Spec => []TypeOK
<1>1. IInv => TypeOK
  BY DEF IInv
<1> QED BY <1>1, Invariance, PTL

(* What get_tileability would throw for does not happen: the tests of      *)
(* set_fragile before it let no problem through whose tiles do not fit.    *)
THEOREM TilesAlwaysFit == Spec => []TilesFit
<1>1. IInv => TilesFit
  <2> SUFFICES ASSUME IInv PROVE Derivability(hp, g) # "throws"
    BY DEF TilesFit
  <2>1. IsProblem(prob)
    BY ProblemsAssumption DEF IInv, Derived
  <2>2. Derivability(prob.hp, prob.gg) # "throws"
    BY <2>1, NeverThrows
  <2> QED BY <2>2 DEF hp, g
<1> QED BY <1>1, Invariance, PTL

---------------------------------------------------------------------------
(* Identifiers of work groups.                                             *)

(* Division, rounded up: no more than one short.                           *)
LEMMA Rounded ==
  ASSUME NEW dim \in Nat, NEW t \in Nat, t > 0, dim >= t
  PROVE  /\ CeilDiv(dim, t) \in Nat /\ CeilDiv(dim, t) >= 1 /\ CeilDiv(dim, t) <= dim
         /\ (CeilDiv(dim, t) - 1) * t < dim
<1> DEFINE q == dim \div t
           r == dim % t
<1>1. q \in Nat /\ r \in Nat /\ r < t /\ dim = t * q + r
  BY DivMod
<1>2. CeilDiv(dim, t) = q + (IF r # 0 THEN 1 ELSE 0)
  BY DEF CeilDiv
<1> HIDE DEF q, r
<1>3. q >= 1
  <2>1. q = 0 => t * q = 0
    BY Products
  <2> QED BY <1>1, <2>1
<1>4. q <= t * q /\ t * q = q * t /\ t * q \in Int /\ (q - 1) * t = q * t - t
  <2>1. q <= t * q /\ t * q = q * t /\ t * q \in Int
    BY <1>1, <1>3, Products
  <2>2. t * (q - 1) = t * q - t * 1 /\ t * 1 = t /\ t * (q - 1) = (q - 1) * t
    BY <1>1, Products
  <2> QED BY <2>1, <2>2
<1>5. CASE r = 0
  BY <1>1, <1>2, <1>3, <1>4, <1>5
<1>6. CASE r # 0
  BY <1>1, <1>2, <1>3, <1>4, <1>6
<1> QED BY <1>5, <1>6

(* The memory of C has every element of C.                                 *)
LEMMA AreaOfC ==
  ASSUME NEW p, IsProblem(p)
  PROVE  PaddedArea(p.gg, "C") \in Nat /\ p.gg.m * p.gg.n <= PaddedArea(p.gg, "C")
<1> DEFINE m == p.gg.m
           n == p.gg.n
           ld == p.gg.ld["C"]
<1>1. m \in Nat /\ n \in Nat
  BY ProblemParts
<1>2. ld \in Nat /\ ld >= Coal(p.gg, "C") /\ p.gg.cm \in BOOLEAN /\ p.gg.t["C"] \in BOOLEAN
  BY DEF IsProblem, IsGeometry, LdxConsistent, Mats
<1>3. \/ Coal(p.gg, "C") = n /\ Uncoal(p.gg, "C") = m
      \/ Coal(p.gg, "C") = m /\ Uncoal(p.gg, "C") = n
  BY <1>2 DEF Coal, Uncoal, PadlessDim
<1>4. PaddedArea(p.gg, "C") = Uncoal(p.gg, "C") * ld
  BY DEF PaddedArea
<1> HIDE DEF m, n, ld
<1>5. m * n = n * m /\ m * ld \in Int /\ n * ld \in Int /\ m * ld >= 0 /\ n * ld >= 0
  BY <1>1, <1>2, Products
<1>6. ld >= n => m * n <= m * ld
  BY <1>1, <1>2, ProductsGrow
<1>7. ld >= m => n * m <= n * ld
  BY <1>1, <1>2, ProductsGrow
<1> QED BY <1>2, <1>3, <1>4, <1>5, <1>6, <1>7 DEF m, n

(* What a graph without constraints has of ICE and of MAC: for a matrix C  *)
(* of more than 4096 elements, no grid of fewer than 32 work items.         *)
LEMMA WithoutConstraints ==
  ASSUME NEW p, IsProblem(p), NEW cons,
         cons = [range |-> [x \in Mats |-> <<>>], start |-> [x \in Mats |-> <<>>]],
         InGraph(Graph(p.gg, Gpu, cons), p.hp)
  PROVE  /\ p.hp["C"]["ICE"] <= 14
         /\ p.gg.m * p.gg.n > 4096 => p.hp["C"]["MAC"] >= 32
<1>1. "C" \in Mats /\ "ICE" \in XChi("C") /\ "MAC" \in XChi("C")
  BY DEF Mats, XChi, NonChi
<1>2. \A key : ~Defined(cons.range["C"], key)
  BY <1>1 DEF Defined
<1>3. ASSUME NEW key \in XChi("C")
      PROVE RangeOf(Graph(p.gg, Gpu, cons), "C", key) = DOMAIN CEdges(p.gg, Gpu)[key]
  <2>1. Graph(p.gg, Gpu, cons)["C"][key].edges = EdgesOf(p.gg, Gpu, "C")[key]
    BY <1>1, <1>2, <1>3 DEF Graph
  <2> QED BY <2>1 DEF RangeOf, EdgesOf
<1>4. /\ p.hp["C"]["ICE"] \in DOMAIN CEdges(p.gg, Gpu)["ICE"]
      /\ p.hp["C"]["MAC"] \in DOMAIN CEdges(p.gg, Gpu)["MAC"]
  BY <1>1, <1>3 DEF InGraph
<1>5. DOMAIN CEdges(p.gg, Gpu)["ICE"] = 1 .. 14
  BY DEF CEdges
<1>6. CEdges(p.gg, Gpu)["MAC"] = MacEdges(p.gg, Gpu)
  BY DEF CEdges
<1>7. p.gg.m * p.gg.n > 4096 => DOMAIN MacEdges(p.gg, Gpu) \subseteq {32, 64, 128, 256}
  <2>1. 64 * 64 = 4096
    OBVIOUS
  <2>2. p.gg.m * p.gg.n \in Int
    BY ProblemParts, Products
  <2> QED BY <2>1, <2>2 DEF MacEdges, MacsUpTo
<1> QED BY <1>4, <1>5, <1>6, <1>7

(* Few groups: of P x Q, each of at least 32 elements of C, there are no    *)
(* more than 4096 if C has less than 2^16 elements.                        *)
LEMMA FewGroups ==
  ASSUME NEW m \in Nat, NEW n \in Nat, NEW s \in Nat, NEW t \in Nat, NEW P \in Nat, NEW Q \in Nat,
         P >= 1, Q >= 1, s >= 1, t >= 1, m >= s, n >= t, (P - 1) * s < m, (Q - 1) * t < n,
         s * t >= 32, m * n < 65536
  PROVE  P * Q <= 4096
<1> DEFINE u == P - 1
           v == Q - 1
<1>1. u \in Nat /\ v \in Nat /\ P = u + 1 /\ Q = v + 1 /\ u * s < m /\ v * t < n
  OBVIOUS
<1> HIDE DEF u, v
<1>2. P * Q = u * v + u + v + 1 /\ u * v \in Nat
  <2>1. (u + 1) * (v + 1) = (u + 1) * v + (u + 1) * 1
    BY <1>1, Products
  <2>2. (u + 1) * 1 = u + 1 /\ (u + 1) * v = v * (u + 1) /\ v * (u + 1) = v * u + v * 1 /\ v * 1 = v
    BY <1>1, Products
  <2>3. v * u = u * v /\ u * v \in Int /\ u * v >= 0
    BY <1>1, Products
  <2> QED BY <1>1, <2>1, <2>2, <2>3
<1>3. \A a, b, c1, d \in Nat : a <= c1 /\ b <= d => a * b <= c1 * d
  <2> TAKE a, b, c1, d \in Nat
  <2> HAVE a <= c1 /\ b <= d
  <2>1. a * b <= a * d
    BY ProductsGrow
  <2>2. d * a <= d * c1
    BY ProductsGrow
  <2>3. d * a = a * d /\ d * c1 = c1 * d /\ a * b \in Int /\ a * d \in Int /\ c1 * d \in Int
    BY Products
  <2> QED BY <2>1, <2>2, <2>3
<1>4. s * t \in Nat /\ u * s \in Nat /\ v * t \in Nat
  BY <1>1, Products
<1>5. ASSUME NEW w1 \in Nat, w1 * (s * t) <= m * n PROVE w1 < 2048
  <2>1. 32 * w1 <= w1 * (s * t)
    <3>1. w1 * 32 <= w1 * (s * t)
      BY <1>4, ProductsGrow
    <3> QED BY <3>1
  <2>2. w1 * (s * t) \in Int /\ m * n \in Int
    BY <1>4, Products
  <2> QED BY <1>5, <2>1, <2>2
<1>6. u * v < 2048
  <2>1. (u * s) * (v * t) <= m * n
    BY <1>1, <1>3, <1>4
  <2>2. (u * s) * (v * t) = (u * v) * (s * t)
    BY <1>1, Products
  <2> QED BY <1>2, <1>5, <2>1, <2>2
<1>7. u < 2048
  <2>1. (u * s) * t <= m * n
    BY <1>1, <1>3, <1>4
  <2>2. (u * s) * t = u * (s * t)
    BY <1>1, Products
  <2> QED BY <1>1, <1>5, <2>1, <2>2
<1>8. v < 2048
  <2>1. s * (v * t) <= m * n
    BY <1>1, <1>3, <1>4
  <2>2. s * (v * t) = v * (s * t)
    BY <1>1, Products
  <2> QED BY <1>1, <1>5, <2>1, <2>2
<1>9. u > 0 /\ v > 0 => u + v <= u * v + 1
  <2> SUFFICES ASSUME u > 0, v > 0 PROVE u + v <= u * v + 1
    OBVIOUS
  <2>1. (u - 1) * (v - 1) >= 0
    BY <1>1, Products
  <2>2. (u - 1) * (v - 1) = u * v - u - v + 1
    BY <1>1
  <2> QED BY <1>1, <1>2, <2>1, <2>2
<1>10. CASE u > 0 /\ v > 0
  BY <1>1, <1>2, <1>6, <1>9, <1>10
<1>11. CASE u = 0 \/ v = 0
  <2>1. u * v = 0
    BY <1>1, <1>11, Products
  <2> QED BY <1>1, <1>2, <1>7, <1>8, <1>11, <2>1
<1> QED BY <1>1, <1>10, <1>11

(* No more work groups than elements of C for each part of the summation,  *)
(* and of 32 elements or more for each, no more than 4096 tiles.           *)
LEMMA GroupsOfProblem ==
  ASSUME NEW p, IsProblem(p), Derivable(p.hp, p.gg), NEW ice, ice = p.hp["C"]["ICE"]
  PROVE  /\ MainWorkGroups(p.hp, p.gg) <= ice * (p.gg.m * p.gg.n)
         /\ p.hp["C"]["MAC"] >= 32 /\ p.gg.m * p.gg.n < 65536 =>
              MainWorkGroups(p.hp, p.gg) <= ice * 4096
         /\ MainWorkGroups(p.hp, p.gg) >= 1
<1> DEFINE m == p.gg.m
           n == p.gg.n
           s == MacroTile(p.hp, "A")
           t == MacroTile(p.hp, "B")
           P == CeilDiv(m, s)
           Q == CeilDiv(n, t)
           mac == p.hp["C"]["MAC"]
           a == MacroGrid(p.hp)["A"]
           b == MacroGrid(p.hp)["B"]
           mA == p.hp["A"]["MIC"]
           mB == p.hp["B"]["MIC"]
<1>1. m \in Nat /\ n \in Nat /\ ice \in Nat /\ ice > 0 /\ mac \in Nat
  BY ProblemParts
<1>2. /\ s \in Nat /\ s > 0 /\ t \in Nat /\ t > 0
      /\ a \in Nat /\ a > 0 /\ b \in Nat /\ b > 0 /\ mac = a * b
      /\ mA \in Nat /\ mA > 0 /\ mB \in Nat /\ mB > 0
  BY DerivableParts, Tiled, ProblemParts DEF Chiral
<1>3. m >= s /\ n >= t
  BY DerivableParts DEF TilesInside, NonKDim, Chiral
<1>4. s = a * mA /\ t = b * mB
  BY DEF MacroTile
<1>5. MainWorkGroups(p.hp, p.gg) = ice * P * Q
  BY DEF MainWorkGroups
<1> HIDE DEF m, n, s, t, mac, a, b, mA, mB
<1>6. /\ P \in Nat /\ P >= 1 /\ P <= m /\ (P - 1) * s < m
      /\ Q \in Nat /\ Q >= 1 /\ Q <= n /\ (Q - 1) * t < n
  BY <1>1, <1>2, <1>3, Rounded
<1> HIDE DEF P, Q
<1>7. ice * P * Q = ice * (P * Q) /\ P * Q \in Nat /\ m * n \in Nat
  BY <1>1, <1>6, Products
<1>8. P * Q <= m * n
  <2>1. P * Q <= P * n /\ n * P <= n * m
    BY <1>1, <1>6, ProductsGrow
  <2>2. n * P = P * n /\ n * m = m * n /\ P * n \in Int
    BY <1>1, <1>6, Products
  <2> QED BY <1>7, <2>1, <2>2
<1>9. mac >= 32 /\ m * n < 65536 => P * Q <= 4096
  <2> SUFFICES ASSUME mac >= 32, m * n < 65536 PROVE P * Q <= 4096
    OBVIOUS
  <2>1. s * t >= 32
    <3>1. s * t = (a * b) * (mA * mB)
      BY <1>2, <1>4, Products
    <3>2. mA * mB \in Int /\ mA * mB > 0
      BY <1>2, Products
    <3>3. mac * (mA * mB) >= mac
      BY <1>1, <3>2, Products
    <3>4. mac * (mA * mB) = s * t
      BY <1>2, <3>1
    <3> QED BY <1>1, <3>2, <3>3, <3>4, Products
  <2> QED BY <1>1, <1>2, <1>3, <1>6, <2>1, FewGroups
<1>10. ice * (P * Q) <= ice * (m * n) /\ (P * Q <= 4096 => ice * (P * Q) <= ice * 4096)
  BY <1>1, <1>7, <1>8, ProductsGrow
<1>11. ice * (P * Q) >= 1
  <2>1. P * Q > 0
    BY <1>6, Products
  <2> QED BY <1>1, <1>7, <2>1, Products
<1> QED BY <1>5, <1>7, <1>9, <1>10, <1>11 DEF m, n, mac

(* The identifier of every group is told from all others, in the type that *)
(* is chosen for it.                                                       *)
LEMMA IdFits ==
  ASSUME NEW p, IsProblem(p), Derivable(p.hp, p.gg), NEW cons,
         cons = [range |-> [x \in Mats |-> <<>>], start |-> [x \in Mats |-> <<>>]],
         InGraph(Graph(p.gg, Gpu, cons), p.hp),
         NEW id \in 0 .. MainWorkGroups(p.hp, p.gg) - 1
  PROVE  GroupId(p.hp, p.gg, id) = id
<1> DEFINE ice == p.hp["C"]["ICE"]
           area == PaddedArea(p.gg, "C")
           mn == p.gg.m * p.gg.n
           groups == MainWorkGroups(p.hp, p.gg)
           modulus == TintC(p.hp, p.gg)
<1>1. ice \in Nat /\ mn \in Nat /\ ice * mn \in Nat /\ ice * mn <= SizeModulus
  <2> DEFINE m == p.gg.m
             n == p.gg.n
  <2>1. m \in Nat /\ n \in Nat /\ ice \in Nat
    BY ProblemParts
  <2>2. ice * m * n <= SizeModulus /\ mn = m * n
    BY DEF IsProblem
  <2> HIDE DEF ice, m, n, mn
  <2>3. ice * m * n = ice * (m * n) /\ m * n \in Nat /\ ice * (m * n) \in Nat
    BY <2>1, Products
  <2> QED BY <2>1, <2>2, <2>3
<1>2. area \in Nat /\ mn <= area
  BY AreaOfC
<1>3. ice <= 14 /\ (mn > 4096 => p.hp["C"]["MAC"] >= 32)
  BY WithoutConstraints
<1>4. groups \in Nat /\ groups <= ice * mn
      /\ (p.hp["C"]["MAC"] >= 32 /\ mn < 65536 => groups <= ice * 4096)
  BY GroupsAreCounted, GroupsOfProblem
<1>5. ShortModulus = 65536 /\ SizeModulus \in Nat
  <2>1. 2^16 = 65536 /\ 2^28 \in Nat
    BY PowersArePositive
  <2> QED BY <2>1 DEF ShortModulus, SizeModulus
<1>6. modulus = IF p.hp["C"]["SZT"] = YES \/ ~(area < 65536) THEN SizeModulus ELSE 65536
  BY <1>5 DEF TintC, TintModulus
<1> HIDE DEF ice, area, mn, groups, modulus
<1>7. groups <= modulus
  <2>1. CASE p.hp["C"]["SZT"] = YES \/ ~(area < 65536)
    BY <1>1, <1>4, <1>5, <1>6, <2>1
  <2>2. CASE ~(p.hp["C"]["SZT"] = YES \/ ~(area < 65536))
    <3>1. modulus = 65536 /\ mn < 65536
      BY <1>1, <1>2, <1>6, <2>2
    <3>2. mn <= 4096 => ice * mn <= ice * 4096
      BY <1>1, ProductsGrow
    <3>3. groups <= ice * 4096
      BY <1>1, <1>3, <1>4, <3>1, <3>2
    <3> QED BY <1>1, <1>3, <1>4, <3>1, <3>3
  <2> QED BY <2>1, <2>2
<1>8. modulus \in Nat /\ id \in Nat /\ id < modulus
  BY <1>4, <1>5, <1>6, <1>7 DEF groups
<1>9. id % modulus = id
  <2>1. modulus * 0 = 0
    BY <1>8, Products
  <2>2. (modulus * 0 + id) % modulus = id
    BY <1>8, DivUnique
  <2> QED BY <1>8, <2>1, <2>2
<1> QED BY <1>9 DEF GroupId, modulus

(* Two work groups never take each other for one: in the unsigned integers *)
(* that the generator chooses from the size of C their identifiers fit,    *)
(* for whatever a graph without constraints has.                           *)
THEOREM IdentifiersFit == Spec => []GroupIdsFit
<1>1. IInv => GroupIdsFit
  <2> SUFFICES ASSUME IInv PROVE GroupIdsFit
    OBVIOUS
  <2> DEFINE cons == [range |-> [x \in Mats |-> <<>>], start |-> [x \in Mats |-> <<>>]]
             groups == MainWorkGroups(hp, g)
  <2>1. IsProblem(prob)
    BY ProblemsAssumption DEF IInv, Derived
  <2>2. ASSUME InGraph(Graph(g, Gpu, cons), hp), Derivable(hp, g), NEW id \in {0, groups - 1}
        PROVE  GroupId(hp, g, id) = id
    <3>1. MainWorkGroups(prob.hp, prob.gg) \in Nat /\ MainWorkGroups(prob.hp, prob.gg) >= 1
      BY <2>1, <2>2, GroupsAreCounted, GroupsOfProblem DEF hp, g
    <3>2. id \in 0 .. MainWorkGroups(prob.hp, prob.gg) - 1
      BY <2>2, <3>1 DEF hp, g
    <3>3. InGraph(Graph(prob.gg, Gpu, cons), prob.hp) /\ Derivable(prob.hp, prob.gg)
      BY <2>2 DEF hp, g
    <3> HIDE DEF cons
    <3>4. cons = [range |-> [x \in Mats |-> <<>>], start |-> [x \in Mats |-> <<>>]]
      BY DEF cons
    <3>5. GroupId(prob.hp, prob.gg, id) = id
      BY <2>1, <3>2, <3>3, <3>4, IdFits
    <3> QED BY <3>5 DEF hp, g
  <2> QED BY <2>2 DEF GroupIdsFit
<1> QED BY <1>1, Invariance, PTL

---------------------------------------------------------------------------
(* What the packing kernels write.                                         *)

(* Of the work items of both packing kernels no two write to one element   *)
(* of the workspace, and none beyond it, for every geometry and with every *)
(* of the hyper-parameters that can be derived: copies, tiles of the       *)
(* normal form, the last unroll and the last tile (the packing kernels).   *)
THEOREM PackedOnceAlways == Spec => []PackedOnce
<1>1. IInv => PackedOnce
  <2> SUFFICES ASSUME IInv, at = "pack" PROVE PackedOnce
    BY DEF PackedOnce
  <2> DEFINE S(x) == PackWrites(hp, g, off, x)
             o == off["W"]
             all == S("A") \cup S("B")
  <2>1. IsProblem(prob) /\ Derivable(prob.hp, prob.gg)
    BY ProblemsAssumption DEF IInv, Derived, hp, g
  <2>2. o \in Nat /\ g.ws \in Nat
    BY <2>1, ProblemParts DEF g, off
  <2>3. \A x \in Chiral : \A s \in S(x) : s.to \in o .. o + g.ws - 1
    BY <2>1, PackingsApart DEF hp, g, off
  <2>4. \A x \in Chiral : \A r, s \in S(x) : r.to = s.to => r = s
    BY <2>1, Packing DEF hp, g, off
  <2>5. \A r \in S("A"), s \in S("B") : r.to # s.to
    BY <2>1, PackingsApart DEF hp, g, off
  <2> HIDE DEF S, o
  <2>8. \A s \in all : s.to \in o .. o + g.ws - 1
    BY <2>3 DEF Chiral
  <2>9. \A r \in S("A"), s \in S("B") : r.to # s.to
    BY <2>5
  <2>10. \A r, s \in all : r.to = s.to => r = s
    BY <2>4, <2>9 DEF Chiral
  <2>11. o \in Int /\ o + g.ws - 1 \in Int
    BY <2>2
  <2>12. Cardinality({s.to : s \in all}) = Cardinality(all)
    BY <2>8, <2>10, <2>11, AsManyAddresses
  <2>13. IsFiniteSet(S("A")) /\ IsFiniteSet(S("B"))
    BY <2>8, <2>10, <2>11, AsManyAddresses
  <2>14. S("A") \cap S("B") = {}
    BY <2>9
  <2>15. Cardinality(all) = Cardinality(S("A")) + Cardinality(S("B"))
    <3>1. Cardinality(all) = Cardinality(S("A")) + Cardinality(S("B")) - Cardinality(S("A") \cap S("B"))
      BY <2>13, FS_Union
    <3>2. Cardinality(S("A") \cap S("B")) = 0
      BY <2>14, FS_EmptySet
    <3>3. Cardinality(S("A")) \in Nat /\ Cardinality(S("B")) \in Nat
      BY <2>13, FS_CardinalityType
    <3> QED BY <3>1, <3>2, <3>3
  <2> QED BY <2>8, <2>12, <2>15 DEF PackedOnce, S, o
<1> QED BY <1>1, Invariance, PTL

---------------------------------------------------------------------------
(* Nothing is loaded but elements of the matrices.                         *)

(* What depends on the problem and the group only.                         *)
LEMMA SameGroup ==
  ASSUME prob' = prob
  PROVE  /\ hp' = hp /\ g' = g /\ off' = off /\ Items' = Items
         /\ \A x \in Chiral : Elements(x)' = Elements(x) /\ Elements(x) = ElementsOf(prob, x)
         /\ group' = group => Tile' = Tile /\ Z' = Z
<1>1. hp' = hp /\ g' = g /\ off' = off /\ Items' = Items
  BY Fixed
<1>2. \A x \in Chiral : Elements(x)' = Elements(x) /\ Elements(x) = ElementsOf(prob, x)
  BY <1>1 DEF Elements, ElementsOf, off, g
<1>3. group' = group => Tile' = Tile /\ Z' = Z
  BY <1>1 DEF Tile, Z
<1> QED BY <1>1, <1>2, <1>3

(* Elements of a matrix are addresses of its buffer.                       *)
LEMMA ElementsInBuffer ==
  ASSUME NEW p, IsProblem(p), NEW x \in Chiral, NEW e \in ElementsOf(p, x)
  PROVE  /\ BufferSize(p.gg, p.off, p.tail, x) \in Nat
         /\ e \in 0 .. BufferSize(p.gg, p.off, p.tail, x) - 1
<1> DEFINE o == p.off[x]
           ld == p.gg.ld[x]
           lines == Uncoal(p.gg, x)
           in(i, j) == o + i * ld + j
<1>1. o \in Nat /\ p.tail[x] \in Nat /\ ld \in Nat /\ lines \in Nat /\ Coal(p.gg, x) \in Nat
      /\ Coal(p.gg, x) <= ld
  BY ProblemParts, LinesOfMatrix DEF Chiral, Mats
<1>2. ElementsOf(p, x) = {in(i, j) : i \in 0 .. lines - 1, j \in 0 .. Coal(p.gg, x) - 1}
  BY DEF ElementsOf
<1> HIDE DEF in
<1>3. PICK i \in 0 .. lines - 1, j \in 0 .. Coal(p.gg, x) - 1 : e = in(i, j)
  BY <1>2
<1>4. e = o + i * ld + j
  BY <1>3 DEF in
<1>5. BufferSize(p.gg, p.off, p.tail, x) = lines * ld + o + p.tail[x]
  BY DEF BufferSize, PaddedArea
<1> HIDE DEF o, ld, lines
<1>6. i * ld = ld * i /\ lines * ld = ld * lines /\ ld * lines \in Nat /\ ld * i \in Nat
  BY <1>1, Products
<1>7. ld * i + j \in 0 .. ld * lines - 1
  <2>1. j \in 0 .. ld - 1
    BY <1>1
  <2> QED BY <1>1, <2>1, Blocked
<1> DEFINE area == ld * lines
           line == ld * i
<1>8. /\ e = o + line + j /\ BufferSize(p.gg, p.off, p.tail, x) = area + o + p.tail[x]
      /\ line + j \in 0 .. area - 1 /\ line \in Nat /\ area \in Nat
  BY <1>4, <1>5, <1>6, <1>7
<1> HIDE DEF area, line
<1> QED BY <1>1, <1>8

(* An element that is read of a matrix is that element: the host matrices  *)
(* are filled whole.                                                       *)
LEMMA ReadsElement ==
  ASSUME Derived, Filling, at \notin {"derive", "refused", "fill"}, NEW x \in Chiral, NEW e \in Elements(x)
  PROVE  Read(host[x], e) = e
<1>1. IsProblem(prob) /\ e \in ElementsOf(prob, x)
  BY Running DEF Elements, ElementsOf, off, g
<1> DEFINE n == BufferSize(prob.gg, prob.off, prob.tail, x)
<1>2. n \in Nat /\ e \in 0 .. n - 1
  BY <1>1, ElementsInBuffer
<1>3. host[x] = Filled(n)
  BY DEF Filling, g, off
<1> HIDE DEF n
<1>4. host[x] = [i \in 0 .. n - 1 |-> i]
  BY <1>2, <1>3, FilledWhole
<1> QED BY <1>2, <1>4 DEF Read

(* What is written to the workspace is elements of the matrices.           *)
LEMMA Packs ==
  ASSUME LInv, Pack
  PROVE  LoadsInside' /\ PackedInside'
<1> DEFINE S == [x \in Chiral |-> PackWrites(hp, g, off, x)]
           to(x) == {s.to : s \in S[x]}
           chosen(x, i) == CHOOSE s \in S[x] : s.to = i
           read(x, i) == Read(host[x], chosen(x, i).from)
<1>1. /\ at = "pack" /\ at' = "beta" /\ block' = block
      /\ w' = [i \in DOMAIN w |-> IF i \in to("A") THEN read("A", i)
                                  ELSE IF i \in to("B") THEN read("B", i) ELSE w[i]]
      /\ prob' = prob /\ host' = host
  BY DEF Pack, groupVars
<1>2. Derived /\ Filling /\ block = "none" /\ \A i \in DOMAIN w : w[i] = Junk
  BY <1>1 DEF LInv, IInv, InMain, PackedInside
<1>3. IsProblem(prob) /\ Derivable(prob.hp, prob.gg)
  BY <1>1, <1>2, Running
<1>4. ASSUME NEW x \in Chiral, NEW i \in to(x) PROVE read(x, i) \in Elements(x)
  <2> DEFINE s == chosen(x, i)
  <2>1. s \in S[x] /\ s.to = i
    BY <1>4
  <2> HIDE DEF s
  <2>2. s.from \in ElementsOf(prob, x)
    <3>1. s \in PackWrites(prob.hp, prob.gg, prob.off, x)
      BY <2>1 DEF hp, g, off
    <3> QED BY <1>3, <3>1, Packing
  <2>3. s.from \in Elements(x)
    BY <2>2 DEF Elements, ElementsOf, off, g
  <2>4. Read(host[x], s.from) = s.from
    BY <1>1, <1>2, <2>3, ReadsElement
  <2> QED BY <2>3, <2>4 DEF s
<1>5. /\ to("A") \cup to("B") \subseteq DOMAIN w
      /\ \A i \in to("B") : i \notin to("A")
  <2>1. /\ \A x \in Chiral : \A s \in S[x] : s.to \in off["W"] .. off["W"] + g.ws - 1
        /\ \A r \in S["A"], s \in S["B"] : r.to # s.to
    BY <1>3, PackingsApart DEF hp, g, off, Chiral
  <2>2. off["W"] \in Nat /\ g.ws \in Nat /\ prob.tail["W"] \in Nat
    BY <1>3 DEF IsProblem, off, g
  <2>3. DOMAIN w = 0 .. off["W"] + g.ws + prob.tail["W"] - 1
    BY <1>1, <1>2 DEF Filling
  <2> DEFINE first == off["W"]
             room == g.ws
             spare == prob.tail["W"]
  <2>4. first .. first + room - 1 \subseteq DOMAIN w
    <3>1. first \in Nat /\ room \in Nat /\ spare \in Nat /\ DOMAIN w = 0 .. first + room + spare - 1
      BY ONLY <2>2, <2>3
    <3> HIDE DEF first, room, spare
    <3> QED BY ONLY <3>1
  <2>5. \A x \in Chiral : to(x) \subseteq first .. first + room - 1
    <3> HIDE DEF S
    <3> QED BY ONLY <2>1
  <2>6. \A i \in to("B") : i \notin to("A")
    <3> HIDE DEF S
    <3> QED BY ONLY <2>1
  <2> HIDE DEF S, to, first, room
  <2> QED BY ONLY <2>4, <2>5, <2>6 DEF Chiral
<1>6. /\ \A x \in Chiral : Elements(x)' = Elements(x)
      /\ hp' = hp /\ g' = g /\ off' = off
  BY <1>1, SameGroup
<1> HIDE DEF read
<1>7. \A x \in Chiral : \A i \in to(x) : w'[i] \in Elements(x)
  BY <1>1, <1>4, <1>5 DEF Chiral
<1>8. \A i \in DOMAIN w' : w'[i] \in Elements("A") \cup Elements("B") \cup {Junk}
  <2> SUFFICES ASSUME NEW i \in DOMAIN w' PROVE w'[i] \in Elements("A") \cup Elements("B") \cup {Junk}
    OBVIOUS
  <2>1. i \in DOMAIN w
    BY <1>1
  <2>2. i \notin to("A") /\ i \notin to("B") => w'[i] = Junk
    BY <1>1, <1>2, <2>1
  <2> QED BY <1>7, <2>2 DEF Chiral
<1>9. PackedInside'
  <2>1. \A x \in Chiral : \A s \in S[x] : w'[s.to] \in Elements(x)
    BY <1>7
  <2> QED BY <1>1, <1>6, <2>1 DEF PackedInside
<1>10. LoadsInside'
  BY <1>1, <1>2, <1>6, <1>8 DEF LoadsInside, Chiral
<1> QED BY <1>9, <1>10

(* What local memory may hold while a group is at work.                    *)
Contents ==
  block # "none" =>
    \A x \in Chiral : LET may == Elements(x) \cup {Zero, Junk} IN
      \A i \in DOMAIN lds[x] : lds[x][i] \in may

(* Where it holds junk, no item has loaded that has loaded all it was to.  *)
LEMMA ContentsInside ==
  /\ LoadsInside => Contents
  /\ at # "beta" /\ Contents /\ AllLoaded => LoadsInside
<1>1. LoadsInside => Contents
  BY DEF LoadsInside, Contents
<1>2. ASSUME at # "beta", Contents, AllLoaded, block = "none" PROVE LoadsInside
  BY <1>2 DEF LoadsInside
<1>3. ASSUME at # "beta", Contents, AllLoaded, block # "none" PROVE LoadsInside
  <2>1. ASSUME NEW x \in Chiral, NEW i \in DOMAIN lds[x], lds[x][i] = Junk,
               NEW item \in HasLoaded, NEW s \in Loads(hp, g, off, Tile, Z, item, x, jumps)
        PROVE  s.to # i
    BY <1>3, <2>1 DEF AllLoaded
  <2>2. \A x \in Chiral : \A i \in DOMAIN lds[x] : lds[x][i] \in Elements(x) \cup {Zero} \/ lds[x][i] = Junk
    BY <1>3 DEF Contents
  <2> QED BY <1>3, <2>1, <2>2 DEF LoadsInside
<1> QED BY <1>1, <1>2, <1>3

(* While a group is at work the matrices and the workspace stay.           *)
LEMMA MemoryStays ==
  ASSUME LInv, UNCHANGED <<prob, at, host, w>>
  PROVE  Filling' /\ PackedInside'
<1>1. hp' = hp /\ g' = g /\ off' = off /\ \A x \in Chiral : Elements(x)' = Elements(x)
  BY SameGroup
<1>2. Filling'
  BY <1>1 DEF LInv, Filling
<1>3. PackedInside'
  BY <1>1 DEF LInv, PackedInside
<1> QED BY <1>2, <1>3

(* A step of a group that loads nothing: the items that have loaded are    *)
(* the same, or fewer.                                                     *)
LEMMA LoadsStay ==
  ASSUME LInv, at = "main", block # "none", block' # "none",
         UNCHANGED <<prob, at, host, w, group, lds>>,
         HasLoaded' \subseteq HasLoaded, jumps' = jumps \/ HasLoaded' = {}
  PROVE  LoadsInside' /\ AllLoaded'
<1>1. /\ hp' = hp /\ g' = g /\ off' = off /\ Tile' = Tile /\ Z' = Z
      /\ \A x \in Chiral : Elements(x)' = Elements(x)
  BY SameGroup
<1>2. Contents
  BY ContentsInside DEF LInv
<1>3. Contents'
  BY <1>1, <1>2 DEF Contents
<1>4. AllLoaded'
  BY <1>1 DEF LInv, AllLoaded
<1>5. (at # "beta" /\ Contents /\ AllLoaded => LoadsInside)'
  BY ContentsInside, PTL
<1> QED BY <1>3, <1>4, <1>5

(* What a group knows of a problem and of itself while it is at work.      *)
LEMMA AtWork ==
  ASSUME IInv, at = "main", group < MainWorkGroups(hp, g)
  PROVE  /\ IsProblem(prob) /\ Derivable(prob.hp, prob.gg)
         /\ Z \in 0 .. prob.hp["C"]["ICE"] - 1
         /\ \A x \in Chiral : Tile[x] \in 0 .. NGroups(prob.hp, prob.gg, x) - 1
<1>1. IsProblem(prob) /\ Derivable(prob.hp, prob.gg) /\ MainWorkGroups(hp, g) \in Nat
  BY Running DEF IInv
<1>2. group \in Nat /\ group < MainWorkGroups(prob.hp, prob.gg)
  BY <1>1 DEF IInv, TypeOK, hp, g
<1>3. Z \in 0 .. prob.hp["C"]["ICE"] - 1
  <2>1. prob.hp["C"]["ICE"] \in Nat
    BY <1>1, ProblemParts
  <2>2. GroupZ(prob.hp, prob.gg, group) \in Nat /\ GroupZ(prob.hp, prob.gg, group) < prob.hp["C"]["ICE"]
    BY <1>1, <1>2, IdsAreNatural
  <2> QED BY <2>1, <2>2 DEF Z, hp, g
<1>4. \A x \in Chiral : Tile[x] \in 0 .. NGroups(prob.hp, prob.gg, x) - 1
  BY <1>1, <1>2, TilesOfGroups DEF Tile, hp, g
<1> QED BY <1>1, <1>3, <1>4

(* What there is to sum in a block: all that its loads do not put zeros in *)
(* local memory for.                                                       *)
LEMMA GuardedDepths ==
  ASSUME LInv, at = "main", block \in {"first", "full", "tail"}, NEW d \in 0 .. hp["C"]["UNR"] - 1
  PROVE  Guarded(d) <=> Summing(prob, Tile, Z, jumps, d)
<1> DEFINE R == UnrollsRemaining(hp, g, Tile, Z)
           first == HasFirst(hp, Z)
           tail == HasTail(hp, g, Tile, Z)
           o == UnrollOffset(hp, Tile)
           rest == KRemaining(hp, g, Tile)
<1>1. /\ block \in {"first", "full"} => jumps + left = R /\ left > 0
      /\ block = "tail" => jumps = R /\ tail
      /\ block = "first" => jumps = 0 /\ first
      /\ block = "full" /\ first => jumps > 0
      /\ jumps \in Nat /\ left \in Nat /\ group < MainWorkGroups(hp, g)
  BY DEF LInv, IInv, TypeOK, InMain, Jumping, UnrollsLeft
<1>2. R \in Nat /\ (first => R > 0)
  <2>1. /\ IsProblem(prob) /\ Derivable(prob.hp, prob.gg) /\ Z \in 0 .. prob.hp["C"]["ICE"] - 1
        /\ \A x \in Chiral : Tile[x] \in 0 .. NGroups(prob.hp, prob.gg, x) - 1
    BY <1>1, AtWork DEF LInv
  <2>2. Z \in Nat /\ Tile["A"] \in Int /\ Tile["B"] \in Int
    BY <2>1 DEF Chiral
  <2> QED BY <2>1, <2>2, UnrollsAreCounted DEF hp, g
<1>3. Guarded(d) <=> CASE block = "first" -> d >= o [] block = "tail" -> d < rest [] OTHER -> TRUE
  BY DEF Guarded
<1>4. Summing(prob, Tile, Z, jumps, d) <=>
        \/ first /\ jumps = 0 /\ d >= o
        \/ jumps < R /\ (first => jumps > 0)
        \/ jumps = R /\ tail /\ d < rest
  BY DEF Summing, hp, g
<1> HIDE DEF R, first, tail, o, rest
<1>5. CASE block = "first"
  BY <1>1, <1>2, <1>3, <1>4, <1>5
<1>6. CASE block = "full"
  BY <1>1, <1>2, <1>3, <1>4, <1>6
<1>7. CASE block = "tail"
  BY <1>1, <1>2, <1>3, <1>4, <1>7
<1> QED BY <1>5, <1>6, <1>7

(* A load that is not beyond what there is to sum reads an element of the  *)
(* matrix, from the matrix or from where it has been packed.               *)
LEMMA ReadsInside ==
  ASSUME LInv, at = "main", NEW item \in Items, block \in {"first", "full", "tail"}, NEW x \in Chiral,
         NEW s \in Loads(hp, g, off, Tile, Z, item, x, jumps), Guarded(s.depth)
  PROVE  Read(IF Packed(hp, x) THEN w ELSE host[x], s.from) \in Elements(x)
<1>1. /\ IInv /\ Filling /\ Derived /\ group < MainWorkGroups(hp, g) /\ jumps \in Nat /\ left \in Nat
      /\ PackedInside /\ Jumping /\ UnrollsLeft
  BY DEF LInv, IInv, InMain, TypeOK
<1>2. /\ IsProblem(prob) /\ Derivable(prob.hp, prob.gg)
      /\ Z \in 0 .. prob.hp["C"]["ICE"] - 1
      /\ \A y \in Chiral : Tile[y] \in 0 .. NGroups(prob.hp, prob.gg, y) - 1
  BY <1>1, AtWork
<1>3. item \in 0 .. WorkItems(prob.hp) - 1 /\ s \in Loads(prob.hp, prob.gg, prob.off, Tile, Z, item, x, jumps)
  BY DEF Items, hp, g, off
<1>4. Summing(prob, Tile, Z, jumps, s.depth)
  <2>1. s.depth \in 0 .. hp["C"]["UNR"] - 1
    BY <1>2, DepthOfLoad DEF hp, g, off, Items
  <2> QED BY <2>1, GuardedDepths
<1>5. IF Packed(prob.hp, x) THEN \E r \in PackWrites(prob.hp, prob.gg, prob.off, x) : r.to = s.from
      ELSE s.from \in ElementsOf(prob, x)
  <2>1. PICK e \in 0 .. MacroTile(prob.hp, x) - 1 : LoadsElement(prob, Tile, Z, x, jumps, s, e)
    BY <1>1, <1>2, <1>3, <1>4, LoadsFrom
  <2> QED BY <2>1 DEF LoadsElement
<1>6. CASE Packed(hp, x)
  <2>1. PICK r \in PackWrites(hp, g, off, x) : r.to = s.from
    BY <1>5, <1>6 DEF hp, g, off
  <2>2. w[s.from] \in Elements(x)
    BY <1>1, <2>1 DEF PackedInside
  <2>3. s.from \in off["W"] .. off["W"] + g.ws - 1
    BY <1>2, <2>1, PackingsApart DEF hp, g, off
  <2>4. off["W"] \in Nat /\ g.ws \in Nat /\ prob.tail["W"] \in Nat
    BY <1>2 DEF IsProblem, off, g
  <2>5. DOMAIN w = 0 .. off["W"] + g.ws + prob.tail["W"] - 1
    BY <1>1 DEF Filling
  <2>6. s.from \in DOMAIN w
    BY <2>3, <2>4, <2>5
  <2> QED BY <1>6, <2>2, <2>6 DEF Read
<1>7. CASE ~Packed(hp, x)
  <2>1. s.from \in Elements(x)
    BY <1>5, <1>7 DEF Elements, ElementsOf, hp, g, off
  <2>2. Read(host[x], s.from) = s.from
    BY <1>1, <2>1, ReadsElement
  <2> QED BY <1>7, <2>1, <2>2
<1> QED BY <1>6, <1>7

(* A group starts: its local memory is junk, and nothing is loaded.        *)
LEMMA StartsInside ==
  ASSUME LInv, StartGroup
  PROVE  LoadsInside' /\ Jumping' /\ AllLoaded'
<1> DEFINE b == IF HasFirst(hp, Z) THEN "first" ELSE NextBlock("none", left')
<1>1. /\ at = "main" /\ block = "none" /\ group < MainWorkGroups(hp, g)
      /\ left' = UnrollsRemaining(hp, g, Tile, Z) /\ jumps' = 0 /\ Enter(b)
      /\ lds' = [x \in Chiral |-> [i \in 0 .. ElementsInPaddedUnroll(hp, x) - 1 |-> Junk]]
      /\ prob' = prob /\ at' = at /\ group' = group
  BY DEF StartGroup
<1>2. hp' = hp /\ g' = g /\ off' = off /\ Items' = Items /\ Tile' = Tile /\ Z' = Z
  BY <1>1, SameGroup
<1>3. /\ IsProblem(prob) /\ Derivable(prob.hp, prob.gg)
      /\ Z \in Nat /\ Tile["A"] \in Int /\ Tile["B"] \in Int
  <2>1. /\ IsProblem(prob) /\ Derivable(prob.hp, prob.gg)
        /\ Z \in 0 .. prob.hp["C"]["ICE"] - 1
        /\ \A x \in Chiral : Tile[x] \in 0 .. NGroups(prob.hp, prob.gg, x) - 1
    BY <1>1, AtWork DEF LInv
  <2> QED BY <2>1 DEF Chiral
<1>4. left' \in Nat
  BY <1>1, <1>3, UnrollsAreCounted DEF hp, g
<1>5. /\ b \in {"first", "full", "tail", "write"}
      /\ b = "first" <=> HasFirst(hp, Z)
      /\ b = "tail" => left' = 0 /\ HasTail(hp, g, Tile, Z)
  BY <1>4 DEF NextBlock
<1> HIDE DEF b
<1>6. block' = b /\ pc' = [i \in Items |-> IF b = "write" THEN "write" ELSE "load"]
  BY <1>1 DEF Enter
<1>7. HasLoaded' = {}
  BY <1>2, <1>6 DEF HasLoaded
<1>8. AllLoaded'
  BY <1>7 DEF AllLoaded
<1>9. Contents'
  BY <1>1 DEF Contents
<1>10. LoadsInside'
  <2>1. (at # "beta" /\ Contents /\ AllLoaded => LoadsInside)'
    BY ContentsInside, PTL
  <2> QED BY <1>1, <1>8, <1>9, <2>1
<1>11. Jumping'
  <2> DEFINE R == UnrollsRemaining(hp, g, Tile, Z)
             first == HasFirst(hp, Z)
             tail == HasTail(hp, g, Tile, Z)
  <2>1. left' = R /\ jumps' = 0 /\ left' \in Nat
    BY <1>1, <1>4
  <2>2. Jumping' <=> /\ b \in {"first", "full"} => jumps' + left' = R
                     /\ b = "tail" => jumps' = R /\ tail
                     /\ b = "first" => jumps' = 0 /\ first
                     /\ b = "full" /\ first => jumps' > 0
    BY <1>2, <1>6 DEF Jumping
  <2>3. b = "first" <=> first
    BY <1>5
  <2>4. b = "tail" => left' = 0 /\ tail
    BY <1>5
  <2> HIDE DEF R, first, tail
  <2> QED BY <1>5, <2>1, <2>2, <2>3, <2>4
<1> QED BY <1>8, <1>10, <1>11

(* An item loads: elements of its matrix, or zeros, and all that it was to. *)
LEMMA LoadsElements ==
  ASSUME LInv, at = "main", NEW item \in Items, Load(item)
  PROVE  LoadsInside' /\ Jumping' /\ AllLoaded'
<1> DEFINE S(i, x) == Loads(hp, g, off, Tile, Z, i, x, jumps)
           new(x) == Loaded(item, x)
<1>1. /\ block \in {"first", "full", "tail"} /\ pc[item] = "load"
      /\ lds' = [x \in Chiral |-> Stored(new(x), lds[x])]
      /\ pc' = [pc EXCEPT ![item] = "loaded"]
      /\ prob' = prob /\ at' = at /\ group' = group /\ block' = block /\ left' = left /\ jumps' = jumps
  BY DEF Load
<1>2. /\ hp' = hp /\ g' = g /\ off' = off /\ Items' = Items /\ Tile' = Tile /\ Z' = Z
      /\ \A x \in Chiral : Elements(x)' = Elements(x) /\ Elements(x) = ElementsOf(prob, x)
  BY <1>1, SameGroup
<1>3. HasLoaded' \subseteq HasLoaded \cup {item}
  <2>1. DOMAIN pc = Items
    BY <1>1 DEF LInv, IInv, TypeOK
  <2>2. \A i \in Items : i # item => pc'[i] = pc[i]
    BY <1>1, <2>1
  <2> QED BY <1>2, <2>2 DEF HasLoaded
<1>4. ASSUME NEW x \in Chiral
      PROVE  /\ DOMAIN new(x) = {s.to : s \in S(item, x)}
             /\ \A i \in DOMAIN new(x) : new(x)[i] \in Elements(x) \cup {Zero}
  <2> DEFINE chosen(i) == CHOOSE s \in S(item, x) : s.to = i
             read(s) == IF Guarded(s.depth) THEN Read(IF Packed(hp, x) THEN w ELSE host[x], s.from) ELSE Zero
  <2>1. new(x) = [i \in {s.to : s \in S(item, x)} |-> read(chosen(i))]
    BY DEF Loaded
  <2>2. \A s \in S(item, x) : read(s) \in Elements(x) \cup {Zero}
    BY <1>1, ReadsInside
  <2>3. \A i \in {s.to : s \in S(item, x)} : chosen(i) \in S(item, x)
    OBVIOUS
  <2> HIDE DEF S, new, chosen, read
  <2> QED BY <2>1, <2>2, <2>3
<1>5. ASSUME NEW x \in Chiral
      PROVE  /\ DOMAIN lds'[x] = DOMAIN new(x) \cup DOMAIN lds[x]
             /\ \A i \in DOMAIN lds'[x] : lds'[x][i] = IF i \in DOMAIN new(x) THEN new(x)[i] ELSE lds[x][i]
  BY <1>1 DEF Stored
<1>6. Contents
  BY ContentsInside DEF LInv
<1>7. \A x \in Chiral : Junk \notin Elements(x) \cup {Zero}
  <2> SUFFICES ASSUME NEW x \in Chiral, Junk \in Elements(x) PROVE FALSE
    BY DEF Junk, Zero
  <2>1. IsProblem(prob) /\ Junk \in ElementsOf(prob, x)
    BY <1>2, Running DEF LInv, IInv
  <2>2. Junk \in 0 .. BufferSize(prob.gg, prob.off, prob.tail, x) - 1
    BY <2>1, ElementsInBuffer
  <2> QED BY <2>2 DEF Junk
<1>8. ASSUME NEW i \in Items, NEW x \in Chiral, NEW s \in S(i, x) PROVE s.to \in DOMAIN lds[x]
  <2>1. IsProblem(prob) /\ Derivable(prob.hp, prob.gg)
    BY Running DEF LInv, IInv
  <2>2. i \in 0 .. WorkItems(prob.hp) - 1 /\ s \in Loads(prob.hp, prob.gg, prob.off, Tile, Z, i, x, jumps)
    BY DEF Items, hp, g, off
  <2>3. s.to \in 0 .. ElementsInPaddedUnroll(prob.hp, x) - 1
    BY <2>1, <2>2, LocalPlaces
  <2> QED BY <1>1, <2>3 DEF LInv, IInv, TypeOK, hp
<1> HIDE DEF new, S
<1>9. Contents'
  <2> SUFFICES ASSUME NEW x \in Chiral, NEW i \in DOMAIN lds'[x]
               PROVE  lds'[x][i] \in Elements(x) \cup {Zero, Junk}
    BY <1>1, <1>2 DEF Contents
  <2>1. CASE i \in DOMAIN new(x)
    BY <1>4, <1>5, <2>1
  <2>2. CASE i \notin DOMAIN new(x)
    BY <1>1, <1>5, <1>6, <2>2 DEF Contents
  <2> QED BY <2>1, <2>2
<1>10. AllLoaded'
  <2>1. ASSUME NEW x \in Chiral, NEW i \in HasLoaded', NEW s \in S(i, x) PROVE lds'[x][s.to] # Junk
    <3>1. i \in Items
      BY <1>2 DEF HasLoaded
    <3>2. s.to \in DOMAIN lds'[x]
      BY <1>5, <1>8, <3>1
    <3>3. CASE s.to \in DOMAIN new(x)
      <4>1. lds'[x][s.to] = new(x)[s.to]
        BY <1>5, <3>2, <3>3
      <4>2. new(x)[s.to] \in Elements(x) \cup {Zero}
        BY <1>4, <3>3
      <4> QED BY <1>7, <4>1, <4>2
    <3>4. CASE s.to \notin DOMAIN new(x)
      <4>1. i # item
        BY <1>4, <3>4
      <4>2. i \in HasLoaded
        BY <1>3, <4>1
      <4>3. lds[x][s.to] # Junk
        BY <1>1, <4>2 DEF LInv, AllLoaded, S
      <4> QED BY <1>5, <3>2, <3>4, <4>3
    <3> QED BY <3>3, <3>4
  <2> QED BY <1>1, <1>2, <2>1 DEF AllLoaded, S
<1>11. LoadsInside'
  <2>1. (at # "beta" /\ Contents /\ AllLoaded => LoadsInside)'
    BY ContentsInside, PTL
  <2> QED BY <1>1, <1>9, <1>10, <2>1
<1>12. Jumping'
  BY <1>1, <1>2 DEF LInv, Jumping
<1> QED BY <1>10, <1>11, <1>12

(* After the sums the pointers have jumped, except in the tail, after which *)
(* there is no block that loads.                                           *)
LEMMA JumpsOn ==
  ASSUME LInv, MathBarrier
  PROVE  LoadsInside' /\ Jumping' /\ AllLoaded'
<1> DEFINE b == NextBlock(block, left')
<1>1. /\ block # "none" /\ \A i \in Items : pc[i] = "summed"
      /\ left' = IF block = "tail" THEN left ELSE left - 1
      /\ jumps' = IF block = "tail" THEN jumps ELSE jumps + 1
      /\ Enter(b) /\ UNCHANGED <<prob, at, host, w, group, lds>>
  BY DEF MathBarrier
<1>2. hp' = hp /\ g' = g /\ off' = off /\ Items' = Items /\ Tile' = Tile /\ Z' = Z
  BY <1>1, SameGroup
<1>3. at = "main" /\ block \in Blocks /\ left \in Nat /\ jumps \in Nat /\ UnrollsLeft
  BY <1>1 DEF LInv, IInv, InMain, TypeOK
<1>4. block \in {"first", "full", "tail"}
  <2>1. 0 \in Items
    BY <1>3, Running DEF LInv, IInv
  <2> QED BY <1>1, <1>3, <2>1 DEF LInv, IInv, BetweenBarriers, Blocks
<1>5. left' \in Nat /\ (block = "tail" => left' = 0)
  BY <1>1, <1>3, <1>4 DEF UnrollsLeft
<1>6. /\ b \in {"full", "tail", "write"}
      /\ b = "full" <=> left' > 0
      /\ b = "tail" => left' = 0 /\ block # "tail" /\ HasTail(hp, g, Tile, Z)
  BY <1>5 DEF NextBlock
<1> HIDE DEF b
<1>7. block' = b /\ pc' = [i \in Items |-> IF b = "write" THEN "write" ELSE "load"]
  BY <1>1 DEF Enter
<1>8. HasLoaded' = {}
  BY <1>2, <1>7 DEF HasLoaded
<1>9. LoadsInside' /\ AllLoaded'
  BY <1>1, <1>3, <1>6, <1>7, <1>8, LoadsStay
<1>10. Jumping'
  <2> DEFINE R == UnrollsRemaining(hp, g, Tile, Z)
             first == HasFirst(hp, Z)
             tail == HasTail(hp, g, Tile, Z)
  <2>1. /\ block \in {"first", "full"} => jumps + left = R
        /\ block = "tail" => left' = 0
    BY <1>5 DEF LInv, Jumping
  <2>2. Jumping' <=> /\ b \in {"first", "full"} => jumps' + left' = R
                     /\ b = "tail" => jumps' = R /\ tail
                     /\ b = "first" => jumps' = 0 /\ first
                     /\ b = "full" /\ first => jumps' > 0
    BY <1>2, <1>7 DEF Jumping
  <2>3. b = "tail" => left' = 0 /\ block # "tail" /\ tail
    BY <1>6
  <2> HIDE DEF R, first, tail
  <2>4. block # "tail" => jumps' + left' = R /\ jumps' > 0
    BY <1>1, <1>3, <1>4, <2>1
  <2>5. jumps' \in Nat /\ left' \in Nat
    BY <1>1, <1>3, <1>5
  <2> QED BY <1>6, <2>1, <2>2, <2>3, <2>4, <2>5
<1> QED BY <1>9, <1>10

(* The other steps of a group change neither what is loaded nor the jumps. *)
LEMMA LoadsNothing ==
  ASSUME LInv, at = "main",
         LoadBarrier \/ \E item \in Items : Math(item) \/ Write(item)
  PROVE  LoadsInside' /\ Jumping' /\ AllLoaded'
<1>1. UNCHANGED <<prob, at, host, w, group, block, left, jumps, lds>>
  BY DEF LoadBarrier, Math, Write
<1>2. hp' = hp /\ g' = g /\ off' = off /\ Items' = Items /\ Tile' = Tile /\ Z' = Z
  BY <1>1, SameGroup
<1>3. Jumping'
  BY <1>1, <1>2 DEF LInv, Jumping
<1>4. CASE block = "none"
  BY <1>1, <1>3, <1>4 DEF LoadsInside, AllLoaded
<1>5. CASE block # "none"
  <2>1. HasLoaded' \subseteq HasLoaded
    <3>1. DOMAIN pc = Items
      BY <1>5 DEF LInv, IInv, TypeOK
    <3>2. CASE LoadBarrier
      BY <1>2, <3>2 DEF LoadBarrier, HasLoaded
    <3>3. CASE \E item \in Items : Math(item) \/ Write(item)
      <4>1. PICK item \in Items : Math(item) \/ Write(item)
        BY <3>3
      <4>2. \/ pc[item] = "math" /\ pc' = [pc EXCEPT ![item] = "summed"]
            \/ pc' = [pc EXCEPT ![item] = "end"]
        BY <4>1 DEF Math, Write
      <4> QED BY <1>2, <3>1, <4>2 DEF HasLoaded
    <3> QED BY <3>2, <3>3
  <2> QED BY <1>1, <1>3, <1>5, <2>1, LoadsStay
<1> QED BY <1>4, <1>5

(* While no group is at work nothing is loaded.                            *)
LEMMA NobodyLoads ==
  ASSUME block' = "none", at' # "beta"
  PROVE  LoadsInside' /\ Jumping' /\ AllLoaded'
BY DEF LoadsInside, Jumping, AllLoaded

(* Invariance: the matrices are in memory, what is packed has elements of  *)
(* its matrix, pointers have jumped as often as there are unrolls behind,  *)
(* and what items have loaded is in local memory.                          *)
THEOREM LoadingInvariance == Spec => []LInv
<1>1. Init => LInv
  <2> SUFFICES ASSUME Init PROVE LInv
    OBVIOUS
  <2>1. at = "derive" /\ block = "none"
    BY DEF Init
  <2>2. LoadsInside /\ Filling /\ PackedInside /\ Jumping /\ AllLoaded
    BY <2>1 DEF LoadsInside, Filling, PackedInside, Jumping, AllLoaded
  <2> QED BY <2>2, InitInvariant DEF LInv
<1>2. LInv /\ IInv' /\ [Next]_vars => LInv'
  <2> SUFFICES ASSUME LInv, IInv', [Next]_vars
               PROVE  LoadsInside' /\ Filling' /\ PackedInside' /\ Jumping' /\ AllLoaded'
    BY DEF LInv
  <2>1. at # "main" => block = "none"
    BY DEF LInv, IInv, InMain
  <2>2. CASE Derive
    <3>1. at' \in {"fill", "refused"} /\ block' = "none"
      BY <2>1, <2>2 DEF Derive, groupVars
    <3> QED BY <3>1, NobodyLoads DEF Filling, PackedInside
  <2>3. CASE Fill
    <3>1. at' = "pack" /\ block' = "none" /\ prob' = prob
      BY <2>1, <2>3 DEF Fill, groupVars
    <3>2. hp' = hp /\ g' = g /\ off' = off
      BY <3>1, SameGroup
    <3>3. Filling' /\ PackedInside'
      BY <2>3, <3>1, <3>2 DEF Fill, Filling, PackedInside
    <3> QED BY <3>1, <3>3, NobodyLoads
  <2>4. CASE Pack
    <3>1. at = "pack" /\ block' = "none" /\ prob' = prob /\ host' = host /\ DOMAIN w' = DOMAIN w
      BY <2>1, <2>4 DEF Pack, groupVars
    <3>2. hp' = hp /\ g' = g /\ off' = off
      BY <3>1, SameGroup
    <3>3. Filling'
      BY <3>1, <3>2 DEF LInv, Filling
    <3>4. Jumping' /\ AllLoaded'
      BY <3>1 DEF Jumping, AllLoaded
    <3> QED BY <2>4, <3>3, <3>4, Packs
  <2>5. CASE ScaleC \/ EndMain \/ Compare
    <3>1. /\ at \in {"beta", "main", "compare"} /\ at' \notin {"derive", "fill", "pack", "beta"}
          /\ at' = "main" => at = "beta"
          /\ block' = "none" /\ prob' = prob /\ host' = host /\ w' = w
      BY <2>1, <2>5 DEF ScaleC, EndMain, Compare, groupVars
    <3>2. hp' = hp /\ g' = g /\ off' = off /\ \A x \in Chiral : Elements(x)' = Elements(x)
      BY <3>1, SameGroup
    <3>3. Filling' /\ PackedInside'
      BY <3>1, <3>2 DEF LInv, Filling, PackedInside
    <3> QED BY <3>1, <3>3, NobodyLoads
  <2>6. CASE StartGroup
    BY <2>6, StartsInside, MemoryStays DEF StartGroup
  <2>7. CASE MathBarrier
    BY <2>7, JumpsOn, MemoryStays DEF MathBarrier
  <2>8. CASE EndGroup
    <3>1. at = "main" /\ block' = "none" /\ UNCHANGED <<prob, at, host, w>>
      BY <2>1, <2>8 DEF EndGroup
    <3> QED BY <3>1, NobodyLoads, MemoryStays
  <2>9. CASE LoadBarrier
    <3>1. at = "main" /\ UNCHANGED <<prob, at, host, w>>
      BY <2>1, <2>9 DEF LoadBarrier
    <3> QED BY <2>9, <3>1, LoadsNothing, MemoryStays
  <2>10. CASE at = "main" /\ \E item \in Items : Load(item) \/ Math(item) \/ Write(item)
    <3>1. PICK item \in Items : Load(item) \/ Math(item) \/ Write(item)
      BY <2>10
    <3>2. UNCHANGED <<prob, at, host, w>>
      BY <3>1 DEF Load, Math, Write
    <3>3. CASE Load(item)
      BY <2>10, <3>2, <3>3, LoadsElements, MemoryStays
    <3>4. CASE Math(item) \/ Write(item)
      BY <2>10, <3>2, <3>4, LoadsNothing, MemoryStays
    <3> QED BY <3>1, <3>3, <3>4
  <2>11. CASE UNCHANGED vars
    <3>1. UNCHANGED <<prob, at, host, w, group, block, left, jumps, pc, lds>>
      BY <2>11 DEF vars, groupVars
    <3>2. /\ hp' = hp /\ g' = g /\ off' = off /\ Items' = Items /\ Tile' = Tile /\ Z' = Z
          /\ \A x \in Chiral : Elements(x)' = Elements(x)
      BY <3>1, SameGroup
    <3>3. HasLoaded' = HasLoaded
      BY <3>1, <3>2 DEF HasLoaded
    <3>4. Filling' /\ PackedInside'
      BY <3>1, MemoryStays
    <3>5. LoadsInside'
      <4>1. CASE block = "none"
        BY <3>1, <3>2, <4>1 DEF LInv, LoadsInside, Chiral
      <4>2. CASE block # "none"
        <5>1. at = "main"
          BY <2>1, <4>2
        <5> QED BY <3>1, <3>3, <4>2, <5>1, LoadsStay
      <4> QED BY <4>1, <4>2
    <3>6. Jumping' /\ AllLoaded'
      BY <3>1, <3>2, <3>3 DEF LInv, Jumping, AllLoaded
    <3> QED BY <3>4, <3>5, <3>6
  <2>12. CASE Finished
    BY <2>11, <2>12 DEF Finished
  <2> QED BY <2>2, <2>3, <2>4, <2>5, <2>6, <2>7, <2>8, <2>9, <2>10, <2>11, <2>12 DEF Next
<1> QED BY <1>1, <1>2, Invariance, PTL DEF Spec

(* Whatever the sizes, the leading dimensions, the offsets and the         *)
(* hyper-parameters that can be derived: the main kernel loads elements of *)
(* the matrices, from the matrices or where they have been packed, however *)
(* its items interleave, also in the first unroll, in the tail, in tiles   *)
(* on the edge and where the summation is split (the loads of the main     *)
(* kernel and of the packing kernels).                                     *)
THEOREM LoadsStayInside == Spec => []LoadsInside
<1>1. LInv => LoadsInside
  BY DEF LInv
<1> QED BY <1>1, LoadingInvariance, PTL

---------------------------------------------------------------------------
(* What is in memory is what belongs there.                                *)

(* What an item loads goes to a place so far across the tile in its line   *)
(* of local memory, which is as far down as it is deep in the unroll.      *)
LEMMA LoadPlaces ==
  ASSUME NEW p, IsProblem(p), Derivable(p.hp, p.gg), NEW x \in Chiral,
         NEW item \in 0 .. WorkItems(p.hp) - 1, NEW tile, NEW z, NEW n,
         NEW s \in Loads(p.hp, p.gg, p.off, tile, z, item, x, n)
  PROVE  \E e \in 0 .. MacroTile(p.hp, x) - 1 : s.to = PaddedTile(p.hp, x) * s.depth + e
<1> DEFINE v == p.hp[x]["VEW"]
           TH == MacroTile(p.hp, x)
           rows == TH \div v
           PT == PaddedTile(p.hp, x)
           row == PT \div v
           pll == LoadOffset(p.hp, x, item).pll
           perpV == LoadOffset(p.hp, x, item).perpV
           along == Stride(p.hp, p.gg, x, TRUE, FALSE, p.hp[x]["WOS"])
           across == Stride(p.hp, p.gg, x, FALSE, FALSE, p.hp[x]["WOS"])
           load(i, j, lane) ==
             [to |-> v * (row * (pll + i) + perpV + j) + lane,
              from |-> (IF Packed(p.hp, x) THEN p.off["W"] + CwGlobalOffset(p.hp, p.gg, x) ELSE p.off[x])
                       + ReadStart(p.hp, p.gg, tile, x) * Stride(p.hp, p.gg, x, FALSE, TRUE, p.hp[x]["WOS"])
                       + (KStart(p.hp, p.gg, tile, z) + pll) * along
                       + v * (across * perpV + n * ((along * Jump(p.hp)) \div v))
                       + v * ((i * along + v * j * across) \div v) + lane,
              depth |-> pll + i]
<1>1. /\ v \in Nat /\ v > 0 /\ PT \in Nat /\ PT >= TH /\ row \in Nat /\ v * row = PT
      /\ rows \in Nat /\ TH = v * rows /\ TH \in Nat
  <2> DEFINE q == p.hp[x]["MIC"] \div v
             grid == MacroGrid(p.hp)[x]
  <2>1. /\ v \in Nat /\ v > 0 /\ q \in Nat /\ grid \in Nat
        /\ TH = v * (grid * q) /\ rows = grid * q
        /\ PT \in Nat /\ PT >= TH /\ row \in Nat /\ v * row = PT
    BY VectorsInTile
  <2> HIDE DEF v, TH, rows, PT, row, q, grid
  <2>2. grid * q \in Nat
    BY <2>1, Products
  <2>3. v * rows \in Nat
    BY <2>1, <2>2, Products
  <2> QED BY <2>1, <2>2, <2>3
<1>2. PICK i \in LoadPll(p.hp, x), j \in LoadPerp(p.hp, x), lane \in 0 .. v - 1 :
        s.to = v * (row * (pll + i) + perpV + j) + lane /\ s.depth = pll + i
  <2>1. Loads(p.hp, p.gg, p.off, tile, z, item, x, n) =
          {load(i, j, lane) : i \in LoadPll(p.hp, x), j \in LoadPerp(p.hp, x), lane \in 0 .. v - 1}
    BY DEF Loads
  <2> HIDE DEF load
  <2>2. PICK i \in LoadPll(p.hp, x), j \in LoadPerp(p.hp, x), lane \in 0 .. v - 1 : s = load(i, j, lane)
    BY <2>1
  <2>3. s.to = v * (row * (pll + i) + perpV + j) + lane /\ s.depth = pll + i
    BY <2>2 DEF load
  <2> QED BY <2>3
<1>3. /\ pll + i \in 0 .. p.hp["C"]["UNR"] - 1 /\ perpV + j \in 0 .. rows - 1
      /\ pll \in Nat /\ perpV \in Nat /\ i \in Nat /\ j \in Nat
  BY LoadInTile
<1> DEFINE d == pll + i
           f == perpV + j
<1>4. d \in Nat /\ f \in 0 .. rows - 1 /\ s.depth = d /\ s.to = v * (row * d + f) + lane
  <2> HIDE DEF v, row, pll, perpV, rows
  <2>1. row * (pll + i) \in Int
    BY <1>1, <1>3, Products
  <2> QED BY <1>1, <1>2, <1>3, <2>1
<1> HIDE DEF v, TH, rows, PT, row, pll, perpV, d, f
<1>5. v * f + lane \in 0 .. v * rows - 1
  BY <1>1, <1>4, Blocked
<1>6. v * (row * d + f) = PT * d + v * f /\ v * f \in Int /\ PT * d \in Int
  <2>1. row * d \in Int /\ f \in Int /\ v \in Int
    BY <1>1, <1>4, Products
  <2>2. v * (row * d + f) = v * (row * d) + v * f /\ v * f \in Int
    BY <2>1, Products
  <2>3. v * (row * d) = (v * row) * d
    BY <1>1, <1>4, Products
  <2>4. PT * d \in Int
    BY <1>1, <1>4, Products
  <2> QED BY <1>1, <2>2, <2>3, <2>4
<1>7. s.to = PT * d + (v * f + lane)
  BY <1>1, <1>4, <1>6
<1> QED BY <1>1, <1>4, <1>5, <1>7 DEF TH, PT

(* How far across the tile a place of local memory is.                     *)
LEMMA AcrossOfPlace ==
  ASSUME NEW p, IsProblem(p), Derivable(p.hp, p.gg), NEW x \in Chiral, NEW tile, NEW z, NEW n,
         NEW item \in 0 .. WorkItems(p.hp) - 1, NEW s \in Loads(p.hp, p.gg, p.off, tile, z, item, x, n),
         NEW e \in 0 .. MacroTile(p.hp, x) - 1, s.to = PaddedTile(p.hp, x) * s.depth + e
  PROVE  s.to % PaddedTile(p.hp, x) = e
<1> DEFINE PT == PaddedTile(p.hp, x)
           TH == MacroTile(p.hp, x)
<1>1. PT \in Nat /\ PT >= TH
  BY VectorsInTile
<1>2. TH \in Nat
  BY DerivableParts, Tiled
<1>3. s.depth \in Int
  <2>1. s.depth \in 0 .. p.hp["C"]["UNR"] - 1 /\ p.hp["C"]["UNR"] \in Nat
    BY DepthOfLoad, ProblemParts
  <2> QED BY <2>1
<1>4. e \in 0 .. TH - 1 /\ s.to = PT * s.depth + e
  OBVIOUS
<1> HIDE DEF PT, TH
<1>5. PT \in Nat /\ s.depth \in Int /\ e \in Int /\ 0 <= e /\ e < PT
  BY <1>1, <1>2, <1>3, <1>4
<1>6. (PT * s.depth + e) % PT = e
  BY ONLY <1>5, DivUnique
<1> QED BY <1>4, <1>6 DEF PT

(* A place of local memory is at one depth, whoever loads to it.           *)
OneDepth(p, tile, z, n, x) ==
  \A i, j \in 0 .. WorkItems(p.hp) - 1 :
    \A s \in Loads(p.hp, p.gg, p.off, tile, z, i, x, n), t \in Loads(p.hp, p.gg, p.off, tile, z, j, x, n) :
      s.to = t.to => s.depth = t.depth

(* Whoever loads to a place loads what is at one depth there.              *)
LEMMA DepthOfPlace ==
  ASSUME NEW p, IsProblem(p), Derivable(p.hp, p.gg), NEW x \in Chiral, NEW tile, NEW z, NEW n
  PROVE  OneDepth(p, tile, z, n, x)
<1> SUFFICES ASSUME NEW i \in 0 .. WorkItems(p.hp) - 1, NEW s \in Loads(p.hp, p.gg, p.off, tile, z, i, x, n),
                    NEW j \in 0 .. WorkItems(p.hp) - 1, NEW t \in Loads(p.hp, p.gg, p.off, tile, z, j, x, n),
                    s.to = t.to
             PROVE  s.depth = t.depth
  BY DEF OneDepth
<1> DEFINE PT == PaddedTile(p.hp, x)
           TH == MacroTile(p.hp, x)
<1>1. PT \in Nat /\ PT >= TH
  BY VectorsInTile
<1>2. TH \in Nat
  BY DerivableParts, Tiled
<1>3. s.depth \in Int /\ t.depth \in Int
  <2>1. /\ s.depth \in 0 .. p.hp["C"]["UNR"] - 1 /\ t.depth \in 0 .. p.hp["C"]["UNR"] - 1
        /\ p.hp["C"]["UNR"] \in Nat
    BY DepthOfLoad, ProblemParts
  <2> QED BY <2>1
<1>4. PICK e \in 0 .. TH - 1 : s.to = PT * s.depth + e
  BY LoadPlaces
<1>5. PICK f \in 0 .. TH - 1 : t.to = PT * t.depth + f
  BY LoadPlaces
<1> HIDE DEF PT, TH
<1>6. e \in 0 .. PT - 1 /\ f \in 0 .. PT - 1
  BY <1>1, <1>2
<1>7. PT * s.depth + e = PT * t.depth + f
  BY <1>4, <1>5
<1> QED BY <1>1, <1>3, <1>6, <1>7, Digits

(* A load that is not beyond what there is to sum reads the element that   *)
(* belongs at its place across the tile and at its depth.                  *)
LEMMA ReadsExactly ==
  ASSUME LInv, PackedExactly, at = "main", NEW item \in Items, block \in {"first", "full", "tail"},
         NEW x \in Chiral, NEW s \in Loads(hp, g, off, Tile, Z, item, x, jumps), Guarded(s.depth)
  PROVE  Read(IF Packed(hp, x) THEN w ELSE host[x], s.from)
           = AddressOf(prob, x, TileAt(prob, Tile, x) + (s.to % PaddedTile(hp, x)),
                       Position(prob, Tile, Z, jumps, s.depth))
<1>1. /\ IInv /\ Filling /\ Derived /\ group < MainWorkGroups(hp, g) /\ jumps \in Nat
  BY DEF LInv, IInv, InMain, TypeOK
<1>2. /\ IsProblem(prob) /\ Derivable(prob.hp, prob.gg)
      /\ Z \in 0 .. prob.hp["C"]["ICE"] - 1
      /\ \A y \in Chiral : Tile[y] \in 0 .. NGroups(prob.hp, prob.gg, y) - 1
  BY <1>1, AtWork
<1>3. item \in 0 .. WorkItems(prob.hp) - 1 /\ s \in Loads(prob.hp, prob.gg, prob.off, Tile, Z, item, x, jumps)
  BY DEF Items, hp, g, off
<1>4. s.depth \in 0 .. prob.hp["C"]["UNR"] - 1 /\ s.depth \in Nat
  <2>1. s.depth \in 0 .. prob.hp["C"]["UNR"] - 1 /\ prob.hp["C"]["UNR"] \in Nat
    BY <1>2, <1>3, DepthOfLoad, ProblemParts
  <2> QED BY <2>1
<1>5. Summing(prob, Tile, Z, jumps, s.depth)
  BY <1>4, GuardedDepths DEF hp
<1>6. PICK e \in 0 .. MacroTile(prob.hp, x) - 1 : LoadsElement(prob, Tile, Z, x, jumps, s, e)
  BY <1>1, <1>2, <1>3, <1>5, LoadsFrom
<1> DEFINE from == AddressOf(prob, x, TileAt(prob, Tile, x) + e, Position(prob, Tile, Z, jumps, s.depth))
<1>7. /\ s.to = PaddedTile(prob.hp, x) * s.depth + e /\ from \in ElementsOf(prob, x)
      /\ IF Packed(prob.hp, x)
         THEN \E r \in PackWrites(prob.hp, prob.gg, prob.off, x) : r.to = s.from /\ r.from = from
         ELSE s.from = from
  BY <1>6 DEF LoadsElement
<1>8. s.to % PaddedTile(prob.hp, x) = e
  <2>1. /\ IsProblem(prob) /\ Derivable(prob.hp, prob.gg) /\ x \in Chiral /\ s.depth \in Nat
        /\ item \in 0 .. WorkItems(prob.hp) - 1
        /\ s \in Loads(prob.hp, prob.gg, prob.off, Tile, Z, item, x, jumps)
        /\ e \in 0 .. MacroTile(prob.hp, x) - 1 /\ s.to = PaddedTile(prob.hp, x) * s.depth + e
    BY <1>2, <1>3, <1>4, <1>7
  <2> QED BY ONLY <2>1, AcrossOfPlace
<1> HIDE DEF from
<1>9. CASE Packed(hp, x)
  <2>1. PICK r \in PackWrites(hp, g, off, x) : r.to = s.from /\ r.from = from
    BY <1>7, <1>9 DEF hp, g, off
  <2>2. w[s.from] = from
    BY <2>1 DEF PackedExactly
  <2>3. s.from \in off["W"] .. off["W"] + g.ws - 1
    BY <1>2, <2>1, PackingsApart DEF hp, g, off
  <2>4. off["W"] \in Nat /\ g.ws \in Nat /\ prob.tail["W"] \in Nat
    BY <1>2 DEF IsProblem, off, g
  <2>5. DOMAIN w = 0 .. off["W"] + g.ws + prob.tail["W"] - 1
    BY <1>1 DEF Filling
  <2>6. s.from \in DOMAIN w
    BY <2>3, <2>4, <2>5
  <2>7. Read(w, s.from) = from
    BY <2>2, <2>6 DEF Read
  <2> QED BY <1>8, <1>9, <2>7 DEF from, hp
<1>10. CASE ~Packed(hp, x)
  <2>1. s.from = from /\ s.from \in Elements(x)
    BY <1>7, <1>10 DEF Elements, ElementsOf, hp, g, off
  <2>2. Read(host[x], s.from) = from
    BY <1>1, <2>1, ReadsElement
  <2> QED BY <1>8, <1>10, <2>2 DEF from, hp
<1> QED BY <1>9, <1>10

(* Loads of two items to one place are at one depth.                       *)
LEMMA PlacesMatch ==
  ASSUME IInv, at = "main", block # "none", NEW x \in Chiral, NEW i \in Items, NEW j \in Items,
         NEW s \in Loads(hp, g, off, Tile, Z, i, x, jumps), NEW t \in Loads(hp, g, off, Tile, Z, j, x, jumps),
         s.to = t.to
  PROVE  s.depth = t.depth
<1>1. IsProblem(prob) /\ Derivable(prob.hp, prob.gg)
  BY Running DEF IInv
<1>2. /\ i \in 0 .. WorkItems(prob.hp) - 1 /\ s \in Loads(prob.hp, prob.gg, prob.off, Tile, Z, i, x, jumps)
      /\ j \in 0 .. WorkItems(prob.hp) - 1 /\ t \in Loads(prob.hp, prob.gg, prob.off, Tile, Z, j, x, jumps)
  BY DEF Items, hp, g, off
<1>3. OneDepth(prob, Tile, Z, jumps, x)
  BY <1>1, DepthOfPlace
<1>4. s.to = t.to
  OBVIOUS
<1> QED BY ONLY <1>2, <1>3, <1>4 DEF OneDepth

(* What an item puts in a place is what any load to that place would put   *)
(* there.                                                                  *)
LEMMA LoadsAgree ==
  ASSUME LInv, PackedExactly, at = "main", NEW item \in Items, block \in {"first", "full", "tail"},
         NEW x \in Chiral, NEW j \in Items, NEW t \in Loads(hp, g, off, Tile, Z, j, x, jumps),
         t.to \in DOMAIN Loaded(item, x)
  PROVE  Loaded(item, x)[t.to] = Element(x, t)
<1> DEFINE S == Loads(hp, g, off, Tile, Z, item, x, jumps)
           chosen(i) == CHOOSE s \in S : s.to = i
           read(s) == IF Guarded(s.depth) THEN Read(IF Packed(hp, x) THEN w ELSE host[x], s.from) ELSE Zero
<1>1. Loaded(item, x) = [i \in {s.to : s \in S} |-> read(chosen(i))]
  BY DEF Loaded
<1> DEFINE s == chosen(t.to)
<1>2. s \in S /\ s.to = t.to
  <2>1. \E r \in S : r.to = t.to
    <3> HIDE DEF S, read, chosen
    <3> QED BY <1>1
  <2> QED BY <2>1
<1> HIDE DEF s, chosen
<1>3. s.depth = t.depth
  BY <1>2, PlacesMatch DEF LInv
<1>4. read(s) = Element(x, s)
  <2>1. CASE Guarded(s.depth)
    BY <1>2, <2>1, ReadsExactly DEF Element
  <2>2. CASE ~Guarded(s.depth)
    BY <2>2 DEF Element
  <2> QED BY <2>1, <2>2
<1>5. Element(x, s) = Element(x, t)
  BY <1>2, <1>3 DEF Element
<1> HIDE DEF read, S
<1>6. Loaded(item, x)[t.to] = read(s)
  BY <1>1, <1>2 DEF s
<1> QED BY <1>4, <1>5, <1>6

(* The problem stays the same.                                             *)
LEMMA SameProblem ==
  ASSUME [Next]_vars
  PROVE  prob' = prob
BY DEF Next, vars, Derive, Fill, Pack, ScaleC, StartGroup, LoadBarrier, MathBarrier, EndGroup, EndMain,
       Load, Math, Write, Compare, Finished

(* What belongs in local memory depends on the problem, the group, its     *)
(* block and how often its pointers have jumped.                           *)
LEMMA SameElement ==
  ASSUME prob' = prob, group' = group, block' = block, jumps' = jumps, NEW x, NEW s
  PROVE  Element(x, s)' = Element(x, s)
<1>1. hp' = hp /\ g' = g /\ Tile' = Tile /\ Z' = Z
  BY SameGroup
<1>2. Guarded(s.depth)' = Guarded(s.depth)
  BY <1>1 DEF Guarded
<1> QED BY <1>1, <1>2 DEF Element

(* What is written to the workspace is the element that it was taken from. *)
LEMMA PacksExactly ==
  ASSUME LInv, Pack
  PROVE  PackedExactly'
<1> DEFINE S == [x \in Chiral |-> PackWrites(hp, g, off, x)]
           to(x) == {s.to : s \in S[x]}
           chosen(x, i) == CHOOSE s \in S[x] : s.to = i
           read(x, i) == Read(host[x], chosen(x, i).from)
<1>1. /\ at = "pack" /\ at' = "beta"
      /\ w' = [i \in DOMAIN w |-> IF i \in to("A") THEN read("A", i)
                                  ELSE IF i \in to("B") THEN read("B", i) ELSE w[i]]
      /\ prob' = prob
  BY DEF Pack
<1>2. Derived /\ Filling
  BY DEF LInv, IInv
<1>3. IsProblem(prob) /\ Derivable(prob.hp, prob.gg)
  BY <1>1, <1>2, Running
<1>4. ASSUME NEW x \in Chiral, NEW r \in S[x] PROVE read(x, r.to) = r.from
  <2> DEFINE s == chosen(x, r.to)
  <2>1. s \in S[x] /\ s.to = r.to
    BY <1>4
  <2> HIDE DEF s
  <2>2. r \in PackWrites(prob.hp, prob.gg, prob.off, x) /\ s \in PackWrites(prob.hp, prob.gg, prob.off, x)
    BY <1>4, <2>1 DEF hp, g, off
  <2>3. s = r
    BY <1>3, <2>1, <2>2, Packing
  <2>4. r.from \in Elements(x)
    <3>1. r.from \in ElementsOf(prob, x)
      BY <1>3, <2>2, Packing
    <3> QED BY <3>1 DEF Elements, ElementsOf, off, g
  <2>5. Read(host[x], r.from) = r.from
    BY <1>1, <1>2, <2>4, ReadsElement
  <2> QED BY <2>3, <2>5 DEF s
<1>5. /\ to("A") \cup to("B") \subseteq DOMAIN w
      /\ \A i \in to("B") : i \notin to("A")
  <2>1. /\ \A x \in Chiral : \A s \in S[x] : s.to \in off["W"] .. off["W"] + g.ws - 1
        /\ \A r \in S["A"], s \in S["B"] : r.to # s.to
    BY <1>3, PackingsApart DEF hp, g, off, Chiral
  <2>2. off["W"] \in Nat /\ g.ws \in Nat /\ prob.tail["W"] \in Nat
    BY <1>3 DEF IsProblem, off, g
  <2>3. DOMAIN w = 0 .. off["W"] + g.ws + prob.tail["W"] - 1
    BY <1>1, <1>2 DEF Filling
  <2> DEFINE first == off["W"]
             room == g.ws
             spare == prob.tail["W"]
  <2>4. first .. first + room - 1 \subseteq DOMAIN w
    <3>1. first \in Nat /\ room \in Nat /\ spare \in Nat /\ DOMAIN w = 0 .. first + room + spare - 1
      BY ONLY <2>2, <2>3
    <3> HIDE DEF first, room, spare
    <3> QED BY ONLY <3>1
  <2>5. \A x \in Chiral : to(x) \subseteq first .. first + room - 1
    <3> HIDE DEF S
    <3> QED BY ONLY <2>1
  <2>6. \A i \in to("B") : i \notin to("A")
    <3> HIDE DEF S
    <3> QED BY ONLY <2>1
  <2> HIDE DEF S, to, first, room
  <2> QED BY ONLY <2>4, <2>5, <2>6 DEF Chiral
<1>6. hp' = hp /\ g' = g /\ off' = off
  BY <1>1, SameGroup
<1> HIDE DEF read
<1>7. \A x \in Chiral : \A i \in to(x) : w'[i] = read(x, i)
  BY <1>1, <1>5 DEF Chiral
<1>8. \A x \in Chiral : \A r \in S[x] : w'[r.to] = r.from
  BY <1>4, <1>7
<1> QED BY <1>6, <1>8 DEF PackedExactly

(* Items enter and leave the barriers of a block together.                 *)
LEMMA StaysTogether ==
  ASSUME IInv, Together, [Next]_vars
  PROVE  Together'
<1>1. prob' = prob
  BY SameProblem
<1>2. Items' = Items
  BY <1>1, SameGroup
<1>3. at # "main" => block = "none"
  BY DEF IInv, InMain
<1>4. CASE Derive \/ Fill \/ Pack \/ ScaleC \/ EndMain \/ Compare
  <2>1. block' = "none"
    BY <1>3, <1>4 DEF Derive, Fill, Pack, ScaleC, EndMain, Compare, groupVars
  <2> QED BY <2>1 DEF Together
<1>5. CASE StartGroup \/ MathBarrier
  <2>1. PICK b : Enter(b)
    BY <1>5 DEF StartGroup, MathBarrier
  <2>2. \A i \in Items : pc'[i] \in {"write", "load"}
    BY <2>1 DEF Enter
  <2> QED BY <1>2, <2>2 DEF Together
<1>6. CASE LoadBarrier
  BY <1>2, <1>6 DEF LoadBarrier, Together
<1>7. CASE EndGroup
  BY <1>7 DEF EndGroup, Together
<1>8. CASE at = "main" /\ \E item \in Items : Load(item) \/ Math(item) \/ Write(item)
  <2>1. PICK item \in Items : Load(item) \/ Math(item) \/ Write(item)
    BY <1>8
  <2>2. block # "none" /\ block' = block
    BY <2>1 DEF Load, Math, Write
  <2>3. DOMAIN pc = Items /\ \A i \in Items : pc[i] \in IF block = "write" THEN {"write", "end"}
                                                     ELSE {"load", "loaded", "math", "summed"}
    BY <2>2 DEF IInv, TypeOK, BetweenBarriers
  <2>4. CASE Load(item)
    BY <1>2, <2>2, <2>3, <2>4 DEF Load, Together
  <2>5. CASE Math(item)
    BY <1>2, <2>2, <2>3, <2>5 DEF Math, Together
  <2>6. CASE Write(item)
    BY <1>2, <2>2, <2>3, <2>6 DEF Write, Together
  <2> QED BY <2>1, <2>4, <2>5, <2>6
<1>9. CASE Finished \/ UNCHANGED vars
  BY <1>2, <1>9 DEF Finished, vars, groupVars, Together
<1> QED BY <1>4, <1>5, <1>6, <1>7, <1>8, <1>9 DEF Next

(* An item that loads puts each element where it belongs, and what others  *)
(* have loaded stays, or is put there again.                               *)
LEMMA LoadsRight ==
  ASSUME LInv, PackedExactly, LoadedExactly, at = "main", NEW item \in Items, Load(item)
  PROVE  LoadedExactly'
<1> DEFINE S(i, x) == Loads(hp, g, off, Tile, Z, i, x, jumps)
           new(x) == Loaded(item, x)
<1>1. /\ block \in {"first", "full", "tail"} /\ pc[item] = "load"
      /\ lds' = [x \in Chiral |-> Stored(new(x), lds[x])]
      /\ pc' = [pc EXCEPT ![item] = "loaded"]
      /\ prob' = prob /\ group' = group /\ block' = block /\ jumps' = jumps
  BY DEF Load
<1>2. /\ hp' = hp /\ g' = g /\ off' = off /\ Items' = Items /\ Tile' = Tile /\ Z' = Z
      /\ \A x, s : Element(x, s)' = Element(x, s)
  BY <1>1, SameGroup, SameElement
<1>3. HasLoaded' \subseteq HasLoaded \cup {item} /\ HasLoaded' \subseteq Items
  <2>1. DOMAIN pc = Items
    BY <1>1 DEF LInv, IInv, TypeOK
  <2>2. \A i \in Items : i # item => pc'[i] = pc[i]
    BY <1>1, <2>1
  <2> QED BY <1>2, <2>2 DEF HasLoaded
<1>4. ASSUME NEW x \in Chiral, NEW i \in HasLoaded', NEW s \in S(i, x) PROVE lds'[x][s.to] = Element(x, s)
  <2>1. i \in Items
    BY <1>3
  <2>2. CASE s.to \in DOMAIN new(x)
    <3>1. lds'[x][s.to] = new(x)[s.to]
      BY <1>1, <2>2 DEF Stored
    <3>2. new(x)[s.to] = Element(x, s)
      BY <1>1, <2>1, <2>2, LoadsAgree
    <3> QED BY <3>1, <3>2
  <2>3. CASE s.to \notin DOMAIN new(x)
    <3>1. i # item
      BY <2>3 DEF Loaded
    <3>2. i \in HasLoaded
      BY <1>3, <3>1
    <3>3. lds[x][s.to] = Element(x, s)
      BY <1>1, <3>2 DEF LoadedExactly
    <3>4. s.to \in DOMAIN lds[x]
      <4>1. IsProblem(prob) /\ Derivable(prob.hp, prob.gg)
        BY Running DEF LInv, IInv
      <4>2. i \in 0 .. WorkItems(prob.hp) - 1 /\ s \in Loads(prob.hp, prob.gg, prob.off, Tile, Z, i, x, jumps)
        BY <2>1 DEF Items, hp, g, off
      <4>3. s.to \in 0 .. ElementsInPaddedUnroll(prob.hp, x) - 1
        BY <4>1, <4>2, LocalPlaces
      <4> QED BY <1>1, <4>3 DEF LInv, IInv, TypeOK, hp
    <3>5. lds'[x][s.to] = lds[x][s.to]
      BY <1>1, <2>3, <3>4 DEF Stored
    <3> QED BY <3>3, <3>5
  <2> QED BY <2>2, <2>3
<1> QED BY <1>1, <1>2, <1>4 DEF LoadedExactly

(* The other steps of a group leave in local memory what has been loaded.  *)
LEMMA StaysLoaded ==
  ASSUME LInv, LoadedExactly, UNCHANGED <<prob, group, block, jumps, lds>>,
         block # "none" => HasLoaded' \subseteq HasLoaded
  PROVE  LoadedExactly'
<1>1. /\ hp' = hp /\ g' = g /\ off' = off /\ Items' = Items /\ Tile' = Tile /\ Z' = Z
      /\ \A x, s : Element(x, s)' = Element(x, s)
  BY SameGroup, SameElement
<1> QED BY <1>1 DEF LoadedExactly

(* Initially.                                                              *)
LEMMA MemoryStarts == Init => MInv
<1> SUFFICES ASSUME Init PROVE MInv
  OBVIOUS
<1>1. at = "derive" /\ block = "none"
  BY DEF Init
<1>2. LoadsInside /\ Filling /\ PackedInside /\ Jumping /\ AllLoaded
  BY <1>1 DEF LoadsInside, Filling, PackedInside, Jumping, AllLoaded
<1>3. PackedExactly /\ Together /\ LoadedExactly
  BY <1>1 DEF PackedExactly, Together, LoadedExactly
<1> QED BY <1>2, <1>3, InitInvariant DEF LInv, MInv

(* Invariance: what is packed is the element that it was taken from, and   *)
(* what is loaded the element that belongs where it is put, or zero.       *)
THEOREM MemoryInvariance == Spec => []MInv
<1>1. Init => MInv
  BY MemoryStarts
<1>2. MInv /\ LInv' /\ [Next]_vars => MInv'
  <2> SUFFICES ASSUME MInv, LInv', [Next]_vars PROVE PackedExactly' /\ LoadedExactly'
    BY StaysTogether DEF MInv, LInv
  <2>1. at # "main" => block = "none"
    BY DEF MInv, LInv, IInv, InMain
  <2>2. ASSUME UNCHANGED <<prob, w>>, at' \in {"beta", "main"} => at \in {"beta", "main"} PROVE PackedExactly'
    <3>1. hp' = hp /\ g' = g /\ off' = off
      BY <2>2, SameGroup
    <3> QED BY <2>2, <3>1 DEF MInv, PackedExactly
  <2>3. CASE Derive \/ Fill
    BY <2>1, <2>3 DEF Derive, Fill, groupVars, PackedExactly, LoadedExactly
  <2>4. CASE Pack
    BY <2>1, <2>4, PacksExactly DEF MInv, Pack, groupVars, LoadedExactly
  <2>5. CASE ScaleC \/ EndMain \/ Compare
    BY <2>1, <2>2, <2>5 DEF ScaleC, EndMain, Compare, groupVars, LoadedExactly
  <2>6. CASE StartGroup \/ MathBarrier
    <3>1. prob' = prob /\ UNCHANGED <<at, w>>
      BY <2>6 DEF StartGroup, MathBarrier
    <3>2. PICK b : Enter(b)
      BY <2>6 DEF StartGroup, MathBarrier
    <3>3. HasLoaded' = {}
      BY <3>1, <3>2, SameGroup DEF Enter, HasLoaded
    <3> QED BY <2>2, <3>1, <3>3 DEF LoadedExactly
  <2>7. CASE EndGroup
    BY <2>2, <2>7 DEF EndGroup, LoadedExactly
  <2>8. CASE LoadBarrier
    <3>1. UNCHANGED <<prob, at, w, group, block, jumps, lds>>
      BY <2>8 DEF LoadBarrier
    <3>2. HasLoaded' \subseteq HasLoaded
      BY <2>8, <3>1, SameGroup DEF LoadBarrier, HasLoaded
    <3> QED BY <2>2, <3>1, <3>2, StaysLoaded DEF MInv
  <2>9. CASE at = "main" /\ \E item \in Items : Load(item) \/ Math(item) \/ Write(item)
    <3>1. PICK item \in Items : Load(item) \/ Math(item) \/ Write(item)
      BY <2>9
    <3>2. UNCHANGED <<prob, at, w, group, block, jumps>>
      BY <3>1 DEF Load, Math, Write
    <3>3. CASE Load(item)
      BY <2>2, <2>9, <3>2, <3>3, LoadsRight DEF MInv
    <3>4. CASE Math(item) \/ Write(item)
      <4>1. lds' = lds /\ block # "none" /\ DOMAIN pc = Items
        BY <3>4 DEF Math, Write, MInv, LInv, IInv, TypeOK
      <4>2. \/ pc[item] = "math" /\ pc' = [pc EXCEPT ![item] = "summed"]
            \/ pc' = [pc EXCEPT ![item] = "end"]
        BY <3>4 DEF Math, Write
      <4>3. HasLoaded' \subseteq HasLoaded
        BY <3>2, <4>1, <4>2, SameGroup DEF HasLoaded
      <4> QED BY <2>2, <3>2, <4>1, <4>3, StaysLoaded DEF MInv
    <3> QED BY <3>1, <3>3, <3>4
  <2>10. CASE Finished \/ UNCHANGED vars
    <3>1. UNCHANGED <<prob, at, w, group, block, jumps, pc, lds>>
      BY <2>10 DEF Finished, vars, groupVars
    <3>2. HasLoaded' \subseteq HasLoaded
      BY <3>1, SameGroup DEF HasLoaded
    <3> QED BY <2>2, <3>1, <3>2, StaysLoaded DEF MInv
  <2> QED BY <2>3, <2>4, <2>5, <2>6, <2>7, <2>8, <2>9, <2>10 DEF Next
<1> QED BY <1>1, <1>2, LoadingInvariance, PTL DEF Spec

---------------------------------------------------------------------------
(* What the registers of an item have.                                     *)

(* When an item sums, all have loaded, and what it reads for a row of its  *)
(* registers is the element that belongs there, or zero.                   *)
LEMMA ElementOfRow ==
  ASSUME MInv, at = "main", NEW item \in Items, block \in {"first", "full", "tail"}, pc[item] = "math",
         NEW x \in Chiral, NEW r \in RegisterRows(hp, x), NEW u \in 0 .. hp["C"]["UNR"] - 1
  PROVE  Read(lds[x], RegisterPlace(hp, x, item, u, r[1])) =
           IF Guarded(u) THEN AddressOf(prob, x, RowPlace(prob, Tile, item, x, r), Position(prob, Tile, Z, jumps, u))
           ELSE Zero
<1>1. LInv /\ IInv /\ group < MainWorkGroups(hp, g) /\ jumps \in Nat
  BY DEF MInv, LInv, IInv, InMain, TypeOK
<1>2. IsProblem(prob) /\ Derivable(prob.hp, prob.gg)
  BY <1>1, AtWork
<1>3. /\ item \in 0 .. WorkItems(prob.hp) - 1 /\ r \in RegisterRows(prob.hp, x)
      /\ u \in 0 .. prob.hp["C"]["UNR"] - 1 /\ prob.hp["C"]["UNR"] \in Nat /\ u \in Nat
  <2>1. prob.hp["C"]["UNR"] \in Nat
    BY <1>2, ProblemParts
  <2> QED BY <2>1 DEF Items, hp
<1> DEFINE micro == MicroId(prob.hp, item)[x]
           e == RowAt(prob, x, micro, r)
           PT == PaddedTile(prob.hp, x)
<1>4. micro \in 0 .. MacroGrid(prob.hp)[x] - 1
  BY <1>2, <1>3, ItemsOfGrid
<1>5. e \in 0 .. MacroTile(prob.hp, x) - 1
  <2> HIDE DEF micro
  <2> QED BY <1>2, <1>3, <1>4, RowsOfItem
<1>6. RegisterPlace(prob.hp, x, item, u, r[1]) = PT * u + e
  <2>1. micro \in Nat /\ item \in Int
    <3>1. MacroGrid(prob.hp)[x] \in Nat /\ WorkItems(prob.hp) \in Nat
      BY <1>2, DerivableParts, Tiled
    <3> QED BY <1>3, <1>4, <3>1
  <2>2. micro = MicroId(prob.hp, item)[x]
    OBVIOUS
  <2> HIDE DEF micro
  <2> QED BY <1>2, <1>3, <2>1, <2>2, RowsInMemory
<1>7. PICK other \in 0 .. WorkItems(prob.hp) - 1 :
        \E s \in Loads(prob.hp, prob.gg, prob.off, Tile, Z, other, x, jumps) : s.depth = u /\ s.to = PT * u + e
  <2>1. /\ IsProblem(prob) /\ Derivable(prob.hp, prob.gg) /\ x \in Chiral
        /\ u \in 0 .. prob.hp["C"]["UNR"] - 1 /\ e \in 0 .. MacroTile(prob.hp, x) - 1
    BY <1>2, <1>3, <1>5
  <2> HIDE DEF e
  <2>2. IsLoaded(prob, Tile, Z, jumps, x, u, e)
    BY <2>1, LoadsCover
  <2> QED BY <2>2 DEF IsLoaded
<1>8. PICK s \in Loads(prob.hp, prob.gg, prob.off, Tile, Z, other, x, jumps) : s.depth = u /\ s.to = PT * u + e
  BY <1>7
<1>9. other \in HasLoaded
  <2>1. other \in Items
    BY DEF Items, hp
  <2> QED BY <2>1 DEF MInv, Together, HasLoaded
<1>10. lds[x][s.to] = Element(x, s)
  BY <1>8, <1>9 DEF MInv, LoadedExactly, hp, g, off
<1>11. s.to \in DOMAIN lds[x]
  <2>1. s.to \in 0 .. ElementsInPaddedUnroll(prob.hp, x) - 1
    BY <1>2, LocalPlaces
  <2> QED BY <1>1, <2>1 DEF IInv, TypeOK, hp
<1>12. s.to % PT = e
  <2>1. s.to = PT * s.depth + e
    BY <1>8
  <2> HIDE DEF e
  <2> QED BY <1>2, <1>5, <2>1, AcrossOfPlace
<1>13. RowPlace(prob, Tile, item, x, r) = TileAt(prob, Tile, x) + e
  BY DEF RowPlace
<1>14. Element(x, s) = IF Guarded(u) THEN AddressOf(prob, x, TileAt(prob, Tile, x) + e, Position(prob, Tile, Z, jumps, u))
                       ELSE Zero
  BY <1>8, <1>12 DEF Element, hp
<1> HIDE DEF e, PT
<1>15. Read(lds[x], s.to) = Element(x, s)
  BY <1>10, <1>11 DEF Read
<1>16. RegisterPlace(hp, x, item, u, r[1]) = s.to
  BY <1>6, <1>8 DEF hp
<1> QED BY <1>13, <1>14, <1>15, <1>16

(* What of the summation an item that sums has in its block.               *)
DepthsNow == {d \in 0 .. hp["C"]["UNR"] - 1 : Summing(prob, Tile, Z, jumps, d)}
SummedNow == {Position(prob, Tile, Z, jumps, d) : d \in DepthsNow}

(* All but zeros are taken into the sums, and the tail has no more.        *)
LEMMA DepthsOfSums ==
  ASSUME MInv, at = "main", block \in {"first", "full", "tail"},
         NEW n, n = IF block = "tail" THEN KRemaining(hp, g, Tile) ELSE hp["C"]["UNR"]
  PROVE  /\ 0 .. n - 1 \subseteq 0 .. hp["C"]["UNR"] - 1
         /\ \A u \in 0 .. hp["C"]["UNR"] - 1 : u \in DepthsNow <=> u \in 0 .. n - 1 /\ Guarded(u)
<1> DEFINE unr == hp["C"]["UNR"]
           rest == KRemaining(hp, g, Tile)
<1>1. LInv /\ IInv /\ group < MainWorkGroups(hp, g)
  BY DEF MInv, LInv, IInv, InMain
<1>2. IsProblem(prob) /\ Tile["A"] \in Int /\ Tile["B"] \in Int
  <2>1. IsProblem(prob) /\ \A x \in Chiral : Tile[x] \in 0 .. NGroups(prob.hp, prob.gg, x) - 1
    BY <1>1, AtWork
  <2> QED BY <2>1 DEF Chiral
<1>3. unr \in Nat /\ unr > 0 /\ rest \in Nat /\ rest < unr
  <2>1. prob.hp["C"]["UNR"] \in Nat /\ prob.hp["C"]["UNR"] > 0 /\ prob.gg.k \in Nat
    BY <1>2, ProblemParts
  <2>2. UnrollOffset(prob.hp, Tile) \in Nat
    BY <1>2, OffsetOfUnrolls
  <2>3. EffectiveK(prob.hp, prob.gg, Tile) \in Int
    BY <2>1, <2>2 DEF EffectiveK
  <2>4. /\ EffectiveK(prob.hp, prob.gg, Tile) % prob.hp["C"]["UNR"] \in Nat
        /\ EffectiveK(prob.hp, prob.gg, Tile) % prob.hp["C"]["UNR"] < prob.hp["C"]["UNR"]
    BY <2>1, <2>3, DivMod
  <2> QED BY <2>1, <2>4 DEF KRemaining, hp, g
<1>4. \A u \in 0 .. unr - 1 : Guarded(u) <=> Summing(prob, Tile, Z, jumps, u)
  BY <1>1, GuardedDepths
<1>5. \A u \in 0 .. unr - 1 : u \in DepthsNow <=> Guarded(u)
  BY <1>4 DEF DepthsNow
<1>6. block = "tail" => \A u : Guarded(u) <=> u < rest
  BY DEF Guarded
<1>7. n = IF block = "tail" THEN rest ELSE unr
  OBVIOUS
<1> HIDE DEF unr, rest
<1>8. 0 .. n - 1 \subseteq 0 .. unr - 1 /\ n \in Nat
  BY <1>3, <1>7
<1>9. ASSUME NEW u \in 0 .. unr - 1 PROVE Guarded(u) => u \in 0 .. n - 1
  BY <1>3, <1>6, <1>7
<1> QED BY <1>5, <1>8, <1>9 DEF unr

(* What is known of the rows that an item has while it is at work.         *)
LEMMA RowsAtWork ==
  ASSUME MInv, at = "main", block # "none", NEW item \in Items, NEW x \in Chiral, NEW r \in RegisterRows(hp, x)
  PROVE  /\ IsProblem(prob) /\ Derivable(prob.hp, prob.gg) /\ Z \in 0 .. prob.hp["C"]["ICE"] - 1
         /\ IsTile(prob, Tile) /\ Tile["A"] \in Int /\ Tile["B"] \in Int /\ jumps \in Nat
         /\ WriteStart(hp, g, Tile, item, x) + r[2] = RowPlace(prob, Tile, item, x, r)
         /\ RowPlace(prob, Tile, item, x, r) \in 0 .. NonKDim(prob.gg, x) - 1
         /\ r[1] \in 0 .. hp[x]["MIC"] - 1 /\ r[2] \in Nat /\ r = <<r[1], r[2]>>
<1>1. LInv /\ IInv /\ group < MainWorkGroups(hp, g) /\ jumps \in Nat
  BY DEF MInv, LInv, IInv, InMain, TypeOK
<1>2. /\ IsProblem(prob) /\ Derivable(prob.hp, prob.gg) /\ Z \in 0 .. prob.hp["C"]["ICE"] - 1
      /\ \A y \in Chiral : Tile[y] \in 0 .. NGroups(prob.hp, prob.gg, y) - 1
  BY <1>1, AtWork
<1>3. IsTile(prob, Tile) /\ Tile["A"] \in Int /\ Tile["B"] \in Int
  BY <1>2 DEF IsTile, Chiral
<1>4. item \in 0 .. WorkItems(prob.hp) - 1 /\ r \in RegisterRows(prob.hp, x)
  BY DEF Items, hp
<1>5. /\ WriteStart(prob.hp, prob.gg, Tile, item, x) + r[2] = RowPlace(prob, Tile, item, x, r)
      /\ RowPlace(prob, Tile, item, x, r) \in 0 .. NonKDim(prob.gg, x) - 1
  BY <1>2, <1>4, RowsOfMatrix
<1>6. MicroId(prob.hp, item)[x] \in 0 .. MacroGrid(prob.hp)[x] - 1
  BY <1>2, <1>4, ItemsOfGrid
<1>7. r = <<r[1], r[2]>> /\ r[1] \in 0 .. prob.hp[x]["MIC"] - 1 /\ r[2] \in Nat
  BY <1>2, <1>4, <1>6, RowsOfItem
<1> QED BY <1>1, <1>2, <1>3, <1>5, <1>7 DEF hp, g

(* What an item adds to a register: the products of an element of C of all *)
(* that its group has of the summation in the block, each of them once.    *)
LEMMA SummandsAre ==
  ASSUME MInv, at = "main", NEW item \in Items, block \in {"first", "full", "tail"}, pc[item] = "math",
         NEW r \in RegisterRows(hp, "A"), NEW s \in RegisterRows(hp, "B")
  PROVE  Summands(item, r[1], s[1]) =
           SetToBag(ProductsOf(prob, RowPlace(prob, Tile, item, "A", r), RowPlace(prob, Tile, item, "B", s), SummedNow))
<1> DEFINE n == IF block = "tail" THEN KRemaining(hp, g, Tile) ELSE hp["C"]["UNR"]
           element(x, v, u) == Read(lds[x], RegisterPlace(hp, x, item, u, v))
           factors == [u \in 0 .. n - 1 |-> <<element("A", r[1], u), element("B", s[1], u)>>]
           nonzero == {u \in DOMAIN factors : Zero \notin {factors[u][1], factors[u][2]}}
           unr == hp["C"]["UNR"]
           i == RowPlace(prob, Tile, item, "A", r)
           j == RowPlace(prob, Tile, item, "B", s)
           pos(u) == Position(prob, Tile, Z, jumps, u)
           a(u) == AddressOf(prob, "A", i, pos(u))
           b(u) == AddressOf(prob, "B", j, pos(u))
<1>1. Summands(item, r[1], s[1]) = BagOf([u \in nonzero |-> Prod(factors[u][1], factors[u][2])])
  BY DEF Summands
<1>2. "A" \in Chiral /\ "B" \in Chiral
  BY DEF Chiral
<1>3. /\ IsProblem(prob) /\ Derivable(prob.hp, prob.gg) /\ Z \in 0 .. prob.hp["C"]["ICE"] - 1
      /\ Tile["A"] \in Int /\ Tile["B"] \in Int /\ jumps \in Nat
      /\ i \in 0 .. prob.gg.m - 1 /\ j \in 0 .. prob.gg.n - 1
  BY <1>2, RowsAtWork DEF NonKDim
<1>4. 0 .. n - 1 \subseteq 0 .. unr - 1 /\ \A u \in 0 .. unr - 1 : u \in DepthsNow <=> u \in 0 .. n - 1 /\ Guarded(u)
  BY DepthsOfSums
<1>5. \A u \in 0 .. unr - 1 : /\ element("A", r[1], u) = IF Guarded(u) THEN a(u) ELSE Zero
                              /\ element("B", s[1], u) = IF Guarded(u) THEN b(u) ELSE Zero
  BY <1>2, ElementOfRow
<1>6. DepthsNow \subseteq 0 .. unr - 1 /\ \A u \in DepthsNow : pos(u) \in 0 .. prob.gg.k - 1
  <2> SUFFICES ASSUME NEW u \in DepthsNow PROVE u \in 0 .. unr - 1 /\ pos(u) \in 0 .. prob.gg.k - 1
    OBVIOUS
  <2>1. u \in 0 .. unr - 1 /\ u \in 0 .. prob.hp["C"]["UNR"] - 1 /\ Summing(prob, Tile, Z, jumps, u)
    BY DEF DepthsNow, hp
  <2>2. Position(prob, Tile, Z, jumps, u) \in 0 .. prob.gg.k - 1
    BY <1>3, <2>1, StepsAreInside
  <2> QED BY <2>1, <2>2
<1>7. \A u \in DepthsNow : a(u) \in Nat /\ b(u) \in Nat
  <2> SUFFICES ASSUME NEW u \in DepthsNow PROVE a(u) \in Nat /\ b(u) \in Nat
    OBVIOUS
  <2> DEFINE d == pos(u)
  <2>1. d \in Nat /\ i \in Nat /\ j \in Nat
    BY <1>3, <1>6
  <2> HIDE DEF i, j, d
  <2>2. \A x \in Chiral, e \in Nat : AddressOf(prob, x, e, d) \in Nat
    <3> SUFFICES ASSUME NEW x \in Chiral, NEW e \in Nat PROVE AddressOf(prob, x, e, d) \in Nat
      OBVIOUS
    <3> DEFINE ld == prob.gg.ld[x]
               o == prob.off[x]
               along == IF x = "A" THEN (prob.gg.t[x] <=> prob.gg.cm) ELSE ~(prob.gg.t[x] <=> prob.gg.cm)
    <3>1. /\ ld \in Nat /\ o \in Nat
          /\ AddressOf(prob, x, e, d) = o + (IF along THEN e * ld + d ELSE e + d * ld)
      BY <1>3, <2>1, AddressByLayout
    <3> HIDE DEF ld, o, along
    <3>2. e * ld \in Nat /\ d * ld \in Nat
      BY <2>1, <3>1, Products
    <3> QED BY <2>1, <3>1, <3>2
  <2> QED BY <1>2, <2>1, <2>2 DEF d
<1>8. nonzero = DepthsNow
  <2> HIDE DEF n, unr, element, a, b
  <2>1. \A u \in 0 .. n - 1 : factors[u][1] = element("A", r[1], u) /\ factors[u][2] = element("B", s[1], u)
    OBVIOUS
  <2>2. DOMAIN factors = 0 .. n - 1
    OBVIOUS
  <2> HIDE DEF factors
  <2>3. \A u \in 0 .. n - 1 : u \in DepthsNow <=> Zero \notin {factors[u][1], factors[u][2]}
    <3> SUFFICES ASSUME NEW u \in 0 .. n - 1 PROVE u \in DepthsNow <=> Zero \notin {factors[u][1], factors[u][2]}
      OBVIOUS
    <3>1. u \in 0 .. unr - 1
      BY <1>4
    <3>2. CASE Guarded(u)
      <4>1. u \in DepthsNow /\ a(u) \in Nat /\ b(u) \in Nat
        BY <1>4, <1>7, <3>1, <3>2
      <4>2. factors[u][1] = a(u) /\ factors[u][2] = b(u)
        BY <1>5, <2>1, <3>1, <3>2
      <4> QED BY <4>1, <4>2 DEF Zero
    <3>3. CASE ~Guarded(u)
      <4>1. u \notin DepthsNow
        BY <1>4, <3>1, <3>3
      <4>2. factors[u][1] = Zero
        BY <1>5, <2>1, <3>1, <3>3
      <4> QED BY <4>1, <4>2
    <3> QED BY <3>2, <3>3
  <2>4. DepthsNow \subseteq 0 .. n - 1
    BY <1>4, <1>6
  <2> QED BY <2>2, <2>3, <2>4
<1> DEFINE f == [u \in DepthsNow |-> ProductAt(prob, i, j, pos(u))]
<1>9. [u \in nonzero |-> Prod(factors[u][1], factors[u][2])] = f
  <2> SUFFICES ASSUME NEW u \in DepthsNow PROVE Prod(factors[u][1], factors[u][2]) = ProductAt(prob, i, j, pos(u))
    <3> HIDE DEF nonzero, factors, i, j, pos
    <3> QED BY <1>8
  <2>1. u \in 0 .. n - 1 /\ u \in 0 .. unr - 1 /\ Guarded(u)
    BY <1>4, <1>6
  <2>2. factors[u][1] = a(u) /\ factors[u][2] = b(u)
    <3>1. factors[u][1] = element("A", r[1], u) /\ factors[u][2] = element("B", s[1], u)
      <4> HIDE DEF n, element
      <4> QED BY <2>1
    <3> HIDE DEF n, unr, element, factors, a, b
    <3> QED BY <1>5, <2>1, <3>1
  <2>3. ProductAt(prob, i, j, pos(u)) = Prod(a(u), b(u))
    BY DEF ProductAt
  <2> QED BY <2>2, <2>3
<1>10. Summands(item, r[1], s[1]) = BagOf(f)
  BY <1>1, <1>9
<1> HIDE DEF factors, nonzero, element, a, b, n
<1>11. \A u, v \in DepthsNow : f[u] = f[v] => u = v
  <2> SUFFICES ASSUME NEW u \in DepthsNow, NEW v \in DepthsNow, f[u] = f[v] PROVE u = v
    OBVIOUS
  <2>1. ProductAt(prob, i, j, pos(u)) = ProductAt(prob, i, j, pos(v))
    OBVIOUS
  <2>2. pos(u) \in 0 .. prob.gg.k - 1 /\ pos(v) \in 0 .. prob.gg.k - 1
    BY <1>6
  <2>3. pos(u) = pos(v)
    <3> HIDE DEF i, j, pos, f
    <3> QED BY <1>3, <2>1, <2>2, ProductsApart
  <2>4. KStart(hp, g, Tile, Z) + jumps * Jump(hp) \in Int
    BY <1>3, StartOfUnroll DEF hp, g
  <2>5. /\ pos(u) = KStart(hp, g, Tile, Z) + jumps * Jump(hp) + u
        /\ pos(v) = KStart(hp, g, Tile, Z) + jumps * Jump(hp) + v
    BY DEF Position, hp, g
  <2>6. u \in Int /\ v \in Int
    <3>1. unr \in Nat
      BY <1>3, ProblemParts DEF hp
    <3> HIDE DEF unr
    <3> QED BY <1>6, <3>1
  <2> DEFINE start == KStart(hp, g, Tile, Z) + jumps * Jump(hp)
  <2>7. start \in Int /\ start + u = start + v
    BY <2>3, <2>4, <2>5
  <2> HIDE DEF start
  <2> QED BY <2>6, <2>7
<1>12. BagOf(f) = SetToBag({f[u] : u \in DOMAIN f})
  <2> DOMAIN f = DepthsNow
    OBVIOUS
  <2> HIDE DEF f
  <2> QED BY <1>11, BagOfOnce
<1>13. {f[u] : u \in DOMAIN f} = ProductsOf(prob, i, j, SummedNow)
  <2> HIDE DEF i, j
  <2>1. {f[u] : u \in DOMAIN f} = {ProductAt(prob, i, j, pos(u)) : u \in DepthsNow}
    OBVIOUS
  <2>2. ProductsOf(prob, i, j, SummedNow) = {ProductAt(prob, i, j, d) : d \in {pos(u) : u \in DepthsNow}}
    BY DEF ProductsOf, SummedNow
  <2> HIDE DEF pos, f
  <2> QED BY <2>1, <2>2
<1> QED BY <1>10, <1>12, <1>13

(* What an item has summed depends on what its group is at, and on whether *)
(* it has summed in this block.                                            *)
LEMMA SameBehind ==
  ASSUME UNCHANGED <<prob, group, block, jumps>>, NEW i, pc'[i] = "summed" <=> pc[i] = "summed"
  PROVE  SummedBy(i)' = SummedBy(i)
<1>1. hp' = hp /\ g' = g /\ Tile' = Tile /\ Z' = Z
  BY SameGroup
<1>2. StepsBehind(i)' = StepsBehind(i)
  BY <1>1 DEF StepsBehind
<1> QED BY <1>1, <1>2 DEF SummedBy

(* A step that changes no registers, and after which as many have summed.  *)
LEMMA RegistersStay ==
  ASSUME SummedExactly, UNCHANGED <<prob, group, block, jumps, reg>>,
         block # "none" => \A i \in Items : pc'[i] = "summed" <=> pc[i] = "summed"
  PROVE  SummedExactly'
<1>1. hp' = hp /\ g' = g /\ Items' = Items /\ Tile' = Tile /\ Z' = Z
  BY SameGroup
<1>2. block # "none" => \A i \in Items : SummedBy(i)' = SummedBy(i)
  BY SameBehind
<1> QED BY <1>1, <1>2 DEF SummedExactly

(* What an item has summed is part of the summation.                       *)
LEMMA SummedInside ==
  ASSUME MInv, at = "main", block # "none", NEW i \in Items
  PROVE  SummedBy(i) \subseteq 0 .. prob.gg.k - 1
<1>1. LInv /\ IInv /\ group < MainWorkGroups(hp, g) /\ jumps \in Nat
  BY DEF MInv, LInv, IInv, InMain, TypeOK
<1>2. /\ IsProblem(prob) /\ Derivable(prob.hp, prob.gg) /\ Z \in 0 .. prob.hp["C"]["ICE"] - 1
      /\ \A y \in Chiral : Tile[y] \in 0 .. NGroups(prob.hp, prob.gg, y) - 1
  BY <1>1, AtWork
<1>3. Tile["A"] \in Int /\ Tile["B"] \in Int
  BY <1>2 DEF Chiral
<1>4. ASSUME NEW q \in StepsBehind(i) PROVE Position(prob, Tile, Z, q[1], q[2]) \in 0 .. prob.gg.k - 1
  <2>1. q \in (0 .. jumps) \X (0 .. hp["C"]["UNR"] - 1) /\ Summing(prob, Tile, Z, q[1], q[2])
    BY DEF StepsBehind
  <2>2. q[1] \in Nat /\ q[2] \in 0 .. prob.hp["C"]["UNR"] - 1
    BY <1>1, <2>1 DEF hp
  <2> QED BY <1>2, <1>3, <2>1, <2>2, StepsAreInside
<1> QED BY <1>4 DEF SummedBy

(* What an item sums in its block it has not summed before.                *)
LEMMA NotTwice ==
  ASSUME MInv, at = "main", NEW item \in Items, block \in {"first", "full", "tail"}, pc[item] = "math"
  PROVE  SummedBy(item) \cap SummedNow = {}
<1>1. LInv /\ IInv /\ group < MainWorkGroups(hp, g) /\ jumps \in Nat
  BY DEF MInv, LInv, IInv, InMain, TypeOK
<1>2. /\ IsProblem(prob) /\ Derivable(prob.hp, prob.gg) /\ Z \in 0 .. prob.hp["C"]["ICE"] - 1
      /\ \A y \in Chiral : Tile[y] \in 0 .. NGroups(prob.hp, prob.gg, y) - 1
  BY <1>1, AtWork
<1>3. Tile["A"] \in Int /\ Tile["B"] \in Int
  BY <1>2 DEF Chiral
<1>4. ASSUME NEW P \in SummedBy(item), P \in SummedNow PROVE FALSE
  <2>1. PICK q \in StepsBehind(item) : P = Position(prob, Tile, Z, q[1], q[2])
    BY DEF SummedBy
  <2>2. PICK d \in DepthsNow : P = Position(prob, Tile, Z, jumps, d)
    BY <1>4 DEF SummedNow
  <2>3. q \in (0 .. jumps) \X (0 .. hp["C"]["UNR"] - 1) /\ Summing(prob, Tile, Z, q[1], q[2]) /\ q[1] < jumps
    BY DEF StepsBehind
  <2>4. q[1] \in Nat /\ q[2] \in 0 .. prob.hp["C"]["UNR"] - 1
    BY <1>1, <2>3 DEF hp
  <2>5. d \in 0 .. prob.hp["C"]["UNR"] - 1 /\ Summing(prob, Tile, Z, jumps, d)
    BY DEF DepthsNow, hp
  <2>6. q[1] = jumps
    BY <1>1, <1>2, <1>3, <2>1, <2>2, <2>3, <2>4, <2>5, StepsAreApart
  <2> QED BY <1>1, <2>3, <2>4, <2>6
<1> QED BY <1>4

(* When an item sums, it has summed what it has of the block too.          *)
LEMMA SummedThen ==
  ASSUME IInv, at = "main", NEW item \in Items, Math(item)
  PROVE  SummedBy(item)' = SummedBy(item) \cup SummedNow
<1>1. /\ block \in {"first", "full", "tail"} /\ pc[item] = "math" /\ pc' = [pc EXCEPT ![item] = "summed"]
      /\ UNCHANGED <<prob, group, block, jumps>> /\ DOMAIN pc = Items /\ jumps \in Nat
  BY DEF Math, IInv, TypeOK
<1>2. hp' = hp /\ g' = g /\ Tile' = Tile /\ Z' = Z
  BY <1>1, SameGroup
<1> DEFINE steps == (0 .. jumps) \X (0 .. hp["C"]["UNR"] - 1)
           Summed(q) == Summing(prob, Tile, Z, q[1], q[2])
           pos(q) == Position(prob, Tile, Z, q[1], q[2])
<1>3. StepsBehind(item) = {q \in steps : Summed(q) /\ q[1] < jumps}
  BY <1>1 DEF StepsBehind
<1>4. StepsBehind(item)' = {q \in steps : Summed(q)}
  <2>1. pc'[item] = "summed"
    BY <1>1
  <2> QED BY <1>1, <1>2, <2>1 DEF StepsBehind
<1>5. SummedBy(item) = {pos(q) : q \in {r \in steps : Summed(r) /\ r[1] < jumps}}
  BY <1>3 DEF SummedBy
<1>6. SummedBy(item)' = {pos(q) : q \in {r \in steps : Summed(r)}}
  BY <1>1, <1>2, <1>4 DEF SummedBy
<1>7. ASSUME NEW q \in steps, Summed(q), ~(q[1] < jumps) PROVE pos(q) \in SummedNow
  <2>1. q[1] = jumps /\ q[2] \in 0 .. hp["C"]["UNR"] - 1
    BY <1>1, <1>7
  <2>2. q[2] \in DepthsNow
    BY <1>7, <2>1 DEF DepthsNow
  <2> QED BY <2>1, <2>2 DEF SummedNow
<1>8. ASSUME NEW d \in DepthsNow
      PROVE  <<jumps, d>> \in steps /\ Summed(<<jumps, d>>) /\ pos(<<jumps, d>>) = Position(prob, Tile, Z, jumps, d)
  <2>1. d \in 0 .. hp["C"]["UNR"] - 1 /\ Summing(prob, Tile, Z, jumps, d) /\ jumps \in 0 .. jumps
    BY <1>1 DEF DepthsNow
  <2> QED BY <2>1
<1>9. SummedNow = {Position(prob, Tile, Z, jumps, d) : d \in DepthsNow}
  BY DEF SummedNow
<1> HIDE DEF steps, Summed, pos
<1>10. SummedBy(item)' \subseteq SummedBy(item) \cup SummedNow
  BY <1>5, <1>6, <1>7
<1>11. SummedBy(item) \subseteq SummedBy(item)'
  BY <1>5, <1>6
<1>12. SummedNow \subseteq SummedBy(item)'
  BY <1>6, <1>8, <1>9
<1> QED BY <1>10, <1>11, <1>12

(* An item sums: its registers then have the products of the block too.    *)
LEMMA SumsExactly ==
  ASSUME MInv, SummedExactly, at = "main", NEW item \in Items, Math(item)
  PROVE  SummedExactly'
<1>1. /\ block \in {"first", "full", "tail"} /\ pc[item] = "math" /\ pc' = [pc EXCEPT ![item] = "summed"]
      /\ reg' = [reg EXCEPT ![item] = [r \in DOMAIN @ |-> @[r] (+) Summands(item, r[1], r[2])]]
      /\ UNCHANGED <<prob, group, block, jumps>>
  BY DEF Math
<1>2. IInv /\ DOMAIN pc = Items /\ DOMAIN reg = Items
  BY <1>1 DEF MInv, LInv, IInv, TypeOK, SummedExactly
<1>3. hp' = hp /\ g' = g /\ Items' = Items /\ Tile' = Tile /\ Z' = Z
  BY <1>1, SameGroup
<1> DEFINE regs == (0 .. hp["A"]["MIC"] - 1) \X (0 .. hp["B"]["MIC"] - 1)
           at2(i, r, s, D) == ProductsOf(prob, WriteStart(hp, g, Tile, i, "A") + r[2],
                                               WriteStart(hp, g, Tile, i, "B") + s[2], D)
<1>4. \A i \in Items : DOMAIN reg[i] = regs
  BY <1>1 DEF SummedExactly
<1>5. \A i \in Items : \A r \in RegisterRows(hp, "A"), s \in RegisterRows(hp, "B") :
        reg[i][<<r[1], s[1]>>] = SetToBag(at2(i, r, s, SummedBy(i)))
  BY <1>1 DEF SummedExactly
<1>6. /\ DOMAIN reg' = Items /\ \A i \in Items : i # item => reg'[i] = reg[i]
      /\ reg'[item] = [r \in regs |-> reg[item][r] (+) Summands(item, r[1], r[2])]
  BY <1>1, <1>2, <1>4
<1>7. \A i \in Items : DOMAIN reg'[i] = regs
  BY <1>4, <1>6
<1>8. \A i \in Items : i # item => SummedBy(i)' = SummedBy(i)
  <2> SUFFICES ASSUME NEW i \in Items, i # item PROVE SummedBy(i)' = SummedBy(i)
    OBVIOUS
  <2>1. pc'[i] = pc[i]
    BY <1>1, <1>2
  <2> QED BY <1>1, <2>1, SameBehind
<1>9. ASSUME NEW r \in RegisterRows(hp, "A"), NEW s \in RegisterRows(hp, "B")
      PROVE  reg'[item][<<r[1], s[1]>>] = SetToBag(at2(item, r, s, SummedBy(item)'))
  <2> DEFINE i == WriteStart(hp, g, Tile, item, "A") + r[2]
             j == WriteStart(hp, g, Tile, item, "B") + s[2]
             P(D) == ProductsOf(prob, i, j, D)
  <2>1. "A" \in Chiral /\ "B" \in Chiral
    BY DEF Chiral
  <2>2. /\ IsProblem(prob) /\ i = RowPlace(prob, Tile, item, "A", r) /\ j = RowPlace(prob, Tile, item, "B", s)
        /\ i \in 0 .. prob.gg.m - 1 /\ <<r[1], s[1]>> \in regs
    BY <1>1, <2>1, RowsAtWork DEF NonKDim
  <2>3. Summands(item, r[1], s[1]) = SetToBag(P(SummedNow))
    BY <1>1, <2>2, SummandsAre
  <2>4. reg'[item][<<r[1], s[1]>>] = SetToBag(P(SummedBy(item))) (+) SetToBag(P(SummedNow))
    <3>1. reg'[item][<<r[1], s[1]>>] = reg[item][<<r[1], s[1]>>] (+) Summands(item, r[1], s[1])
      <4> HIDE DEF regs
      <4> QED BY <1>6, <2>2
    <3>2. reg[item][<<r[1], s[1]>>] = SetToBag(P(SummedBy(item)))
      BY <1>5
    <3> QED BY <2>3, <3>1, <3>2
  <2>5. SummedNow \subseteq 0 .. prob.gg.k - 1 /\ SummedBy(item) \subseteq 0 .. prob.gg.k - 1
    <3>1. SummedBy(item) \subseteq 0 .. prob.gg.k - 1
      BY <1>1, SummedInside
    <3>2. ASSUME NEW d \in DepthsNow PROVE Position(prob, Tile, Z, jumps, d) \in 0 .. prob.gg.k - 1
      <4>1. /\ Derivable(prob.hp, prob.gg) /\ Z \in 0 .. prob.hp["C"]["ICE"] - 1
            /\ Tile["A"] \in Int /\ Tile["B"] \in Int /\ jumps \in Nat
        BY <1>1, <2>1, RowsAtWork
      <4>2. d \in 0 .. prob.hp["C"]["UNR"] - 1 /\ Summing(prob, Tile, Z, jumps, d)
        BY DEF DepthsNow, hp
      <4> QED BY <2>2, <4>1, <4>2, StepsAreInside
    <3> QED BY <3>1, <3>2 DEF SummedNow
  <2> HIDE DEF i, j
  <2>6. P(SummedBy(item)) \cap P(SummedNow) = {}
    <3>1. SummedBy(item) \cap SummedNow = {}
      BY <1>1, NotTwice
    <3>2. ASSUME NEW d \in SummedBy(item), NEW f \in SummedNow, ProductAt(prob, i, j, d) = ProductAt(prob, i, j, f)
          PROVE  FALSE
      <4>1. d \in 0 .. prob.gg.k - 1 /\ f \in 0 .. prob.gg.k - 1
        BY <2>5
      <4>2. d = f
        BY <2>2, <3>2, <4>1, ProductsApart
      <4> QED BY <3>1, <4>2
    <3> QED BY <3>2 DEF ProductsOf
  <2>7. P(SummedBy(item)) \cup P(SummedNow) = P(SummedBy(item) \cup SummedNow)
    BY DEF ProductsOf
  <2> HIDE DEF P
  <2>8. reg'[item][<<r[1], s[1]>>] = SetToBag(P(SummedBy(item) \cup SummedNow))
    BY <2>4, <2>6, <2>7, DisjointBags
  <2>9. SummedBy(item)' = SummedBy(item) \cup SummedNow
    BY <1>2, SummedThen
  <2> QED BY <2>8, <2>9 DEF P, i, j
<1>10. ASSUME NEW i \in Items, NEW r \in RegisterRows(hp, "A"), NEW s \in RegisterRows(hp, "B")
       PROVE  reg'[i][<<r[1], s[1]>>] = SetToBag(at2(i, r, s, SummedBy(i)'))
  <2> HIDE DEF at2, regs
  <2>1. CASE i = item
    BY <2>1, <1>9
  <2>2. CASE i # item
    <3>1. reg'[i] = reg[i] /\ SummedBy(i)' = SummedBy(i)
      BY <2>2, <1>6, <1>8
    <3>2. reg[i][<<r[1], s[1]>>] = SetToBag(at2(i, r, s, SummedBy(i)))
      BY <1>5
    <3> QED BY <3>1, <3>2
  <2> QED BY <2>1, <2>2
<1>11. /\ DOMAIN reg' = Items
       /\ \A i \in Items :
            /\ DOMAIN reg'[i] = regs
            /\ \A r \in RegisterRows(hp, "A"), s \in RegisterRows(hp, "B") :
                 reg'[i][<<r[1], s[1]>>] = SetToBag(at2(i, r, s, SummedBy(i)'))
  <2> HIDE DEF at2, regs
  <2> QED BY <1>6, <1>7, <1>10
<1> QED BY <1>1, <1>3, <1>11 DEF SummedExactly

(* After the last of its unrolls a group has nothing to sum without a tail. *)
LEMMA NoMoreSteps ==
  ASSUME NEW n, ~(n < UnrollsRemaining(hp, g, Tile, Z)), ~HasTail(hp, g, Tile, Z),
         HasFirst(hp, Z) => n # 0, NEW d
  PROVE  ~Summing(prob, Tile, Z, n, d)
  BY DEF Summing, hp, g

(* A group starts with empty registers, and has summed nothing.            *)
LEMMA StartsEmpty ==
  ASSUME LInv, StartGroup
  PROVE  SummedExactly' /\ AllSummed'
<1> DEFINE b == IF HasFirst(hp, Z) THEN "first" ELSE NextBlock("none", left')
           regs == (0 .. hp["A"]["MIC"] - 1) \X (0 .. hp["B"]["MIC"] - 1)
<1>1. /\ at = "main" /\ block = "none" /\ group < MainWorkGroups(hp, g)
      /\ left' = UnrollsRemaining(hp, g, Tile, Z) /\ jumps' = 0 /\ Enter(b)
      /\ reg' = [i \in Items |-> [r \in regs |-> EmptyBag]]
      /\ prob' = prob /\ group' = group
  BY DEF StartGroup
<1>2. hp' = hp /\ g' = g /\ Items' = Items /\ Tile' = Tile /\ Z' = Z
  BY <1>1, SameGroup
<1>3. left' \in Nat
  <2>1. IsProblem(prob) /\ Derivable(prob.hp, prob.gg) /\ Z \in 0 .. prob.hp["C"]["ICE"] - 1
        /\ \A x \in Chiral : Tile[x] \in 0 .. NGroups(prob.hp, prob.gg, x) - 1
    BY <1>1, AtWork DEF LInv
  <2>2. Tile["A"] \in Int /\ Tile["B"] \in Int /\ Z \in Nat
    BY <2>1 DEF Chiral
  <2> QED BY <1>1, <2>1, <2>2, UnrollsAreCounted DEF hp, g
<1>4. b = "write" => left' = 0 /\ ~HasFirst(hp, Z) /\ ~HasTail(hp, g, Tile, Z)
  BY <1>3 DEF NextBlock
<1> HIDE DEF b
<1>5. block' = b /\ pc' = [i \in Items |-> IF b = "write" THEN "write" ELSE "load"]
  BY <1>1 DEF Enter
<1>6. ASSUME NEW i \in Items PROVE SummedBy(i)' = {}
  <2>1. StepsBehind(i)' = {r \in (0 .. 0) \X (0 .. hp["C"]["UNR"] - 1) :
                             Summing(prob, Tile, Z, r[1], r[2]) /\ (r[1] < 0 \/ b = "write" \/ pc'[i] = "summed")}
    BY <1>1, <1>2, <1>5 DEF StepsBehind
  <2>2. pc'[i] # "summed"
    BY <1>5
  <2>3. ASSUME NEW r \in (0 .. 0) \X (0 .. hp["C"]["UNR"] - 1), Summing(prob, Tile, Z, r[1], r[2]) PROVE b # "write"
    <3>1. r[1] = 0
      OBVIOUS
    <3>2. b = "write" => ~(r[1] < UnrollsRemaining(hp, g, Tile, Z))
      BY <1>1, <1>3, <1>4, <3>1
    <3> QED BY <1>4, <2>3, <3>2, NoMoreSteps
  <2>4. StepsBehind(i)' = {}
    <3>1. \A r \in (0 .. 0) \X (0 .. hp["C"]["UNR"] - 1) : ~(r[1] < 0)
      OBVIOUS
    <3> QED BY <2>1, <2>2, <2>3, <3>1
  <2> QED BY <2>4 DEF SummedBy
<1>7. ASSUME NEW i \in Items, NEW r \in RegisterRows(hp, "A"), NEW s \in RegisterRows(hp, "B")
      PROVE  reg'[i][<<r[1], s[1]>>] =
               SetToBag(ProductsOf(prob, WriteStart(hp, g, Tile, i, "A") + r[2],
                                         WriteStart(hp, g, Tile, i, "B") + s[2], SummedBy(i)'))
  <2>1. /\ IsProblem(prob) /\ Derivable(prob.hp, prob.gg) /\ "A" \in Chiral /\ "B" \in Chiral
        /\ \A x \in Chiral : MicroId(prob.hp, i)[x] \in 0 .. MacroGrid(prob.hp)[x] - 1
    <3>1. IsProblem(prob) /\ Derivable(prob.hp, prob.gg)
      BY <1>1, AtWork DEF LInv
    <3> QED BY <3>1, ItemsOfGrid DEF Chiral, Items, hp
  <2>2. r[1] \in 0 .. hp["A"]["MIC"] - 1 /\ s[1] \in 0 .. hp["B"]["MIC"] - 1
    BY <2>1, RowsOfItem DEF hp
  <2>3. reg'[i][<<r[1], s[1]>>] = EmptyBag
    BY <1>1, <2>2
  <2>4. \A e, f : ProductsOf(prob, e, f, {}) = {}
    BY DEF ProductsOf
  <2> QED BY <1>6, <2>3, <2>4, NoBag
<1>8. /\ DOMAIN reg' = Items
      /\ \A i \in Items : DOMAIN reg'[i] = regs
  BY <1>1
<1>9. SummedExactly'
  BY <1>1, <1>2, <1>7, <1>8 DEF SummedExactly
<1>10. AllSummed'
  BY <1>1, <1>2, <1>4, <1>5 DEF AllSummed
<1> QED BY <1>9, <1>10

(* Past the barrier after the sums all of the block is behind the items,   *)
(* and a group that then writes has no more unrolls.                       *)
LEMMA SumsAreBehind ==
  ASSUME LInv, SummedExactly, MathBarrier
  PROVE  SummedExactly' /\ AllSummed'
<1> DEFINE b == NextBlock(block, left')
           R == UnrollsRemaining(hp, g, Tile, Z)
           tail == HasTail(hp, g, Tile, Z)
           depths == 0 .. hp["C"]["UNR"] - 1
<1>1. /\ block # "none" /\ \A i \in Items : pc[i] = "summed"
      /\ left' = IF block = "tail" THEN left ELSE left - 1
      /\ jumps' = IF block = "tail" THEN jumps ELSE jumps + 1
      /\ Enter(b) /\ UNCHANGED <<prob, at, group, reg>>
  BY DEF MathBarrier
<1>2. hp' = hp /\ g' = g /\ Items' = Items /\ Tile' = Tile /\ Z' = Z
  BY <1>1, SameGroup
<1>3. at = "main" /\ block \in Blocks /\ left \in Nat /\ jumps \in Nat /\ UnrollsLeft
  BY <1>1 DEF LInv, IInv, InMain, TypeOK
<1>4. block \in {"first", "full", "tail"}
  <2>1. 0 \in Items
    BY <1>3, Running DEF LInv, IInv
  <2> QED BY <1>1, <1>3, <2>1 DEF LInv, IInv, BetweenBarriers, Blocks
<1>5. left' \in Nat /\ (block = "tail" => left' = 0)
  BY <1>1, <1>3, <1>4 DEF UnrollsLeft
<1>6. /\ b # "none" /\ (block = "tail" => b = "write")
      /\ b = "write" => left' = 0 /\ (block # "tail" => ~tail)
  BY <1>5 DEF NextBlock
<1>7. /\ block \in {"first", "full"} => jumps + left = R
      /\ block = "tail" => jumps = R
  BY DEF LInv, Jumping
<1> HIDE DEF b, R, tail
<1>8. block' = b /\ pc' = [i \in Items |-> IF b = "write" THEN "write" ELSE "load"]
  BY <1>1 DEF Enter
<1>9. b = "write" => jumps' = R
  BY <1>1, <1>3, <1>4, <1>5, <1>6, <1>7
<1>10. ASSUME NEW i \in Items PROVE SummedBy(i)' = SummedBy(i)
  <2> DEFINE Summed(r) == Summing(prob, Tile, Z, r[1], r[2])
  <2>1. StepsBehind(i) = {r \in (0 .. jumps) \X depths : Summed(r)}
    BY <1>1 DEF StepsBehind
  <2>2. StepsBehind(i)' = {r \in (0 .. jumps') \X depths : Summed(r) /\ (r[1] < jumps' \/ b = "write")}
    <3>1. pc'[i] # "summed"
      BY <1>8
    <3> QED BY <1>1, <1>2, <1>8, <3>1 DEF StepsBehind
  <2>3. ASSUME NEW r \in (0 .. jumps') \X depths, Summed(r), r[1] < jumps' \/ b = "write"
        PROVE  r \in (0 .. jumps) \X depths
    <3>1. r[1] \in 0 .. jumps' /\ r[2] \in depths /\ r = <<r[1], r[2]>>
      BY <2>3
    <3>2. r[1] \in 0 .. jumps
      <4>1. CASE block = "tail"
        BY <1>1, <3>1, <4>1
      <4>2. CASE block # "tail" /\ r[1] < jumps'
        BY <1>1, <1>3, <3>1, <4>2
      <4>3. CASE block # "tail" /\ ~(r[1] < jumps')
        <5>1. b = "write" /\ jumps' = R /\ ~tail /\ r[1] = jumps' /\ jumps' = jumps + 1
          BY <1>1, <1>3, <1>6, <1>9, <2>3, <3>1, <4>3
        <5>2. ~(r[1] < R) /\ r[1] # 0
          BY <1>3, <5>1
        <5> QED BY <2>3, <5>1, <5>2, NoMoreSteps DEF R, tail
      <4> QED BY <4>1, <4>2, <4>3
    <3> QED BY <3>1, <3>2
  <2>4. ASSUME NEW r \in (0 .. jumps) \X depths
        PROVE  r \in (0 .. jumps') \X depths /\ (r[1] < jumps' \/ b = "write")
    <3>1. r[1] \in 0 .. jumps /\ r[2] \in depths /\ r = <<r[1], r[2]>>
      OBVIOUS
    <3>2. r[1] \in 0 .. jumps' /\ (r[1] < jumps' \/ b = "write")
      BY <1>1, <1>3, <1>6, <3>1
    <3> QED BY <3>1, <3>2
  <2> HIDE DEF Summed, depths
  <2>5. StepsBehind(i)' = StepsBehind(i)
    BY <2>1, <2>2, <2>3, <2>4
  <2> QED BY <1>1, <1>2, <2>5 DEF SummedBy
<1>11. SummedExactly'
  BY <1>1, <1>2, <1>6, <1>8, <1>10 DEF SummedExactly
<1>12. AllSummed'
  BY <1>2, <1>8, <1>9 DEF AllSummed, R
<1> QED BY <1>11, <1>12

(* Initially.                                                              *)
LEMMA SumsStart == Init => SInv
<1> SUFFICES ASSUME Init PROVE SummedExactly /\ AllSummed
  BY MemoryStarts DEF SInv
<1>1. block = "none"
  BY DEF Init
<1> QED BY <1>1 DEF SummedExactly, AllSummed

(* Invariance: the registers of an item have every product of what it has  *)
(* summed, once, and who writes has summed all of its share.               *)
THEOREM SumsInvariance == Spec => []SInv
<1>1. Init => SInv
  BY SumsStart
<1>2. SInv /\ MInv' /\ [Next]_vars => SInv'
  <2> SUFFICES ASSUME SInv, MInv', [Next]_vars PROVE SummedExactly' /\ AllSummed'
    BY DEF SInv
  <2>0. MInv /\ LInv /\ IInv /\ SummedExactly /\ AllSummed
    BY DEF SInv, MInv, LInv
  <2>1. at # "main" => block = "none"
    BY <2>0 DEF IInv, InMain
  <2>2. ASSUME block' = "none" PROVE SummedExactly' /\ AllSummed'
    BY <2>2 DEF SummedExactly, AllSummed
  <2>3. ASSUME UNCHANGED <<prob, group, block, jumps>> PROVE AllSummed'
    BY <2>0, <2>3, SameGroup DEF AllSummed
  <2>4. CASE Derive \/ Fill \/ Pack \/ ScaleC \/ EndMain \/ Compare
    BY <2>1, <2>2, <2>4 DEF Derive, Fill, Pack, ScaleC, EndMain, Compare, groupVars
  <2>5. CASE StartGroup
    BY <2>0, <2>5, StartsEmpty
  <2>6. CASE MathBarrier
    BY <2>0, <2>6, SumsAreBehind
  <2>7. CASE EndGroup
    BY <2>2, <2>7 DEF EndGroup
  <2>8. CASE LoadBarrier
    <3>1. UNCHANGED <<prob, group, block, jumps, reg>>
      BY <2>8 DEF LoadBarrier
    <3>2. \A i \in Items : pc'[i] = "summed" <=> pc[i] = "summed"
      BY <2>8 DEF LoadBarrier
    <3> QED BY <2>0, <2>3, <3>1, <3>2, RegistersStay
  <2>9. CASE at = "main" /\ \E item \in Items : Load(item) \/ Math(item) \/ Write(item)
    <3>1. PICK item \in Items : Load(item) \/ Math(item) \/ Write(item)
      BY <2>9
    <3>2. UNCHANGED <<prob, group, block, jumps>>
      BY <3>1 DEF Load, Math, Write
    <3>3. CASE Math(item)
      BY <2>0, <2>3, <2>9, <3>2, <3>3, SumsExactly
    <3>4. CASE Load(item) \/ Write(item)
      <4>1. reg' = reg /\ block # "none" /\ DOMAIN pc = Items
        BY <2>0, <3>4 DEF Load, Write, IInv, TypeOK
      <4>2. \/ pc[item] = "load" /\ pc' = [pc EXCEPT ![item] = "loaded"]
            \/ pc[item] = "write" /\ pc' = [pc EXCEPT ![item] = "end"]
        BY <3>4 DEF Load, Write
      <4>3. \A i \in Items : pc'[i] = "summed" <=> pc[i] = "summed"
        BY <4>1, <4>2
      <4> QED BY <2>0, <2>3, <3>2, <4>1, <4>3, RegistersStay
    <3> QED BY <3>1, <3>3, <3>4
  <2>10. CASE Finished \/ UNCHANGED vars
    <3>1. UNCHANGED <<prob, group, block, jumps, reg, pc>>
      BY <2>10 DEF Finished, vars, groupVars
    <3> QED BY <2>0, <2>3, <3>1, RegistersStay
  <2> QED BY <2>4, <2>5, <2>6, <2>7, <2>8, <2>9, <2>10 DEF Next
<1> QED BY <1>1, <1>2, MemoryInvariance, PTL DEF Spec

---------------------------------------------------------------------------
(* What C has.                                                             *)

(* The kernel of beta scales the elements of C, and no padding.            *)
LEMMA ScalesElements ==
  ASSUME NEW p, IsProblem(p), NEW i
  PROVE  BetacItems(p.gg, p.off, i) # {} <=> \E cell \in Cells(p) : i = CAddress(p, cell[1], cell[2])
<1> DEFINE line == Coal(p.gg, "C")
           lines == Uncoal(p.gg, "C")
           n == CeilDiv(line, BetacWorkPerThread) * lines
           items == ByLineItems(p.gg, "C", BetacWorkPerThread, BetacLocalWorkSize)
           place(a, b) == p.off["C"] + a * p.gg.ld["C"] + b
<1>1. line \in Nat /\ lines \in Nat /\ p.gg.ld["C"] \in Nat /\ p.off["C"] \in Nat
  BY CellLayout
<1>2. BetacWorkPerThread \in Nat /\ BetacWorkPerThread > 0
  BY DEF BetacWorkPerThread
<1>3. n \in Nat
  <2>1. CeilDiv(line, BetacWorkPerThread) \in Nat
    BY <1>1, <1>2, DivMod DEF CeilDiv
  <2> QED BY <1>1, <2>1, Products
<1>4. items \subseteq Nat /\ 0 .. n - 1 \subseteq items
  <2> DEFINE q == n \div BetacLocalWorkSize
             r == n % BetacLocalWorkSize
  <2>1. q \in Nat /\ r \in Nat /\ r < BetacLocalWorkSize /\ n = 256 * q + r
    BY <1>3, DivMod DEF BetacLocalWorkSize
  <2>2. GroupsOf(n, BetacLocalWorkSize) = q + (IF r # 0 THEN 1 ELSE 0)
    BY DEF GroupsOf, CeilDiv
  <2>3. items = 0 .. GroupsOf(n, BetacLocalWorkSize) * 256 - 1
    BY DEF ByLineItems, BetacLocalWorkSize
  <2> HIDE DEF q, r, n, items
  <2> QED BY <1>3, <2>1, <2>2, <2>3 DEF BetacLocalWorkSize
<1>5. BetacItems(p.gg, p.off, i) # {} <=>
        \E id \in items : \E cell \in ByLine(p.gg, "C", BetacWorkPerThread, id) : i = place(cell[1], cell[2])
  BY DEF BetacItems
<1>6. \A a \in Nat, b \in Nat : place(a, b) = p.off["C"] + (p.gg.ld["C"] * a + b)
  <2> SUFFICES ASSUME NEW a \in Nat, NEW b \in Nat PROVE place(a, b) = p.off["C"] + (p.gg.ld["C"] * a + b)
    OBVIOUS
  <2>1. p.gg.ld["C"] * a \in Nat /\ a * p.gg.ld["C"] = p.gg.ld["C"] * a
    BY <1>1, Products
  <2> QED BY <1>1, <2>1
<1> HIDE DEF n, items, place
<1>7. ASSUME NEW id \in items, NEW cell \in ByLine(p.gg, "C", BetacWorkPerThread, id), i = place(cell[1], cell[2])
      PROVE  \E q \in Cells(p) : i = CAddress(p, q[1], q[2])
  <2>1. cell[1] \in 0 .. lines - 1 /\ cell[2] \in 0 .. line - 1
    BY <1>1, <1>2, <1>4, CellsOfLine
  <2>2. PICK q \in Cells(p) : CellLine(p, q) = cell[1] /\ CellPlace(p, q) = cell[2]
    BY <2>1, CellsAreLaidOut
  <2>3. AtCell(p, q) = p.off["C"] + (p.gg.ld["C"] * cell[1] + cell[2])
    BY <2>2, CellsAreLaidOut
  <2>4. cell[1] \in Nat /\ cell[2] \in Nat
    BY <1>1, <2>1
  <2>5. i = AtCell(p, q)
    BY <1>6, <1>7, <2>3, <2>4
  <2> QED BY <2>5 DEF AtCell
<1>8. ASSUME NEW q \in Cells(p), i = CAddress(p, q[1], q[2])
      PROVE  \E id \in items : \E cell \in ByLine(p.gg, "C", BetacWorkPerThread, id) : i = place(cell[1], cell[2])
  <2> DEFINE a == CellLine(p, q)
             b == CellPlace(p, q)
  <2>1. a \in 0 .. lines - 1 /\ b \in 0 .. line - 1 /\ AtCell(p, q) = p.off["C"] + (p.gg.ld["C"] * a + b)
    BY CellsAreLaidOut
  <2> HIDE DEF a, b
  <2>2. PICK id \in 0 .. n - 1 : <<a, b>> \in ByLine(p.gg, "C", BetacWorkPerThread, id)
    BY <1>1, <1>2, <2>1, LinesAreCovered DEF n
  <2>3. a \in Nat /\ b \in Nat
    BY <1>1, <2>1
  <2>4. i = place(a, b)
    BY <1>6, <1>8, <2>1, <2>3 DEF AtCell
  <2>5. id \in items
    BY <1>4
  <2>6. <<a, b>>[1] = a /\ <<a, b>>[2] = b
    OBVIOUS
  <2> QED BY <2>2, <2>4, <2>5, <2>6
<1> QED BY <1>5, <1>7, <1>8

(* A group's tile has nothing else to it than where it is.                 *)
LEMMA TileByPlace ==
  ASSUME NEW p, IsProblem(p), NEW id, NEW other,
         TileOf(p.hp, p.gg, id)["A"] = TileOf(p.hp, p.gg, other)["A"],
         TileOf(p.hp, p.gg, id)["B"] = TileOf(p.hp, p.gg, other)["B"]
  PROVE  TileOf(p.hp, p.gg, id) = TileOf(p.hp, p.gg, other)
<1>1. p.hp["C"]["GAL"] \in {BYROW, BYCOL, SUCOL} /\ BYROW # BYCOL /\ BYROW # SUCOL /\ BYCOL # SUCOL
  BY DEF IsProblem, BYROW, BYCOL, SUCOL
<1>2. \A v : \E a, b : Numbered(p, v) = [A |-> a, B |-> b]
  <2> SUFFICES ASSUME NEW v PROVE \E a, b : Numbered(p, v) = [A |-> a, B |-> b]
    OBVIOUS
  <2>1. \E a, b : Strips(NGroups(p.hp, p.gg, "A"), NGroups(p.hp, p.gg, "B"), SuperColumnWidth(p.hp), v) = [A |-> a, B |-> b]
    BY DEF Strips
  <2> QED BY <1>1, <2>1 DEF Numbered
<1>3. PICK a, b : TileOf(p.hp, p.gg, id) = [A |-> a, B |-> b]
  BY <1>2, TileIsNumbered
<1>4. PICK e, f : TileOf(p.hp, p.gg, other) = [A |-> e, B |-> f]
  BY <1>2, TileIsNumbered
<1> QED BY <1>3, <1>4

(* What a work group has of the summation.                                 *)
PartOf(p, id) == Share(p, TileOf(p.hp, p.gg, id), GroupZ(p.hp, p.gg, id))

(* The groups that have an element of C in their tile share its summation  *)
(* among them.                                                             *)
LEMMA PartsOfCell ==
  ASSUME NEW p, IsProblem(p), Derivable(p.hp, p.gg), Fits(p), NEW cell \in Cells(p)
  PROVE  LET ids == 0 .. MainWorkGroups(p.hp, p.gg) - 1 IN
         /\ \A id \in ids : PartOf(p, id) \subseteq 0 .. p.gg.k - 1
         /\ \A id, other \in ids : HasTile(p, id, cell) /\ HasTile(p, other, cell) /\ id # other =>
              PartOf(p, id) \cap PartOf(p, other) = {} /\ GroupZ(p.hp, p.gg, id) # GroupZ(p.hp, p.gg, other)
         /\ \A P \in 0 .. p.gg.k - 1 : \E id \in ids : HasTile(p, id, cell) /\ P \in PartOf(p, id)
         /\ \E id \in ids : HasTile(p, id, cell)
<1> DEFINE ids == 0 .. MainWorkGroups(p.hp, p.gg) - 1
           zs == 0 .. p.hp["C"]["ICE"] - 1
           T(id) == TileOf(p.hp, p.gg, id)
           z(id) == GroupZ(p.hp, p.gg, id)
<1>1. ASSUME NEW id \in ids PROVE T(id)["A"] \in Int /\ T(id)["B"] \in Int /\ z(id) \in zs
  <2>1. MainWorkGroups(p.hp, p.gg) \in Nat
    BY IdsOfGroups, Products
  <2>2. id \in Nat /\ id < MainWorkGroups(p.hp, p.gg)
    BY <2>1
  <2>3. \A x \in Chiral : T(id)[x] \in 0 .. NGroups(p.hp, p.gg, x) - 1
    BY <2>2, TilesOfGroups
  <2>4. z(id) \in zs
    BY IdsOfGroups
  <2> QED BY <2>3, <2>4 DEF Chiral
<1>2. ASSUME NEW id \in ids PROVE PartOf(p, id) \subseteq 0 .. p.gg.k - 1
  BY <1>1, SharesOfTile DEF PartOf
<1>3. ASSUME NEW id \in ids, NEW other \in ids, HasTile(p, id, cell), HasTile(p, other, cell), id # other
      PROVE  PartOf(p, id) \cap PartOf(p, other) = {} /\ z(id) # z(other)
  <2>1. T(id)["A"] = T(other)["A"] /\ T(id)["B"] = T(other)["B"]
    BY <1>3 DEF HasTile
  <2>2. z(id) # z(other)
    BY <1>3, <2>1, GroupsApart
  <2>3. T(id) = T(other)
    BY <2>1, TileByPlace
  <2> HIDE DEF T, z
  <2>4. Share(p, T(id), z(id)) \cap Share(p, T(id), z(other)) = {}
    BY <1>1, <2>2, SharesOfTile
  <2> QED BY <2>2, <2>3, <2>4 DEF PartOf, T, z
<1> DEFINE a == cell[1] \div MacroTile(p.hp, "A")
           b == cell[2] \div MacroTile(p.hp, "B")
<1>4. a \in 0 .. NGroups(p.hp, p.gg, "A") - 1 /\ b \in 0 .. NGroups(p.hp, p.gg, "B") - 1
  <2>1. "A" \in Chiral /\ "B" \in Chiral /\ cell[1] \in 0 .. p.gg.m - 1 /\ cell[2] \in 0 .. p.gg.n - 1
    BY DEF Cells, Chiral
  <2>2. cell[1] \in 0 .. NonKDim(p.gg, "A") - 1 /\ cell[2] \in 0 .. NonKDim(p.gg, "B") - 1
    BY <2>1 DEF NonKDim
  <2> QED BY <2>1, <2>2, TileOfPlace
<1>5. ASSUME NEW y \in zs PROVE \E id \in ids : HasTile(p, id, cell) /\ z(id) = y
  <2> HIDE DEF a, b
  <2>1. PICK id \in ids : T(id)["A"] = a /\ T(id)["B"] = b /\ z(id) = y
    BY <1>4, GroupsCover
  <2> QED BY <2>1 DEF HasTile, a, b
<1>6. 0 \in zs
  <2>1. p.hp["C"]["ICE"] \in Nat /\ p.hp["C"]["ICE"] > 0
    BY IdsOfGroups
  <2> QED BY <2>1
<1>7. PICK some \in ids : HasTile(p, some, cell)
  BY <1>5, <1>6
<1>8. ASSUME NEW P \in 0 .. p.gg.k - 1 PROVE \E id \in ids : HasTile(p, id, cell) /\ P \in PartOf(p, id)
  <2>1. PICK y \in zs : P \in Share(p, T(some), y)
    <3> DEFINE t == T(some)
    <3>1. t["A"] \in Int /\ t["B"] \in Int
      BY <1>1
    <3> HIDE DEF t
    <3>2. \E y \in zs : P \in Share(p, t, y)
      BY <3>1, SharesOfTile
    <3> QED BY <3>2 DEF t
  <2>2. PICK id \in ids : HasTile(p, id, cell) /\ z(id) = y
    BY <1>5
  <2>3. T(id) = T(some)
    BY <1>7, <2>2, TileByPlace DEF HasTile
  <2> QED BY <2>1, <2>2, <2>3 DEF PartOf
<1> QED BY <1>2, <1>3, <1>7, <1>8

(* C stays as it is while no group adds to it.                             *)
LEMMA ResultStays ==
  ASSUME ResultExactly, at \notin {"derive", "refused", "fill"}, UNCHANGED <<prob, c>>,
         \A cell \in Cells(prob) : Added(cell)' = Added(cell) /\ (Scaled(cell)' <=> Scaled(cell))
  PROVE  ResultExactly'
<1>1. hp' = hp /\ g' = g /\ off' = off
  BY SameGroup
<1>2. \A cell \in Cells(prob) : AddedPart(cell)' = AddedPart(cell)
  BY <1>1 DEF AddedPart
<1> HIDE DEF Added, Scaled, AddedPart
<1> QED BY <1>1, <1>2 DEF ResultExactly

(* Before the first of the groups nothing is added.                        *)
LEMMA NothingAdded == group = 0 /\ block = "none" => \A cell : Added(cell) = {} /\ AddedPart(cell) = {}
<1> SUFFICES ASSUME group = 0, block = "none", NEW cell PROVE Added(cell) = {} /\ AddedPart(cell) = {}
  OBVIOUS
<1>1. \A id \in 0 .. group : ~(id < group)
  OBVIOUS
<1>2. Added(cell) = {}
  BY <1>1 DEF Added, Written
<1> QED BY <1>2 DEF AddedPart

(* C is filled whole.                                                      *)
LEMMA FillsResult ==
  ASSUME IInv, Fill
  PROVE  ResultExactly'
<1> DEFINE n == BufferSize(g, off, prob.tail, "C")
<1>1. /\ at = "fill" /\ at' = "pack" /\ UNCHANGED <<prob, groupVars>>
      /\ c' = [i \in 0 .. n - 1 |-> SetToBag({Old(Filled(n)[i])})]
  BY DEF Fill
<1>2. hp' = hp /\ g' = g /\ off' = off
  BY <1>1, SameGroup
<1>3. \A cell : Added(cell)' = {} /\ AddedPart(cell)' = {}
  <2>1. group' = 0 /\ block' = "none"
    BY <1>1 DEF groupVars, IInv, InMain
  <2>2. (group = 0 /\ block = "none" => \A cell : Added(cell) = {} /\ AddedPart(cell) = {})'
    BY NothingAdded, PTL
  <2> QED BY <2>1, <2>2
<1>4. IsProblem(prob)
  BY <1>1, Running DEF IInv
<1>5. n \in Nat
  <2>1. /\ PaddedArea(prob.gg, "C") \in Nat /\ prob.off["C"] \in Nat /\ prob.tail["C"] \in Nat
        /\ BufferSize(prob.gg, prob.off, prob.tail, "C") = PaddedArea(prob.gg, "C") + prob.off["C"] + prob.tail["C"]
    BY <1>4, CellLayout
  <2> QED BY <2>1 DEF g, off
<1> HIDE DEF n
<1>6. DOMAIN c' = 0 .. n - 1 /\ \A i \in 0 .. n - 1 : c'[i] = SetToBag({Old(i)})
  BY <1>1, <1>5, FilledWhole
<1>7. \A cell \in Cells(prob) : CAddress(prob, cell[1], cell[2]) \in 0 .. n - 1
  BY <1>4, CellAddresses DEF n, g, off
<1>8. \A i, j : ProductsOf(prob, i, j, {}) = {}
  BY DEF ProductsOf
<1>9. \A cell \in Cells(prob) : ~Scaled(cell)'
  BY <1>1 DEF Scaled
<1>10. ASSUME NEW cell \in Cells(prob), NEW i, i = CAddress(prob, cell[1], cell[2])
       PROVE  c'[i] = SetToBag({IF Scaled(cell)' THEN <<"beta", Old(i)>> ELSE Old(i)}
                               \cup ProductsOf(prob, cell[1], cell[2], AddedPart(cell)'))
  <2>1. {Old(i)} \cup ProductsOf(prob, cell[1], cell[2], AddedPart(cell)') = {Old(i)}
    BY <1>3, <1>8
  <2> QED BY <1>6, <1>7, <1>9, <1>10, <2>1
<1> HIDE DEF Added, Scaled, AddedPart
<1> QED BY <1>1, <1>2, <1>6, <1>10 DEF ResultExactly, n

(* The kernel of beta scales every element of C where the summation is     *)
(* split, and nothing else.                                                *)
LEMMA ScalesResult ==
  ASSUME IInv, ResultExactly, ScaleC
  PROVE  ResultExactly'
<1>1. /\ at = "beta" /\ at' = "main" /\ UNCHANGED <<prob, groupVars>>
      /\ c' = IF SplitOnK(hp) THEN [i \in DOMAIN c |-> IF BetacItems(g, off, i) # {} THEN Scale(c[i]) ELSE c[i]]
              ELSE c
  BY DEF ScaleC
<1>2. hp' = hp /\ g' = g /\ off' = off
  BY <1>1, SameGroup
<1>3. \A cell : Added(cell) = {} /\ AddedPart(cell) = {} /\ Added(cell)' = {} /\ AddedPart(cell)' = {}
  <2>1. group = 0 /\ block = "none" /\ group' = 0 /\ block' = "none"
    BY <1>1 DEF groupVars, IInv, InMain
  <2>2. (group = 0 /\ block = "none" => \A cell : Added(cell) = {} /\ AddedPart(cell) = {})'
    BY NothingAdded, PTL
  <2> QED BY <2>1, <2>2, NothingAdded
<1>4. IsProblem(prob)
  BY <1>1, Running DEF IInv
<1>5. \A cell \in Cells(prob) : ~Scaled(cell) /\ (Scaled(cell)' <=> SplitOnK(hp))
  BY <1>1, <1>2, <1>3 DEF Scaled
<1>6. /\ DOMAIN c = 0 .. BufferSize(g, off, prob.tail, "C") - 1
      /\ \A i \in DOMAIN c : (\A cell \in Cells(prob) : i # CAddress(prob, cell[1], cell[2])) => c[i] = SetToBag({Old(i)})
  BY <1>1 DEF ResultExactly
<1>7. \A i \in DOMAIN c : BetacItems(g, off, i) # {} <=> \E cell \in Cells(prob) : i = CAddress(prob, cell[1], cell[2])
  BY <1>4, ScalesElements DEF g, off
<1>8. DOMAIN c' = DOMAIN c
  BY <1>1
<1>9. ASSUME NEW i \in DOMAIN c, \A cell \in Cells(prob) : i # CAddress(prob, cell[1], cell[2])
      PROVE  c'[i] = SetToBag({Old(i)})
  BY <1>1, <1>6, <1>7, <1>9
<1>10. ASSUME NEW cell \in Cells(prob), NEW i, i = CAddress(prob, cell[1], cell[2])
       PROVE  c'[i] = SetToBag({IF Scaled(cell)' THEN <<"beta", Old(i)>> ELSE Old(i)}
                               \cup ProductsOf(prob, cell[1], cell[2], AddedPart(cell)'))
  <2>1. \A e, f : ProductsOf(prob, e, f, {}) = {}
    BY DEF ProductsOf
  <2>2. i \in DOMAIN c
    BY <1>4, <1>6, <1>10, CellAddresses DEF g, off
  <2>3. c[i] = SetToBag({Old(i)})
    <3>1. c[i] = SetToBag({IF Scaled(cell) THEN <<"beta", Old(i)>> ELSE Old(i)}
                          \cup ProductsOf(prob, cell[1], cell[2], AddedPart(cell)))
      BY <1>1, <1>10 DEF ResultExactly
    <3>2. {IF Scaled(cell) THEN <<"beta", Old(i)>> ELSE Old(i)}
            \cup ProductsOf(prob, cell[1], cell[2], AddedPart(cell)) = {Old(i)}
      BY <1>3, <1>5, <2>1
    <3> QED BY <3>1, <3>2
  <2>4. c'[i] = SetToBag({IF SplitOnK(hp) THEN <<"beta", Old(i)>> ELSE Old(i)})
    BY <1>1, <1>7, <1>10, <2>2, <2>3, ScaledOnce
  <2>5. {IF Scaled(cell)' THEN <<"beta", Old(i)>> ELSE Old(i)}
          \cup ProductsOf(prob, cell[1], cell[2], AddedPart(cell)')
        = {IF SplitOnK(hp) THEN <<"beta", Old(i)>> ELSE Old(i)}
    BY <1>3, <1>5, <2>1
  <2> QED BY <2>4, <2>5
<1> HIDE DEF Added, Scaled, AddedPart
<1> QED BY <1>1, <1>2, <1>6, <1>8, <1>9, <1>10 DEF ResultExactly

(* A step of a group that is not one of an item that writes.               *)
LEMMA NothingWritten ==
  ASSUME IInv, ResultExactly, UNCHANGED <<prob, at, c, group>>, at = "main",
         block # "write", block' = "write" => \A i \in Items : pc'[i] # "end"
  PROVE  ResultExactly'
<1>1. hp' = hp /\ g' = g /\ Items' = Items
  BY SameGroup
<1>2. \A cell : ~Written(cell) /\ ~Written(cell)'
  BY <1>1 DEF Written
<1>3. \A cell : Added(cell)' = Added(cell)
  BY <1>1, <1>2 DEF Added
<1>4. \A cell : Scaled(cell)' <=> Scaled(cell)
  BY <1>1, <1>3 DEF Scaled
<1> QED BY <1>3, <1>4, ResultStays

(* When all items have ended, the whole tile is written.                   *)
LEMMA WritesTile ==
  ASSUME IInv, at = "main", block = "write", \A i \in Items : pc[i] = "end",
         NEW cell \in Cells(prob), HasTile(prob, group, cell)
  PROVE  Written(cell)
<1>1. group < MainWorkGroups(hp, g)
  BY DEF IInv, InMain
<1>2. /\ IsProblem(prob) /\ Derivable(prob.hp, prob.gg)
      /\ \A y \in Chiral : Tile[y] \in 0 .. NGroups(prob.hp, prob.gg, y) - 1
  BY <1>1, AtWork
<1>3. IsTile(prob, Tile)
  BY <1>2 DEF IsTile
<1>4. InTile(prob, Tile, cell[1], cell[2])
  BY DEF HasTile, InTile, Tile, hp, g
<1>5. PICK item \in 0 .. WorkItems(prob.hp) - 1, r \in RegisterRows(prob.hp, "A"), q \in RegisterRows(prob.hp, "B") :
        CellOf(prob, Tile, item, r, q) = cell
  BY <1>2, <1>3, <1>4, WritersOfTile
<1>6. cell[1] = RowPlace(prob, Tile, item, "A", r) /\ cell[2] = RowPlace(prob, Tile, item, "B", q)
  BY <1>5 DEF CellOf
<1>7. WrittenOf(prob, Tile, item, r, q) \in FinalWrites(prob.hp, prob.gg, prob.off, Tile, item)
  BY <1>2, <1>3, <1>4, <1>6, ItemWrites
<1>8. WrittenOf(prob, Tile, item, r, q).to = CAddress(prob, cell[1], cell[2])
  BY <1>6 DEF WrittenOf
<1>9. Writes(item, cell)
  BY <1>7, <1>8 DEF Writes, hp, g, off
<1>10. item \in Items
  BY DEF Items, hp
<1> QED BY <1>9, <1>10 DEF Written

(* A group that ends has added its share.                                  *)
LEMMA EndsResult ==
  ASSUME IInv, ResultExactly, EndGroup
  PROVE  ResultExactly'
<1>1. /\ block = "write" /\ \A i \in Items : pc[i] = "end"
      /\ group' = group + 1 /\ block' = "none" /\ UNCHANGED <<prob, at, c>>
  BY DEF EndGroup
<1>2. hp' = hp /\ g' = g
  BY <1>1, SameGroup
<1>3. at = "main" /\ group \in Nat
  <2>1. at = "main"
    BY <1>1 DEF IInv, InMain
  <2>2. MainWorkGroups(hp, g) \in Nat
    BY <2>1, Running DEF IInv
  <2> QED BY <2>1, <2>2 DEF IInv, TypeOK
<1>4. ASSUME NEW cell \in Cells(prob) PROVE Added(cell)' = Added(cell)
  <2>1. HasTile(prob, group, cell) => Written(cell)
    BY <1>1, <1>3, WritesTile
  <2>2. ~Written(cell)'
    BY <1>1 DEF Written
  <2>3. Added(cell)' = {id \in 0 .. group + 1 : HasTile(prob, id, cell) /\ id < group + 1}
    BY <1>1, <2>2 DEF Added
  <2>4. Added(cell) = {id \in 0 .. group : HasTile(prob, id, cell) /\ (id < group \/ Written(cell))}
    BY DEF Added
  <2>5. ASSUME NEW id \in Added(cell) PROVE id \in Added(cell)'
    BY <1>3, <2>3, <2>4
  <2>6. ASSUME NEW id \in Added(cell)' PROVE id \in Added(cell)
    <3>1. id \in 0 .. group /\ HasTile(prob, id, cell)
      BY <1>3, <2>3
    <3>2. CASE id < group
      BY <2>4, <3>1, <3>2
    <3>3. CASE id = group
      BY <2>1, <2>4, <3>1, <3>3
    <3> QED BY <1>3, <3>1, <3>2, <3>3
  <2> QED BY <2>5, <2>6
<1>5. \A cell \in Cells(prob) : Scaled(cell)' <=> Scaled(cell)
  BY <1>1, <1>2, <1>4 DEF Scaled
<1> QED BY <1>1, <1>3, <1>4, <1>5, ResultStays

(* A group that writes has all of its share behind it.                     *)
LEMMA ShareBehind ==
  ASSUME AllSummed, block = "write", NEW i
  PROVE  SummedBy(i) = PartOf(prob, group)
<1>1. jumps = UnrollsRemaining(hp, g, Tile, Z)
  BY DEF AllSummed
<1>2. StepsBehind(i) = {r \in (0 .. UnrollsRemaining(hp, g, Tile, Z)) \X (0 .. hp["C"]["UNR"] - 1) :
                          Summing(prob, Tile, Z, r[1], r[2])}
  BY <1>1 DEF StepsBehind
<1> QED BY <1>2 DEF SummedBy, PartOf, Share, Tile, Z, hp, g

(* Only one item of a group writes an element of C, and what it writes is  *)
(* the products of its share.                                              *)
LEMMA WritesShare ==
  ASSUME SInv, at = "main", block = "write", NEW item \in Items, NEW cell \in Cells(prob),
         NEW s \in FinalWrites(hp, g, off, Tile, item), s.to = CAddress(prob, cell[1], cell[2])
  PROVE  /\ HasTile(prob, group, cell)
         /\ reg[item][<<s.a, s.b>>] = SetToBag(ProductsOf(prob, cell[1], cell[2], PartOf(prob, group)))
         /\ \A other \in Items : Writes(other, cell) => other = item
<1>1. MInv /\ LInv /\ IInv /\ group < MainWorkGroups(hp, g)
  BY DEF SInv, MInv, LInv, IInv, InMain
<1>2. /\ IsProblem(prob) /\ Derivable(prob.hp, prob.gg)
      /\ \A y \in Chiral : Tile[y] \in 0 .. NGroups(prob.hp, prob.gg, y) - 1
  BY <1>1, AtWork
<1>3. IsTile(prob, Tile)
  BY <1>2 DEF IsTile
<1>4. ASSUME NEW i \in Items, NEW t \in FinalWrites(hp, g, off, Tile, i), t.to = CAddress(prob, cell[1], cell[2])
      PROVE  \E r \in RegisterRows(prob.hp, "A"), q \in RegisterRows(prob.hp, "B") :
               t = WrittenOf(prob, Tile, i, r, q) /\ CellOf(prob, Tile, i, r, q) = cell
               /\ InTile(prob, Tile, RowPlace(prob, Tile, i, "A", r), RowPlace(prob, Tile, i, "B", q))
  <2>1. i \in 0 .. WorkItems(prob.hp) - 1 /\ t \in FinalWrites(prob.hp, prob.gg, prob.off, Tile, i)
    BY DEF Items, hp, g, off
  <2>2. PICK r \in RegisterRows(prob.hp, "A"), q \in RegisterRows(prob.hp, "B") : IsWritten(prob, Tile, i, t, r, q)
    BY <1>2, <1>3, <2>1, ItemWrites
  <2>3. /\ t = WrittenOf(prob, Tile, i, r, q) /\ CellOf(prob, Tile, i, r, q) \in Cells(prob)
        /\ InTile(prob, Tile, RowPlace(prob, Tile, i, "A", r), RowPlace(prob, Tile, i, "B", q))
    BY <2>2 DEF IsWritten
  <2> DEFINE other == CellOf(prob, Tile, i, r, q)
  <2>4. CAddress(prob, other[1], other[2]) = CAddress(prob, cell[1], cell[2])
    BY <1>4, <2>3 DEF WrittenOf, CellOf
  <2>5. other \in Cells(prob)
    BY <2>3
  <2> HIDE DEF other
  <2>6. other = cell
    BY <1>2, <2>4, <2>5, CellAddresses
  <2> QED BY <2>3, <2>6 DEF other
<1>5. PICK r \in RegisterRows(prob.hp, "A"), q \in RegisterRows(prob.hp, "B") :
        /\ s = WrittenOf(prob, Tile, item, r, q) /\ CellOf(prob, Tile, item, r, q) = cell
        /\ InTile(prob, Tile, RowPlace(prob, Tile, item, "A", r), RowPlace(prob, Tile, item, "B", q))
  BY <1>4
<1>6. cell[1] = RowPlace(prob, Tile, item, "A", r) /\ cell[2] = RowPlace(prob, Tile, item, "B", q)
  BY <1>5 DEF CellOf
<1>7. InTile(prob, Tile, cell[1], cell[2])
  BY <1>5, <1>6
<1>8. HasTile(prob, group, cell)
  BY <1>7 DEF HasTile, InTile, Tile, hp, g
<1>9. reg[item][<<s.a, s.b>>] = SetToBag(ProductsOf(prob, cell[1], cell[2], PartOf(prob, group)))
  <2>1. "A" \in Chiral /\ "B" \in Chiral /\ r \in RegisterRows(hp, "A") /\ q \in RegisterRows(hp, "B")
    BY DEF Chiral, hp
  <2>2. /\ WriteStart(hp, g, Tile, item, "A") + r[2] = cell[1]
        /\ WriteStart(hp, g, Tile, item, "B") + q[2] = cell[2]
    BY <1>1, <1>6, <2>1, RowsAtWork
  <2>3. reg[item][<<r[1], q[1]>>] =
          SetToBag(ProductsOf(prob, WriteStart(hp, g, Tile, item, "A") + r[2],
                                    WriteStart(hp, g, Tile, item, "B") + q[2], SummedBy(item)))
    BY <2>1 DEF SInv, SummedExactly
  <2>4. s.a = r[1] /\ s.b = q[1]
    BY <1>5 DEF WrittenOf
  <2>5. SummedBy(item) = PartOf(prob, group)
    BY ShareBehind DEF SInv
  <2> QED BY <2>2, <2>3, <2>4, <2>5
<1>10. ASSUME NEW other \in Items, Writes(other, cell) PROVE other = item
  <2>1. PICK t \in FinalWrites(hp, g, off, Tile, other) : t.to = CAddress(prob, cell[1], cell[2])
    BY <1>10 DEF Writes
  <2>2. PICK u \in RegisterRows(prob.hp, "A"), v \in RegisterRows(prob.hp, "B") : CellOf(prob, Tile, other, u, v) = cell
    BY <1>4, <2>1
  <2>3. item \in 0 .. WorkItems(prob.hp) - 1 /\ other \in 0 .. WorkItems(prob.hp) - 1
    BY DEF Items, hp
  <2> QED BY <1>2, <1>3, <1>5, <1>7, <2>2, <2>3, WritersOfTile
<1> QED BY <1>8, <1>9, <1>10

(* An item adds the share of its group to the elements of C that it has:   *)
(* all other groups have added other shares, or nothing if the summation   *)
(* is not split, and then it scales too.                                   *)
LEMMA WritesResult ==
  ASSUME SInv, ResultExactly, Fits(prob), at = "main", NEW item \in Items, Write(item)
  PROVE  ResultExactly'
<1> DEFINE writes == FinalWrites(hp, g, off, Tile, item)
           sum(i) == LET s == CHOOSE s \in writes : s.to = i IN reg[item][<<s.a, s.b>>]
<1>1. /\ block = "write" /\ pc[item] = "write" /\ pc' = [pc EXCEPT ![item] = "end"]
      /\ c' = [i \in DOMAIN c |->
                 IF \A s \in writes : s.to # i THEN c[i]
                 ELSE IF SplitOnK(hp) THEN c[i] (+) sum(i) ELSE Scale(c[i]) (+) sum(i)]
      /\ UNCHANGED <<prob, at, group, block>>
  BY DEF Write
<1>2. hp' = hp /\ g' = g /\ off' = off /\ Items' = Items /\ Tile' = Tile
  BY <1>1, SameGroup
<1>3. MInv /\ LInv /\ IInv /\ AllSummed /\ group < MainWorkGroups(hp, g) /\ DOMAIN pc = Items
  BY <1>1 DEF SInv, MInv, LInv, IInv, InMain, TypeOK
<1>4. /\ IsProblem(prob) /\ Derivable(prob.hp, prob.gg) /\ Fits(prob)
      /\ Z \in 0 .. prob.hp["C"]["ICE"] - 1
  BY <1>3, AtWork
<1>5. group \in 0 .. MainWorkGroups(hp, g) - 1
  <2>1. MainWorkGroups(hp, g) \in Nat
    BY <1>3, Running DEF IInv
  <2> QED BY <1>3, <2>1 DEF IInv, TypeOK
<1>6. /\ DOMAIN c = 0 .. BufferSize(g, off, prob.tail, "C") - 1
      /\ \A i \in DOMAIN c : (\A cell \in Cells(prob) : i # CAddress(prob, cell[1], cell[2])) => c[i] = SetToBag({Old(i)})
  BY DEF ResultExactly
<1>7. DOMAIN c' = DOMAIN c
  BY <1>1
<1>8. \A j \in Items : \A cell : Writes(j, cell)' <=> Writes(j, cell)
  BY <1>1, <1>2 DEF Writes
<1>9. ASSUME NEW i \in DOMAIN c, \A cell \in Cells(prob) : i # CAddress(prob, cell[1], cell[2])
      PROVE  c'[i] = SetToBag({Old(i)})
  <2>1. ASSUME NEW s \in writes PROVE s.to # i
    <3>1. item \in 0 .. WorkItems(prob.hp) - 1 /\ s \in FinalWrites(prob.hp, prob.gg, prob.off, Tile, item)
      BY DEF Items, hp, g, off
    <3>2. IsTile(prob, Tile)
      BY <1>3, AtWork DEF IsTile
    <3>3. PICK r \in RegisterRows(prob.hp, "A"), q \in RegisterRows(prob.hp, "B") : IsWritten(prob, Tile, item, s, r, q)
      BY <1>4, <3>1, <3>2, ItemWrites
    <3>4. /\ s.to = CAddress(prob, CellOf(prob, Tile, item, r, q)[1], CellOf(prob, Tile, item, r, q)[2])
          /\ CellOf(prob, Tile, item, r, q) \in Cells(prob)
      BY <3>3 DEF IsWritten, WrittenOf, CellOf
    <3> QED BY <1>9, <3>4
  <2> HIDE DEF writes, sum
  <2> QED BY <1>1, <1>6, <1>9, <2>1
<1>10. ASSUME NEW cell \in Cells(prob), ~Writes(item, cell)
       PROVE  /\ c'[CAddress(prob, cell[1], cell[2])] = c[CAddress(prob, cell[1], cell[2])]
              /\ Added(cell)' = Added(cell)
  <2>1. CAddress(prob, cell[1], cell[2]) \in DOMAIN c
    BY <1>4, <1>6, CellAddresses DEF g, off
  <2>2. \A s \in writes : s.to # CAddress(prob, cell[1], cell[2])
    BY <1>10 DEF Writes
  <2>3. c'[CAddress(prob, cell[1], cell[2])] = c[CAddress(prob, cell[1], cell[2])]
    <3> HIDE DEF writes, sum
    <3> QED BY <1>1, <2>1, <2>2
  <2>4. Written(cell)' <=> Written(cell)
    BY <1>1, <1>2, <1>3, <1>8, <1>10 DEF Written
  <2> QED BY <1>1, <1>2, <2>3, <2>4 DEF Added
<1>11. ASSUME NEW cell \in Cells(prob), Writes(item, cell)
       PROVE  /\ HasTile(prob, group, cell) /\ group \notin Added(cell) /\ Added(cell)' = Added(cell) \cup {group}
              /\ sum(CAddress(prob, cell[1], cell[2])) =
                   SetToBag(ProductsOf(prob, cell[1], cell[2], PartOf(prob, group)))
  <2> DEFINE i == CAddress(prob, cell[1], cell[2])
             s == CHOOSE s \in writes : s.to = i
  <2>1. s \in writes /\ s.to = i
    BY <1>11 DEF Writes
  <2>2. sum(i) = reg[item][<<s.a, s.b>>]
    OBVIOUS
  <2> HIDE DEF s, sum
  <2>3. /\ HasTile(prob, group, cell)
        /\ reg[item][<<s.a, s.b>>] = SetToBag(ProductsOf(prob, cell[1], cell[2], PartOf(prob, group)))
        /\ \A other \in Items : Writes(other, cell) => other = item
    BY <1>1, <2>1, WritesShare
  <2>4. ~Written(cell)
    BY <1>1, <2>3 DEF Written
  <2>5. Written(cell)'
    <3>1. pc'[item] = "end" /\ Writes(item, cell)' /\ item \in Items'
      BY <1>1, <1>2, <1>3, <1>8, <1>11
    <3> QED BY <1>1, <3>1 DEF Written
  <2>6. Added(cell) = {id \in 0 .. group : HasTile(prob, id, cell) /\ id < group}
    BY <2>4 DEF Added
  <2>7. Added(cell)' = {id \in 0 .. group : HasTile(prob, id, cell)}
    BY <1>1, <2>5 DEF Added
  <2>8. group \in 0 .. group /\ ~(group < group) /\ \A id \in 0 .. group : id < group \/ id = group
    BY <1>5
  <2>9. group \notin Added(cell) /\ Added(cell)' = Added(cell) \cup {group}
    BY <2>3, <2>6, <2>7, <2>8
  <2> QED BY <2>2, <2>3, <2>9
<1>12. \A cell : AddedPart(cell) = UNION {PartOf(prob, id) : id \in Added(cell)}
  BY DEF AddedPart, PartOf, hp, g
<1>13. \A cell : AddedPart(cell)' = UNION {PartOf(prob, id) : id \in Added(cell)'}
  BY <1>1, <1>2 DEF AddedPart, PartOf, hp, g
<1>14. ASSUME NEW cell \in Cells(prob), NEW i, i = CAddress(prob, cell[1], cell[2])
       PROVE  c'[i] = SetToBag({IF Scaled(cell)' THEN <<"beta", Old(i)>> ELSE Old(i)}
                               \cup ProductsOf(prob, cell[1], cell[2], AddedPart(cell)'))
  <2> DEFINE P(D) == ProductsOf(prob, cell[1], cell[2], D)
             old == {IF Scaled(cell) THEN <<"beta", Old(i)>> ELSE Old(i)}
             part == PartOf(prob, group)
             part0 == AddedPart(cell)
  <2>1. c[i] = SetToBag(old \cup P(part0))
    BY <1>14 DEF ResultExactly
  <2>2. CASE ~Writes(item, cell)
    <3>1. Scaled(cell)' <=> Scaled(cell)
      BY <1>1, <1>2, <1>10, <2>2 DEF Scaled
    <3>2. AddedPart(cell)' = AddedPart(cell)
      BY <1>10, <1>12, <1>13, <2>2
    <3>3. c'[i] = c[i]
      BY <1>10, <1>14, <2>2
    <3> QED BY <2>1, <3>1, <3>2, <3>3
  <2>3. CASE Writes(item, cell)
    <3>1. /\ HasTile(prob, group, cell) /\ group \notin Added(cell) /\ Added(cell)' = Added(cell) \cup {group}
          /\ sum(i) = SetToBag(P(part))
      BY <1>11, <1>14, <2>3
    <3>2. c'[i] = IF SplitOnK(hp) THEN c[i] (+) sum(i) ELSE Scale(c[i]) (+) sum(i)
      <4>1. i \in DOMAIN c
        BY <1>4, <1>6, <1>14, CellAddresses DEF g, off
      <4>2. ~\A s \in writes : s.to # i
        BY <1>14, <2>3 DEF Writes
      <4> HIDE DEF writes, sum
      <4> QED BY <1>1, <4>1, <4>2
    <3>3. AddedPart(cell)' = part0 \cup part
      BY <1>12, <1>13, <3>1
    <3>4. Scaled(cell)'
      BY <1>1, <1>2, <3>1 DEF Scaled
    <3>5. ASSUME NEW id \in Added(cell)
          PROVE  /\ id \in 0 .. MainWorkGroups(prob.hp, prob.gg) - 1 /\ id # group /\ HasTile(prob, id, cell)
      <4>1. id \in 0 .. group /\ HasTile(prob, id, cell)
        BY DEF Added
      <4>2. MainWorkGroups(prob.hp, prob.gg) \in Nat /\ group \in 0 .. MainWorkGroups(prob.hp, prob.gg) - 1
        BY <1>3, <1>5, Running DEF IInv, hp, g
      <4>3. id # group
        BY <3>1
      <4> HIDE DEF part, part0, old, P, writes, sum
      <4> QED BY <4>1, <4>2, <4>3
    <3>6. /\ part \subseteq 0 .. prob.gg.k - 1
          /\ \A id \in Added(cell) : /\ PartOf(prob, id) \subseteq 0 .. prob.gg.k - 1
                                     /\ PartOf(prob, id) \cap part = {}
                                     /\ GroupZ(prob.hp, prob.gg, id) # GroupZ(prob.hp, prob.gg, group)
      <4>1. group \in 0 .. MainWorkGroups(prob.hp, prob.gg) - 1
        BY <1>5 DEF hp, g
      <4> QED BY <1>4, <3>1, <3>5, <4>1, PartsOfCell
    <3>7. part0 \subseteq 0 .. prob.gg.k - 1 /\ part0 \cap part = {}
      BY <1>12, <3>6
    <3> HIDE DEF part, part0
    <3>8. P(part0) \cap P(part) = {}
      <4>1. cell[1] \in 0 .. prob.gg.m - 1
        BY DEF Cells
      <4>2. ASSUME NEW d \in part0, NEW f \in part, ProductAt(prob, cell[1], cell[2], d) = ProductAt(prob, cell[1], cell[2], f)
            PROVE  FALSE
        <5>1. d \in 0 .. prob.gg.k - 1 /\ f \in 0 .. prob.gg.k - 1
          BY <3>6, <3>7
        <5>2. d = f
          BY <1>4, <4>1, <4>2, <5>1, ProductsApart
        <5> QED BY <3>7, <5>2
      <4> QED BY <4>2 DEF ProductsOf
    <3>9. P(part0) \cup P(part) = P(part0 \cup part)
      BY DEF ProductsOf
    <3>10. <<"beta", Old(i)>> \notin P(part) /\ Old(i) \notin P(part)
      BY ProductsAreOther
    <3>11. CASE SplitOnK(hp)
      <4>1. old = {<<"beta", Old(i)>>}
        BY <1>1, <3>11 DEF Scaled
      <4>2. (old \cup P(part0)) \cap P(part) = {}
        BY <3>8, <3>10, <4>1
      <4> HIDE DEF P, old, sum
      <4>3. c'[i] = SetToBag((old \cup P(part0)) \cup P(part))
        BY <2>1, <3>1, <3>2, <3>11, <4>2, DisjointBags
      <4>4. (old \cup P(part0)) \cup P(part) = {<<"beta", Old(i)>>} \cup P(part0 \cup part)
        BY <3>9, <4>1
      <4> QED BY <3>3, <3>4, <4>3, <4>4 DEF P
    <3>12. CASE ~SplitOnK(hp)
      <4>1. Added(cell) = {}
        <5> SUFFICES ASSUME NEW id \in Added(cell) PROVE FALSE
          OBVIOUS
        <5>1. prob.hp["C"]["ICE"] = 1
          BY <3>12 DEF SplitOnK, hp
        <5>2. GroupZ(prob.hp, prob.gg, id) = 0 /\ GroupZ(prob.hp, prob.gg, group) = 0
          <6>1. /\ GroupZ(prob.hp, prob.gg, id) \in 0 .. prob.hp["C"]["ICE"] - 1
                /\ GroupZ(prob.hp, prob.gg, group) \in 0 .. prob.hp["C"]["ICE"] - 1
            BY <1>4, <1>5, <3>5, IdsOfGroups DEF hp, g
          <6> QED BY <5>1, <6>1
        <5> QED BY <3>6, <5>2
      <4>2. part0 = {} /\ ~Scaled(cell)
        BY <1>12, <3>12, <4>1 DEF Scaled, part0
      <4>3. c[i] = SetToBag({Old(i)})
        <5>1. P({}) = {}
          BY DEF ProductsOf
        <5>2. old \cup P(part0) = {Old(i)}
          BY <4>2, <5>1
        <5> QED BY <2>1, <5>2
      <4>4. Scale(c[i]) = SetToBag({<<"beta", Old(i)>>})
        BY <4>3, ScaledOnce
      <4>5. {<<"beta", Old(i)>>} \cap P(part) = {}
        BY <3>10
      <4> HIDE DEF P, sum
      <4>6. c'[i] = SetToBag({<<"beta", Old(i)>>} \cup P(part))
        BY <3>1, <3>2, <3>12, <4>4, <4>5, DisjointBags
      <4>7. part0 \cup part = part
        BY <4>2
      <4> QED BY <3>3, <3>4, <4>6, <4>7 DEF P
    <3> QED BY <3>11, <3>12
  <2> QED BY <2>2, <2>3
<1> HIDE DEF Added, Scaled, AddedPart
<1> QED BY <1>1, <1>2, <1>6, <1>7, <1>9, <1>14 DEF ResultExactly

(* Invariance: where work groups are told apart every element of C has the *)
(* products that the groups so far have added, each of them once, and is   *)
(* scaled once; the rest of its buffer is as it was.                       *)
THEOREM ResultInvariance == Spec => []RInv
<1>1. Init => RInv
  <2> SUFFICES ASSUME Init PROVE ResultExactly /\ AllDone
    BY SumsStart DEF RInv
  <2>1. at = "derive"
    BY DEF Init
  <2> QED BY <2>1 DEF ResultExactly, AllDone
<1>2. RInv /\ SInv' /\ [Next]_vars => RInv'
  <2> SUFFICES ASSUME RInv, SInv', [Next]_vars PROVE AllDone' /\ (Fits(prob) => ResultExactly')
    <3>1. [Next]_vars => prob' = prob
      BY SameProblem
    <3>2. [Next]_vars => (Fits(prob)' <=> Fits(prob))
      BY <3>1
    <3> QED BY <3>2 DEF RInv
  <2>0. SInv /\ MInv /\ LInv /\ IInv /\ AllDone /\ (Fits(prob) => ResultExactly)
    BY DEF RInv, SInv, MInv, LInv
  <2>1. at # "main" => block = "none"
    BY <2>0 DEF IInv, InMain
  <2>2. ASSUME at' \notin {"compare", "accurate", "inaccurate"} PROVE AllDone'
    BY <2>2 DEF AllDone
  <2>3. ASSUME UNCHANGED <<prob, c, group, block>>, at \notin {"derive", "refused", "fill"},
               block = "none", (at' \in {"pack", "beta"}) <=> (at \in {"pack", "beta"})
        PROVE  Fits(prob) => ResultExactly'
    <3>1. hp' = hp /\ g' = g
      BY <2>3, SameGroup
    <3>2. \A cell : ~Written(cell) /\ ~Written(cell)'
      BY <2>3 DEF Written
    <3>3. \A cell : Added(cell)' = Added(cell)
      BY <2>3, <3>2 DEF Added
    <3>4. \A cell : Scaled(cell)' <=> Scaled(cell)
      BY <2>3, <3>1, <3>3 DEF Scaled
    <3> QED BY <2>0, <2>3, <3>3, <3>4, ResultStays
  <2>4. CASE Derive
    <3>1. at' \in {"fill", "refused"}
      BY <2>4 DEF Derive
    <3> QED BY <2>2, <3>1 DEF ResultExactly
  <2>5. CASE Fill
    BY <2>0, <2>2, <2>5, FillsResult DEF Fill
  <2>6. CASE Pack
    BY <2>1, <2>2, <2>3, <2>6 DEF Pack, groupVars
  <2>7. CASE ScaleC
    BY <2>0, <2>2, <2>7, ScalesResult DEF ScaleC
  <2>8. CASE StartGroup \/ LoadBarrier \/ MathBarrier
    <3>1. at = "main" /\ UNCHANGED <<prob, at, c, group>> /\ block # "write"
      <4>1. at = "main" /\ UNCHANGED <<prob, at, c, group>>
        BY <2>1, <2>8 DEF StartGroup, LoadBarrier, MathBarrier
      <4>2. 0 \in Items
        BY <2>0, <4>1, Running DEF IInv
      <4>3. block = "write" => pc[0] \in {"write", "end"}
        BY <2>0, <4>2 DEF IInv, BetweenBarriers
      <4> QED BY <2>8, <4>1, <4>2, <4>3 DEF StartGroup, LoadBarrier, MathBarrier
    <3>2. \A i \in Items : pc'[i] # "end"
      <4>1. CASE LoadBarrier
        BY <4>1 DEF LoadBarrier
      <4>2. CASE StartGroup \/ MathBarrier
        <5>1. PICK b : Enter(b)
          BY <4>2 DEF StartGroup, MathBarrier
        <5> QED BY <5>1 DEF Enter
      <4> QED BY <2>8, <4>1, <4>2
    <3> QED BY <2>0, <2>2, <3>1, <3>2, NothingWritten
  <2>9. CASE EndGroup
    <3>1. at = "main" /\ at' = at
      BY <2>1, <2>9 DEF EndGroup
    <3> QED BY <2>0, <2>2, <2>9, <3>1, EndsResult
  <2>10. CASE EndMain
    <3>1. at = "main" /\ block = "none" /\ group = MainWorkGroups(hp, g) /\ at' = "compare"
          /\ UNCHANGED <<prob, c, group, block>>
      BY <2>10 DEF EndMain, groupVars
    <3>2. AllDone'
      BY <3>1, SameGroup DEF AllDone
    <3> QED BY <2>3, <3>1, <3>2
  <2>11. CASE at = "main" /\ \E item \in Items : Load(item) \/ Math(item) \/ Write(item)
    <3>1. PICK item \in Items : Load(item) \/ Math(item) \/ Write(item)
      BY <2>11
    <3>2. at = "main" /\ UNCHANGED <<prob, at, group, block>>
      BY <2>11, <3>1 DEF Load, Math, Write
    <3>3. CASE Write(item)
      BY <2>0, <2>2, <3>2, <3>3, WritesResult
    <3>4. CASE Load(item) \/ Math(item)
      <4>1. block # "write" /\ c' = c
        BY <3>4 DEF Load, Math
      <4> QED BY <2>0, <2>2, <3>2, <4>1, NothingWritten
    <3> QED BY <3>1, <3>3, <3>4
  <2>12. CASE Compare
    <3>1. at = "compare" /\ at' \in {"accurate", "inaccurate"} /\ block = "none"
          /\ UNCHANGED <<prob, c, group, block>>
      BY <2>1, <2>12 DEF Compare, groupVars
    <3>2. AllDone'
      BY <2>0, <3>1, SameGroup DEF AllDone
    <3> QED BY <2>3, <3>1, <3>2
  <2>13. CASE Finished \/ UNCHANGED vars
    <3>1. UNCHANGED <<prob, at, c, group, block, pc>>
      BY <2>13 DEF Finished, vars, groupVars
    <3>2. hp' = hp /\ g' = g /\ off' = off /\ Items' = Items /\ Tile' = Tile
      BY <3>1, SameGroup
    <3>3. \A i, cell : Writes(i, cell)' <=> Writes(i, cell)
      BY <3>1, <3>2 DEF Writes
    <3>4. \A cell : Written(cell)' <=> Written(cell)
      BY <3>1, <3>2, <3>3 DEF Written
    <3>5. \A cell : Added(cell)' = Added(cell)
      BY <3>1, <3>4 DEF Added
    <3>6. \A cell : Scaled(cell)' <=> Scaled(cell)
      BY <3>1, <3>2, <3>5 DEF Scaled
    <3>7. AllDone'
      BY <2>0, <3>1, <3>2 DEF AllDone
    <3>8. CASE at \in {"derive", "refused", "fill"}
      BY <3>1, <3>7, <3>8 DEF ResultExactly
    <3>9. CASE at \notin {"derive", "refused", "fill"}
      BY <2>0, <3>1, <3>5, <3>6, <3>7, <3>9, ResultStays
    <3> QED BY <3>8, <3>9
  <2> QED BY <2>4, <2>5, <2>6, <2>7, <2>8, <2>9, <2>10, <2>11, <2>12, <2>13 DEF Next
<1> QED BY <1>1, <1>2, SumsInvariance, PTL DEF Spec

(* When all groups have ended, their shares are the whole summation.       *)
LEMMA AllAdded ==
  ASSUME RInv, Fits(prob), at = "compare", NEW cell \in Cells(prob)
  PROVE  AddedPart(cell) = 0 .. prob.gg.k - 1 /\ Added(cell) # {}
<1>1. IInv /\ MInv /\ AllDone
  BY DEF RInv, SInv, MInv, LInv
<1>2. IsProblem(prob) /\ Derivable(prob.hp, prob.gg) /\ Fits(prob) /\ MainWorkGroups(hp, g) \in Nat
  BY <1>1, Running DEF IInv
<1>3. group = MainWorkGroups(hp, g)
  BY <1>1 DEF AllDone
<1>4. block = "none"
  BY <1>1 DEF IInv, InMain
<1> DEFINE ids == 0 .. MainWorkGroups(prob.hp, prob.gg) - 1
<1>5. Added(cell) = {id \in ids : HasTile(prob, id, cell)}
  <2>1. Added(cell) = {id \in 0 .. group : HasTile(prob, id, cell) /\ id < group}
    BY <1>4 DEF Added, Written
  <2>2. \A id : id \in ids <=> id \in 0 .. group /\ id < group
    BY <1>2, <1>3 DEF hp, g
  <2> HIDE DEF ids
  <2> QED BY <2>1, <2>2
<1>6. AddedPart(cell) = UNION {PartOf(prob, id) : id \in Added(cell)}
  BY DEF AddedPart, PartOf, hp, g
<1>7. /\ \A id \in ids : PartOf(prob, id) \subseteq 0 .. prob.gg.k - 1
      /\ \A P \in 0 .. prob.gg.k - 1 : \E id \in ids : HasTile(prob, id, cell) /\ P \in PartOf(prob, id)
      /\ \E id \in ids : HasTile(prob, id, cell)
  BY <1>2, PartsOfCell
<1> HIDE DEF ids
<1> QED BY <1>5, <1>6, <1>7

(* The comparison finds what the host has computed.                        *)
LEMMA ComparesEqual ==
  ASSUME RInv, Fits(prob), Compare
  PROVE  at' = "accurate"
<1> DEFINE cpu == CpuResult(g, off, prob.tail)
           zones == Zones(g, off, prob.tail)
           n == BufferSize(g, off, prob.tail, "C")
<1>1. at = "compare"
  BY DEF Compare
<1>2. IInv /\ ResultExactly
  BY DEF RInv, SInv, MInv, LInv
<1>3. IsProblem(prob)
  BY <1>1, <1>2, Running DEF IInv
<1>4. CpuPossible(g)
  BY <1>3, ProblemGeometry, CpuAlwaysPossible DEF g
<1>5. UNION {zones[z] : z \in DOMAIN zones} = 0 .. n - 1
  BY <1>3, ZonesCover DEF g, off
<1>6. AddsUp(prob, cpu)
  BY <1>3, CpuAddsUp DEF g, off
<1>7. ASSUME NEW i \in 0 .. n - 1 PROVE cpu[i] = c[i]
  <2>1. CASE \E cell \in Cells(prob) : i = AtCell(prob, cell)
    <3>1. PICK cell \in Cells(prob) : i = AtCell(prob, cell)
      BY <2>1
    <3>2. cpu[i] = SetToBag({<<"beta", Old(i)>>} \cup ProductsOf(prob, cell[1], cell[2], 0 .. prob.gg.k - 1))
      BY <1>6, <3>1 DEF AddsUp
    <3>3. AddedPart(cell) = 0 .. prob.gg.k - 1 /\ Added(cell) # {}
      BY <1>1, AllAdded
    <3>4. Scaled(cell)
      BY <1>1, <3>3 DEF Scaled
    <3>5. c[i] = SetToBag({IF Scaled(cell) THEN <<"beta", Old(i)>> ELSE Old(i)}
                          \cup ProductsOf(prob, cell[1], cell[2], AddedPart(cell)))
      BY <1>1, <1>2, <3>1 DEF ResultExactly, AtCell
    <3> QED BY <3>2, <3>3, <3>4, <3>5
  <2>2. CASE ~\E cell \in Cells(prob) : i = AtCell(prob, cell)
    <3>1. i \in DOMAIN cpu /\ i \in DOMAIN c
      BY <1>1, <1>2, <1>6 DEF AddsUp, ResultExactly, g, off
    <3>2. cpu[i] = SetToBag({Old(i)})
      BY <1>6, <2>2, <3>1 DEF AddsUp
    <3>3. c[i] = SetToBag({Old(i)})
      BY <1>1, <1>2, <2>2, <3>1 DEF ResultExactly, AtCell
    <3> QED BY <3>2, <3>3
  <2> QED BY <2>1, <2>2
<1>8. Accurate(g, off, prob.tail, cpu, c)
  <2>1. \A z \in DOMAIN zones : \A i \in zones[z] : i \in 0 .. n - 1
    <3> HIDE DEF zones, n
    <3> QED BY <1>5
  <2> HIDE DEF cpu
  <2>2. Accurate(g, off, prob.tail, cpu, c) <=>
          /\ UNION {zones[z] : z \in DOMAIN zones} = 0 .. n - 1
          /\ \A z \in DOMAIN zones : \A i \in zones[z] : cpu[i] = c[i]
    BY DEF Accurate
  <2> HIDE DEF zones, n
  <2> QED BY <1>5, <1>7, <2>1, <2>2
<1> QED BY <1>4, <1>8 DEF Compare

(* Functional correctness: whatever the geometry, the offsets and the      *)
(* hyper-parameters that can be derived, and however the work items of a   *)
(* group interleave, when the kernels have run every element of C is       *)
(* scaled once and has every product of its row and column once, and       *)
(* nothing else has changed: the accuracy test does not throw.  What it    *)
(* takes is that identifiers of groups fit the type chosen for them.       *)
THEOREM SameAsCpuWhereIdsFit == Spec => [](Fits(prob) => SameAsCpu)
<1>1. Init => SameAsCpu
  BY DEF Init, SameAsCpu
<1>2. RInv /\ (Fits(prob) => SameAsCpu) /\ [Next]_vars => (Fits(prob) => SameAsCpu)'
  <2> SUFFICES ASSUME RInv, SameAsCpu, Fits(prob), [Next]_vars PROVE at' # "inaccurate"
    <3>1. [Next]_vars => (Fits(prob)' <=> Fits(prob))
      <4> SUFFICES ASSUME [Next]_vars PROVE Fits(prob)' <=> Fits(prob)
        OBVIOUS
      <4>1. prob' = prob
        BY SameProblem
      <4> QED BY <4>1
    <3> QED BY <3>1 DEF SameAsCpu
  <2>1. CASE Compare
    BY <2>1, ComparesEqual
  <2>2. CASE ~Compare
    BY <2>2 DEF SameAsCpu, Next, Derive, Fill, Pack, ScaleC, StartGroup, LoadBarrier, MathBarrier, EndGroup,
                EndMain, Load, Math, Write, Finished, vars
  <2> QED BY <2>1, <2>2
<1> QED BY <1>1, <1>2, ResultInvariance, PTL DEF Spec

(* The kernels that a search can come upon in a graph that nothing         *)
(* constrains are correct.                                                 *)
THEOREM SameAsCpuInGraph == Spec => [](FromGraph => SameAsCpu)
<1>1. IInv /\ (Fits(prob) => SameAsCpu) => (FromGraph => SameAsCpu)
  <2> SUFFICES ASSUME IInv, Fits(prob) => SameAsCpu, FromGraph PROVE SameAsCpu
    OBVIOUS
  <2>1. CASE at \in {"derive", "refused"}
    BY <2>1 DEF SameAsCpu
  <2>2. CASE at \notin {"derive", "refused"}
    <3>1. IsProblem(prob) /\ Derivable(prob.hp, prob.gg)
      BY <2>2, Running DEF IInv
    <3>2. InGraph(Graph(prob.gg, Gpu, [range |-> [x \in Mats |-> <<>>], start |-> [x \in Mats |-> <<>>]]), prob.hp)
      BY DEF FromGraph, hp, g
    <3>3. Fits(prob)
      BY <3>1, <3>2, IdFits DEF Fits
    <3> QED BY <3>3
  <2> QED BY <2>1, <2>2
<1> QED BY <1>1, Invariance, SameAsCpuWhereIdsFit, PTL

(* A problem is run only if its work groups are told apart.                *)
LEMMA Identifies ==
  ASSUME IdsFit, IInv, Identified, [Next]_vars
  PROVE  Identified'
<1>1. prob' = prob
  BY SameProblem
<1>2. CASE Derive
  <2>1. prob \in Problems /\ g.m * g.n * g.k <= MaxWork /\ (at' # "refused" => Derivable(hp, g))
    BY <1>2 DEF IInv, Derived, Derive
  <2>2. at' # "refused" => Fits(prob)
    BY <2>1 DEF IdsFit, hp, g
  <2> QED BY <1>1, <2>2 DEF Identified
<1>3. CASE ~Derive
  <2>1. at' \notin {"derive", "refused"} => at \notin {"derive", "refused"}
    <3>1. block # "none" => at = "main"
      BY DEF IInv, InMain
    <3>2. CASE Fill \/ Pack \/ ScaleC \/ StartGroup \/ EndMain \/ Compare
      BY <3>2 DEF Fill, Pack, ScaleC, StartGroup, EndMain, Compare
    <3>3. CASE LoadBarrier \/ MathBarrier \/ EndGroup
      BY <3>1, <3>3 DEF LoadBarrier, MathBarrier, EndGroup
    <3>4. CASE Finished \/ UNCHANGED vars
      BY <3>4 DEF Finished, vars
    <3> QED BY <1>3, <3>2, <3>3, <3>4 DEF Next
  <2> QED BY <1>1, <2>1 DEF Identified
<1> QED BY <1>2, <1>3

(* Where the identifiers of the groups of all problems fit, the accuracy   *)
(* test never throws.                                                      *)
THEOREM SameAsCpuAlways == ASSUME IdsFit PROVE Spec => []SameAsCpu
<1>1. Init => Identified
  BY DEF Init, Identified
<1>2. IInv /\ Identified /\ [Next]_vars => Identified'
  BY Identifies
<1>3. Spec => []Identified
  BY <1>1, <1>2, Invariance, PTL DEF Spec
<1>4. Identified /\ (Fits(prob) => SameAsCpu) => SameAsCpu
  BY DEF Identified, SameAsCpu
<1> QED BY <1>3, <1>4, SameAsCpuWhereIdsFit, PTL
================================================================================
