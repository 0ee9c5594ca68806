------------------------------- MODULE HyperGraph -------------------------------
(***************************************************************************)
(* The graph of hyper-parameters that a search walks on.  A graph has, for *)
(* every matrix and parameter, the edges, the range and the start range.   *)
(***************************************************************************)
EXTENDS DerivedParams

g_binary == [v \in {NO, YES} |-> {YES - v}]

ChiEdges ==
  [MIC |-> [v \in {1, 2, 3, 4, 5, 6, 8, 10} |->
              CASE v = 1 -> {2, 3}  [] v = 2 -> {1, 3, 4}  [] v = 3 -> {1, 2, 4}
                [] v = 4 -> {2, 3, 5, 6}  [] v = 5 -> {2, 4, 6}  [] v = 6 -> {4, 5, 8}
                [] v = 8 -> {4, 6, 10}  [] v = 10 -> {8, 6, 5}],
   PAD |-> [v \in 0 .. 2 |-> {v - 1, v + 1} \cap (0 .. 2)],
   PLU |-> g_binary, LIW |-> g_binary, MIW |-> g_binary,
   VEW |-> [v \in {1, 2, 4} |-> CASE v = 1 -> {2}  [] v = 2 -> {1, 4}  [] v = 4 -> {2, 1}],
   WOS |-> [w \in {UNUSED, COPY, NFORM} |-> {UNUSED, COPY, NFORM} \ {w}]]

TinyMacs ==
  [v \in {1, 4, 16, 32, 64, 256} |->
     CASE v = 1 -> {4, 16, 32, 64, 256}  [] v = 4 -> {1, 16, 32, 64, 256}
       [] v = 16 -> {4, 32, 64, 256}  [] v = 32 -> {4, 16, 64, 256}
       [] v = 64 -> {16, 32, 64, 256}  [] v = 256 -> {32, 64}]

MacsUpTo(area, g, device) ==
  CASE g.m * g.n <= area -> TinyMacs
    [] g.m * g.n > area /\ device.wgAtom = 64 -> [v \in {64, 256} |-> {64, 256} \ {v}]
    [] OTHER -> [v \in {32, 64, 128, 256} |->
                   CASE v = 32 -> {64, 256}  [] v = 64 -> {32, 128, 256}
                     [] v = 128 -> {64, 256}  [] v = 256 -> {64}]

(* A slip: tiny tiles for matrices that are not small.                     *)
MacEdgesOfLarger(g, device) == MacsUpTo(256 * 256, g, device)

MacEdges(g, device) == MacsUpTo(64 * 64, g, device)

CEdges(g, device) ==
  [UNR |-> [v \in {1, 2, 4, 8, 16, 32, 64, 128} |->
              CASE v = 1 -> {2}  [] v = 2 -> {1, 4}  [] v = 4 -> {2, 8}  [] v = 8 -> {4, 16}
                [] v = 16 -> {8, 32}  [] v = 32 -> {16, 64}  [] v = 64 -> {16, 32, 128}
                [] v = 128 -> {32, 64}],
   NAW |-> [v \in {16, 64} |-> {16, 64} \ {v}],
   GAL |-> [a \in {BYROW, BYCOL, SUCOL} |-> {BYROW, BYCOL, SUCOL} \ {a}],
   MAC |-> MacEdges(g, device),
   SKW |-> [s \in 7 .. 13 |-> {s - 1, s + 1} \cap (7 .. 13)],
   ICE |-> [v \in 1 .. 14 |->
              CASE v = 1 -> {2}  [] v = 2 -> {1, 3, 4}  [] v = 3 -> {1, 2, 4, 6}
                [] v = 4 -> {1, 3, 5, 7}  [] v = 5 -> {1, 2, 4, 6, 8}
                [] v = 6 -> {1, 3, 5, 7, 9}  [] v = 7 -> {4, 6, 8, 10}
                [] v = 8 -> {1, 5, 7, 9, 11}  [] v = 9 -> {6, 8, 10, 12}
                [] v = 10 -> {1, 7, 9, 11, 13}  [] v = 11 -> {8, 10, 12, 14}
                [] v = 12 -> {1, 9, 11, 13, 14}  [] v = 13 -> {10, 12, 14}
                [] v = 14 -> {1, 11, 13}],
   PUN |-> g_binary, IWI |-> g_binary, UFO |-> g_binary, AFI |-> g_binary,
   MIA |-> g_binary, SZT |-> g_binary, MAD |-> g_binary]

EdgesOf(g, device, x) == IF x = "C" THEN CEdges(g, device) ELSE ChiEdges

---------------------------------------------------------------------------
(* Where a random start is drawn from, before constraints.                 *)

StartMic(g, x) ==
  LET dim == NonKDim(g, x)
      small == MinOf(g.m, g.n)
      smaller(d, side, s) == dim < d \/ g.m * g.n < side * side \/ small < s
  IN {mic \in {8, 6} \cup (IF smaller(256, 400, 32) THEN {5, 4} ELSE {})
                     \cup (IF smaller(128, 200, 16) THEN {3, 2} ELSE {})
                     \cup (IF smaller(64, 100, 8) THEN {1} ELSE {}) : mic <= dim}

RefinedStart(g, device, x, p, range) ==
  CASE p = "PAD" -> {1, 2}
    [] p = "WOS" -> IF g.ws = 0 THEN {UNUSED} ELSE {UNUSED, COPY, NFORM}
    [] p = "VEW" -> {1}
    [] p = "MIC" -> StartMic(g, x)
    [] p = "ICE" -> {1}
    [] p \in {"UFO", "SZT"} -> {NO}
    [] p = "SKW" /\ g.m > 200 /\ g.n > 200 ->
         IF device.wgAtom = 32 THEN {Skew0, Skew0 + 1} ELSE {Skew0}
    [] OTHER -> range

(* A constraint leaves one value without edges, which need not have been    *)
(* in the range; a constraint of the start has to be in the range.         *)
Graph(g, device, cons) ==
  [x \in Mats |-> [p \in XChi(x) |->
     LET edges == IF Defined(cons.range[x], p) THEN [v \in {cons.range[x][p]} |-> {}]
                  ELSE EdgesOf(g, device, x)[p]
     IN [edges |-> edges,
         start |-> IF Defined(cons.start[x], p) THEN {cons.start[x][p]}
                   ELSE IF Defined(cons.range[x], p) THEN DOMAIN edges
                   ELSE RefinedStart(g, device, x, p, DOMAIN edges)]]]

RangeOf(graph, x, p) == DOMAIN graph[x][p].edges

(* What the checks of the constructor pass: an edge that ends outside the  *)
(* range is no reason to throw.                                            *)
GraphPossible(graph, device) ==
  /\ device.wgAtom \in {32, 64}
  /\ \A x \in Mats : \A p \in XChi(x) : graph[x][p].start \subseteq RangeOf(graph, x, p)

InGraph(graph, hp) == \A x \in Mats : \A p \in XChi(x) : hp[x][p] \in RangeOf(graph, x, p)

StartChi(graph, x) ==
  [MIC : graph[x]["MIC"].start, PAD : graph[x]["PAD"].start, PLU : graph[x]["PLU"].start,
   LIW : graph[x]["LIW"].start, MIW : graph[x]["MIW"].start, WOS : graph[x]["WOS"].start,
   VEW : graph[x]["VEW"].start]

StartC(graph) ==
  [UNR : graph["C"]["UNR"].start, GAL : graph["C"]["GAL"].start, PUN : graph["C"]["PUN"].start,
   ICE : graph["C"]["ICE"].start, IWI : graph["C"]["IWI"].start, SZT : graph["C"]["SZT"].start,
   MAD : graph["C"]["MAD"].start, NAW : graph["C"]["NAW"].start, UFO : graph["C"]["UFO"].start,
   MAC : graph["C"]["MAC"].start, SKW : graph["C"]["SKW"].start, AFI : graph["C"]["AFI"].start,
   MIA : graph["C"]["MIA"].start]

RandomStarts(graph) ==
  [A : StartChi(graph, "A"), B : StartChi(graph, "B"), C : StartC(graph)]

---------------------------------------------------------------------------
(* Neighbours.  Looking up the edges of a value that is no key throws.     *)

NeighborsPossible(graph, hp) == InGraph(graph, hp)

With(hp, x, p, v) == [hp EXCEPT ![x] = [@ EXCEPT ![p] = v]]

HasNoEffect(hp, p) ==
  \/ p = "NAW" /\ hp["C"]["GAL"] # SUCOL
  \/ p = "IWI" /\ hp["C"]["ICE"] = 1

OneAways(graph, hp) ==
  UNION {{With(hp, s[1], s[2], v) : v \in graph[s[1]][s[2]].edges[hp[s[1]][s[2]]]} :
           s \in {t \in Mats \X (Chi \cup NonChi) : t[2] \in XChi(t[1]) /\ ~HasNoEffect(hp, t[2])}}

PCoupled == {<<<<"A", "MIC">>, <<"B", "MIC">>>>, <<<<"C", "UFO">>, <<"C", "PUN">>>>,
             <<<<"C", "UNR">>, <<"C", "ICE">>>>}

(* Two parameters change at once, one of them up and the other down.       *)
PCoupledAway(graph, hp) ==
  UNION {LET x == c[1][1]  p == c[1][2]  v == hp[x][p]
             y == c[2][1]  q == c[2][2]  w == hp[y][q]
         IN {With(With(hp, x, p, e[1]), y, q, e[2]) :
               e \in {f \in graph[x][p].edges[v] \X graph[y][q].edges[w] :
                        (f[2] > w) # (f[1] > v)}} : c \in PCoupled}

(* A slip: a micro tile that the graph does not have.                      *)
MicMacOutsideGraph(graph, hp) ==
  LET now == MacroGrid(hp)
      mic(x, mac) == (hp[x]["MIC"] * now[x]) \div Grid(mac, hp["C"]["SKW"])[x]
      fits(x, mac) == mic(x, mac) # hp[x]["MIC"]
      macs == {mac \in graph["C"]["MAC"].edges[hp["C"]["MAC"]] : Grid(mac, hp["C"]["SKW"]).isGood}
      to(xs, mac) == [x \in Mats |->
                        IF x \in xs THEN [hp[x] EXCEPT !["MIC"] = mic(x, mac)]
                        ELSE IF x = "C" THEN [hp[x] EXCEPT !["MAC"] = mac] ELSE hp[x]]
  IN UNION {{to(xs, mac) : xs \in {ys \in SUBSET Chiral : ys # {} /\ \A x \in ys : fits(x, mac)}} :
              mac \in macs}

(* Another MAC, and one or both MIC such that the macro tile stays about   *)
(* the same.                                                               *)
MicMacTransformed(graph, hp) ==
  LET now == MacroGrid(hp)
      mic(x, mac) == (hp[x]["MIC"] * now[x]) \div Grid(mac, hp["C"]["SKW"])[x]
      fits(x, mac) == mic(x, mac) # hp[x]["MIC"] /\ mic(x, mac) \in RangeOf(graph, x, "MIC")
      macs == {mac \in graph["C"]["MAC"].edges[hp["C"]["MAC"]] : Grid(mac, hp["C"]["SKW"]).isGood}
      to(xs, mac) == [x \in Mats |->
                        IF x \in xs THEN [hp[x] EXCEPT !["MIC"] = mic(x, mac)]
                        ELSE IF x = "C" THEN [hp[x] EXCEPT !["MAC"] = mac] ELSE hp[x]]
  IN UNION {{to(xs, mac) : xs \in {ys \in SUBSET Chiral : ys # {} /\ \A x \in ys : fits(x, mac)}} :
              mac \in macs}

Neighbors(graph, hp) ==
  OneAways(graph, hp) \cup PCoupledAway(graph, hp) \cup MicMacTransformed(graph, hp)

(* get_neighbors gathers a list, and its caller refuses one that has the   *)
(* same twice: the three kinds have to differ.  One of the neighbours of   *)
(* MAC 64 is MAC 64 again, which the history of the search then sorts out. *)
NeighborsDiffer(graph, hp) ==
  \A s, t \in {OneAways(graph, hp), PCoupledAway(graph, hp), MicMacTransformed(graph, hp)} :
    s # t => s \cap t = {}
================================================================================
