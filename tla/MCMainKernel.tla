------------------------------ MODULE MCMainKernel ------------------------------
(***************************************************************************)
(* Instances of MainKernel for TLC: small problems of which the kernels     *)
(* are run, and large ones of which they are only derived.                 *)
(***************************************************************************)
EXTENDS MainResult, TLC

MCGpu == [wgAtom |-> 64, maxWorkGroup |-> 256, localMem |-> 32768]

Pair(a, b) == [A |-> a, B |-> b]

(* mic, vew, wos and pad of A and of B; unr, gal, ice and mac of C.         *)
HP(mic, vew, wos, pad, cc) ==
  [x \in Mats |->
     IF x = "C"
     THEN [UNR |-> cc[1], GAL |-> cc[2], PUN |-> 0, ICE |-> cc[3], IWI |-> 0, SZT |-> 0,
           MAD |-> 0, NAW |-> 16, UFO |-> 0, MAC |-> cc[4], SKW |-> 10, AFI |-> 0, MIA |-> 0]
     ELSE [MIC |-> mic[x], PAD |-> pad[x], PLU |-> 0, LIW |-> 0, MIW |-> 0, WOS |-> wos[x],
           VEW |-> vew[x]]]

SetC(hy, f) == [hy EXCEPT !["C"] = f @@ @]
SetX(hy, x, f) == [hy EXCEPT ![x] = f @@ @]

NoOffsets == [x \in Mats \cup {"W"} |-> 0]
SomeOffsets == "A" :> 1 @@ "B" :> 0 @@ "C" :> 2 @@ "W" :> 1

Problem(hy, geo) == [hp |-> hy, gg |-> geo, off |-> NoOffsets, tail |-> NoOffsets]
Apart(hy, geo) == [hp |-> hy, gg |-> geo, off |-> SomeOffsets, tail |-> SomeOffsets]

Tight(m, n, k, tA, tB, ws) == TightGeometry(m, n, k, tA, tB, ws, "f")
Wider(geo) == [geo EXCEPT !.ld = [x \in Mats |-> geo.ld[x] + 2]]
RowMajor(geo) ==
  [geo EXCEPT !.cm = FALSE, !.t = [A |-> geo.t["B"], B |-> geo.t["A"], C |-> FALSE],
              !.ld = [A |-> geo.ld["B"], B |-> geo.ld["A"], C |-> geo.ld["C"]],
              !.m = geo.n, !.n = geo.m]

Ones == Pair(1, 1)
Twos == Pair(2, 2)
Zeros == Pair(0, 0)
Plain == HP(Ones, Ones, Zeros, Ones, <<2, BYROW, 1, 4>>)
Micro(gal, ice) == HP(Ones, Ones, Zeros, Ones, <<2, gal, ice, 1>>)
Vector == HP(Twos, Twos, Zeros, Pair(1, 0), <<2, BYCOL, 1, 4>>)
Copies(mac) == HP(Pair(2, 1), Ones, Pair(COPY, COPY), Pair(0, 1), <<2, BYCOL, 1, mac>>)
Normal == HP(Pair(2, 2), Ones, Pair(NFORM, NFORM), Pair(0, 1), <<16, BYROW, 1, 4>>)

Weave == "LIW" :> 1 @@ "MIW" :> 1 @@ "PLU" :> 1

(* All of the summation is split: by 2 or by 3, in turns or not, with an   *)
(* offset of the unrolls or without it.                                    *)
Splits ==
  {Problem(SetC(Micro(BYCOL, ice), "IWI" :> iwi @@ "UFO" :> ufo), Tight(1, 2, kk, FALSE, tB, 0)) :
     ice \in {2, 3}, iwi \in {0, 1}, ufo \in {0, 1}, kk \in {3, 5, 8, 9}, tB \in {FALSE}}

(* Groups go by row, by column or by super-column, the last narrower.      *)
Orders ==
  {Problem(Micro(gal, ice), Tight(2, nn, 1, FALSE, FALSE, 0)) :
     gal \in {BYROW, BYCOL, SUCOL}, ice \in {1, 3}, nn \in {4, 5}}

(* Tiles of 4 x 4 that overlap at the edge, in all the layouts of matrices. *)
Layouts ==
  {Apart(SetC(SetX(SetX(HP(Twos, Ones, Zeros, Pair(1, 0), <<2, BYCOL, 1, 4>>), "A", Weave), "B", ("PLU" :> plu)),
             "MIA" :> plu),
         IF cm THEN Wider(Tight(5, 4, 3, tA, tB, 0)) ELSE RowMajor(Wider(Tight(5, 4, 3, tA, tB, 0)))) :
     cm \in BOOLEAN, tA \in BOOLEAN, tB \in BOOLEAN, plu \in {1}}

TransposedC == [Wider(Tight(3, 3, 2, TRUE, TRUE, 0)) EXCEPT !.t = [@ EXCEPT !["C"] = TRUE]]

Vectors ==
  {Problem(SetX(SetX(Vector, "A", "LIW" :> liw), "B", "MIW" :> miw) , Tight(4, 6, 4, FALSE, TRUE, 0)) :
     liw \in {0, 1}, miw \in {0, 1}}
  \cup {Problem(SetX(SetX(HP(Twos, Twos, Zeros, Ones, <<4, BYCOL, 1, 4>>), "A", "LIW" :> 1), "B", "LIW" :> 1),
                Tight(6, 4, 4, FALSE, TRUE, 0))}

Workspaces ==
  {Apart(Copies(2), Tight(5, 3, 4, tA, FALSE, 200)) : tA \in BOOLEAN}
  \cup {Problem(SetX(Copies(2), "A", "WOS" :> UNUSED), Tight(5, 3, 4, FALSE, TRUE, 64)),
        Problem(Copies(1), Tight(2, 2, 2, FALSE, FALSE, 20)),
        Apart(Normal, Tight(5, 4, 17, FALSE, FALSE, 204)),
        Apart(SetX(Normal, "A", "WOS" :> COPY), Tight(4, 5, 16, TRUE, TRUE, 260)),
        Problem(SetX(Normal, "B", "WOS" :> UNUSED), RowMajor(Tight(4, 4, 18, FALSE, TRUE, 100)))}

Odd ==
  {Problem(Plain, Tight(2, 2, 3, FALSE, FALSE, 0)),
   Apart(Plain, Wider(Tight(3, 3, 2, TRUE, FALSE, 0))),
   Apart(Plain, TransposedC),
   Problem(SetC(Plain, "UFO" :> 1 @@ "SZT" :> 1), Tight(3, 3, 5, TRUE, FALSE, 0)),
   Problem(SetC(Plain, "UFO" :> 1), Tight(2, 2, 1, TRUE, FALSE, 0)),
   Problem(SetC(Plain, "SKW" :> 9 @@ "UNR" :> 4), Tight(5, 1, 3, FALSE, FALSE, 0)),
   Problem(SetC(Plain, "SKW" :> 7), Tight(4, 4, 2, FALSE, FALSE, 0))}

Small == Splits \cup Orders \cup Layouts \cup Vectors \cup Workspaces \cup Odd

(* Problems of which the kernels are derived only: every macro tile with   *)
(* every unroll, and very many work groups.                                *)
Tiles ==
  {Problem(SetC(HP(Pair(mic, 3), Ones, Pair(wos, wos), Ones, <<unr, BYROW, 1, mac>>), "SKW" :> skew),
           Tight(256, 256, 100, FALSE, TRUE, 100000000)) :
     mic \in {1, 2, 3, 5, 8, 10}, wos \in {UNUSED, NFORM}, unr \in {1, 4, 8, 16, 32, 128},
     mac \in {16, 32, 64, 128, 256}, skew \in {8, 10, 11}}

ManyGroups ==
  {Problem(HP(Ones, Ones, Zeros, Ones, <<8, BYROW, 14, mac>>), Tight(dim[1], dim[2], 100, FALSE, FALSE, 0)) :
     mac \in {1, 4, 32, 64}, dim \in {<<64, 64>>, <<65, 64>>, <<100, 100>>, <<255, 257>>, <<4096, 1>>}}

MCProblems == Small \cup Tiles \cup ManyGroups

(* The work groups of the problems that are run are told apart.            *)
ASSUME MCIdsFit == IdsFit
=================================================================================
