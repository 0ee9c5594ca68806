-------------------------------- MODULE MCLookup --------------------------------
(***************************************************************************)
(* Instances of Lookup for TLC: problems of a few sizes in several layouts, *)
(* and two large ones that are so close that their workspaces tell.        *)
(***************************************************************************)
EXTENDS Lookup, TLC

MCDevice(atom) == [identifier |-> "gfx", wgAtom |-> atom, maxWorkGroup |-> 256, localMem |-> 32768]

HP(a, b, c, waste) ==
  [A |-> [GenericChi(a[1], 1, 0, 1) EXCEPT !.WOS = a[2], !.VEW = a[3]],
   B |-> [GenericChi(b[1], 1, 1, 0) EXCEPT !.WOS = b[2], !.VEW = b[3]],
   C |-> [GenericC(c[1], BYROW, 0, 0, 0, 64, c[2], 1, 0) EXCEPT !.SKW = c[3], !.ICE = waste]]

Tall == HP(<<4, 0, 1>>, <<2, 0, 1>>, <<8, 64, 10>>, 1)
Wide == HP(<<1, 0, 1>>, <<4, 0, 1>>, <<16, 64, 9>>, 1)
Split == HP(<<2, 0, 1>>, <<2, 0, 1>>, <<8, 16, 10>>, 3)
Normal == HP(<<4, 2, 2>>, <<2, 0, 1>>, <<8, 64, 10>>, 1)
Extreme == HP(<<1, 0, 1>>, <<8, 0, 1>>, <<16, 128, 7>>, 1)
Oblong == HP(<<4, 0, 1>>, <<10, 0, 1>>, <<8, 32, 9>>, 1)
CopyB == HP(<<1, 0, 1>>, <<1, 1, 1>>, <<4, 1, 10>>, 1)
Sixths == HP(<<3, 0, 1>>, <<1, 0, 1>>, <<8, 48, 10>>, 1)
TooBig == HP(<<10, 0, 1>>, <<10, 0, 1>>, <<8, 256, 10>>, 1)

G(ws, tA, ft) == TightGeometry(64, 32, 16, tA, FALSE, ws, ft)
Big == TightGeometry(128, 128, 64, FALSE, FALSE, 0, "f")
Small == TightGeometry(4, 4, 4, FALSE, FALSE, 64, "f")

(* Two problems of which the features are the same, but not the workspace: *)
(* as much as it has in the second makes up for more than a column.        *)
Huge(m, ws) ==
  [TightGeometry(m, 16384, 16, FALSE, FALSE, ws, "f") EXCEPT !.ld = [A |-> 65536, B |-> 16, C |-> 65536]]

(* The same problem in row major, and with C transposed as well.           *)
RowMajor(g) ==
  [g EXCEPT !.cm = FALSE, !.t = [A |-> g.t["B"], B |-> g.t["A"], C |-> g.t["C"]],
            !.ld = [A |-> g.ld["B"], B |-> g.ld["A"], C |-> g.ld["C"]], !.m = g.n, !.n = g.m]

TransposedC(g) ==
  [g EXCEPT !.t = [A |-> ~g.t["B"], B |-> ~g.t["A"], C |-> ~g.t["C"]],
            !.ld = [A |-> g.ld["B"], B |-> g.ld["A"], C |-> g.ld["C"]], !.m = g.n, !.n = g.m]

None == [x \in Mats |-> <<>>]
Key(g, con) == [dvc |-> "gfx", con |-> con, gg |-> g]
OtherKey(g) == [dvc |-> "fiji", con |-> None, gg |-> g]
ICE1 == [None EXCEPT !["C"] = "ICE" :> 1]
MAC48 == [None EXCEPT !["C"] = "MAC" :> 48]

MCCaches ==
  {Key(G(0, FALSE, "f"), None) :> Tall @@ Key(G(0, TRUE, "f"), None) :> Wide
   @@ Key(G(0, FALSE, "d"), None) :> Tall @@ Key(Big, None) :> Extreme
   @@ Key(G(0, FALSE, "f"), MAC48) :> Sixths,
   Key(G(0, FALSE, "f"), None) :> Split @@ OtherKey(G(1024, FALSE, "f")) :> Wide
   @@ Key(G(0, FALSE, "f"), ICE1) :> Tall,
   Key(G(0, FALSE, "f"), None) :> TooBig @@ Key(G(1024, FALSE, "f"), ICE1) :> Normal
   @@ Key(Small, None) :> CopyB,
   Key(G(0, FALSE, "d"), None) :> Oblong @@ Key(Huge(65536, 0), None) :> Wide
   @@ Key(Huge(65535, 400000), None) :> Tall}

Req(g, range, start, enoc, rank, atom) ==
  [gg |-> g, range |-> range, start |-> start, enoc |-> enoc, rank |-> rank,
   device |-> MCDevice(atom)]

(* Constraints of all but MIC, MAC, UNR and ICE.                           *)
ChiFixed(x) == <<<<x, "PAD", 1>>, <<x, "PLU", 0>>, <<x, "LIW", 1>>, <<x, "MIW", 0>>,
                 <<x, "WOS", 0>>, <<x, "VEW", 1>>>>
CFixed == <<<<"C", "GAL", 1>>, <<"C", "PUN", 0>>, <<"C", "IWI", 0>>, <<"C", "SZT", 0>>,
            <<"C", "MAD", 0>>, <<"C", "NAW", 64>>, <<"C", "UFO", 0>>, <<"C", "SKW", 10>>,
            <<"C", "AFI", 0>>, <<"C", "MIA", 0>>>>
Fixed == ChiFixed("A") \o ChiFixed("B") \o CFixed

g0 == G(0, FALSE, "f")
Det == <<<<"C", "ICE", 2>>, <<"C", "ICE", 1>>>>

(* A start of which only some numbers are free.                            *)
StartChiFixed(x) == <<<<x, "PAD", 1>>, <<x, "PLU", 0>>, <<x, "LIW", 1>>, <<x, "MIW", 1>>, <<x, "WOS", 0>>>>
StartFixed ==
  StartChiFixed("A") \o StartChiFixed("B") \o
  <<<<"C", "GAL", 1>>, <<"C", "PUN", 0>>, <<"C", "IWI", 0>>, <<"C", "MAD", 0>>, <<"C", "NAW", 64>>,
    <<"C", "AFI", 0>>, <<"C", "MIA", 0>>, <<"C", "SKW", 10>>, <<"C", "UNR", 8>>, <<"C", "MAC", 64>>,
    <<"A", "MIC", 4>>>>

MCRequests ==
  {Req(g, r, <<>>, "GENERIC", rank, 64) :
     g \in {g0, RowMajor(g0), G(1024, FALSE, "f"), RowMajor(TransposedC(g0))},
     r \in {<<>>, Det, <<<<"A", "MIC", 4>>, <<"C", "AFI", 1>>>>}, rank \in {0, 1}}
  \cup {Req(g, r, StartFixed, "RANDOM", rank, 64) :
           g \in {g0, RowMajor(g0), G(1024, FALSE, "f")}, r \in {<<>>, Det}, rank \in {0, 1}}
  \cup {Req(g, <<<<"C", "MAC", 48>>>>, <<>>, "GENERIC", 0, 64) : g \in {g0, RowMajor(g0)}}
  \cup {Req(RowMajor(Big), <<>>, <<>>, "GENERIC", 0, 32),
        Req(TransposedC(Small), <<>>, <<>>, "GENERIC", 0, 64),
        Req(g0, Fixed, <<<<"C", "UNR", 8>>, <<"B", "MIC", 2>>>>, "RANDOM", 1, 64),
        Req(g0, Fixed, <<<<"A", "MIC", 2>>, <<"C", "SKW", 9>>>>, "RANDOM", 0, 64),
        Req(RowMajor(g0), Fixed, <<<<"A", "MIC", 2>>, <<"B", "MIC", 4>>>>, "RANDOM", 2, 64),
        Req(TightGeometry(64, 64, 16, FALSE, TRUE, 64, "f"), <<>>, StartFixed, "RANDOM", 0, 64),
        Req(g0, <<<<"A", "UNR", 8>>>>, <<>>, "GENERIC", 0, 64),
        Req(g0, <<<<"C", "MAC", 1>>, <<"C", "SKW", 13>>>>, <<>>, "GENERIC", 0, 64),
        Req(RowMajor(g0), <<<<"C", "MAC", 1>>, <<"C", "SKW", 13>>>>, <<>>, "GENERIC", 0, 64),
        Req(g0, <<>>, <<>>, "GENERIC", 0, 16),
        Req(Huge(65536, 0), <<>>, <<>>, "GENERIC", 0, 64),
        Req(RowMajor(Huge(65535, 400000)), <<>>, <<>>, "GENERIC", 0, 64),
        Req(TightGeometry(128, 128, 16, TRUE, TRUE, 0, "f"), <<>>, <<>>, "GENERIC", 0, 64),
        Req(TightGeometry(1024, 1024, 16, TRUE, TRUE, 0, "f"), <<>>, <<>>, "GENERIC", 0, 64)}

(* The logarithms, in units of which 200 000 make 0.2 in a distance.       *)
MCUnit == 200000
MCLog2Of == [x \in Powers |-> MCUnit * Log2(x)] @@ 65535 :> 3199996
MCLogOf == 0 :> 1 @@ 24 :> 32 @@ 64 :> 42 @@ 1024 :> 69 @@ 400000 :> 129

(* The caches are those that the theorems are about.                       *)
ASSUME MCInputs == WholeInputs
================================================================================
