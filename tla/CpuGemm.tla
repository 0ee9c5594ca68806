--------------------------------- MODULE CpuGemm ---------------------------------
(***************************************************************************)
(* What the accuracy test compares a result with: the host matrices, the   *)
(* GEMM of three loops on the host, and the comparison by zones.           *)
(* An element of a result is a bag of terms: products of an address of A   *)
(* and one of B, and the element of C before, scaled by beta or not.       *)
(* Elements are compared as bags: the real comparison allows for rounding. *)
(***************************************************************************)
EXTENDS Geometry, Bags

BufferSize(g, off, tail, x) == PaddedArea(g, x) + off[x] + tail[x]

(* fill_uni: the part of thread t, of four.                                *)
FillThreads == 4
FillPart(size, t) == (t * size) \div FillThreads .. ((t + 1) * size) \div FillThreads - 1

Junk == -1  \* what memory holds that nothing was written to

Filled(size) ==
  [i \in 0 .. size - 1 |-> IF \E t \in 0 .. FillThreads - 1 : i \in FillPart(size, t) THEN i ELSE Junk]

---------------------------------------------------------------------------
Old(i) == <<"c", i>>
Prod(a, b) == <<"ab", a, b>>

Scale(bag) == [t \in {<<"beta", s>> : s \in DOMAIN bag} |-> bag[t[2]]]

(* The bag of f[i] for i in the domain of f.                               *)
BagOf(f) == [v \in {f[i] : i \in DOMAIN f} |-> Cardinality({i \in DOMAIN f : f[i] = v})]

(* gemm redirects, and then there are four cases of the two transposes.    *)
CpuPossible(g) == RedirectionDone(Canonical(g)) /\ LdxConsistent(Canonical(g))

CpuElement(g, off, i, j) ==
  LET h == Canonical(g)
      a(z) == IF h.t["A"] THEN i * h.ld["A"] + z ELSE i + z * h.ld["A"]
      b(z) == IF h.t["B"] THEN j + z * h.ld["B"] ELSE j * h.ld["B"] + z
  IN BagOf([z \in 0 .. h.k - 1 |->
              IF IsNotCanonical(g) THEN Prod(off["A"] + b(z), off["B"] + a(z))
                                   ELSE Prod(off["A"] + a(z), off["B"] + b(z))])

CpuResult(g, off, tail) ==
  LET h == Canonical(g)
      cell == [address \in {off["C"] + i + j * h.ld["C"] : i \in 0 .. h.m - 1, j \in 0 .. h.n - 1} |->
                 <<(address - off["C"]) % h.ld["C"], (address - off["C"]) \div h.ld["C"]>>]
  IN [address \in 0 .. BufferSize(g, off, tail, "C") - 1 |->
        IF address \in DOMAIN cell
        THEN Scale(SetToBag({Old(address)})) (+) CpuElement(g, off, cell[address][1], cell[address][2])
        ELSE SetToBag({Old(address)})]

---------------------------------------------------------------------------
(* elementwise_compare throws for an element that differs, and for one     *)
(* that is in none of its zones.                                           *)

Zones(g, off, tail) ==
  LET proper(js) == {off["C"] + i * g.ld["C"] + j : i \in 0 .. Uncoal(g, "C") - 1, j \in js}
  IN [before |-> 0 .. off["C"] - 1,
      after |-> off["C"] + PaddedArea(g, "C") .. BufferSize(g, off, tail, "C") - 1,
      matrix |-> proper(0 .. Coal(g, "C") - 1),
      ldx |-> proper(Coal(g, "C") .. g.ld["C"] - 1)]

Accurate(g, off, tail, cpu, gpu) ==
  LET zones == Zones(g, off, tail) IN
  /\ UNION {zones[z] : z \in DOMAIN zones} = 0 .. BufferSize(g, off, tail, "C") - 1
  /\ \A z \in DOMAIN zones : \A i \in zones[z] : cpu[i] = gpu[i]
================================================================================
