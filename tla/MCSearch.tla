------------------------------ MODULE MCSearch ------------------------------
(***************************************************************************)
(* Instances of Search for TLC: a graph of five hyper-parameters, of which *)
(* one does not pass architests and one is not derivable.  A tick is about *)
(* a twentieth of a second, and a second is cut short.                     *)
(***************************************************************************)
EXTENDS Search

CONSTANTS h1, h2, h3, rough, odd

MCNeighbors == [h \in HyperParams |->
                  CASE h = h1    -> {h2, rough}
                    [] h = h2    -> {h1, h3, odd}
                    [] h = h3    -> {h2, rough}
                    [] h = rough -> {h1, h3}
                    [] h = odd   -> {h2}]

MCDerivable == HyperParams \ {odd}

MCReasonable == HyperParams \ {rough}

MCCached == <<h1, h3>>

(* 998 is an improvement over 1000, and 999 is not; nor is 998 over 999.   *)
MCTimes == {998, 999, 1000}

(* A search by time, one by restarts, one that takes both a minimum of     *)
(* runs and the time it is given, and one with next to no time.            *)
MCParameters == {
  AtLeastNSeconds(1),
  [AtLeastNRestarts(3) EXCEPT !.core = HaltOf(<<0, 1>>, <<0, Tenth>>)],
  [outer |-> HaltOf(<<1, 1>>, <<1, 2>>), core |-> HaltOf(<<1, 2>>, <<0, 1>>)],
  [outer |-> HaltOf(<<0, 1>>, <<0, 1>>), core |-> HaltOf(<<0, 1>>, <<0, 1>>)]}

MCFindParameters == {AtLeastNSeconds(2)}
=============================================================================
