--------------------------------- MODULE Hint ---------------------------------
(***************************************************************************)
(* How a platform or a device is chosen: BasicHint.  A description is the  *)
(* set of the words that occur in it; the empty word, the default of a     *)
(* hint, occurs in all.                                                    *)
(***************************************************************************)
EXTENDS Naturals, FiniteSets

CONSTANTS
  Words,     \* what a hint may ask for
  Hintless   \* the index of a hint that has none

Hints == [id : Nat \cup {Hintless}, matches : SUBSET Words]

(* The candidates that match; ts is the sequence of their descriptions.    *)
Potentials(h, ts) == {i \in DOMAIN ts : h.matches \cap ts[i] # {}}

(* BasicHint::set, which throws unless the index exists, or just one       *)
(* candidate matches.  Sequences are numbered from one, indices from zero. *)
Chosen(h, ts) ==
  IF h.id # Hintless THEN {h.id + 1} \cap DOMAIN ts
  ELSE IF Cardinality(Potentials(h, ts)) = 1 THEN Potentials(h, ts) ELSE {}
=============================================================================
