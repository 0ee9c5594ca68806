------------------------------- MODULE IdTable -------------------------------
(***************************************************************************)
(* What the program cache promises to its callers about IDs, without       *)
(* threads, locks or programs: an ID is bound to one key, a key to one ID, *)
(* a binding is for ever, and every bound ID is one of Capacity slots.     *)
(***************************************************************************)
EXTENDS Naturals

CONSTANTS Keys, Capacity

VARIABLES bound,   \* the ID of every key that has one
          issued   \* how many IDs were taken from the counter

Init == bound = [k \in {} |-> 0] /\ issued = 0

(* An ID is taken; it may stay unused, when there is no slot for it.       *)
Issue == issued' = issued + 1 /\ UNCHANGED bound

(* A key without an ID gets one that was issued and that no key has.       *)
Bind == \E k \in Keys \ DOMAIN bound, i \in 0 .. issued - 1 :
          /\ i < Capacity
          /\ \A x \in DOMAIN bound : bound[x] # i
          /\ bound' = [x \in DOMAIN bound \cup {k} |-> IF x = k THEN i ELSE bound[x]]
          /\ UNCHANGED issued

Next == Issue \/ Bind

Spec == Init /\ [][Next]_<<bound, issued>>
=============================================================================
