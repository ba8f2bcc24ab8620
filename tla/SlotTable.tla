----------------------------- MODULE SlotTable ------------------------------
(***************************************************************************)
(* What a session pool promises its callers: a table from slots to the     *)
(* items that occupy them, as a set of pairs <<slot, item>>.  Inserting    *)
(* puts an item in a slot that nobody occupies and disturbs no other slot; *)
(* removing vacates one slot.                                              *)
(***************************************************************************)
EXTENDS Integers

CONSTANT Items

VARIABLE table

Init == table = {}

Insert ==
  \E e \in table' \ table :
    /\ e \in Nat \X Items
    /\ \A o \in table : o[1] # e[1]
    /\ table' = table \cup {e}

Remove == \E e \in table : table' = table \ {e}

Next == Insert \/ Remove

Spec == Init /\ [][Next]_table
=============================================================================
