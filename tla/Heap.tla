-------------------------------- MODULE Heap --------------------------------
(***************************************************************************)
(* What memory is to those who reserve it: a block that no one else holds, *)
(* until all of it is released at once.                                    *)
(***************************************************************************)
EXTENDS Integers

CONSTANT Sizes      \* what may be asked for

VARIABLE held       \* the blocks that were given: addresses first to last of a page

Disjoint(a, b) == a.page # b.page \/ a.last < b.first \/ b.last < a.first

HeapInit == held = {}

Give(size) ==
    \E block \in held' :
        /\ held' = held \cup {block}
        /\ block.last - block.first + 1 = size
        /\ \A b \in held : Disjoint(b, block)

ReleaseAll == held' = {}

HeapSpec == HeapInit /\ [][ReleaseAll \/ \E size \in Sizes : Give(size)]_held
=============================================================================
