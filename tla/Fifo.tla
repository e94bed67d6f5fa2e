-------------------------------- MODULE Fifo --------------------------------
(* A queue that holds at most Cap items and hands them out in the order they *)
(* were put in: what src/rpc/queue.ts is for.                                *)
EXTENDS Naturals, Sequences

CONSTANTS Item, NoItem, Cap

VARIABLES items,  \* the items in the queue, oldest first
          taken   \* the item that was handed out last

Init == /\ items \in Seq(Item) /\ Len(items) <= Cap
        /\ taken = NoItem

Put(x) == /\ Len(items) < Cap
          /\ items' = Append(items, x)
          /\ UNCHANGED taken

Take == /\ items # <<>>
        /\ taken' = Head(items)
        /\ items' = Tail(items)

Next == Take \/ \E x \in Item : Put(x)

Spec == Init /\ [][Next]_<<items, taken>>
=============================================================================
