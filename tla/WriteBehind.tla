---------------------------- MODULE WriteBehind ----------------------------
(***************************************************************************)
(* What the flush path of the hybrid index promises, without threads,      *)
(* batches or locks: every inserted key waits in one queue and moves to    *)
(* the target index exactly once, in the order of the inserts.  A bulk     *)
(* load fills the target before the first insert.                          *)
(***************************************************************************)
EXTENDS Naturals, Sequences

CONSTANTS Keys,       \* keys that can be stored
          BulkKeys    \* keys given to the bulk load

VARIABLES pending,    \* inserted, not yet in the target, oldest first
          target      \* keys of the target index

vars == <<pending, target>>

\* The keys that wait in the queue.
Waiting == {pending[i] : i \in 1..Len(pending)}

Init == /\ pending = <<>>
        /\ target = {}

Load == /\ pending = <<>>
        /\ target = {}
        /\ target' = BulkKeys
        /\ UNCHANGED pending

Put(k) == /\ k \notin target \cup Waiting
          /\ pending' = Append(pending, k)
          /\ UNCHANGED target

Migrate == /\ pending # <<>>
           /\ target' = target \cup {Head(pending)}
           /\ pending' = Tail(pending)

Next == Load \/ Migrate \/ \E k \in Keys : Put(k)

Spec == Init /\ [][Next]_vars
=============================================================================
