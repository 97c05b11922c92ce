------------------------------ MODULE MCBTree ------------------------------
\* Instances of BTree for TLC.
EXTENDS BTree

CONSTANTS Sizes   \* lengths of the small inputs

\* All sorted sequences of some length; a sequence is given by how many items are
\* below each key.
SmallInputs ==
  UNION {{[n \in 1..size |-> Min({k \in Keys : at[k] >= n})] :
            at \in {f \in [Keys -> 0..size] :
                      /\ \A j, k \in Keys : j <= k => f[j] <= f[k]
                      /\ f[Max(Keys)] = size}} : size \in Sizes}

\* Three full levels: an insert splits them all.
FullTree ==
  LET n == LeafSlots * (InnerSlots + 1) * (InnerSlots + 1)
  IN  [i \in 1..n |-> Min(Keys) + ((i - 1) * (Max(Keys) - Min(Keys) + 1)) \div n]

AllInputs == SmallInputs \cup {FullTree}
=============================================================================
