----------------------------- MODULE MCPGMIndex -----------------------------
\* Instances of PGMIndex for TLC.
EXTENDS PGMIndex, Ascending

CONSTANTS SmallKeys, MaxCopies   \* bounds of the small inputs

\* The sorted sequence with copies[k] times the key k.
SortedData(copies) ==
  LET ks == Ascending(DOMAIN copies)
  IN  FlattenSeq([j \in 1..Len(ks) |-> [c \in 1..copies[ks[j]] |-> ks[j]]])

\* Every set of small keys, with every number of copies of each but the greatest key.
SmallInputs ==
  {SortedData(c) : c \in {d \in UNION {[K -> 1..MaxCopies] : K \in SUBSET SmallKeys \ {{}}} :
                           MaxKey \in DOMAIN d => d[MaxKey] = 1 /\ DOMAIN d # {MaxKey}}}

\* Keys that are first sparse and then dense need many segments: three levels.
Tall == {0, 15, 29, 30, 38, 39, 56} \cup 83..87 \cup 96..101 \cup {107}
TallInputs ==
  {Ascending((Tall \ R) \cup X) : R \in {{a, b} : a, b \in Tall}, X \in {{}, {MaxKey}}}

AllInputs == SmallInputs \cup TallInputs
=============================================================================
