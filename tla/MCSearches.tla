----------------------------- MODULE MCSearches -----------------------------
\* Instances of Searches for TLC: ranges up to a length that needs three doublings,
\* with equal keys, looked up by keys below, between, equal to and above theirs.
EXTENDS Searches
=============================================================================
