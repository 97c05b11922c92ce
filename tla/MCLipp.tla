------------------------------- MODULE MCLipp -------------------------------
\* Instances of Lipp for TLC; the constants are given in the configurations.
EXTENDS Lipp
=============================================================================
