----------------------------- MODULE MCStriping -----------------------------
EXTENDS Striping

CONSTANTS Cap1, Cap2, Cap3   \* limits of the holders, in their order

MCCap    == <<Cap1, Cap2, Cap3>>
MCClaims == [h \in Servers |-> All]
=============================================================================
