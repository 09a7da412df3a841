---------------------------- MODULE MCFieldItems ----------------------------
EXTENDS FieldItems, TLC

\* Items, and equipments of the same level, are interchangeable.
Symmetry == Permutations(Item) \cup Permutations(LowLevel)
=============================================================================
