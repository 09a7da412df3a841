------------------------------ MODULE MCCombat ------------------------------
EXTENDS Combat, TLC

Symmetry == Permutations(Projectile)
=============================================================================
