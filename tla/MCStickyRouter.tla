---------------------------- MODULE MCStickyRouter ----------------------------
EXTENDS StickyRouter, TLC

Symmetry == Permutations(Workers) \cup Permutations(Roots) \cup Permutations(Children)
===============================================================================
