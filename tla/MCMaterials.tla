----------------------------- MODULE MCMaterials -----------------------------
(***************************************************************************)
(* Materials for TLC, and the mutants of its definitions.                  *)
(***************************************************************************)
EXTENDS Materials, TLC

CONSTANTS tab1, tab2, b1, j1, v1, v2, l1, t1, t2

MCTabs == {tab1, tab2}
MCVariants == {v1, v2}
MCTexts == {t1, t2}

Symmetric == Permutations(MCTabs) \cup Permutations(MCVariants) \cup Permutations(MCTexts)
=============================================================================
