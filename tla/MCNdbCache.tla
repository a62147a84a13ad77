----------------------------- MODULE MCNdbCache -----------------------------
(***************************************************************************)
(* Small instances of NdbCache: contexts, and entities, are alike.         *)
(***************************************************************************)
EXTENDS NdbCache, TLC

Symmetry == Permutations(Contexts) \cup Permutations(Texts)
=============================================================================
