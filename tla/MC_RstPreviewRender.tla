------------------------- MODULE MC_RstPreviewRender -------------------------
(* Overlapping preview calls for one document on win32.                    *)
EXTENDS RstPreviewRender, TLC

MCMaxVersion == 2

Symmetry == Permutations(Reqs)
=============================================================================
