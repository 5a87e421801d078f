---------------------------- MODULE MCAssetStore ----------------------------
(* Small instances of AssetStore for TLC. *)
EXTENDS AssetStore, TLC

CONSTANTS a1, a2, h1, h2, h3, t1, t2, b1, b2, s1, s2

(* Assets, handlers, slugs, titles and bodies are only compared. *)
Symmetric == Permutations(Asset) \cup Permutations(Handler)
             \cup Permutations(Slug) \cup Permutations(Title) \cup Permutations(Body)
=============================================================================
