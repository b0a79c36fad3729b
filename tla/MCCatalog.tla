----------------------------- MODULE MCCatalog -----------------------------
(* Instances of Catalog for TLC: the root, Downloading, Downloaded with one  *)
(* category below it, and Deleted, as AbstractStorage numbers them.          *)
EXTENDS Catalog

SomeDefaults == [c \in {0, 1, 2, 3, 7} |->
                    CASE c = 0 -> -1 [] c = 3 -> 2 [] OTHER -> 0]
=============================================================================
