--------------------------- MODULE MCMovieCatalog ---------------------------
EXTENDS MovieCatalog, TLC

Symmetry == Permutations(Stems) \cup Permutations(Spellings) \cup
            Permutations(Requests)
=============================================================================
