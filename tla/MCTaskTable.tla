----------------------------- MODULE MCTaskTable -----------------------------
EXTENDS TaskTable

\* Three uuids: a batch of two next to a task somebody updates or deletes.
Symmetry == Permutations(Uuids) \cup Permutations(Texts) \cup
            Permutations(Requests)
=============================================================================
