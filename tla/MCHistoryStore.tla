--------------------------- MODULE MCHistoryStore ---------------------------
(* Instances of HistoryStore for TLC.                                      *)
EXTENDS HistoryStore, TLC

CONSTANTS p1, p2, h1, h2, d1, d2, s1, s2, s3

Symmetry == Permutations(Procs) \union Permutations(Hashes) \union Permutations(Slots)

Capture(h, pinned, screen) ==
  [hash |-> h, evicted |-> FALSE, pinned |-> pinned, screen |-> screen, doc |-> d1]

\* a new history
Empty == [id \in Ids |-> None]

\* one capture
Single == [id \in Ids |-> IF id = 1 THEN Capture(h1, FALSE, FALSE) ELSE None]

\* captures 1 and 2 share their pixels, as deduplication makes them
Shared == [id \in Ids |-> IF id <= 2 THEN Capture(h1, FALSE, FALSE) ELSE None]

\* capture 1 is pinned on the screen by a sidecar without the retention pin
Pinned == [id \in Ids |-> IF id = 1 THEN Capture(h1, FALSE, TRUE)
                         ELSE IF id = 2 THEN Capture(h1, FALSE, FALSE) ELSE None]
=============================================================================
