------------------------------ MODULE MCServer -----------------------------
(* Small pools, clients and requests for TLC.                              *)
EXTENDS Server, TLC

CONSTANTS t1, t2, t3, s1, s2, s3, short, long, split, bad
TwoThreads == {t1, t2}
ThreeThreads == {t1, t2, t3}
ThreeSessions == {s1, s2, s3}
Symmetry == Permutations(Threads) \union Permutations(Sessions)

(* How many segments a request takes, and how many sends its response.     *)
SegmentsOf == [r \in Requests |-> IF r = split THEN 2 ELSE 1]
ChunksOf == [r \in Requests |-> IF r = long THEN 2 ELSE 1]
=============================================================================
