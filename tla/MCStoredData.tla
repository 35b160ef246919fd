---------------------------- MODULE MCStoredData ----------------------------
(* A file of two pages in four regions, two to a block.                    *)
EXTENDS StoredData

\* The values of a sector are alike: one of them is the first.
MCInit == Init /\ image[1] = 0
MCSpec == MCInit /\ [][Next]_vars /\ Fairness
=============================================================================
