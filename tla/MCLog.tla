------------------------------- MODULE MCLog -------------------------------
(* Instances of LogWriters for TLC.                                        *)
EXTENDS LogWriters

CONSTANTS main, h      \* main() and a handler of the server

\* The server logs with Debug, Info and Error; h stands for one that would
\* log below the level of the console filter.
MCLevelOf == [g \in Goroutines |-> IF g = main THEN 4 ELSE 1]
MCRecords == [g \in Goroutines |-> IF g = main THEN 1 ELSE 2]
MCBytes == [g \in Goroutines |-> IF g = main THEN 3 ELSE 1]
MCFilterLevel == [w \in Writers |-> IF w = "file" THEN 0 ELSE 2]
=============================================================================
