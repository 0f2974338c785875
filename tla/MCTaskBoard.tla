---------------------------- MODULE MCTaskBoard ----------------------------
EXTENDS TaskBoard, TLC

\* The tasks on the board at first are alike, and so are the requests.
Alike == Permutations(Old) \cup Permutations(Requests)
=============================================================================
