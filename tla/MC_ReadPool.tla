---------------------------- MODULE MC_ReadPool ----------------------------
(* Small instances of ReadPool for TLC. *)
EXTENDS ReadPoolInv

CONSTANTS c1, c2, w1, w2

\* One row (no helper), as many rows as threads, and four rows for three
\* threads, where the last slice claimed is empty; row 1 is another rank's.
MCRequests ==
    { [n |-> 1, owned |-> {0}],
      [n |-> 3, owned |-> {0, 2}],
      [n |-> 4, owned |-> {0, 1, 2, 3}] }

\* Two rows and three: every thread has one row.
MCSmallRequests ==
    { [n |-> 2, owned |-> {0, 1}], [n |-> 3, owned |-> {0, 2}] }

\* Every slice has a row to read, so a closed descriptor stops each thread.
MCOwnedRequests ==
    { [n |-> 1, owned |-> {0}], [n |-> 3, owned |-> {0, 1, 2}] }

MCWorkerFaults == {w1, w2}
MCCallerFault == {c1}
=============================================================================
