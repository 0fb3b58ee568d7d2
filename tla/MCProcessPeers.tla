--------------------------- MODULE MCProcessPeers ---------------------------
(* ProcessPeers with a peer of two threads and a peer of none.             *)
EXTENDS ProcessPeers, TLC

CONSTANTS p1, p2, t1, t2

\* The first peer joins, leaves and joins again; the second joins and leaves.
MCMaxSent == p1 :> 3 @@ p2 :> 2
MCHosts == p1 :> <<t1, t2>> @@ p2 :> <<>>
=============================================================================
