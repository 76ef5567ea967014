------------------------------ MODULE MCDBSCAN ------------------------------
(* Model checking of one cluster analysis, against what it promises.        *)
EXTENDS DBSCAN
=============================================================================
