------------------------------ MODULE MCWatch ------------------------------
(***************************************************************************)
(* A small instance of the dashboard for TLC: as many threads as layers,   *)
(* as in the code.  The two S3 listings touch nothing the layers share.    *)
(***************************************************************************)
EXTENDS Watch

MCLayers == <<"kafka", "iceberg">>
=============================================================================
