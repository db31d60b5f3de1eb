-------------------------- MODULE MCApplianceApply --------------------------
(* The three transactional units, with the task run by the web process.    *)
EXTENDS ApplianceApply
=============================================================================
