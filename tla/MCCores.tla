------------------------------- MODULE MCCores -------------------------------
(* CoresScheduler on small numbers of slots and strategies.                 *)
EXTENDS CoresScheduler

AllCodes  == {"Proof", "SosEmpty", "MaxMegs", "Fatal"}
FewCodes  == {"Proof", "SosEmpty"}
NoProof   == {"SosEmpty", "MaxMegs"}
=============================================================================
