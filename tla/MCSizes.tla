------------------------------- MODULE MCSizes -------------------------------
(* SizeScheduler on small ranges of domain sizes.                            *)
EXTENDS SizeScheduler

AllCodes  == {"Model", "Overflow", "NoModel", "Limit"}
NoLimit   == {"Model", "Overflow", "NoModel"}
Unbounded == -1
=============================================================================
