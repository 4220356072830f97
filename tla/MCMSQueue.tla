------------------------------- MODULE MCMSQueue -------------------------------
(***************************************************************************)
(* The queue for TLC.  Threads are not interchangeable: they have roles.   *)
(***************************************************************************)
EXTENDS MSQueue

\* t1 only pushes, t2 pushes and pops, t3 only pops.
ASSUME RolesAssumption == Pushers # Poppers /\ Pushers \intersect Poppers # {}
==============================================================================
