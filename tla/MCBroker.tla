------------------------------ MODULE MCBroker ------------------------------
(***************************************************************************)
(* Instances of Broker for TLC.  Publishers are interchangeable, and so    *)
(* are the Subscription objects a session creates.                         *)
(***************************************************************************)
EXTENDS Broker, TLC

Symmetry == Permutations(Publishers) \cup Permutations(Subs)
=============================================================================
