------------------------------ MODULE MCPlane ------------------------------
(* One named holder, the daemon's operator and two process ids; two HTTP   *)
(* clients, so that one can wait behind the other.                         *)
EXTENDS ControlPlane
=============================================================================
