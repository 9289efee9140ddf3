------------------------------- MODULE MCCdp -------------------------------
(* Instance of CdpTransport for TLC. *)
EXTENDS CdpTransport

=============================================================================
