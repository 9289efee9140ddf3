---------------------------- MODULE MCScheduling ----------------------------
(* Instance of Scheduling for TLC. *)
EXTENDS Scheduling

\* The fractions .5, .51 and .6: the text of .51 comes first.
MCFractionRank(f) == <<2, 1, 3>>[f + 1]

=============================================================================
