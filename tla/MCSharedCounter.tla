-------------------------- MODULE MCSharedCounter --------------------------
(* An instance of SharedCounter for TLC: every --sync option and its       *)
(* absence, with counts below, at and above zero.                          *)
EXTENDS SharedCounter

MCThreadCounts == {-1, 0, 1, 2, 3}
MCIterationCounts == {-1, 0, 1, 2}
=============================================================================
