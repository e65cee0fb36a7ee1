---------------------------- MODULE MCWorkQueue ----------------------------
(* An instance of WorkQueue for TLC.  The shuffle multiplies by            *)
(* 0x9E3779B97F4A7C15 and keeps 16 bits; with eight ids it keeps three, and *)
(* only the three low bits of the multiplier matter.                       *)
EXTENDS WorkQueue

LowBits == 21 % IdSpace

=============================================================================
