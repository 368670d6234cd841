------------------------------ MODULE MCBlfPush ------------------------------
(* Constants for checking BlfPush with TLC: those of UnsolicitedBlf.        *)
EXTENDS MCUnsolicitedBlf, BlfPush
=============================================================================
