------------------------------ MODULE MCKeypad ------------------------------
(* Instances of Keypad for TLC: a key with a deferred press and one        *)
(* without, in the order of the matrix.                                    *)
EXTENDS Keypad

MCMatrix == <<"slot", "plain">>
=============================================================================
