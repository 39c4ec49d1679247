----------------------------- MODULE MCAccount -----------------------------
(* Two donors who use one device one after the other; they are             *)
(* interchangeable.                                                        *)
EXTENDS Account, TLC

Donors == Permutations(Users)
=============================================================================
