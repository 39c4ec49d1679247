----------------------------- MODULE MCApplePay -----------------------------
(* ApplePay on its own: sheets one after the other, the user's profile      *)
(* loaded or not.                                                           *)
EXTENDS ApplePay
=============================================================================
