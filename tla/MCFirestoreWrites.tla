------------------------- MODULE MCFirestoreWrites -------------------------
(* Two interchangeable accounts on one device; the backend refuses the     *)
(* first write of each, or the second, which has one stored ahead of it.   *)
EXTENDS FirestoreWrites, TLC

SecondOfEach == [by : Users, n : {2}]
FirstOfEach == [by : Users, n : {1}]
Accounts == Permutations(Users)
=============================================================================
