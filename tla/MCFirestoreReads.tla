-------------------------- MODULE MCFirestoreReads --------------------------
(* Reads of a document of the donor, which is in the cache, and of one     *)
(* that the rules deny, which is not.                                      *)
EXTENDS FirestoreReads

CachedUnlessDenied == [d \in Docs |-> IF d \in Denied THEN 0 ELSE 1]
=============================================================================
