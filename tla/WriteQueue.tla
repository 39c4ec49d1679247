----------------------------- MODULE WriteQueue -----------------------------
(***************************************************************************)
(* What the Firestore client promises the code that calls setData, update, *)
(* delete and commit with a completion handler: the answers of the donor   *)
(* who is signed in come in the order of the writes, one for each write at *)
(* most, and a write that is answered without an error is stored.          *)
(*                                                                         *)
(* There is nothing here of streams, tokens, pipelines and retries:        *)
(* FirestoreWrites, which has them, implements this specification.         *)
(***************************************************************************)
EXTENDS Naturals, Sequences

CONSTANTS
    Users,
    Writes      \* the writes of the users: the nth of user u is [by |-> u, n |-> n]

VARIABLES
    user,       \* the user whose writes are being sent
    pending,    \* user -> the writes saved on the device, in order
    waiting,    \* the writes whose completion handler is still to be called
    committed,  \* the writes the backend has stored, at least once
    told        \* user -> the answers given to the handlers, in order

vars == <<user, pending, waiting, committed, told>>

Init ==
    /\ user \in Users
    /\ pending = [u \in Users |-> <<>>]
    /\ waiting = {}
    /\ committed = {}
    /\ told = [u \in Users |-> <<>>]

(* A write is saved and its handler registered. *)
Issue(w) ==
    /\ w.by = user
    /\ pending' = [pending EXCEPT ![user] = Append(@, w)]
    /\ waiting' = waiting \cup {w}
    /\ UNCHANGED <<user, committed, told>>

(* The backend stores a write of the user who is signed in; it may store  *)
(* one several times.                                                     *)
Commit(w) ==
    /\ \E i \in DOMAIN pending[user] : pending[user][i] = w
    /\ committed' = committed \cup {w}
    /\ UNCHANGED <<user, pending, waiting, told>>

Answered(w, ok) ==
    told' = [told EXCEPT ![w.by] =
                IF w \in waiting THEN Append(@, [n |-> w.n, ok |-> ok]) ELSE @]

(* The first write of the user who is signed in is done with. *)
Settle(ok) ==
    /\ pending[user] # <<>>
    /\ LET w == Head(pending[user]) IN
       /\ ok => w \in committed
       /\ pending' = [pending EXCEPT ![user] = Tail(@)]
       /\ waiting' = waiting \ {w}
       /\ Answered(w, ok)
    /\ UNCHANGED <<user, committed>>

ChangeUser(u) == user' = u /\ UNCHANGED <<pending, waiting, committed, told>>

(* The app ends and starts again: the handlers are gone.  It may end while *)
(* a write is being settled, after the answer or after the removal.        *)
Restart(u) ==
    /\ user' = u
    /\ waiting' = {}
    /\ UNCHANGED committed
    /\ \/ UNCHANGED <<pending, told>>
       \/ /\ pending[user] # <<>>
          /\ Head(pending[user]) \in committed
          /\ Answered(Head(pending[user]), TRUE)
          /\ UNCHANGED pending
       \/ /\ pending[user] # <<>>
          /\ pending' = [pending EXCEPT ![user] = Tail(@)]
          /\ UNCHANGED told

Next ==
    \/ \E w \in Writes : Issue(w) \/ Commit(w)
    \/ \E ok \in BOOLEAN : Settle(ok)
    \/ \E u \in Users : ChangeUser(u) \/ Restart(u)

Spec == Init /\ [][Next]_vars
=============================================================================
