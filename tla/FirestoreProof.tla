--------------------------- MODULE FirestoreProof ---------------------------
(***************************************************************************)
(* The steps of FirestoreWrites that settle a write keep the invariant of  *)
(* FirestoreSteps too, the theorems that follow from it, and the           *)
(* refinement of WriteQueue.                                               *)
(***************************************************************************)
EXTENDS FirestoreSteps

-----------------------------------------------------------------------------
(* A write is done with *)

(* The handler of the first batch is the one registered for its write. *)
LEMMA HandlerOfFirst ==
    ASSUME Inv, queue[user] # <<>>
    PROVE  LET b == Head(queue[user]) IN
           /\ {c \in calls : c.by = user /\ c.id = b.id} = {c \in calls : c.w = b.w}
           /\ \A c \in calls : c.w.by = user /\ c.w # b.w =>
                 \E i \in 1 .. Len(Tail(queue[user])) :
                     Tail(queue[user])[i] = [id |-> c.id, w |-> c.w]
<1> DEFINE q == queue[user]
           b == Head(q)
<1>1. /\ q \in Seq(Batches) /\ RowsInOrder(q) /\ RowsOf(q, user) /\ HandlerHasBatch
  BY DEF Inv, TypeOK, QueuesOK, AnswersOK
<1>2. /\ b = q[1] /\ b \in Batches /\ b.w.by = user /\ Len(q) \in Nat \ {0}
      /\ Len(Tail(q)) = Len(q) - 1
      /\ \A i \in 1 .. Len(q) - 1 : Tail(q)[i] = q[i + 1]
  BY <1>1, RowsTail
<1>3. DOMAIN q = 1 .. Len(q)
  BY <1>1, LenProperties
<1>4. \A i \in 1 .. Len(q) : q[i].id \in Nat /\ q[i].w.n \in Nat
  <2>1. \A i \in 1 .. Len(q) : q[i] \in Batches
    BY <1>1, ElementOfSeq
  <2>2. \A x \in Batches : x.id \in Nat /\ x.w.n \in Nat
    BY DEF Batches, Writes
  <2> QED  BY <2>1, <2>2
<1> HIDE DEF q, b
<1>5. ASSUME NEW i \in 1 .. Len(q), i # 1
      PROVE  q[i].id # b.id /\ q[i].w # b.w
  <2>1. 1 \in 1 .. Len(q) /\ 1 < i
    BY <1>2, <1>5
  <2>2. b.id < q[i].id /\ b.w.n < q[i].w.n
    BY <1>1, <1>2, <2>1 DEF RowsInOrder
  <2>3. b.id \in Nat /\ b.w.n \in Nat /\ q[i].id \in Nat /\ q[i].w.n \in Nat
    BY <1>2, <1>4, <2>1
  <2>4. b.id # q[i].id /\ b.w.n # q[i].w.n
    BY <2>2, <2>3
  <2> QED  BY <2>4
<1>6. ASSUME NEW c \in calls, c.w.by = user \/ c.by = user
      PROVE  /\ c.by = user /\ c.w.by = user
             /\ \E i \in 1 .. Len(q) : q[i] = [id |-> c.id, w |-> c.w]
  BY <1>1, <1>3, <1>6 DEF HandlerHasBatch, IsIn, q
<1>7. ASSUME NEW c \in calls
      PROVE  (c.by = user /\ c.id = b.id) <=> c.w = b.w
  <2>1. ASSUME c.by = user, c.id = b.id
        PROVE  c.w = b.w
    <3>1. PICK i \in 1 .. Len(q) : q[i] = [id |-> c.id, w |-> c.w]
      BY <1>6, <2>1
    <3>2. q[i].id = b.id /\ q[i].w = c.w
      BY <2>1, <3>1
    <3>3. i = 1
      BY <1>5, <3>2
    <3> QED  BY <1>2, <3>2, <3>3
  <2>2. ASSUME c.w = b.w
        PROVE  c.by = user /\ c.id = b.id
    <3>1. c.w.by = user
      BY <1>2, <2>2
    <3>2. PICK i \in 1 .. Len(q) : q[i] = [id |-> c.id, w |-> c.w]
      BY <1>6, <3>1
    <3>3. q[i].id = c.id /\ q[i].w = b.w
      BY <2>2, <3>2
    <3>4. i = 1
      BY <1>5, <3>3
    <3> QED  BY <1>2, <1>6, <3>1, <3>3, <3>4
  <2> QED  BY <2>1, <2>2
<1>8. ASSUME NEW c \in calls, c.w.by = user, c.w # b.w
      PROVE  \E i \in 1 .. Len(Tail(q)) : Tail(q)[i] = [id |-> c.id, w |-> c.w]
  <2>1. PICK i \in 1 .. Len(q) : q[i] = [id |-> c.id, w |-> c.w]
    BY <1>6, <1>8
  <2>2. i # 1
    BY <1>2, <1>8, <2>1
  <2>3. i - 1 \in 1 .. Len(Tail(q)) /\ i - 1 \in 1 .. Len(q) - 1 /\ (i - 1) + 1 = i
    BY <1>2, <2>2
  <2>4. Tail(q)[i - 1] = q[i]
    BY <1>2, <2>3
  <2> QED  BY <2>1, <2>3, <2>4
<1> QED  BY <1>7, <1>8 DEF q, b

(* What the first write of the user leaves behind, when its batch is       *)
(* removed, its handler called, or both.                                   *)
Settled(ok) ==
    LET b == Head(queue[user])
        cause == b.w \in Refused \/ (b.w \in committed /\
                    \E x \in Refused : x.by = user /\ x.n > b.w.n) IN
    /\ queue[user] # <<>>
    /\ UNCHANGED <<committed, stored, issued>>
    /\ calls' \subseteq calls
    /\ \/ queue' = queue
       \/ /\ queue' = [queue EXCEPT ![user] = Tail(queue[user])]
          /\ b.w \in committed => b.w.n <= stored[user]
    /\ \/ told' = told
       \/ /\ \E c \in calls : c.w = b.w
          /\ told' = [told EXCEPT ![user] =
                        Append(told[user], [n |-> b.w.n, ok |-> ok])]
          /\ ok => b.w \in committed
          /\ ~ok => cause
    /\ (queue' = queue /\ told' = told) \/ \A c \in calls' : c.w # b.w

LEMMA SettledQueues ==
    ASSUME Inv, NEW ok \in BOOLEAN, Settled(ok)
    PROVE  /\ queue' \in [Users -> Seq(Batches)]
           /\ \A u \in Users :
                 /\ RowsInOrder(queue'[u]) /\ RowsOf(queue'[u], u)
                 /\ \A m : IdsUpTo(queue[u], m) => IdsUpTo(queue'[u], m)
           /\ calls' \subseteq [by : Users, id : Nat \ {0}, w : Writes]
<1> DEFINE q == queue[user]
<1>1. /\ queue \in [Users -> Seq(Batches)] /\ user \in Users
      /\ q \in Seq(Batches) /\ q # <<>>
      /\ \A u \in Users : RowsInOrder(queue[u]) /\ RowsOf(queue[u], u)
      /\ calls' \subseteq [by : Users, id : Nat \ {0}, w : Writes]
  BY DEF Inv, TypeOK, QueuesOK, Settled
<1>2. queue' = queue \/ queue' = [queue EXCEPT ![user] = Tail(q)]
  BY DEF Settled
<1>3. /\ Tail(q) \in Seq(Batches) /\ RowsInOrder(Tail(q)) /\ RowsOf(Tail(q), user)
      /\ \A m : IdsUpTo(q, m) => IdsUpTo(Tail(q), m)
  BY <1>1, RowsTail
<1> QED  BY <1>1, <1>2, <1>3

LEMMA SettledTold ==
    ASSUME Inv, NEW ok \in BOOLEAN, Settled(ok)
    PROVE  /\ told' \in [Users -> Seq(Answers)]
           /\ AnswersInOrder' /\ RejectionHasCause' /\ AnsweredBefore'
           /\ \A u \in Users : Seen(u)' \in SUBSET Seen(u)
<1> DEFINE q == queue[user]
           b == Head(q)
           a == [n |-> b.w.n, ok |-> ok]
           old == told[user]
           new == Append(old, a)
<1>1. /\ told \in [Users -> Seq(Answers)] /\ user \in Users /\ old \in Seq(Answers)
      /\ q \in Seq(Batches) /\ q # <<>> /\ RowsInOrder(q) /\ RowsOf(q, user)
      /\ queue \in [Users -> Seq(Batches)]
      /\ AnswersInOrder /\ RejectionHasCause /\ AnsweredBefore /\ HandlerHasBatch
  BY DEF Inv, TypeOK, QueuesOK, AnswersOK, Settled
<1>2. /\ b = q[1] /\ b \in Batches /\ b.w.by = user /\ Len(q) \in Nat \ {0}
      /\ Len(Tail(q)) = Len(q) - 1
      /\ \A i \in 1 .. Len(q) - 1 : Tail(q)[i] = q[i + 1]
      /\ \A i \in 1 .. Len(Tail(q)) : b.w.n < Tail(q)[i].w.n
  BY <1>1, RowsTail
<1>3. a \in Answers /\ a.n = b.w.n /\ a.ok = ok /\ b.w = [by |-> user, n |-> b.w.n]
  BY <1>2, BatchFields DEF Answers
<1>4. UNCHANGED <<committed, stored>> /\ calls' \subseteq calls
      /\ (queue' = queue \/ queue' = [queue EXCEPT ![user] = Tail(q)])
  BY DEF Settled
<1>5. \A u \in Users : \A i \in 1 .. Len(queue'[u]) :
          \E j \in 1 .. Len(queue[u]) : queue'[u][i] = queue[u][j]
  <2>1. \A i \in 1 .. Len(Tail(q)) : \E j \in 1 .. Len(q) : Tail(q)[i] = q[j]
    <3> SUFFICES ASSUME NEW i \in 1 .. Len(Tail(q))
                 PROVE  \E j \in 1 .. Len(q) : Tail(q)[i] = q[j]
      OBVIOUS
    <3>1. i + 1 \in 1 .. Len(q) /\ i \in 1 .. Len(q) - 1
      BY <1>2
    <3> QED  BY <1>2, <3>1
  <2> QED  BY <1>1, <1>4, <2>1
<1>6. CASE told' = told
  <2>1. AnswersInOrder' /\ RejectionHasCause' /\ AnsweredBefore'
    BY <1>1, <1>4, <1>6 DEF AnswersInOrder, RejectionHasCause, AnsweredBefore
  <2>2. \A u \in Users : Seen(u)' \in SUBSET Seen(u)
    BY <1>4, <1>5, <1>6 DEF Seen
  <2> QED  BY <1>1, <1>6, <2>1, <2>2
<1>7. CASE told' # told
  <2>1. /\ \E c \in calls : c.w = b.w
        /\ told' = [told EXCEPT ![user] = new]
        /\ ok => b.w \in committed
        /\ ~ok => b.w \in Refused \/ (b.w \in committed /\
                    \E x \in Refused : x.by = user /\ x.n > b.w.n)
        /\ \A c \in calls' : c.w # b.w
    BY <1>7 DEF Settled
  <2>2. \A i \in 1 .. Len(old) : old[i].n < b.w.n
    BY <1>1, <1>2, <2>1 DEF AnsweredBefore
  <2> HIDE DEF a, b, q, old
  <2>3. /\ Len(old) \in Nat /\ Len(new) = Len(old) + 1 /\ new \in Seq(Answers)
        /\ new[Len(old) + 1] = a /\ \A i \in 1 .. Len(old) : new[i] = old[i]
    BY <1>1, <1>3, LenProperties, AppendProperties
  <2> HIDE DEF new
  <2>4. /\ told' \in [Users -> Seq(Answers)] /\ told'[user] = new
        /\ \A u \in Users : u # user => told'[u] = told[u]
    BY <1>1, <2>1, <2>3
  <2>5. DOMAIN old = 1 .. Len(old) /\ DOMAIN new = 1 .. Len(new)
    BY <1>1, <2>3, LenProperties
  <2>6. \A i \in 1 .. Len(new) : new[i] = a \/ \E j \in 1 .. Len(old) : new[i] = old[j]
    BY <2>3
  <2>7. AnswersInOrder'
    <3>1. \A i, j \in 1 .. Len(old) : i < j => old[i].n < old[j].n
      BY <1>1, <2>5 DEF AnswersInOrder, old
    <3>2. ASSUME NEW i \in 1 .. Len(new), NEW j \in 1 .. Len(new), i < j
          PROVE  new[i].n < new[j].n
      <4>1. i \in 1 .. Len(old)
        BY <2>3, <3>2
      <4>2. CASE j = Len(old) + 1
        BY <1>3, <2>2, <2>3, <4>1, <4>2
      <4>3. CASE j # Len(old) + 1
        <5>1. j \in 1 .. Len(old)
          BY <2>3, <4>3
        <5> QED  BY <2>3, <3>1, <3>2, <4>1, <5>1
      <4> QED  BY <4>2, <4>3
    <3>3. \A i \in 1 .. Len(old) : old[i].ok => [by |-> user, n |-> old[i].n] \in committed
      BY <1>1, <2>5 DEF AnswersInOrder, old
    <3>4. \A i \in 1 .. Len(new) : new[i].ok => [by |-> user, n |-> new[i].n] \in committed
      BY <1>3, <2>1, <2>6, <3>3
    <3> QED  BY <1>1, <1>4, <2>4, <2>5, <3>2, <3>4 DEF AnswersInOrder
  <2>8. RejectionHasCause'
    <3> SUFFICES ASSUME NEW u \in Users, NEW i \in DOMAIN told'[u], ~told'[u][i].ok
                 PROVE  \/ [by |-> u, n |-> told'[u][i].n] \in Refused
                        \/ /\ [by |-> u, n |-> told'[u][i].n] \in committed
                           /\ \E x \in Refused : x.by = u /\ x.n > told'[u][i].n
      BY <1>4 DEF RejectionHasCause
    <3>1. ASSUME NEW v \in Users, NEW j \in DOMAIN told[v], ~told[v][j].ok
          PROVE  \/ [by |-> v, n |-> told[v][j].n] \in Refused
                 \/ /\ [by |-> v, n |-> told[v][j].n] \in committed
                    /\ \E x \in Refused : x.by = v /\ x.n > told[v][j].n
      BY <1>1, <3>1 DEF RejectionHasCause
    <3>2. CASE u = user
      <4>1. told'[u][i] = a \/ \E j \in 1 .. Len(old) : told'[u][i] = old[j]
        BY <2>4, <2>5, <2>6, <3>2
      <4>2. CASE told'[u][i] = a
        BY <1>3, <2>1, <3>2, <4>2
      <4>3. ASSUME NEW j \in 1 .. Len(old), told'[u][i] = old[j]
            PROVE  \/ [by |-> u, n |-> told'[u][i].n] \in Refused
                   \/ /\ [by |-> u, n |-> told'[u][i].n] \in committed
                      /\ \E x \in Refused : x.by = u /\ x.n > told'[u][i].n
        <5>1. j \in DOMAIN told[user] /\ told[user][j] = told'[u][i]
          BY <2>5, <4>3 DEF old
        <5>2. \/ [by |-> user, n |-> told[user][j].n] \in Refused
              \/ /\ [by |-> user, n |-> told[user][j].n] \in committed
                 /\ \E x \in Refused : x.by = user /\ x.n > told[user][j].n
          BY <1>1, <3>1, <5>1
        <5> QED  BY <3>2, <5>1, <5>2
      <4> QED  BY <4>1, <4>2, <4>3
    <3>3. CASE u # user
      BY <2>4, <3>1, <3>3
    <3> QED  BY <3>2, <3>3
  <2>9. AnsweredBefore'
    <3> SUFFICES ASSUME NEW c \in calls', NEW i \in 1 .. Len(told'[c.w.by])
                 PROVE  told'[c.w.by][i].n < c.w.n
      BY DEF AnsweredBefore
    <3>1. c \in calls /\ c.w # b.w /\ c.w.by \in Users
      BY <1>4, <2>1 DEF Inv, TypeOK, Writes
    <3>2. \A j \in 1 .. Len(told[c.w.by]) : told[c.w.by][j].n < c.w.n
      BY <1>1, <3>1 DEF AnsweredBefore
    <3>3. CASE c.w.by = user
      <4>1. PICK k \in 1 .. Len(Tail(q)) : Tail(q)[k] = [id |-> c.id, w |-> c.w]
        BY <1>1, <3>1, <3>3, HandlerOfFirst DEF q, b
      <4>2. b.w.n < c.w.n
        BY <1>2, <4>1
      <4>3. told'[user][i] = a \/ \E j \in 1 .. Len(old) : told'[user][i] = old[j]
        BY <2>4, <2>6, <3>3
      <4> QED  BY <1>3, <3>2, <3>3, <4>2, <4>3 DEF old
    <3>4. CASE c.w.by # user
      BY <2>4, <3>1, <3>2, <3>4
    <3> QED  BY <3>3, <3>4
  <2>10. ASSUME NEW u \in Users
         PROVE  Seen(u)' \in SUBSET Seen(u)
    <3>1. \A i \in 1 .. Len(told'[u]) : told'[u][i].n \in Seen(u)
      <4>1. CASE u = user
        <5>1. b.w.n \in Seen(user)
          <6>1. 1 \in 1 .. Len(q)
            BY <1>2
          <6> QED  BY <1>2, <6>1 DEF Seen, q
        <5>2. \A j \in 1 .. Len(old) : old[j].n \in Seen(user)
          BY DEF Seen, old
        <5> QED  BY <1>3, <2>4, <2>6, <4>1, <5>1, <5>2
      <4>2. CASE u # user
        BY <2>4, <4>2 DEF Seen
      <4> QED  BY <4>1, <4>2
    <3>2. \A i \in 1 .. Len(queue'[u]) : queue'[u][i].w.n \in Seen(u)
      BY <1>5 DEF Seen
    <3>3. \A w \in committed' : w.by = u => w.n \in Seen(u)
      BY <1>4 DEF Seen
    <3>4. Seen(u)' = {queue'[u][i].w.n : i \in 1 .. Len(queue'[u])}
                     \cup {w.n : w \in {x \in committed' : x.by = u}}
                     \cup {told'[u][i].n : i \in 1 .. Len(told'[u])}
      BY DEF Seen
    <3> QED  BY <3>1, <3>2, <3>3, <3>4
  <2> QED  BY <2>4, <2>7, <2>8, <2>9, <2>10
<1> QED  BY <1>6, <1>7

LEMMA SettledAnswers ==
    ASSUME Inv, NEW ok \in BOOLEAN, Settled(ok)
    PROVE  AnswersOK'
<1> DEFINE q == queue[user]
           b == Head(q)
<1>1. /\ user \in Users /\ queue \in [Users -> Seq(Batches)]
      /\ q \in Seq(Batches) /\ q # <<>> /\ RowsInOrder(q) /\ RowsOf(q, user)
      /\ HandlerHasBatch /\ StoredIsSettled /\ NeverRefused
      /\ UNCHANGED <<committed, stored>> /\ calls' \subseteq calls
      /\ calls \subseteq [by : Users, id : Nat \ {0}, w : Writes] /\ committed \subseteq Writes
  BY DEF Inv, TypeOK, QueuesOK, AnswersOK, Settled
<1>2. AnswersInOrder' /\ RejectionHasCause' /\ AnsweredBefore'
  BY SettledTold
<1>3. NeverRefused'
  BY <1>1 DEF NeverRefused
<1>4. CASE queue' = queue
  BY <1>1, <1>2, <1>3, <1>4 DEF AnswersOK, HandlerHasBatch, StoredIsSettled
<1>5. CASE queue' # queue
  <2>1. /\ queue' = [queue EXCEPT ![user] = Tail(q)]
        /\ b.w \in committed => b.w.n <= stored[user]
        /\ \A c \in calls' : c.w # b.w
    BY <1>5 DEF Settled
  <2>2. /\ b = q[1] /\ b.w.by = user /\ Len(q) \in Nat \ {0}
        /\ Tail(q) \in Seq(Batches) /\ Len(Tail(q)) = Len(q) - 1
        /\ \A i \in 1 .. Len(q) - 1 : Tail(q)[i] = q[i + 1]
        /\ \A i \in 1 .. Len(Tail(q)) : b.w.n < Tail(q)[i].w.n
    BY <1>1, RowsTail
  <2>3. queue'[user] = Tail(q) /\ \A u \in Users : u # user => queue'[u] = queue[u]
    BY <1>1, <2>1
  <2>4. HandlerHasBatch'
    <3> SUFFICES ASSUME NEW c \in calls'
                 PROVE  c.w.by = c.by /\ IsIn([id |-> c.id, w |-> c.w], queue'[c.by])
      BY DEF HandlerHasBatch
    <3>1. /\ c \in calls /\ c.w # b.w /\ c.by \in Users
          /\ c.w.by = c.by /\ IsIn([id |-> c.id, w |-> c.w], queue[c.by])
      BY <1>1, <2>1 DEF HandlerHasBatch
    <3>2. CASE c.by = user
      <4>1. PICK i \in 1 .. Len(Tail(q)) : Tail(q)[i] = [id |-> c.id, w |-> c.w]
        BY <1>1, <3>1, <3>2, HandlerOfFirst
      <4>2. i \in DOMAIN Tail(q)
        BY <2>2, LenProperties
      <4> QED  BY <2>3, <3>1, <3>2, <4>1, <4>2 DEF IsIn
    <3>3. CASE c.by # user
      BY <2>3, <3>1, <3>3
    <3> QED  BY <3>2, <3>3
  <2>5. StoredIsSettled'
    <3> SUFFICES ASSUME NEW w \in committed
                 PROVE  \/ \E i \in 1 .. Len(queue'[w.by]) : queue'[w.by][i].w = w
                        \/ /\ w.n <= stored[w.by]
                           /\ \A i \in 1 .. Len(queue'[w.by]) : w.n < queue'[w.by][i].w.n
      BY <1>1 DEF StoredIsSettled
    <3>1. /\ w.by \in Users
          /\ \/ \E i \in 1 .. Len(queue[w.by]) : queue[w.by][i].w = w
             \/ /\ w.n <= stored[w.by]
                /\ \A i \in 1 .. Len(queue[w.by]) : w.n < queue[w.by][i].w.n
      BY <1>1 DEF StoredIsSettled, Writes
    <3>2. CASE w.by # user
      BY <2>3, <3>1, <3>2
    <3>3. CASE w.by = user
      <4>1. CASE w = b.w
        BY <2>1, <2>2, <2>3, <3>3, <4>1
      <4>2. ASSUME NEW i \in 1 .. Len(q), q[i].w = w, w # b.w
            PROVE  \E j \in 1 .. Len(Tail(q)) : Tail(q)[j].w = w
        <5>1. i # 1
          BY <2>2, <4>2
        <5>2. i - 1 \in 1 .. Len(Tail(q)) /\ i - 1 \in 1 .. Len(q) - 1 /\ (i - 1) + 1 = i
          BY <2>2, <5>1
        <5>3. Tail(q)[i - 1] = q[i]
          BY <2>2, <5>2
        <5> QED  BY <4>2, <5>2, <5>3
      <4>3. ASSUME \A i \in 1 .. Len(q) : w.n < q[i].w.n
            PROVE  \A i \in 1 .. Len(Tail(q)) : w.n < Tail(q)[i].w.n
        <5> SUFFICES ASSUME NEW i \in 1 .. Len(Tail(q))
                     PROVE  w.n < Tail(q)[i].w.n
          OBVIOUS
        <5>1. i + 1 \in 1 .. Len(q) /\ i \in 1 .. Len(q) - 1
          BY <2>2
        <5> QED  BY <2>2, <4>3, <5>1
      <4> QED  BY <2>3, <3>1, <3>3, <4>1, <4>2, <4>3
    <3> QED  BY <3>2, <3>3
  <2> QED  BY <1>2, <1>3, <2>4, <2>5 DEF AnswersOK
<1> QED  BY <1>4, <1>5

-----------------------------------------------------------------------------
(* The answers of a stream *)

LEMMA HandshakeIfSending ==
    ASSUME Inv, remote.net.open, ~Greeting(remote)
    PROVE  remote.handshake /\ Sending(remote, committed, stored[user])
<1>1. remote.handshake \in BOOLEAN
  BY RemoteFields DEF Inv, TypeOK
<1> QED  BY <1>1, OpenStream

LEMMA FirstOfPipeline ==
    ASSUME Inv, remote.pipeline # <<>>
    PROVE  LET b == Head(remote.pipeline) IN
           /\ queue[user] # <<>> /\ b = Head(queue[user]) /\ b = remote.pipeline[1]
           /\ 1 \in 1 .. Len(remote.pipeline)
           /\ IsPrefix(Tail(remote.pipeline), Tail(queue[user]))
           /\ Tail(remote.pipeline) \in Seq(Batches)
           /\ Len(Tail(remote.pipeline)) = Len(remote.pipeline) - 1
           /\ \A i \in 1 .. Len(remote.pipeline) - 1 :
                 Tail(remote.pipeline)[i] = remote.pipeline[i + 1]
<1> DEFINE pipe == remote.pipeline
           q == queue[user]
<1>1. /\ pipe \in Seq(Batches) /\ Len(pipe) \in Nat /\ q \in Seq(Batches) /\ Len(q) \in Nat
      /\ Len(pipe) <= Len(q)
      /\ \A i \in 1 .. Len(pipe) : pipe[i] = q[i]
  BY PipelineRows
<1>2. /\ Len(pipe) # 0 /\ Head(pipe) = pipe[1] /\ Tail(pipe) \in Seq(Batches)
      /\ Len(Tail(pipe)) = Len(pipe) - 1
      /\ \A i \in 1 .. Len(pipe) - 1 : Tail(pipe)[i] = pipe[i + 1]
  BY <1>1, EmptySeq, HeadTailProperties
<1>3. q # <<>>
  BY <1>1, <1>2
<1>4. /\ Head(q) = q[1] /\ Len(Tail(q)) = Len(q) - 1
      /\ \A i \in 1 .. Len(q) - 1 : Tail(q)[i] = q[i + 1]
  BY <1>1, <1>3, EmptySeq, HeadTailProperties
<1> HIDE DEF pipe, q
<1>5. 1 \in 1 .. Len(pipe)
  BY <1>1, <1>2
<1>6. IsPrefix(Tail(pipe), Tail(q))
  <2>1. Len(Tail(pipe)) <= Len(Tail(q))
    BY <1>1, <1>2, <1>4
  <2>2. ASSUME NEW i \in 1 .. Len(Tail(pipe))
        PROVE  Tail(pipe)[i] = Tail(q)[i]
    <3>1. i \in 1 .. Len(pipe) - 1 /\ i \in 1 .. Len(q) - 1 /\ i + 1 \in 1 .. Len(pipe)
      BY <1>1, <1>2
    <3> QED  BY <1>1, <1>2, <1>4, <3>1
  <2> QED  BY <2>1, <2>2 DEF IsPrefix
<1> QED  BY <1>1, <1>2, <1>3, <1>4, <1>5, <1>6 DEF pipe, q

LEMMA OkEvent ==
    ASSUME Inv, NextEvent("ok")
    PROVE  LET b == Head(remote.pipeline) IN
           /\ remote.net.open /\ remote.handshake
           /\ Sending(remote, committed, stored[user])
           /\ remote.net.events = <<"ok">>
              \/ (remote.net.events = <<"ok", "failed">> /\ remote.net.status # "none")
           /\ Taken(remote) \in Nat \ {0} /\ Taken(remote) <= Len(remote.pipeline)
           /\ remote.pipeline # <<>>
           /\ b.w \in committed /\ b.w.n <= stored[user]
<1>1. remote.net.open /\ remote.net.events # <<>> /\ Head(remote.net.events) = "ok"
  BY DEF NextEvent, net
<1>2. ~Greeting(remote)
  BY <1>1, TailShort DEF Greeting
<1>3. /\ remote.handshake /\ Sending(remote, committed, stored[user])
      /\ Len(remote.net.down) \in Nat
  BY <1>1, <1>2, HandshakeIfSending, OpenStream
<1>4. remote.net.events = <<"ok">>
      \/ (remote.net.events = <<"ok", "failed">> /\ remote.net.status # "none")
  BY <1>1, <1>3, TailShort DEF Sending
<1>5. IsIn("ok", remote.net.events)
  BY <1>4, EventsShort
<1>6. /\ Taken(remote) \in Nat \ {0} /\ 1 \in 1 .. Taken(remote)
      /\ Taken(remote) <= Len(remote.pipeline)
  <2>1. Taken(remote) = Len(remote.net.down) + 1
    BY <1>3, <1>5, TakenIs
  <2> QED  BY <1>3, <2>1 DEF Sending
<1>7. remote.pipeline # <<>>
  <2>1. Len(remote.pipeline) \in Nat
    BY PipelineRows
  <2>2. Len(remote.pipeline) # 0
    BY <1>6, <2>1
  <2> QED  BY <2>2
<1>8. Head(remote.pipeline) = remote.pipeline[1]
  BY <1>7, FirstOfPipeline
<1>9. remote.pipeline[1].w \in committed /\ remote.pipeline[1].w.n <= stored[user]
  BY <1>3, <1>6 DEF Sending
<1> QED  BY <1>1, <1>3, <1>4, <1>6, <1>7, <1>8, <1>9

LEMMA RejectEvent ==
    ASSUME Inv, NextEvent("failed"), Rejects
    PROVE  LET b == Head(remote.pipeline) IN
           /\ remote.net.open /\ remote.pipeline # <<>>
           /\ b.w \in Refused \/ (b.w \in committed /\
                 \E x \in Refused : x.by = user /\ x.n > b.w.n)
           /\ b.w \in committed => b.w.n <= stored[user]
<1> DEFINE t == Taken(remote)
           pipe == remote.pipeline
<1>1. /\ remote.net.open /\ remote.net.status = "refused" /\ remote.handshake
      /\ pipe # <<>>
  BY DEF NextEvent, Rejects, net
<1>2. Sending(remote, committed, stored[user]) /\ Len(remote.net.down) \in Nat
  BY <1>1, OpenStream
<1>3. /\ t \in Nat /\ t < Len(pipe) /\ pipe[t + 1].w \in Refused
      /\ \A i \in 1 .. t : pipe[i].w \in committed /\ pipe[i].w.n <= stored[user]
  BY <1>1, <1>2, TakenIs DEF Sending
<1>4. /\ Head(pipe) = pipe[1] /\ 1 \in 1 .. Len(pipe) /\ Len(pipe) \in Nat
  BY <1>1, FirstOfPipeline, PipelineRows
<1> HIDE DEF t
<1>5. CASE t = 0
  <2>1. pipe[1].w \in Refused
    BY <1>3, <1>5
  <2>2. pipe[1].w \notin committed
    BY <2>1 DEF Inv, AnswersOK, NeverRefused
  <2> QED  BY <1>1, <1>4, <2>1, <2>2
<1>6. CASE t # 0
  <2>1. /\ 1 \in 1 .. t /\ t + 1 \in 1 .. Len(pipe) /\ 1 < t + 1
    BY <1>3, <1>4, <1>6
  <2>2. pipe[1].w \in committed /\ pipe[1].w.n <= stored[user]
    BY <1>3, <2>1
  <2>3. /\ pipe[1] = queue[user][1] /\ pipe[t + 1] = queue[user][t + 1]
        /\ 1 \in 1 .. Len(queue[user]) /\ t + 1 \in 1 .. Len(queue[user])
        /\ pipe[1] \in Batches /\ pipe[t + 1] \in Batches /\ pipe[t + 1].w.by = user
    BY <1>4, <2>1, PipelineRows
  <2>4. pipe[1].w.n < pipe[t + 1].w.n
    <3>1. RowsInOrder(queue[user])
      BY DEF Inv, TypeOK, QueuesOK
    <3> QED  BY <2>1, <2>3, <3>1 DEF RowsInOrder
  <2>5. pipe[1].w.n \in Nat /\ pipe[t + 1].w.n \in Nat
    BY <2>3 DEF Batches, Writes
  <2>6. pipe[t + 1].w.n > pipe[1].w.n
    BY <2>4, <2>5
  <2> QED  BY <1>1, <1>3, <1>4, <2>2, <2>3, <2>6
<1> QED  BY <1>5, <1>6

(* NotifyUser calls the handler registered for the first write, if any. *)
LEMMA Notified ==
    ASSUME Inv, queue[user] # <<>>, NEW ok, NotifyUser(Head(queue[user]).id, ok)
    PROVE  LET w == Head(queue[user]).w IN
           /\ calls' = {c \in calls : c.w # w}
           /\ \/ told' = told /\ ~\E c \in calls : c.w = w
              \/ /\ \E c \in calls : c.w = w
                 /\ told' = [told EXCEPT ![user] =
                                Append(told[user], [n |-> w.n, ok |-> ok])]
<1> DEFINE b == Head(queue[user])
           mine == {c \in calls : c.by = user /\ c.id = b.id}
           found == CHOOSE c \in mine : TRUE
<1>1. mine = {c \in calls : c.w = b.w}
  BY HandlerOfFirst
<1>2. b.w.by = user
  BY RowsTail DEF Inv, TypeOK, QueuesOK
<1>3. /\ calls' = calls \ mine
      /\ told' = IF mine = {} THEN told
                 ELSE [told EXCEPT ![found.w.by] =
                          Append(told[found.w.by], [n |-> found.w.n, ok |-> ok])]
  BY DEF NotifyUser
<1>4. mine # {} => found \in mine
  OBVIOUS
<1> HIDE DEF found, mine, b
<1>5. CASE mine = {}
  BY <1>1, <1>3, <1>5 DEF b
<1>6. CASE mine # {}
  <2>1. found \in calls /\ found.w = b.w
    BY <1>1, <1>4, <1>6
  <2>2. told' = [told EXCEPT ![user] = Append(told[user], [n |-> b.w.n, ok |-> ok])]
    BY <1>2, <1>3, <1>6, <2>1
  <2>3. calls' = {c \in calls : c.w # b.w}
    BY <1>1, <1>3
  <2> QED  BY <2>1, <2>2, <2>3 DEF b
<1> QED  BY <1>5, <1>6

LEMMA SettledStep ==
    ASSUME Inv, NEW ok \in BOOLEAN, Settled(ok),
           UNCHANGED <<auth, counter, worker, user, nextId, faults, restarts>>,
           RemoteOK(remote', queue'[user], user, committed, stored[user]),
           OneToken(remote', worker),
           \A a \in remote'.asks : a \in remote.asks \/ (a.counter = counter /\ a.by = auth)
    PROVE  Inv'
<1>1. UNCHANGED <<committed, stored, issued>>
  BY DEF Settled
<1>2. /\ queue' \in [Users -> Seq(Batches)]
      /\ \A u \in Users :
            /\ RowsInOrder(queue'[u]) /\ RowsOf(queue'[u], u)
            /\ \A m : IdsUpTo(queue[u], m) => IdsUpTo(queue'[u], m)
      /\ calls' \subseteq [by : Users, id : Nat \ {0}, w : Writes]
      /\ told' \in [Users -> Seq(Answers)]
      /\ \A u \in Users : Seen(u)' \in SUBSET Seen(u)
  BY SettledQueues, SettledTold
<1>3. remote' \in Remotes
  BY DEF RemoteOK, RemoteFits
<1>4. TypeOK'
  BY <1>1, <1>2, <1>3 DEF Inv, TypeOK
<1>5. TasksInOrder' /\ TokensOK' /\ StreamOK'
  BY <1>1 DEF Inv, TasksInOrder, TokensOK, StreamOK
<1>6. AsksCurrent'
  <2>1. counter \in Nat
    BY BoundsAssumption DEF Inv, TypeOK
  <2> QED  BY <2>1 DEF Inv, AsksCurrent
<1>7. QueuesOK'
  <2>1. user \in Users
    BY DEF Inv, TypeOK
  <2> QED  BY <1>2, <2>1 DEF Inv, QueuesOK
<1>8. WritesInOrder'
  <2> SUFFICES ASSUME NEW u \in Users
               PROVE  Ascending(worker, u, Seen(u)', issued[u])
    BY <1>1 DEF WritesInOrder
  <2>1. Ascending(worker, u, Seen(u), issued[u])
    BY DEF Inv, WritesInOrder
  <2> QED  BY <1>2, <2>1, AscendingLess
<1>9. AnswersOK'
  BY SettledAnswers
<1> QED  BY <1>4, <1>5, <1>6, <1>7, <1>8, <1>9 DEF Inv

LEMMA SendingTail ==
    ASSUME Inv, NextEvent("ok"),
           NEW f, f.pipeline = Tail(remote.pipeline),
           f.net.up = remote.net.up, f.net.down = remote.net.down,
           f.net.status = remote.net.status, f.net.events = Tail(remote.net.events)
    PROVE  Sending(f, committed, stored[user])
<1> DEFINE t == Taken(remote)
           pipe == remote.pipeline
<1>1. /\ Sending(remote, committed, stored[user]) /\ remote.net.open
      /\ remote.net.events = <<"ok">>
         \/ (remote.net.events = <<"ok", "failed">> /\ remote.net.status # "none")
      /\ t \in Nat \ {0} /\ t <= Len(pipe) /\ pipe # <<>>
  BY OkEvent
<1>2. /\ Tail(pipe) \in Seq(Batches) /\ Len(Tail(pipe)) = Len(pipe) - 1
      /\ \A i \in 1 .. Len(pipe) - 1 : Tail(pipe)[i] = pipe[i + 1]
      /\ pipe \in Seq(Batches) /\ Len(pipe) \in Nat /\ Len(remote.net.down) \in Nat
  BY <1>1, FirstOfPipeline, PipelineRows, OpenStream
<1>3. f.net.events = <<>> \/ (f.net.events = <<"failed">> /\ f.net.status # "none")
  BY <1>1, TailShort
<1>4. Taken(f) = t - 1
  <2>1. IsIn("ok", remote.net.events) /\ ~IsIn("ok", f.net.events)
    BY <1>1, <1>3, EventsShort
  <2>2. Taken(f) = Len(f.net.down) /\ t = Len(remote.net.down) + 1
    BY <1>2, <2>1, TakenIs
  <2> QED  BY <1>2, <2>2
<1> HIDE DEF t, pipe
<1>5. Taken(f) <= Len(f.pipeline)
  BY <1>1, <1>2, <1>4 DEF pipe
<1>6. ASSUME NEW i \in 1 .. Taken(f)
      PROVE  f.pipeline[i].w \in committed /\ f.pipeline[i].w.n <= stored[user]
  <2>1. i \in 1 .. Len(pipe) - 1 /\ i + 1 \in 1 .. t
    BY <1>1, <1>2, <1>4
  <2>2. f.pipeline[i] = pipe[i + 1]
    BY <1>2, <2>1 DEF pipe
  <2> QED  BY <1>1, <2>1, <2>2 DEF Sending, t, pipe
<1>7. ASSUME f.net.status = "none"
      PROVE  f.net.up = SubSeq(f.pipeline, Taken(f) + 1, Len(f.pipeline))
  <2>1. f.net.up = SubSeq(pipe, t + 1, Len(pipe))
    BY <1>1, <1>7 DEF Sending, t, pipe
  <2>2. Taken(f) + 1 = t
    BY <1>1, <1>4
  <2>3. SubSeq(pipe, t + 1, Len(pipe)) = SubSeq(Tail(pipe), t, Len(Tail(pipe)))
    <3> DEFINE r == SubSeq(pipe, t + 1, Len(pipe))
               k == t - 1
               s == SubSeq(Tail(pipe), k + 1, Len(Tail(pipe)))
    <3>1. t \in 0 .. Len(pipe) /\ k \in 0 .. Len(Tail(pipe)) /\ k + 1 = t
      BY <1>1, <1>2
    <3>2. /\ r \in Seq(Batches) /\ Len(r) = Len(pipe) - t
          /\ \A i \in 1 .. Len(pipe) - t : r[i] = pipe[t + i]
      BY <1>2, <3>1, SubSeqFrom
    <3> HIDE DEF k
    <3>3. /\ s \in Seq(Batches) /\ Len(s) = Len(Tail(pipe)) - k
          /\ \A i \in 1 .. Len(Tail(pipe)) - k : s[i] = Tail(pipe)[k + i]
      BY <1>2, <3>1, SubSeqFrom
    <3> HIDE DEF r, s
    <3>4. Len(r) = Len(s)
      <4>1. /\ Len(r) = Len(pipe) - t /\ Len(s) = Len(Tail(pipe)) - k
            /\ Len(Tail(pipe)) = Len(pipe) - 1 /\ Len(pipe) \in Nat /\ t \in Nat
        BY <1>1, <1>2, <3>2, <3>3
      <4>2. k = t - 1
        BY DEF k
      <4> QED  BY <4>1, <4>2
    <3>5. ASSUME NEW i \in 1 .. Len(r)
          PROVE  r[i] = s[i]
      <4>1. /\ i \in 1 .. Len(pipe) - t /\ i \in 1 .. Len(Tail(pipe)) - k
            /\ k + i \in 1 .. Len(pipe) - 1 /\ (k + i) + 1 = t + i
        BY <1>1, <1>2, <3>1, <3>2
      <4> QED  BY <1>2, <3>2, <3>3, <4>1
    <3>6. r = s
      BY <3>2, <3>3, <3>4, <3>5, SeqEqual
    <3> QED  BY <3>1, <3>6 DEF r, s
  <2> QED  BY <2>1, <2>2, <2>3 DEF pipe
<1>8. ASSUME f.net.status = "refused"
      PROVE  Taken(f) < Len(f.pipeline) /\ f.pipeline[Taken(f) + 1].w \in Refused
  <2>1. t < Len(pipe) /\ pipe[t + 1].w \in Refused
    BY <1>1, <1>8 DEF Sending, t, pipe
  <2>2. t \in 1 .. Len(pipe) - 1 /\ Taken(f) + 1 = t /\ Taken(f) < Len(pipe) - 1
    BY <1>1, <1>2, <1>4, <2>1
  <2> QED  BY <1>2, <2>1, <2>2 DEF pipe
<1>9. /\ \A i \in 1 .. Len(f.net.down) : f.net.down[i] = "ok"
      /\ f.net.status # "none" => f.net.up = <<>>
  BY <1>1 DEF Sending
<1> QED  BY <1>3, <1>5, <1>6, <1>7, <1>8, <1>9 DEF Sending

LEMMA StepMutationResult ==
    ASSUME Inv, MutationResult
    PROVE  Inv'
<1> DEFINE b == Head(remote.pipeline)
           q == Tail(queue[user])
           n == [remote.net EXCEPT !.events = Tail(@)]
           r == [remote EXCEPT !.net = n, !.pipeline = Tail(remote.pipeline)]
<1>1. NextEvent("ok") /\ remote \in Remotes /\ user \in Users
      /\ auth \in Users /\ counter \in 0 .. MaxChanges
      /\ queue \in [Users -> Seq(Batches)] /\ queue[user] \in Seq(Batches)
      /\ RowsInOrder(queue[user]) /\ RowsOf(queue[user], user)
      /\ RemoteOK(remote, queue[user], user, committed, stored[user])
      /\ OneToken(remote, worker)
  BY DEF MutationResult, Inv, TypeOK, QueuesOK, StreamOK, TokensOK
<1>2. /\ remote.net.open /\ remote.handshake /\ remote.pipeline # <<>>
      /\ b.w \in committed /\ b.w.n <= stored[user] /\ remote.net.events # <<>>
  BY <1>1, OkEvent DEF NextEvent, net
<1>3. /\ queue[user] # <<>> /\ b = Head(queue[user])
      /\ IsPrefix(Tail(remote.pipeline), q) /\ Tail(remote.pipeline) \in Seq(Batches)
  BY <1>2, FirstOfPipeline
<1>4. RemoveMutationBatch(queue[user], b.id) = q /\ q \in Seq(Batches) /\ RowsInOrder(q)
  BY <1>1, <1>3, RowsTail
<1>5. /\ n \in Streams /\ n.open /\ n.token = remote.net.token
      /\ n.up = remote.net.up /\ n.down = remote.net.down
      /\ n.status = remote.net.status /\ n.events = Tail(remote.net.events)
  <2>1. remote.net.events \in Seq({"hello", "ok", "failed"})
    BY <1>2, OpenStream
  <2>2. Tail(remote.net.events) \in Seq({"hello", "ok", "failed"})
    BY <1>2, <2>1, HeadTailProperties
  <2> QED  BY <1>2, <2>2, OpenStream DEF Streams
<1>6. [AfterEvent EXCEPT !.pipeline = Tail(@)] = r
  BY <1>1, <1>2, OpenStream DEF AfterEvent, Remotes
<1> HIDE DEF n
<1>7. /\ r \in Remotes /\ r.net = n /\ r.pipeline = Tail(remote.pipeline)
      /\ r.stream = remote.stream /\ r.handshake = remote.handshake /\ r.idle = remote.idle
      /\ r.closes = remote.closes /\ r.asks = remote.asks
  BY <1>1, <1>3, <1>5 DEF Remotes
<1>8. /\ NotifyUser(b.id, TRUE)
      /\ queue' = [queue EXCEPT ![user] = q]
      /\ remote' = FillWritePipeline(r, q)
      /\ UNCHANGED <<auth, counter, worker, issued, user, nextId, committed, stored,
                     faults, restarts>>
  <2>1. /\ NotifyUser(b.id, TRUE)
        /\ queue' = [queue EXCEPT ![user] = RemoveMutationBatch(queue[user], b.id)]
        /\ remote' = FillWritePipeline([AfterEvent EXCEPT !.pipeline = Tail(@)],
                                       RemoveMutationBatch(queue[user], b.id))
    BY DEF MutationResult
  <2>2. UNCHANGED <<auth, counter, worker, issued, user, nextId, committed, stored,
                    faults, restarts>>
    BY DEF MutationResult, accountVars, backendVars, boundVars
  <2> HIDE DEF r
  <2> QED  BY <1>4, <1>6, <2>1, <2>2
<1> HIDE DEF r
<1>9. RemoteFits(r, q, user, committed, stored[user])
  <2>1. Sending(r, committed, stored[user])
    BY <1>1, <1>5, <1>7, SendingTail
  <2>2. ~remote.idle
    BY <1>1, <1>2 DEF RemoteOK, RemoteFits
  <2> QED  BY <1>1, <1>2, <1>3, <1>5, <1>7, <2>1, <2>2 DEF RemoteOK, RemoteFits, InFlight
<1>10. /\ RemoteFits(remote', q, user, committed, stored[user])
       /\ remote'.handshake = r.handshake
       /\ remote'.stream = "Open" <=> r.stream = "Open"
       /\ MayStart(r, remote')
  BY <1>1, <1>2, <1>4, <1>7, <1>8, <1>9, FillKeeps
<1>11. RemoteOK(remote', queue'[user], user, committed, stored[user])
  BY <1>1, <1>7, <1>8, <1>10 DEF RemoteOK
<1>12. OneToken(remote', worker)
  <2>1. OneToken(r, worker)
    BY <1>1, <1>7 DEF OneToken
  <2> QED  BY <1>7, <1>10, <2>1, StartOneToken
<1>13. \A a \in remote'.asks : a \in remote.asks \/ (a.counter = counter /\ a.by = auth)
  <2>1. remote'.asks = remote.asks \/ remote'.asks = remote.asks \cup {AskNow(r)}
    BY <1>7, <1>10 DEF MayStart
  <2> QED  BY <2>1 DEF AskNow
<1>14. Settled(TRUE)
  <2>1. /\ calls' = {c \in calls : c.w # b.w}
        /\ \/ told' = told
           \/ /\ \E c \in calls : c.w = b.w
              /\ told' = [told EXCEPT ![user] =
                             Append(told[user], [n |-> b.w.n, ok |-> TRUE])]
    BY <1>3, <1>8, Notified
  <2> QED  BY <1>2, <1>3, <1>8, <2>1 DEF Settled
<1> QED  BY <1>8, <1>11, <1>12, <1>13, <1>14, SettledStep

LEMMA StepStreamRejects ==
    ASSUME Inv, StreamRejects
    PROVE  Inv'
<1> DEFINE b == Head(remote.pipeline)
           q == Tail(queue[user])
           c == Closed(remote, "Initial")
           r == [c EXCEPT !.pipeline = Tail(remote.pipeline)]
           f == FillWritePipeline(r, q)
<1>1. /\ NextEvent("failed") /\ Rejects /\ remote \in Remotes /\ user \in Users
      /\ auth \in Users /\ counter \in 0 .. MaxChanges /\ worker \in Seq(Tasks)
      /\ queue \in [Users -> Seq(Batches)] /\ queue[user] \in Seq(Batches)
      /\ RowsInOrder(queue[user]) /\ RowsOf(queue[user], user)
      /\ OneToken(remote, worker)
  BY DEF StreamRejects, Inv, TypeOK, QueuesOK, TokensOK
<1>2. /\ remote.pipeline # <<>>
      /\ b.w \in Refused \/ (b.w \in committed /\
            \E x \in Refused : x.by = user /\ x.n > b.w.n)
      /\ b.w \in committed => b.w.n <= stored[user]
  BY <1>1, RejectEvent
<1>3. /\ queue[user] # <<>> /\ b = Head(queue[user])
      /\ IsPrefix(Tail(remote.pipeline), q) /\ Tail(remote.pipeline) \in Seq(Batches)
  BY <1>2, FirstOfPipeline
<1>4. RemoveMutationBatch(queue[user], b.id) = q /\ q \in Seq(Batches) /\ RowsInOrder(q)
  BY <1>1, <1>3, RowsTail
<1>5. /\ c \in Remotes /\ c.pipeline = remote.pipeline
      /\ c.asks = remote.asks /\ c.closes = remote.closes + 1
      /\ c.idle = FALSE /\ c.stream = "Initial" /\ ~c.net.open
  BY <1>1, ClosedFields
<1>6. /\ NotifyUser(b.id, FALSE)
      /\ queue' = [queue EXCEPT ![user] = q]
      /\ remote' = ForgetHandshake(f)
      /\ UNCHANGED <<auth, counter, worker, issued, user, nextId, committed, stored,
                     faults, restarts>>
  <2>1. /\ NotifyUser(b.id, FALSE)
        /\ queue' = [queue EXCEPT ![user] = RemoveMutationBatch(queue[user], b.id)]
        /\ remote' = ForgetHandshake(FillWritePipeline([c EXCEPT !.pipeline = Tail(@)],
                                       RemoveMutationBatch(queue[user], b.id)))
    BY DEF StreamRejects
  <2>2. UNCHANGED <<auth, counter, worker, issued, user, nextId, committed, stored,
                    faults, restarts>>
    BY DEF StreamRejects, accountVars, backendVars, boundVars
  <2>3. [c EXCEPT !.pipeline = Tail(@)] = r
    BY <1>5
  <2> HIDE DEF r
  <2> QED  BY <1>4, <2>1, <2>2, <2>3
<1> HIDE DEF c
<1>7. /\ r \in Remotes /\ r.net = c.net /\ r.pipeline = Tail(remote.pipeline)
      /\ r.stream = c.stream /\ r.idle = c.idle
      /\ r.closes = c.closes /\ r.asks = c.asks
  BY <1>3, <1>5 DEF Remotes
<1> HIDE DEF r
<1>8. RemoteFits(r, q, user, committed, stored[user])
  BY <1>3, <1>5, <1>7, StoppedFits
<1>9. /\ RemoteFits(f, q, user, committed, stored[user])
      /\ f.stream = "Open" <=> r.stream = "Open"
      /\ MayStart(r, f)
  BY <1>1, <1>4, <1>5, <1>7, <1>8, FillKeeps
<1>10. /\ f \in Remotes /\ f.stream # "Open" /\ ~f.net.open /\ ~f.idle
       /\ IsPrefix(f.pipeline, q)
  BY <1>5, <1>7, <1>9 DEF RemoteFits
<1> HIDE DEF f
<1>11. /\ remote' \in Remotes /\ remote'.pipeline = f.pipeline /\ remote'.handshake = FALSE
       /\ remote'.asks = f.asks /\ remote'.closes = f.closes
       /\ remote'.idle = f.idle /\ remote'.net = f.net /\ remote'.stream = f.stream
  BY <1>6, <1>10, ForgetHandshakeFields
<1>12. RemoteOK(remote', queue'[user], user, committed, stored[user])
  <2>1. RemoteFits(remote', q, user, committed, stored[user])
    BY <1>10, <1>11, StoppedFits
  <2> QED  BY <1>1, <1>6, <1>11, <2>1 DEF RemoteOK
<1>13. OneToken(remote', worker)
  <2>1. OneToken(r, worker)
    BY <1>1, <1>5, <1>7, CloseOneToken
  <2>2. MayStart(r, remote')
    BY <1>9, <1>11 DEF MayStart
  <2> QED  BY <1>7, <2>1, <2>2, StartOneToken
<1>14. \A a \in remote'.asks : a \in remote.asks \/ (a.counter = counter /\ a.by = auth)
  <2>1. remote'.asks = remote.asks \/ remote'.asks = remote.asks \cup {AskNow(r)}
    BY <1>5, <1>7, <1>9, <1>11 DEF MayStart
  <2> QED  BY <2>1 DEF AskNow
<1>15. Settled(FALSE)
  <2>1. /\ calls' = {x \in calls : x.w # b.w}
        /\ \/ told' = told
           \/ /\ \E x \in calls : x.w = b.w
              /\ told' = [told EXCEPT ![user] =
                             Append(told[user], [n |-> b.w.n, ok |-> FALSE])]
    BY <1>3, <1>6, Notified
  <2> QED  BY <1>2, <1>3, <1>6, <2>1 DEF Settled
<1> QED  BY <1>6, <1>12, <1>13, <1>14, <1>15, SettledStep

-----------------------------------------------------------------------------
(* The app ends and starts again *)

LEMMA RestartedKeeps ==
    ASSUME Inv, NEW queues \in [Users -> Seq(Batches)], Restarted(queues),
           \A u \in Users :
               /\ RowsInOrder(queues[u]) /\ RowsOf(queues[u], u)
               /\ \A m : IdsUpTo(queue[u], m) => IdsUpTo(queues[u], m),
           told' \in [Users -> Seq(Answers)],
           \A u \in Users : Seen(u)' \in SUBSET Seen(u),
           AnswersOK'
    PROVE  Inv'
<1> DEFINE q == queues[auth]
<1>1. /\ auth \in Users /\ counter \in 0 .. MaxChanges /\ restarts \in 0 .. MaxRestarts
      /\ MaxRestarts \in Nat /\ restarts < MaxRestarts /\ restarts' = restarts + 1
      /\ q \in Seq(Batches) /\ RowsInOrder(q)
  BY BoundsAssumption DEF Inv, TypeOK, Restarted
<1>2. /\ worker' = <<>> /\ user' = auth /\ queue' = queues /\ calls' = {}
      /\ nextId' = LoadNextBatchId(queues)
      /\ remote' = FillWritePipeline(NewRemote, q)
      /\ UNCHANGED <<auth, counter, issued, committed, stored, faults>>
  BY DEF Restarted, accountVars, backendVars
<1> HIDE DEF q
<1>3. /\ NewRemote \in Remotes /\ ~NewRemote.net.open /\ NewRemote.stream = "Initial"
      /\ ~NewRemote.idle /\ NewRemote.pipeline = <<>> /\ NewRemote.asks = {}
      /\ ~NewRemote.handshake
  <2>1. <<>> \in Seq(Batches)
    BY EmptySeq
  <2> QED  BY <2>1 DEF NewRemote, Remotes, Streams, NoStream
<1>4. IsPrefix(NewRemote.pipeline, q)
  <2>1. Len(q) \in Nat /\ Len(<<>>) = 0
    BY <1>1, LenProperties, EmptySeq
  <2> QED  BY <1>3, <2>1 DEF IsPrefix
<1>5. RemoteFits(NewRemote, q, auth, committed, stored[auth])
  BY <1>3, <1>4, StoppedFits
<1>6. /\ RemoteFits(remote', q, auth, committed, stored[auth])
      /\ remote'.handshake = NewRemote.handshake
      /\ MayStart(NewRemote, remote')
  BY <1>1, <1>2, <1>3, <1>5, FillKeeps
<1>7. StreamOK'
  BY <1>2, <1>3, <1>6 DEF StreamOK, RemoteOK, q
<1>8. TokensOK'
  <2>1. OneToken(NewRemote, <<>>)
    BY <1>3 DEF OneToken
  <2> QED  BY <1>2, <1>3, <1>6, <2>1, StartOneToken DEF TokensOK
<1>9. AsksCurrent'
  <2>1. remote'.asks = {} \/ remote'.asks = {} \cup {AskNow(NewRemote)}
    BY <1>3, <1>6 DEF MayStart
  <2>2. counter \in Nat
    BY <1>1
  <2> QED  BY <1>2, <2>1, <2>2 DEF AsksCurrent, AskNow
<1>10. PICK m \in Nat : \A u \in Users : IdsUpTo(queues[u], m)
  BY DEF Inv, QueuesOK
<1>11. /\ nextId' \in Nat \ {0}
       /\ \A u \in Users : IdsUpTo(queues[u], nextId' - 1)
  BY <1>2, <1>10, NextIdIsFree
<1>12. QueuesOK'
  BY <1>1, <1>2, <1>10, <1>11 DEF QueuesOK
<1>13. TypeOK'
  <2>1. restarts' \in 0 .. MaxRestarts
    BY <1>1
  <2>2. remote' \in Remotes /\ worker' \in Seq(Tasks)
    BY <1>2, <1>6, EmptySeq DEF RemoteFits
  <2>3. calls' \subseteq [by : Users, id : Nat \ {0}, w : Writes]
    BY <1>2
  <2> QED  BY <1>1, <1>2, <1>11, <2>1, <2>2, <2>3 DEF Inv, TypeOK
<1>14. TasksInOrder'
  BY <1>1, <1>2, TasksEmpty DEF TasksInOrder
<1>15. WritesInOrder'
  <2> SUFFICES ASSUME NEW u \in Users
               PROVE  Ascending(<<>>, u, Seen(u)', issued[u])
    BY <1>2 DEF WritesInOrder
  <2>1. Ascending(worker, u, Seen(u), issued[u])
    BY DEF Inv, WritesInOrder
  <2> QED  BY <2>1, AscendingEmpty
<1> QED  BY <1>7, <1>8, <1>9, <1>12, <1>13, <1>14, <1>15 DEF Inv

LEMMA StepRestart ==
    ASSUME Inv, Restart
    PROVE  Inv'
<1>1. /\ queue \in [Users -> Seq(Batches)] /\ told \in [Users -> Seq(Answers)]
      /\ \A u \in Users : RowsInOrder(queue[u]) /\ RowsOf(queue[u], u)
  BY DEF Inv, TypeOK, QueuesOK
<1>2. Restarted(queue) /\ UNCHANGED <<queue, committed, stored, told>> /\ calls' = {}
  BY DEF Restart, Restarted, backendVars
<1>3. \A u \in Users : Seen(u)' \in SUBSET Seen(u)
  BY <1>2 DEF Seen
<1>4. AnswersOK'
  BY <1>2 DEF Inv, AnswersOK, HandlerHasBatch, AnsweredBefore, AnswersInOrder,
              StoredIsSettled, NeverRefused, RejectionHasCause
<1> QED  BY <1>1, <1>2, <1>3, <1>4, RestartedKeeps

LEMMA EndsInResultIs ==
    ASSUME Inv, EndsInResult
    PROVE  LET w == Head(queue[user]).w IN
           /\ queue[user] # <<>> /\ w \in committed
           /\ \E c \in calls : c.w = w
           /\ told' = [told EXCEPT ![user] = Append(told[user], [n |-> w.n, ok |-> TRUE])]
           /\ Restarted(queue)
<1> DEFINE b == Head(queue[user])
           mine == {c \in calls : c.by = user /\ c.id = b.id}
           found == CHOOSE c \in mine : TRUE
<1>1. NextEvent("ok")
  BY DEF EndsInResult
<1>2. remote.pipeline # <<>> /\ Head(remote.pipeline).w \in committed
  BY <1>1, OkEvent
<1>3. queue[user] # <<>> /\ Head(remote.pipeline) = b
  BY <1>2, FirstOfPipeline
<1>4. mine = {c \in calls : c.w = b.w}
  BY <1>3, HandlerOfFirst
<1>5. b.w.by = user
  BY <1>3, RowsTail DEF Inv, TypeOK, QueuesOK
<1>6. /\ mine # {} /\ Restarted(queue)
      /\ told' = [told EXCEPT ![found.w.by] =
                     Append(told[found.w.by], [n |-> found.w.n, ok |-> TRUE])]
  BY <1>3 DEF EndsInResult
<1>7. found \in mine
  BY <1>6
<1> HIDE DEF found, mine, b
<1>8. found \in calls /\ found.w = b.w
  BY <1>4, <1>7
<1> QED  BY <1>2, <1>3, <1>5, <1>6, <1>8 DEF b

LEMMA StepEndsInResult ==
    ASSUME Inv, EndsInResult
    PROVE  Inv'
<1>1. /\ queue[user] # <<>> /\ Head(queue[user]).w \in committed
      /\ \E c \in calls : c.w = Head(queue[user]).w
      /\ told' = [told EXCEPT ![user] =
                     Append(told[user], [n |-> Head(queue[user]).w.n, ok |-> TRUE])]
      /\ Restarted(queue)
  BY EndsInResultIs
<1>2. Settled(TRUE)
  BY <1>1 DEF Settled, Restarted, backendVars
<1>3. /\ AnswersOK' /\ told' \in [Users -> Seq(Answers)]
      /\ \A u \in Users : Seen(u)' \in SUBSET Seen(u)
  BY <1>2, SettledAnswers, SettledTold
<1>4. /\ queue \in [Users -> Seq(Batches)]
      /\ \A u \in Users : RowsInOrder(queue[u]) /\ RowsOf(queue[u], u)
  BY DEF Inv, TypeOK, QueuesOK
<1> QED  BY <1>1, <1>3, <1>4, RestartedKeeps

LEMMA EndsInRejectionIs ==
    ASSUME Inv, EndsInRejection
    PROVE  /\ queue[user] # <<>>
           /\ Head(queue[user]).w \in committed => Head(queue[user]).w.n <= stored[user]
           /\ Restarted([queue EXCEPT ![user] = Tail(queue[user])])
           /\ UNCHANGED told
<1> DEFINE b == Head(remote.pipeline)
<1>1. NextEvent("failed") /\ Rejects
      /\ Restarted([queue EXCEPT ![user] = RemoveMutationBatch(queue[user], b.id)])
      /\ UNCHANGED told
  BY DEF EndsInRejection
<1>2. remote.pipeline # <<>> /\ (b.w \in committed => b.w.n <= stored[user])
  BY <1>1, RejectEvent
<1>3. queue[user] # <<>> /\ b = Head(queue[user])
  BY <1>2, FirstOfPipeline
<1> HIDE DEF b
<1>4. RemoveMutationBatch(queue[user], b.id) = Tail(queue[user])
  BY <1>3, RowsTail DEF Inv, TypeOK, QueuesOK
<1> QED  BY <1>1, <1>2, <1>3, <1>4

LEMMA StepEndsInRejection ==
    ASSUME Inv, EndsInRejection
    PROVE  Inv'
<1> DEFINE queues == [queue EXCEPT ![user] = Tail(queue[user])]
<1>1. /\ queue[user] # <<>> /\ Restarted(queues) /\ UNCHANGED told
      /\ Head(queue[user]).w \in committed => Head(queue[user]).w.n <= stored[user]
  BY EndsInRejectionIs
<1>2. queue' = queues /\ calls' = {} /\ UNCHANGED <<committed, stored, issued>>
  BY <1>1 DEF Restarted, backendVars
<1>3. Settled(FALSE)
  BY <1>1, <1>2 DEF Settled
<1>4. /\ AnswersOK' /\ told' \in [Users -> Seq(Answers)]
      /\ \A u \in Users : Seen(u)' \in SUBSET Seen(u)
  BY <1>3, SettledAnswers, SettledTold
<1> HIDE DEF queues
<1>5. /\ queues \in [Users -> Seq(Batches)]
      /\ \A u \in Users :
            /\ RowsInOrder(queues[u]) /\ RowsOf(queues[u], u)
            /\ \A m : IdsUpTo(queue[u], m) => IdsUpTo(queues[u], m)
  BY <1>2, <1>3, SettledQueues
<1> QED  BY <1>1, <1>4, <1>5, RestartedKeeps

-----------------------------------------------------------------------------
(* The invariant *)

LEMMA InitInv == Init => Inv
<1> SUFFICES ASSUME Init
             PROVE  Inv
  OBVIOUS
<1> USE DEF Init
<1>1. /\ NewRemote \in Remotes /\ ~NewRemote.net.open /\ NewRemote.stream = "Initial"
      /\ ~NewRemote.idle /\ NewRemote.pipeline = <<>> /\ NewRemote.asks = {}
      /\ ~NewRemote.handshake
  <2>1. <<>> \in Seq(Batches)
    BY EmptySeq
  <2> QED  BY <2>1 DEF NewRemote, Remotes, Streams, NoStream
<1>2. TypeOK
  <2>1. 0 \in 0 .. MaxChanges /\ 0 \in 0 .. MaxWrites /\ 0 \in 0 .. MaxFaults
        /\ 0 \in 0 .. MaxRestarts
    BY BoundsAssumption
  <2>2. <<>> \in Seq(Tasks) /\ <<>> \in Seq(Batches) /\ <<>> \in Seq(Answers)
    BY EmptySeq
  <2> QED  BY <1>1, <2>1, <2>2 DEF TypeOK
<1>3. TasksInOrder
  BY TasksEmpty DEF TasksInOrder
<1>4. AsksCurrent /\ TokensOK
  BY <1>1 DEF AsksCurrent, TokensOK, OneToken
<1>5. QueuesOK
  BY DEF QueuesOK, RowsInOrder, RowsOf, IdsUpTo
<1>6. WritesInOrder
  <2>1. \A u \in Users : Seen(u) = {}
    BY DEF Seen
  <2> QED  BY <2>1 DEF WritesInOrder, Ascending
<1>7. StreamOK
  <2>1. RemoteFits(remote, queue[user], user, committed, stored[user])
    BY <1>1, StoppedFits DEF IsPrefix
  <2> QED  BY <1>1, <2>1 DEF StreamOK, RemoteOK
<1>8. AnswersOK
  BY DEF AnswersOK, HandlerHasBatch, AnsweredBefore, AnswersInOrder,
         StoredIsSettled, NeverRefused, RejectionHasCause
<1> QED  BY <1>2, <1>3, <1>4, <1>5, <1>6, <1>7, <1>8 DEF Inv

LEMMA NextInv ==
    ASSUME Inv, Next
    PROVE  Inv'
<1>1. CASE IssueWrite
  BY <1>1, StepIssueWrite
<1>2. CASE \E u \in Users : CredentialChange(u)
  BY <1>2, StepCredentialChange
<1>3. CASE Tokens
  BY <1>3, StepTokenAskedAgain, StepTokenAnswer DEF Tokens
<1>4. CASE Worker
  BY <1>4, StepWriteMutations, StepHandleCredentialChange, StepResumeStart DEF Worker
<1>5. CASE BackoffElapsed \/ IdleTimeout
  BY <1>5, StepBackoffElapsed, StepIdleTimeout
<1>6. CASE BackendTakes \/ ReadCompletes
  BY <1>6, StepBackendTakes, StepReadCompletes
<1>7. CASE \E status \in {"refused", "broken"} : StreamBreaks(status)
  BY <1>7, StepStreamBreaks
<1>8. CASE GrpcEvent
  BY <1>8, StepHandshakeComplete, StepMutationResult, StepStreamCloses, StepStreamRejects
     DEF GrpcEvent
<1>9. CASE \E available \in BOOLEAN : ConnectivityChange(available)
  BY <1>9, StepConnectivityChange
<1>10. CASE Ends
  BY <1>10, StepRestart, StepEndsInResult, StepEndsInRejection DEF Ends
<1> QED  BY <1>1, <1>2, <1>3, <1>4, <1>5, <1>6, <1>7, <1>8, <1>9, <1>10 DEF Next

LEMMA StepInv == Inv /\ [Next]_vars => Inv'
<1>1. ASSUME Inv, UNCHANGED vars
      PROVE  Inv'
  <2>1. UNCHANGED <<accountVars, worker, issued, localVars, backendVars, told, restarts>>
    BY <1>1 DEF vars, accountVars, localVars, backendVars
  <2>2. UNCHANGED <<user, queue, committed, stored, worker, remote, faults>>
    BY <1>1 DEF vars
  <2>3. StreamOK' /\ TokensOK' /\ faults' \in 0 .. MaxFaults
    BY <1>1, <2>2 DEF Inv, TypeOK, StreamOK, TokensOK
  <2> QED  BY <1>1, <2>1, <2>2, <2>3, RemoteOnly
<1> QED  BY <1>1, NextInv

LEMMA InvAlways == SafeSpec => []Inv
  BY InitInv, StepInv, PTL DEF SafeSpec

(* Every message of an open stream is the handshake or a write of its user. *)
LEMMA MessagesOfUser ==
    ASSUME Inv, remote.net.open, NEW i \in DOMAIN remote.net.up, remote.net.up[i] # Hello
    PROVE  remote.net.up[i].w.by = user
<1> DEFINE t == Taken(remote)
           pipe == remote.pipeline
           up == remote.net.up
<1>1. up \in Seq(Batches \cup {Hello})
  BY OpenStream
<1>2. i \in 1 .. Len(up) /\ Len(up) \in Nat
  BY <1>1, LenProperties
<1>3. ~Greeting(remote)
  BY <1>2 DEF Greeting
<1>4. Sending(remote, committed, stored[user]) /\ Len(remote.net.down) \in Nat
  BY <1>3, HandshakeIfSending, OpenStream
<1>5. up = SubSeq(pipe, t + 1, Len(pipe)) \/ up = <<>>
  BY <1>4 DEF Sending
<1>6. pipe \in Seq(Batches) /\ Len(pipe) \in Nat
      /\ \A k \in 1 .. Len(pipe) : pipe[k].w.by = user
  BY PipelineRows
<1>7. t \in 0 .. Len(pipe)
  BY <1>4, <1>6, TakenIs DEF Sending
<1> HIDE DEF t, pipe
<1>8. Len(up) = Len(pipe) - t /\ \A k \in 1 .. Len(pipe) - t : up[k] = pipe[t + k]
  <2>1. up # <<>>
    BY <1>2
  <2>2. up = SubSeq(pipe, t + 1, Len(pipe))
    BY <1>5, <2>1
  <2> HIDE DEF up
  <2>3. LET rest == SubSeq(pipe, t + 1, Len(pipe)) IN
        Len(rest) = Len(pipe) - t /\ \A k \in 1 .. Len(pipe) - t : rest[k] = pipe[t + k]
    BY <1>6, <1>7, SubSeqFrom
  <2> QED  BY <2>2, <2>3
<1>9. i \in 1 .. Len(pipe) - t /\ t + i \in 1 .. Len(pipe)
  BY <1>2, <1>6, <1>7, <1>8
<1> QED  BY <1>6, <1>8, <1>9

LEMMA InvAssertions == Inv => AssertionsHold
<1> SUFFICES ASSUME Inv
             PROVE  AssertionsHold
  OBVIOUS
<1>1. NextEvent("ok") => remote.pipeline # <<>>
  BY OkEvent
<1>2. ASSUME worker # <<>>, Head(worker).task = "token", Head(worker).close = remote.closes
      PROVE  remote.stream = "Starting"
  <2>1. worker \in Seq(Tasks) /\ OneToken(remote, worker)
    BY DEF Inv, TypeOK, TokensOK
  <2>2. Len(worker) \in Nat \ {0} /\ Head(worker) = worker[1]
    BY <1>2, <2>1, EmptySeq, HeadTailProperties
  <2>3. 1 \in 1 .. Len(worker)
    BY <2>2
  <2> QED  BY <1>2, <2>1, <2>2, <2>3 DEF OneToken, IsToken
<1>3. /\ remote.idle => remote.pipeline = <<>>
      /\ remote.handshake => remote.stream = "Open"
  BY DEF Inv, StreamOK, RemoteOK, RemoteFits
<1> QED  BY <1>1, <1>2, <1>3 DEF AssertionsHold

-----------------------------------------------------------------------------
(* The write path keeps its types, whatever users sign in and out, streams *)
(* break and the app ends (RemoteStore, SyncEngine, LevelDbMutationQueue). *)
THEOREM WritesTypes == SafeSpec => []TypeOK
<1>1. Inv => TypeOK
  BY DEF Inv
<1> QED  BY InvAlways, <1>1, PTL

(* The pipeline is always the front of the queue of the user it is sent    *)
(* for, so an answer, which names no write, is taken for the right one     *)
(* (remote_store.cc FillWritePipeline, OnWriteStreamMutationResult).       *)
THEOREM WritesPipelineIsPrefix == SafeSpec => []PipelineIsPrefix
<1>1. Inv => PipelineIsPrefix
  <2> SUFFICES ASSUME Inv
               PROVE  PipelineIsPrefix
    OBVIOUS
  <2>1. DOMAIN remote.pipeline = 1 .. Len(remote.pipeline)
    BY PipelineRows, LenProperties
  <2> QED  BY <2>1, PipelineRows DEF PipelineIsPrefix
<1> QED  BY InvAlways, <1>1, PTL

(* The assertions of the stream and the remote store never fail            *)
(* (stream.cc ResumeStartWithCredentials, remote_store.cc                  *)
(* OnWriteStreamMutationResult and OnWriteStreamClose).                    *)
THEOREM WritesAssertionsHold == SafeSpec => []AssertionsHold
  BY InvAlways, InvAssertions, PTL

(* A completion handler that is registered has its batch in the queue, so  *)
(* no batch id is given out twice while one waits for it                   *)
(* (leveldb_mutation_queue.cc LoadNextBatchIdFromDb, sync_engine.cc).      *)
THEOREM WritesHandlerHasBatch == SafeSpec => []HandlerHasBatch
<1>1. Inv => HandlerHasBatch
  BY DEF Inv, AnswersOK
<1> QED  BY InvAlways, <1>1, PTL

(* Handlers are called in the order of the writes, each once, and success  *)
(* only for a write that is stored, although writes are sent again after   *)
(* every broken stream and restart (sync_engine.cc NotifyUser).            *)
THEOREM WritesAnswersInOrder == SafeSpec => []AnswersInOrder
<1>1. Inv => AnswersInOrder
  BY DEF Inv, AnswersOK
<1> QED  BY InvAlways, <1>1, PTL

(* A stream carries only writes of the user whose token opened it          *)
(* (stream.cc RequestCredentials, firebase_credentials_provider_apple.mm   *)
(* GetToken).                                                              *)
THEOREM WritesOwnCredentials == SafeSpec => []OwnCredentials
<1>1. Inv => OwnCredentials
  <2> SUFFICES ASSUME Inv, remote.net.open,
                      NEW i \in DOMAIN remote.net.up, remote.net.up[i] # Hello
               PROVE  remote.net.up[i].w.by = remote.net.token
    BY DEF OwnCredentials, net
  <2>1. remote.net.token = user
    BY DEF Inv, StreamOK, RemoteOK, RemoteFits
  <2> QED  BY <2>1, MessagesOfUser
<1> QED  BY InvAlways, <1>1, PTL

(* When the queue of a user is empty, the document holds the last write    *)
(* that was ever stored: what is sent again never overwrites a newer value *)
(* for good (remote_store.cc OnWriteStreamHandshakeComplete).              *)
THEOREM WritesConverge == SafeSpec => []Converged
<1>1. Inv => Converged
  <2> SUFFICES ASSUME Inv, NEW u \in Users, queue[u] = <<>>,
                      NEW w \in committed, w.by = u
               PROVE  w.n <= stored[u]
    BY DEF Converged
  <2>1. \/ \E i \in 1 .. Len(queue[u]) : queue[u][i].w = w
        \/ w.n <= stored[u]
    BY DEF Inv, AnswersOK, StoredIsSettled
  <2> QED  BY <2>1
<1> QED  BY InvAlways, <1>1, PTL

(* A handler is told of a refusal only for a write that was refused, or    *)
(* that was stored when a later one of the user was refused                *)
(* (grpc_stream.cc OnOperationFailed, remote_store.cc HandleWriteError).   *)
THEOREM WritesRejectionHasCause == SafeSpec => []RejectionHasCause
<1>1. Inv => RejectionHasCause
  BY DEF Inv, AnswersOK
<1> QED  BY InvAlways, <1>1, PTL

-----------------------------------------------------------------------------
(* The write path implements the queue of WriteQueue: every step is a step  *)
(* of that queue, or leaves it as it is.                                    *)

(* What is pending and waiting, as the refinement mapping has it. *)
WritesOf(q) == [i \in DOMAIN q |-> q[i].w]
Pending == [u \in Users |-> [i \in DOMAIN queue[u] |-> queue[u][i].w]]
Waiting == {c.w : c \in calls}

LEMMA WritesOfQueue ==
    ASSUME NEW q \in Seq(Batches)
    PROVE  /\ WritesOf(q) \in Seq(Writes) /\ Len(WritesOf(q)) = Len(q)
           /\ \A i \in 1 .. Len(q) : WritesOf(q)[i] = q[i].w
           /\ DOMAIN WritesOf(q) = 1 .. Len(q) /\ Len(q) \in Nat
<1>1. DOMAIN q = 1 .. Len(q) /\ Len(q) \in Nat
  BY LenProperties
<1>2. \A i \in 1 .. Len(q) : q[i].w \in Writes
  BY ElementOfSeq, BatchFields
<1>3. WritesOf(q) = [i \in 1 .. Len(q) |-> q[i].w]
  BY <1>1 DEF WritesOf
<1>4. WritesOf(q) \in Seq(Writes)
  BY <1>1, <1>2, <1>3, IsASeq
<1>5. DOMAIN WritesOf(q) = 1 .. Len(WritesOf(q)) /\ Len(WritesOf(q)) \in Nat
  BY <1>4, LenProperties
<1>6. DOMAIN WritesOf(q) = 1 .. Len(q) /\ \A i \in 1 .. Len(q) : WritesOf(q)[i] = q[i].w
  BY <1>3
<1>7. ASSUME NEW m \in Nat, NEW n \in Nat, 1 .. m = 1 .. n
      PROVE  m = n
  BY <1>7
<1>8. Len(WritesOf(q)) = Len(q)
  BY <1>1, <1>5, <1>6, <1>7
<1> QED  BY <1>1, <1>4, <1>6, <1>8

LEMMA WritesOfAppend ==
    ASSUME NEW q \in Seq(Batches), NEW b \in Batches
    PROVE  WritesOf(Append(q, b)) = Append(WritesOf(q), b.w)
<1> DEFINE m == Append(q, b)
           l == WritesOf(m)
           r == Append(WritesOf(q), b.w)
<1>1. /\ m \in Seq(Batches) /\ Len(m) = Len(q) + 1 /\ m[Len(q) + 1] = b
      /\ \A i \in 1 .. Len(q) : m[i] = q[i]
  BY AppendProperties
<1> HIDE DEF m
<1>2. b.w \in Writes
  BY BatchFields
<1>3. /\ WritesOf(q) \in Seq(Writes) /\ Len(WritesOf(q)) = Len(q) /\ Len(q) \in Nat
      /\ \A i \in 1 .. Len(q) : WritesOf(q)[i] = q[i].w
  BY WritesOfQueue
<1>4. /\ l \in Seq(Writes) /\ Len(l) = Len(q) + 1
      /\ \A i \in 1 .. Len(q) + 1 : l[i] = m[i].w
  BY <1>1, WritesOfQueue
<1>5. /\ r \in Seq(Writes) /\ Len(r) = Len(q) + 1 /\ r[Len(q) + 1] = b.w
      /\ \A i \in 1 .. Len(q) : r[i] = WritesOf(q)[i]
  BY <1>2, <1>3, AppendProperties
<1> HIDE DEF l, r
<1>6. ASSUME NEW i \in 1 .. Len(l)
      PROVE  l[i] = r[i]
  <2>1. CASE i = Len(q) + 1
    BY <1>1, <1>3, <1>4, <1>5, <2>1
  <2>2. CASE i # Len(q) + 1
    <3>1. i \in 1 .. Len(q) /\ i \in 1 .. Len(q) + 1
      BY <1>3, <1>4, <2>2
    <3> QED  BY <1>1, <1>3, <1>4, <1>5, <3>1
  <2> QED  BY <2>1, <2>2
<1>7. l = r
  BY <1>4, <1>5, <1>6, SeqEqual
<1> QED  BY <1>7 DEF l, r, m

LEMMA WritesOfTail ==
    ASSUME NEW q \in Seq(Batches), q # <<>>
    PROVE  /\ WritesOf(q) # <<>> /\ Head(WritesOf(q)) = Head(q).w
           /\ WritesOf(Tail(q)) = Tail(WritesOf(q))
<1> DEFINE s == WritesOf(q)
           l == WritesOf(Tail(q))
           r == Tail(s)
<1>1. /\ Tail(q) \in Seq(Batches) /\ Len(Tail(q)) = Len(q) - 1 /\ Head(q) = q[1]
      /\ Len(q) \in Nat \ {0} /\ \A i \in 1 .. Len(q) - 1 : Tail(q)[i] = q[i + 1]
  BY EmptySeq, HeadTailProperties, LenProperties
<1>2. /\ s \in Seq(Writes) /\ Len(s) = Len(q)
      /\ \A i \in 1 .. Len(q) : s[i] = q[i].w
  BY WritesOfQueue
<1>3. /\ l \in Seq(Writes) /\ Len(l) = Len(q) - 1
      /\ \A i \in 1 .. Len(q) - 1 : l[i] = Tail(q)[i].w
  BY <1>1, WritesOfQueue
<1> HIDE DEF s, l
<1>4. s # <<>>
  BY <1>1, <1>2
<1>5. /\ r \in Seq(Writes) /\ Len(r) = Len(s) - 1 /\ Head(s) = s[1]
      /\ \A i \in 1 .. Len(s) - 1 : r[i] = s[i + 1]
  BY <1>2, <1>4, EmptySeq, HeadTailProperties
<1> HIDE DEF r
<1>6. Len(l) = Len(r)
  BY <1>2, <1>3, <1>5
<1>7. ASSUME NEW i \in 1 .. Len(l)
      PROVE  l[i] = r[i]
  <2>1. i \in 1 .. Len(q) - 1 /\ i \in 1 .. Len(s) - 1 /\ i + 1 \in 1 .. Len(q)
    BY <1>1, <1>2, <1>3
  <2> QED  BY <1>1, <1>2, <1>3, <1>5, <2>1
<1>8. l = r
  BY <1>3, <1>5, <1>6, <1>7, SeqEqual
<1>9. Head(s) = Head(q).w
  <2>1. 1 \in 1 .. Len(q)
    BY <1>1
  <2> QED  BY <1>1, <1>2, <1>5, <2>1
<1> QED  BY <1>4, <1>8, <1>9 DEF s, l, r

LEMMA PendingOf ==
    ASSUME NEW u \in Users
    PROVE  Pending[u] = WritesOf(queue[u])
  BY DEF Pending, WritesOf

(* How the pending writes change with one queue. *)
LEMMA PendingExcept ==
    ASSUME queue \in [Users -> Seq(Batches)], user \in Users,
           NEW q, queue' = [queue EXCEPT ![user] = q]
    PROVE  Pending' = [Pending EXCEPT ![user] = WritesOf(q)]
<1>1. queue'[user] = q /\ \A u \in Users : u # user => queue'[u] = queue[u]
  OBVIOUS
<1>2. Pending' = [u \in Users |-> IF u = user THEN WritesOf(q) ELSE Pending[u]]
  BY <1>1 DEF Pending, WritesOf
<1>3. DOMAIN Pending = Users
  BY DEF Pending
<1> QED  BY <1>2, <1>3

-----------------------------------------------------------------------------
(* The steps of the queue, in terms of the mapping *)

AbstractSame == UNCHANGED <<user, queue, calls, committed, told>>

LEMMA SameIsStutter ==
    ASSUME AbstractSame
    PROVE  UNCHANGED Abstract!vars
  BY DEF AbstractSame, Abstract!vars

LEMMA IssueStep ==
    ASSUME Inv, WriteMutations
    PROVE  Abstract!Next
<1> DEFINE b == [id |-> nextId, w |-> Head(worker).w]
           w == Head(worker).w
           q == Append(queue[user], b)
<1>1. /\ worker # <<>> /\ Head(worker).task = "write"
      /\ b \in Batches /\ w.by = user
      /\ queue' = [queue EXCEPT ![user] = q]
      /\ calls' = calls \cup {[by |-> user, id |-> b.id, w |-> w]}
      /\ UNCHANGED <<user, committed, told>>
  BY AddedBatch
<1>2. /\ queue \in [Users -> Seq(Batches)] /\ user \in Users
      /\ queue[user] \in Seq(Batches) /\ w \in Writes
  BY <1>1, BatchFields DEF Inv, TypeOK
<1>3. Waiting' = Waiting \cup {w}
  <2>1. [by |-> user, id |-> b.id, w |-> w].w = w
    OBVIOUS
  <2> DEFINE x == [by |-> user, id |-> b.id, w |-> w]
  <2>2. calls' = calls \cup {x} /\ x.w = w
    BY <1>1, <2>1
  <2> HIDE DEF x, w, b
  <2> QED  BY <2>2 DEF Waiting
<1>4. Pending' = [Pending EXCEPT ![user] = Append(Pending[user], w)]
  <2>1. Pending' = [Pending EXCEPT ![user] = WritesOf(q)]
    BY <1>1, <1>2, PendingExcept
  <2>2. WritesOf(q) = Append(WritesOf(queue[user]), w)
    BY <1>1, <1>2, WritesOfAppend
  <2>3. Pending[user] = WritesOf(queue[user])
    BY <1>2, PendingOf
  <2> QED  BY <2>1, <2>2, <2>3
<1> HIDE DEF w, b, q
<1>5. PICK v \in Writes : v = w
  BY <1>2
<1>6. Abstract!Issue(v)
  BY <1>1, <1>3, <1>4, <1>5 DEF Abstract!Issue, Pending, Waiting
<1> QED  BY <1>6 DEF Abstract!Next

LEMMA ChangeStep ==
    ASSUME Inv, HandleCredentialChange
    PROVE  Abstract!Next
<1> DEFINE u == Head(worker).u
<1>1. /\ worker # <<>> /\ Head(worker).task = "user" /\ user' = u
      /\ UNCHANGED <<queue, calls, committed, told>>
  BY DEF HandleCredentialChange, NextTask, backendVars
<1>2. u \in Users
  BY <1>1, FirstTask, TaskKinds
<1>3. Abstract!ChangeUser(u)
  BY <1>1 DEF Abstract!ChangeUser
<1> QED  BY <1>2, <1>3 DEF Abstract!Next

LEMMA CommitStep ==
    ASSUME Inv, BackendTakes
    PROVE  Abstract!Next \/ AbstractSame
<1> DEFINE m == Head(remote.net.up)
           t == Taken(remote)
<1>1. /\ remote.net.open /\ remote.net.status = "none" /\ remote.net.up # <<>>
      /\ UNCHANGED <<user, queue, calls, told>>
  BY DEF BackendTakes, Live, net, localVars
<1>2. CASE m = Hello \/ m.w \in Refused
  BY <1>1, <1>2 DEF BackendTakes, net, backendVars, AbstractSame
<1>3. CASE m # Hello /\ m.w \notin Refused
  <2>1. committed' = committed \cup {m.w}
    BY <1>3 DEF BackendTakes, net
  <2>2. t + 1 \in 1 .. Len(remote.pipeline) /\ m = remote.pipeline[t + 1]
    BY <1>1, <1>3, TakesWrite
  <2>3. /\ queue[user] \in Seq(Batches) /\ user \in Users
        /\ t + 1 \in 1 .. Len(queue[user]) /\ m = queue[user][t + 1] /\ m.w \in Writes
    BY <2>2, PipelineRows DEF Inv, TypeOK
  <2> HIDE DEF t, m
  <2>4. /\ t + 1 \in DOMAIN WritesOf(queue[user])
        /\ WritesOf(queue[user])[t + 1] = m.w
    BY <2>3, WritesOfQueue
  <2>5. \E i \in DOMAIN Pending[user] : Pending[user][i] = m.w
    BY <2>3, <2>4, PendingOf
  <2>6. Abstract!Commit(m.w)
    BY <1>1, <2>1, <2>5 DEF Abstract!Commit, Pending
  <2> QED  BY <2>3, <2>6 DEF Abstract!Next
<1> QED  BY <1>2, <1>3

(* The first write of the queue is answered and removed. *)
LEMMA SettleStep ==
    ASSUME Inv, NEW ok \in BOOLEAN, queue[user] # <<>>,
           NotifyUser(Head(queue[user]).id, ok),
           queue' = [queue EXCEPT ![user] = Tail(queue[user])],
           UNCHANGED <<user, committed>>,
           ok => Head(queue[user]).w \in committed
    PROVE  Abstract!Next
<1> DEFINE w == Head(queue[user]).w
<1>1. /\ queue \in [Users -> Seq(Batches)] /\ user \in Users
      /\ queue[user] \in Seq(Batches) /\ told \in [Users -> Seq(Answers)]
      /\ RowsInOrder(queue[user]) /\ RowsOf(queue[user], user)
  BY DEF Inv, TypeOK, QueuesOK
<1>2. w.by = user
  BY <1>1, RowsTail
<1>3. /\ Pending[user] # <<>> /\ Head(Pending[user]) = w
      /\ Pending' = [Pending EXCEPT ![user] = Tail(Pending[user])]
  <2>1. Pending' = [Pending EXCEPT ![user] = WritesOf(Tail(queue[user]))]
    BY <1>1, PendingExcept
  <2>2. Pending[user] = WritesOf(queue[user])
    BY <1>1, PendingOf
  <2> QED  BY <1>1, <2>1, <2>2, WritesOfTail
<1>4. /\ calls' = {c \in calls : c.w # w}
      /\ \/ told' = told /\ ~\E c \in calls : c.w = w
         \/ /\ \E c \in calls : c.w = w
            /\ told' = [told EXCEPT ![user] = Append(told[user], [n |-> w.n, ok |-> ok])]
  BY Notified
<1> HIDE DEF w
<1>5. Waiting' = Waiting \ {w}
  BY <1>4 DEF Waiting
<1>6. told' = [told EXCEPT ![w.by] =
                 IF w \in Waiting THEN Append(told[w.by], [n |-> w.n, ok |-> ok])
                 ELSE told[w.by]]
  <2>1. CASE \E c \in calls : c.w = w
    BY <1>2, <1>4, <2>1 DEF Waiting
  <2>2. CASE ~\E c \in calls : c.w = w
    BY <1>1, <1>2, <1>4, <2>2 DEF Waiting
  <2> QED  BY <2>1, <2>2
<1>7. Abstract!Settle(ok)
  <2>1. Abstract!Answered(w, ok)
    BY <1>6 DEF Abstract!Answered, Waiting
  <2>2. ok => w \in committed
    BY DEF w
  <2> QED  BY <1>3, <1>5, <2>1, <2>2 DEF Abstract!Settle, Pending, Waiting
<1> QED  BY <1>7 DEF Abstract!Next

LEMMA ResultStep ==
    ASSUME Inv, MutationResult
    PROVE  Abstract!Next
<1> DEFINE b == Head(remote.pipeline)
<1>1. /\ NextEvent("ok") /\ NotifyUser(b.id, TRUE)
      /\ queue' = [queue EXCEPT ![user] = RemoveMutationBatch(queue[user], b.id)]
      /\ UNCHANGED <<user, committed>>
  BY DEF MutationResult, backendVars
<1>2. remote.pipeline # <<>> /\ b.w \in committed
  BY <1>1, OkEvent
<1>3. queue[user] # <<>> /\ b = Head(queue[user])
  BY <1>2, FirstOfPipeline
<1> HIDE DEF b
<1>4. RemoveMutationBatch(queue[user], b.id) = Tail(queue[user])
  BY <1>3, RowsTail DEF Inv, TypeOK, QueuesOK
<1> QED  BY <1>1, <1>2, <1>3, <1>4, SettleStep

LEMMA RejectStep ==
    ASSUME Inv, StreamRejects
    PROVE  Abstract!Next
<1> DEFINE b == Head(remote.pipeline)
<1>1. /\ NextEvent("failed") /\ Rejects /\ NotifyUser(b.id, FALSE)
      /\ queue' = [queue EXCEPT ![user] = RemoveMutationBatch(queue[user], b.id)]
      /\ UNCHANGED <<user, committed>>
  BY DEF StreamRejects, backendVars
<1>2. remote.pipeline # <<>>
  BY <1>1, RejectEvent
<1>3. queue[user] # <<>> /\ b = Head(queue[user])
  BY <1>2, FirstOfPipeline
<1> HIDE DEF b
<1>4. RemoveMutationBatch(queue[user], b.id) = Tail(queue[user])
  BY <1>3, RowsTail DEF Inv, TypeOK, QueuesOK
<1> QED  BY <1>1, <1>3, <1>4, SettleStep

LEMMA EndStep ==
    ASSUME Inv, Ends
    PROVE  Abstract!Next
<1>1. /\ queue \in [Users -> Seq(Batches)] /\ user \in Users /\ auth \in Users
      /\ queue[user] \in Seq(Batches) /\ RowsInOrder(queue[user]) /\ RowsOf(queue[user], user)
  BY DEF Inv, TypeOK, QueuesOK
<1>2. Pending[user] = WritesOf(queue[user])
  BY <1>1, PendingOf
<1>3. PICK u \in Users : u = auth
  BY <1>1
<1>4. user' = u /\ Waiting' = {} /\ UNCHANGED committed
  BY <1>3 DEF Ends, Restart, EndsInResult, EndsInRejection, Restarted, backendVars, Waiting
<1>5. CASE Restart
  <2>1. UNCHANGED <<queue, told>>
    BY <1>5 DEF Restart, Restarted
  <2>2. Abstract!Restart(u)
    BY <1>4, <2>1 DEF Abstract!Restart, Waiting
  <2> QED  BY <2>2 DEF Abstract!Next
<1>6. CASE EndsInResult
  <2> DEFINE w == Head(queue[user]).w
  <2>1. /\ queue[user] # <<>> /\ w \in committed
        /\ \E c \in calls : c.w = w
        /\ told' = [told EXCEPT ![user] = Append(told[user], [n |-> w.n, ok |-> TRUE])]
        /\ Restarted(queue)
    BY <1>6, EndsInResultIs
  <2>2. w.by = user
    BY <1>1, <2>1, RowsTail
  <2>3. Pending[user] # <<>> /\ Head(Pending[user]) = w
    BY <1>1, <1>2, <2>1, WritesOfTail
  <2> HIDE DEF w
  <2>4. Abstract!Answered(w, TRUE)
    BY <2>1, <2>2 DEF Abstract!Answered
  <2>5. UNCHANGED queue
    BY <2>1 DEF Restarted
  <2>6. Abstract!Restart(u)
    BY <1>4, <2>1, <2>3, <2>4, <2>5 DEF Abstract!Restart, Waiting, Pending
  <2> QED  BY <2>6 DEF Abstract!Next
<1>7. CASE EndsInRejection
  <2>1. /\ queue[user] # <<>> /\ UNCHANGED told
        /\ Restarted([queue EXCEPT ![user] = Tail(queue[user])])
    BY <1>7, EndsInRejectionIs
  <2>2. queue' = [queue EXCEPT ![user] = Tail(queue[user])]
    BY <2>1 DEF Restarted
  <2>3. Pending' = [Pending EXCEPT ![user] = WritesOf(Tail(queue[user]))]
    BY <1>1, <2>2, PendingExcept
  <2>4. /\ Pending[user] # <<>>
        /\ Pending' = [Pending EXCEPT ![user] = Tail(Pending[user])]
    BY <1>1, <1>2, <2>1, <2>3, WritesOfTail
  <2>5. Abstract!Restart(u)
    BY <1>4, <2>1, <2>4 DEF Abstract!Restart, Waiting, Pending
  <2> QED  BY <2>5 DEF Abstract!Next
<1> QED  BY <1>5, <1>6, <1>7 DEF Ends

LEMMA StepRefines == Inv /\ [Next]_vars => [Abstract!Next]_Abstract!vars
<1> SUFFICES ASSUME Inv, [Next]_vars
             PROVE  Abstract!Next \/ AbstractSame
  BY SameIsStutter
<1> USE DEF AbstractSame, localVars, backendVars
<1>1. CASE IssueWrite
  BY <1>1 DEF IssueWrite
<1>2. CASE \E u \in Users : CredentialChange(u)
  BY <1>2 DEF CredentialChange
<1>3. CASE Tokens
  BY <1>3 DEF Tokens, TokenAskedAgain, TokenAnswer
<1>4. CASE Worker
  <2>1. CASE ResumeStart
    BY <2>1 DEF ResumeStart
  <2> QED  BY <1>4, <2>1, IssueStep, ChangeStep DEF Worker
<1>5. CASE BackoffElapsed \/ IdleTimeout
  BY <1>5 DEF BackoffElapsed, IdleTimeout
<1>6. CASE BackendTakes
  BY <1>6, CommitStep
<1>7. CASE ReadCompletes
  BY <1>7 DEF ReadCompletes
<1>8. CASE \E status \in {"refused", "broken"} : StreamBreaks(status)
  BY <1>8 DEF StreamBreaks
<1>9. CASE GrpcEvent
  <2>1. CASE HandshakeComplete \/ StreamCloses
    BY <2>1 DEF HandshakeComplete, StreamCloses
  <2> QED  BY <1>9, <2>1, ResultStep, RejectStep DEF GrpcEvent
<1>10. CASE \E available \in BOOLEAN : ConnectivityChange(available)
  BY <1>10 DEF ConnectivityChange
<1>11. CASE Ends
  BY <1>11, EndStep
<1>12. CASE UNCHANGED vars
  BY <1>12 DEF vars
<1> QED  BY <1>1, <1>2, <1>3, <1>4, <1>5, <1>6, <1>7, <1>8, <1>9, <1>10, <1>11, <1>12
            DEF Next

(* The write path is, for the code that calls setData, update, delete or   *)
(* commit, the queue of WriteQueue: streams, tokens, pipelines and retries *)
(* show in nothing but the order and the results of the completion         *)
(* handlers it describes (FirestoreClient::WriteMutations).                *)
THEOREM WritesImplementQueue == SafeSpec => ImplementsWriteQueue
<1>1. Init => Abstract!Init
  <2> SUFFICES ASSUME Init
               PROVE  Abstract!Init
    OBVIOUS
  <2>1. Pending = [u \in Users |-> <<>>]
    BY DEF Init, Pending
  <2>2. Waiting = {}
    BY DEF Init, Waiting
  <2> QED  BY <2>1, <2>2 DEF Init, Abstract!Init, Pending, Waiting
<1> QED  BY <1>1, InvAlways, StepRefines, PTL
            DEF SafeSpec, ImplementsWriteQueue, Abstract!Spec
=============================================================================
