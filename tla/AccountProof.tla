---------------------------- MODULE AccountProof ----------------------------
(***************************************************************************)
(* Proofs of the safety invariants of Account, for any accounts, amounts   *)
(* and bounds.                                                             *)
(***************************************************************************)
EXTENDS Account, DataLemmas

-----------------------------------------------------------------------------
(* The view of a document *)

Docs == [Users -> Amounts \cup {None}]

LEMMA ApplyTypes ==
    ASSUME NEW d \in Amounts \cup {None}, NEW w \in Write
    PROVE  /\ Apply(d, w) \in Amounts \cup {None}
           /\ w.kind = "addUser" => Apply(d, w) = 0
           /\ w.kind = "default" /\ d # None => Apply(d, w) = w.amount
           /\ w.kind = "default" /\ d = None => Apply(d, w) = None
<1>1. w.kind \in {"addUser", "default"} /\ w.amount \in Amounts
  BY DEF Write, WriteKinds
<1>2. 0 \in Amounts
  BY AccountBounds DEF Amounts
<1> QED  BY <1>1, <1>2 DEF Apply

(* The view comes about write by write. *)
LEMMA ViewSteps ==
    ASSUME docs \in Docs, writes \in Seq(Write), NEW u \in Users
    PROVE  \E g \in [0 .. Len(writes) -> Amounts \cup {None}] :
               /\ g[0] = docs[u] /\ g[Len(writes)] = View(u)
               /\ \A k \in 1 .. Len(writes) :
                      g[k] = IF writes[k].uid = u /\ writes[k].by = currentUser
                             THEN Apply(g[k - 1], writes[k]) ELSE g[k - 1]
<1> DEFINE A == Amounts \cup {None}
           n == Len(writes)
           Is(f) == f = [T \in SUBSET (1 .. n) |->
                          IF T = {} THEN docs[u]
                          ELSE IF writes[Max(T)].uid = u /\ writes[Max(T)].by = currentUser
                               THEN Apply(f[T \ {Max(T)}], writes[Max(T)])
                               ELSE f[T \ {Max(T)}]]
           step == [p \in A \X (1 .. n) |->
                      IF writes[p[2]].uid = u /\ writes[p[2]].by = currentUser
                      THEN Apply(p[1], writes[p[2]]) ELSE p[1]]
           it == CHOOSE f : Is(f)
<1>1. n \in Nat /\ DOMAIN writes = 1 .. n /\ \A k \in 1 .. n : writes[k] \in Write
  BY LenProperties
<1>2. View(u) = it[1 .. n]
  BY <1>1 DEF View, FoldLeft, MapThenFoldSet
<1>3. docs[u] \in A
  BY DEF Docs
<1> HIDE DEF A, n
<1>4. step \in [A \X (1 .. n) -> A]
  <2>1. ASSUME NEW p \in A \X (1 .. n)
        PROVE  step[p] \in A
    <3>1. p[1] \in A /\ p[2] \in 1 .. n
      OBVIOUS
    <3>2. Apply(p[1], writes[p[2]]) \in A
      BY <3>1, <1>1, ApplyTypes DEF A
    <3> QED  BY <3>1, <3>2
  <2> QED  BY <2>1
<1>5. \A x \in A : \A k \in 1 .. n :
          step[<<x, k>>] = IF writes[k].uid = u /\ writes[k].by = currentUser
                           THEN Apply(x, writes[k]) ELSE x
  OBVIOUS
<1> HIDE DEF step, it, Is
<1>6. PICK f \in [SUBSET (1 .. n) -> A] :
        \A T \in SUBSET (1 .. n) :
           f[T] = IF T = {} THEN docs[u] ELSE step[<<f[T \ {Max(T)}], Max(T)>>]
  <2>1. PICK f : IsFold(f, A, docs[u], n, step)
    BY <1>1, <1>3, <1>4, FoldExists DEF IsStep
  <2> QED  BY <2>1 DEF IsFold
<1>7. \A T \in SUBSET (1 .. n) : T # {} => Max(T) \in 1 .. n /\ T \ {Max(T)} \in SUBSET (1 .. n)
  BY <1>1, MaxOfBounded
<1>8. Is(f)
  <2> USE DEF Is
  <2> DEFINE g == [T \in SUBSET (1 .. n) |->
                          IF T = {} THEN docs[u]
                          ELSE IF writes[Max(T)].uid = u /\ writes[Max(T)].by = currentUser
                               THEN Apply(f[T \ {Max(T)}], writes[Max(T)])
                               ELSE f[T \ {Max(T)}]]
  <2>1. ASSUME NEW T \in SUBSET (1 .. n)
        PROVE  f[T] = g[T]
    <3>1. CASE T = {}
      BY <3>1, <1>6
    <3>2. CASE T # {}
      <4>1. Max(T) \in 1 .. n /\ f[T \ {Max(T)}] \in A
        BY <3>2, <1>6, <1>7
      <4>2. f[T] = step[<<f[T \ {Max(T)}], Max(T)>>]
        BY <3>2, <1>6
      <4> QED  BY <3>2, <4>1, <4>2, <1>5
    <3> QED  BY <3>1, <3>2
  <2>2. f = g
    <3>1. f \in [SUBSET (1 .. n) -> A] /\ DOMAIN g = SUBSET (1 .. n)
      BY <1>6
    <3>2. f = [T \in SUBSET (1 .. n) |-> f[T]]
      BY <3>1
    <3> HIDE DEF g
    <3>3. g = [T \in SUBSET (1 .. n) |-> g[T]]
      BY DEF g
    <3> QED  BY <2>1, <3>2, <3>3
  <2> QED  BY <2>2
<1>9. Is(it)
  BY <1>8 DEF it
<1>10. /\ it[{}] = docs[u]
       /\ \A T \in SUBSET (1 .. n) : T # {} =>
              it[T] = IF writes[Max(T)].uid = u /\ writes[Max(T)].by = currentUser
                      THEN Apply(it[T \ {Max(T)}], writes[Max(T)])
                      ELSE it[T \ {Max(T)}]
  BY <1>9 DEF Is
<1>11. ASSUME NEW k \in 1 .. n, it[1 .. k - 1] \in A
       PROVE  it[1 .. k] = step[<<it[1 .. k - 1], k>>]
  <2>1. 1 .. k \in SUBSET (1 .. n) /\ 1 .. k # {} /\ k \in 1 .. k /\ k \in Nat
    <3>1. k \in Nat /\ k \in 1 .. k /\ \A i \in 1 .. k : i \in 1 .. n
      BY <1>1
    <3> QED  BY <3>1
  <2>2. Max(1 .. k) \in 1 .. k /\ \A y \in 1 .. k : y <= Max(1 .. k)
    BY <2>1, MaxOfBounded
  <2>3. Max(1 .. k) = k
    <3>1. Max(1 .. k) \in 1 .. k /\ k <= Max(1 .. k)
      BY <2>1, <2>2
    <3> QED  BY <3>1, <2>1
  <2>4. (1 .. k) \ {k} = 1 .. k - 1
    BY <2>1
  <2>5. it[1 .. k] = IF writes[k].uid = u /\ writes[k].by = currentUser
                     THEN Apply(it[1 .. k - 1], writes[k]) ELSE it[1 .. k - 1]
    BY <2>1, <2>3, <2>4, <1>10
  <2> QED  BY <2>5, <1>5, <1>11
<1>12. PICK g : ArePrefixes(g, A, docs[u], n, step, it[1 .. n])
  <2>1. IsStep(step, A, n)
    BY <1>4 DEF IsStep
  <2> QED  BY <2>1, <1>1, <1>3, <1>10, <1>11, FoldPrefixes
<1>13. /\ g \in [0 .. n -> A]
       /\ g[0] = docs[u] /\ g[n] = it[1 .. n]
       /\ \A k \in 1 .. n : g[k] = step[<<g[k - 1], k>>]
  BY <1>12 DEF ArePrefixes
<1>14. \A k \in 1 .. n : g[k] = IF writes[k].uid = u /\ writes[k].by = currentUser
                                THEN Apply(g[k - 1], writes[k]) ELSE g[k - 1]
  <2> TAKE k \in 1 .. n
  <2>1. g[k - 1] \in A
    BY <1>1, <1>13
  <2> QED  BY <2>1, <1>13, <1>5
<1> QED  BY <1>2, <1>13, <1>14 DEF A, n

(* No profile is shown where none is stored and none is to be written. *)
LEMMA ViewOfNone ==
    ASSUME docs \in Docs, writes \in Seq(Write), NEW u \in Users, docs[u] = None,
           \A i \in 1 .. Len(writes) : writes[i].uid = u => writes[i].kind # "addUser"
    PROVE  View(u) = None
<1> DEFINE n == Len(writes)
<1>1. n \in Nat /\ \A k \in 1 .. n : writes[k] \in Write
  BY LenProperties
<1>2. PICK g \in [0 .. n -> Amounts \cup {None}] :
          /\ g[0] = docs[u] /\ g[n] = View(u)
          /\ \A k \in 1 .. n : g[k] = IF writes[k].uid = u /\ writes[k].by = currentUser
                                      THEN Apply(g[k - 1], writes[k]) ELSE g[k - 1]
  BY ViewSteps
<1> HIDE DEF n
<1> DEFINE S == {k \in Nat : k <= n => g[k] = None}
<1>3. 0 \in S
  BY <1>2
<1>4. ASSUME NEW k \in S
      PROVE  k + 1 \in S
  <2> SUFFICES ASSUME k + 1 <= n
               PROVE  g[k + 1] = None
    OBVIOUS
  <2>1. k + 1 \in 1 .. n /\ (k + 1) - 1 = k /\ g[k] = None
    BY <1>1
  <2>2. writes[k + 1] \in Write
    BY <2>1, <1>1
  <2>3. CASE writes[k + 1].uid = u /\ writes[k + 1].by = currentUser
    <3>1. writes[k + 1].kind = "default"
      BY <2>1, <2>2, <2>3 DEF n, Write, WriteKinds
    <3>2. Apply(None, writes[k + 1]) = None
      BY <2>2, <3>1, ApplyTypes
    <3> QED  BY <2>1, <2>3, <3>2, <1>2
  <2>4. CASE ~(writes[k + 1].uid = u /\ writes[k + 1].by = currentUser)
    BY <2>1, <2>4, <1>2
  <2> QED  BY <2>3, <2>4
<1>5. S \in SUBSET Nat
  OBVIOUS
<1>6. n \in S
  <2> HIDE DEF S
  <2> QED  BY <1>1, <1>3, <1>4, <1>5, EveryNumber
<1>7. n <= n
  BY <1>1
<1> QED  BY <1>2, <1>6, <1>7

(* Under profiles that are to be written, and nothing else, the view is     *)
(* empty, and without any it is the document.                               *)
LEMMA ViewOfProfiles ==
    ASSUME docs \in Docs, writes \in Seq(Write), NEW u \in Users,
           \A i \in 1 .. Len(writes) :
               writes[i].uid = u /\ writes[i].by = currentUser => writes[i].kind = "addUser"
    PROVE  View(u) = IF \E i \in 1 .. Len(writes) :
                            writes[i].uid = u /\ writes[i].by = currentUser
                     THEN 0 ELSE docs[u]
<1> DEFINE n == Len(writes)
           Of(k) == writes[k].uid = u /\ writes[k].by = currentUser
           After(k) == IF \E i \in 1 .. k : Of(i) THEN 0 ELSE docs[u]
<1>1. n \in Nat /\ \A k \in 1 .. n : writes[k] \in Write
  BY LenProperties
<1>2. PICK g \in [0 .. n -> Amounts \cup {None}] :
          /\ g[0] = docs[u] /\ g[n] = View(u)
          /\ \A k \in 1 .. n : g[k] = IF Of(k) THEN Apply(g[k - 1], writes[k]) ELSE g[k - 1]
  BY ViewSteps
<1>3. \A k \in 1 .. n : Of(k) => writes[k].kind = "addUser"
  OBVIOUS
<1> HIDE DEF n, Of
<1> DEFINE S == {k \in Nat : k <= n => g[k] = After(k)}
<1>4. 0 \in S
  <2>1. \A i \in 1 .. 0 : FALSE
    OBVIOUS
  <2>2. After(0) = docs[u]
    BY <2>1
  <2> HIDE DEF After
  <2> QED  BY <1>2, <2>2
<1>5. ASSUME NEW k \in S
      PROVE  k + 1 \in S
  <2>0. k \in Nat
    OBVIOUS
  <2> SUFFICES ASSUME k + 1 <= n
               PROVE  g[k + 1] = After(k + 1)
    BY <2>0
  <2>1. k + 1 \in 1 .. n /\ (k + 1) - 1 = k /\ g[k] = After(k) /\ k \in 0 .. n
    BY <1>1, <2>0
  <2>2. writes[k + 1] \in Write /\ g[k] \in Amounts \cup {None}
    BY <2>1, <1>1, <1>2
  <2>3. CASE Of(k + 1)
    <3>1. g[k + 1] = 0
      BY <2>1, <2>2, <2>3, <1>2, <1>3, ApplyTypes
    <3>2. k + 1 \in 1 .. k + 1
      BY <2>1
    <3> QED  BY <2>3, <3>1, <3>2
  <2>4. CASE ~Of(k + 1)
    <3>1. \A i \in 1 .. k + 1 : i = k + 1 \/ i \in 1 .. k
      BY <2>1
    <3>2. \A i \in 1 .. k : i \in 1 .. k + 1
      BY <2>1
    <3>3. After(k + 1) = After(k)
      BY <2>4, <3>1, <3>2
    <3>4. g[k + 1] = g[k]
      BY <2>1, <2>4, <1>2
    <3> QED  BY <2>1, <3>3, <3>4
  <2> QED  BY <2>3, <2>4
<1>6. S \in SUBSET Nat
  OBVIOUS
<1>7. n \in S
  <2> HIDE DEF S
  <2> QED  BY <1>1, <1>4, <1>5, <1>6, EveryNumber
<1>8. n <= n
  BY <1>1
<1>9. g[n] = After(n)
  <2> HIDE DEF After
  <2> QED  BY <1>7, <1>8
<1> QED  BY <1>2, <1>9 DEF n, Of

LEMMA ViewTypes ==
    ASSUME docs \in Docs, writes \in Seq(Write), NEW u \in Users
    PROVE  View(u) \in Amounts \cup {None}
<1>1. PICK g \in [0 .. Len(writes) -> Amounts \cup {None}] : g[Len(writes)] = View(u)
  BY ViewSteps
<1>2. Len(writes) \in 0 .. Len(writes)
  BY LenProperties
<1> QED  BY <1>1, <1>2

-----------------------------------------------------------------------------
(* Requests, writes and callbacks *)

Kinds == RequestKinds \cup WriteKinds

LEMMA RequestTypes ==
    ASSUME NEW kind \in RequestKinds, NEW u \in Users, NEW here \in BOOLEAN
    PROVE  Requesting(kind, u, here) \in Request
  BY DEF Requesting, Request

LEMMA GoneTypes ==
    ASSUME NEW rs \in SUBSET Request
    PROVE  Gone(rs) \in SUBSET Request
  BY DEF Gone, Request

(* A form that is left changes nothing but who waits. *)
LEMMA GoneAllCallbacks ==
    ASSUME NEW s \in Seq(Callback)
    PROVE  /\ GoneAll(s) \in Seq(Callback) /\ Len(GoneAll(s)) = Len(s)
           /\ \A i \in 1 .. Len(s) : GoneAll(s)[i] = [s[i] EXCEPT !.here = FALSE]
<1>1. Len(s) \in Nat /\ DOMAIN s = 1 .. Len(s) /\ \A i \in 1 .. Len(s) : s[i] \in Callback
  BY LenProperties
<1>2. \A i \in 1 .. Len(s) : [s[i] EXCEPT !.here = FALSE] \in Callback
  BY <1>1 DEF Callback
<1>3. GoneAll(s) = [i \in 1 .. Len(s) |-> [s[i] EXCEPT !.here = FALSE]]
  BY <1>1 DEF GoneAll
<1> QED  BY <1>1, <1>2, <1>3

LEMMA GoneAllWrites ==
    ASSUME NEW s \in Seq(Write)
    PROVE  /\ GoneAll(s) \in Seq(Write) /\ Len(GoneAll(s)) = Len(s)
           /\ \A i \in 1 .. Len(s) : GoneAll(s)[i] = [s[i] EXCEPT !.here = FALSE]
<1>1. Len(s) \in Nat /\ DOMAIN s = 1 .. Len(s) /\ \A i \in 1 .. Len(s) : s[i] \in Write
  BY LenProperties
<1>2. \A i \in 1 .. Len(s) : [s[i] EXCEPT !.here = FALSE] \in Write
  BY <1>1 DEF Write
<1>3. GoneAll(s) = [i \in 1 .. Len(s) |-> [s[i] EXCEPT !.here = FALSE]]
  BY <1>1 DEF GoneAll
<1> QED  BY <1>1, <1>2, <1>3

(* The writes that outlive the app. *)
Ended(s, kept) ==
    kept = [i \in DOMAIN s |-> [s[i] EXCEPT !.here = FALSE, !.waits = FALSE]]

LEMMA RestartWrites ==
    ASSUME NEW s \in Seq(Write), NEW kept, Ended(s, kept)
    PROVE  /\ kept \in Seq(Write) /\ Len(kept) = Len(s)
           /\ \A i \in 1 .. Len(s) :
                  kept[i] = [s[i] EXCEPT !.here = FALSE, !.waits = FALSE]
<1>1. Len(s) \in Nat /\ DOMAIN s = 1 .. Len(s) /\ \A i \in 1 .. Len(s) : s[i] \in Write
  BY LenProperties
<1>2. \A i \in 1 .. Len(s) : [s[i] EXCEPT !.here = FALSE, !.waits = FALSE] \in Write
  BY <1>1 DEF Write
<1>3. kept = [i \in 1 .. Len(s) |-> [s[i] EXCEPT !.here = FALSE, !.waits = FALSE]]
  BY <1>1 DEF Ended
<1>4. DOMAIN kept = 1 .. Len(s) /\ kept = [i \in 1 .. Len(s) |-> kept[i]]
  BY <1>3
<1>5. \A i \in 1 .. Len(s) : kept[i] \in Write
  BY <1>2, <1>3
<1>6. kept \in [1 .. Len(s) -> Write]
  BY <1>4, <1>5
<1>7. kept \in Seq(Write) /\ Len(kept) = Len(s)
  BY <1>1, <1>6, FunctionIsSeq
<1> QED  BY <1>3, <1>7

LEMMA DispatchTypes ==
    ASSUME queue \in Seq(Callback), NEW kind \in Kinds, NEW u \in Users,
           NEW ok \in BOOLEAN, NEW amount \in Amounts, NEW here \in BOOLEAN,
           Dispatch(kind, u, ok, amount, here)
    PROVE  LET c == [kind |-> kind, uid |-> u, ok |-> ok, amount |-> amount, here |-> here]
           IN  /\ queue' = Append(queue, c) /\ c \in Callback
               /\ queue' \in Seq(Callback) /\ Len(queue') = Len(queue) + 1
               /\ queue'[Len(queue) + 1] = c
               /\ \A i \in 1 .. Len(queue) : queue'[i] = queue[i]
<1> DEFINE c == [kind |-> kind, uid |-> u, ok |-> ok, amount |-> amount, here |-> here]
<1>1. c \in Callback /\ queue' = Append(queue, c)
  BY DEF Dispatch, Callback, Kinds
<1> HIDE DEF c
<1>2. /\ Append(queue, c) \in Seq(Callback) /\ Len(Append(queue, c)) = Len(queue) + 1
      /\ Append(queue, c)[Len(queue) + 1] = c
      /\ \A i \in 1 .. Len(queue) : Append(queue, c)[i] = queue[i]
  BY <1>1, AppendProperties
<1> QED  BY <1>1, <1>2 DEF c

(* The oldest write of the signed-in user. *)
LEMMA OldestWrite ==
    ASSUME writes \in Seq(Write)
    PROVE  LET i == SelectInSeq(writes, LAMBDA w : w.by = currentUser)
           IN  i > 0 => i \in 1 .. Len(writes) /\ writes[i].by = currentUser
<1> DEFINE i == SelectInSeq(writes, LAMBDA w : w.by = currentUser)
           I == {k \in 1 .. Len(writes) : writes[k].by = currentUser}
<1>1. i = IF I # {} THEN Min(I) ELSE 0
  BY DEF SelectInSeq
<1>2. I \in SUBSET Nat
  BY LenProperties
<1>3. I # {} => Min(I) \in I
  <2> HIDE DEF I
  <2> QED  BY <1>2, MinOfNumbers
<1> HIDE DEF i
<1>4. i > 0 => i \in I
  BY <1>1, <1>3
<1> QED  BY <1>4 DEF i

-----------------------------------------------------------------------------
(* The types *)

Screens == {"main", "onboarding", "auth", "signIn", "signUp", "welcome", "start",
            "letsGo", "tabs"}

LEMMA InitTypes == Init => TypeOK
<1> SUFFICES ASSUME Init
             PROVE  TypeOK
  OBVIOUS
<1>1. writes \in Seq(Write) /\ queue \in Seq(Callback)
  BY EmptySeq DEF Init
<1>2. 0 \in Amounts /\ forms \in 0 .. MaxForms
  BY AccountBounds DEF Init, Amounts
<1>3. docs \in [Users -> Amounts \cup {None}]
  BY <1>2 DEF Init
<1> QED  BY <1>1, <1>2, <1>3 DEF Init, TypeOK

(* What the screens fetch. *)
LEMMA FetchTypes ==
    ASSUME TypeOK, NEW rs \in SUBSET Request, FetchOrRedirect(rs) \/ FetchUpdateUser(rs)
    PROVE  screen' \in {"tabs", "auth"} /\ requests' \subseteq Request
<1>1. CASE FetchUpdateUser(rs)
  <2>1. currentUser \in Users
    BY <1>1 DEF FetchUpdateUser, TypeOK
  <2>2. Requesting("fetch", currentUser, FALSE) \in Request
    BY <2>1, RequestTypes DEF RequestKinds
  <2> QED  BY <1>1, <2>2 DEF FetchUpdateUser
<1>2. CASE RedirectToAuth(rs)
  BY <1>2, GoneTypes DEF RedirectToAuth
<1> QED  BY <1>1, <1>2 DEF FetchOrRedirect

(* The accounts that are underway or left something are accounts. *)
LEMMA LeftTypes ==
    ASSUME TypeOK
    PROVE  /\ UnderWay \subseteq Users /\ LeftOver \subseteq Users
           /\ \A u \in Users \cup {None} : CacheBut(u) \subseteq Users
<1>1. \A i \in DOMAIN queue : queue[i].uid \in Users
  <2>1. \A i \in DOMAIN queue : queue[i] \in Callback
    BY LenProperties DEF TypeOK
  <2> QED  BY <2>1 DEF Callback
<1>2. \A r \in requests : r.uid \in Users
  BY DEF TypeOK, Request
<1>3. UnderWay \subseteq Users
  BY <1>1, <1>2 DEF UnderWay
<1>4. user # None => user.email \in Users
  BY DEF TypeOK, LendUser
<1>5. \A u \in Users \cup {None} : CacheBut(u) \subseteq Users
  BY <1>4 DEF CacheBut
<1>6. {donor, completeDonation} \ {None} \subseteq Users
  BY DEF TypeOK
<1> QED  BY <1>3, <1>5, <1>6 DEF LeftOver

LEMMA AmountWriteTypes ==
    ASSUME TypeOK, NEW v \in minAmount .. MaxAmount, UpdateDefaultDonateAmount(v)
    PROVE  writes' \in Seq(Write) /\ v \in Amounts
<1>1. v \in Amounts
  BY AccountBounds DEF minAmount, Amounts
<1>2. ASSUME currentUser # None
      PROVE  [kind |-> "default", uid |-> currentUser, by |-> currentUser,
              amount |-> v, here |-> FALSE, waits |-> TRUE] \in Write
  BY <1>1, <1>2 DEF TypeOK, Write, WriteKinds
<1> QED  BY <1>1, <1>2, AppendProperties DEF UpdateDefaultDonateAmount, TypeOK

LEMMA AddUserTypes ==
    ASSUME TypeOK, NEW u \in Users, NEW here \in BOOLEAN, AddUser(u, here)
    PROVE  writes' \in Seq(Write) /\ user' \in LendUser
<1>1. 0 \in Amounts
  BY AccountBounds DEF Amounts
<1>2. [kind |-> "addUser", uid |-> u, by |-> currentUser, amount |-> 0,
       here |-> here, waits |-> TRUE] \in Write
  BY <1>1 DEF TypeOK, Write, WriteKinds
<1> QED  BY <1>1, <1>2, AppendProperties DEF AddUser, TypeOK, LendUser

LEMMA EventTypes ==
    ASSUME TypeOK, queue # <<>>
    PROVE  /\ Event \in Callback /\ Event = queue[1] /\ Len(queue) \in Nat \ {0}
           /\ Tail(queue) \in Seq(Callback) /\ Len(Tail(queue)) = Len(queue) - 1
           /\ \A i \in 1 .. Len(queue) - 1 : Tail(queue)[i] = queue[i + 1]
<1>1. queue \in Seq(Callback)
  BY DEF TypeOK
<1> QED  BY <1>1, EmptySeq, HeadTailProperties DEF Event

LEMMA CallbackTypes == TypeOK /\ CallbackRuns => TypeOK'
<1> SUFFICES ASSUME TypeOK, CallbackRuns
             PROVE  TypeOK'
  OBVIOUS
<1>1. /\ Event \in Callback /\ queue' \in Seq(Callback)
      /\ Event.uid \in Users /\ Event.here \in BOOLEAN /\ Event.amount \in Amounts
  BY EventTypes DEF CallbackRuns, Callback
<1>2. unsure' \subseteq Users
  BY <1>1, LeftTypes DEF CallbackRuns, TypeOK
<1>3. /\ screen' \in Screens /\ requests' \subseteq Request
      /\ writes' \in Seq(Write) /\ user' \in LendUser \cup {None}
  <2>1. CASE SignInReturned
    <3>1. currentUser # None => Requesting("signInFetch", currentUser, Event.here) \in Request
      BY <1>1, RequestTypes DEF TypeOK, RequestKinds
    <3>2. Gone(requests) \subseteq Request
      BY GoneTypes DEF TypeOK
    <3> QED  BY <2>1, <3>1, <3>2 DEF SignInReturned, TypeOK, Screens
  <2>2. CASE CreateUserReturned
    <3>1. Requesting("commitChanges", Event.uid, Event.here) \in Request
      BY <1>1, RequestTypes DEF RequestKinds
    <3>2. AddUser(Event.uid, Event.here) => writes' \in Seq(Write) /\ user' \in LendUser
      BY <1>1, AddUserTypes
    <3> QED  BY <2>2, <3>1, <3>2 DEF CreateUserReturned, TypeOK, Screens
  <2>3. CASE CommitChangesReturned
    <3>1. writes' \in Seq(Write) /\ user' \in LendUser
      BY <2>3, <1>1, AddUserTypes DEF CommitChangesReturned
    <3> QED  BY <2>3, <3>1 DEF CommitChangesReturned, TypeOK, Screens
  <2>4. CASE FetchReturned
    BY <2>4, <1>1 DEF FetchReturned, TypeOK, Screens, LendUser
  <2>5. CASE AddUserReturned
    BY <2>5 DEF AddUserReturned, TypeOK, Screens
  <2>6. CASE DefaultReturned
    BY <2>6, <1>1 DEF DefaultReturned, TypeOK, Screens, LendUser
  <2> QED  BY <2>1, <2>2, <2>3, <2>4, <2>5, <2>6 DEF CallbackRuns
<1> QED  BY <1>1, <1>2, <1>3 DEF CallbackRuns, TypeOK, Screens, firebaseVars

LEMMA AnswerTypes ==
    ASSUME TypeOK, NEW r \in requests,
           AuthAnswered(r) \/ CommitChangesAnswered(r) \/ FetchAnswered(r)
    PROVE  TypeOK'
<1>1. /\ r \in Request /\ r.kind \in RequestKinds /\ r.kind \in Kinds
      /\ r.uid \in Users /\ r.here \in BOOLEAN /\ 0 \in Amounts
  BY AccountBounds DEF TypeOK, Request, Kinds, Amounts
<1>2. queue \in Seq(Callback) /\ docs \in Docs /\ writes \in Seq(Write)
  BY DEF TypeOK, Docs
<1>3. requests \ {r} \subseteq Request
  BY DEF TypeOK
<1>4. CASE AuthAnswered(r)
  <2>1. PICK ok \in BOOLEAN :
            /\ Dispatch(r.kind, r.uid, ok, 0, r.here)
            /\ IF ok THEN SessionBegins(r.uid) ELSE UNCHANGED <<currentUser, donor, left>>
            /\ accounts' = IF ok THEN accounts \cup {r.uid} ELSE accounts
    BY <1>4 DEF AuthAnswered
  <2>2. queue' \in Seq(Callback)
    BY <2>1, <1>1, <1>2, DispatchTypes
  <2>3. accounts' \subseteq Users
    BY <2>1, <1>1 DEF TypeOK
  <2>4. currentUser' \in Users \cup {None} /\ donor' \in Users \cup {None} /\ left' \subseteq Users
    BY <2>1, <1>1, LeftTypes DEF SessionBegins, TypeOK
  <2> QED  BY <1>3, <1>4, <2>2, <2>3, <2>4 DEF AuthAnswered, TypeOK, appVars
<1>5. CASE CommitChangesAnswered(r)
  <2>1. PICK ok \in BOOLEAN : Dispatch(r.kind, r.uid, ok, 0, r.here)
    BY <1>5 DEF CommitChangesAnswered
  <2>2. queue' \in Seq(Callback)
    BY <2>1, <1>1, <1>2, DispatchTypes
  <2> QED  BY <1>3, <1>5, <2>2
           DEF CommitChangesAnswered, TypeOK, appVars, firebaseVars, ghostVars
<1>6. CASE FetchAnswered(r)
  <2>1. View(r.uid) \in Amounts \cup {None}
    BY <1>1, <1>2, ViewTypes
  <2>2. queue' \in Seq(Callback) /\ unsure' \subseteq Users
    <3>1. CASE /\ View(r.uid) # None
               /\ Dispatch(r.kind, r.uid, TRUE, View(r.uid), r.here)
               /\ unsure' = unsure \ {r.uid}
      <4>1. View(r.uid) \in Amounts
        BY <2>1, <3>1
      <4>2. queue' \in Seq(Callback)
        BY <3>1, <4>1, <1>1, <1>2, DispatchTypes
      <4> QED  BY <3>1, <4>2 DEF TypeOK
    <3>2. CASE Dispatch(r.kind, r.uid, FALSE, 0, r.here) /\ UNCHANGED unsure
      <4>1. queue' \in Seq(Callback)
        BY <3>2, <1>1, <1>2, DispatchTypes
      <4> QED  BY <3>2, <4>1 DEF TypeOK
    <3> QED  BY <1>6, <3>1, <3>2 DEF FetchAnswered
  <2> QED  BY <1>3, <1>6, <2>2 DEF FetchAnswered, TypeOK, appVars, firebaseVars
<1> QED  BY <1>4, <1>5, <1>6

(* A write is answered: the document and what is left in the queues. *)
LEMMA WriteAnsweredMeans ==
    ASSUME TypeOK, NEW ok \in BOOLEAN, WriteAnswered(ok)
    PROVE  \E i \in 1 .. Len(writes) :
             LET w == writes[i]
                 exists == w.kind = "addUser" \/ docs[w.uid] # None
             IN  /\ w \in Write /\ w.by = currentUser
                 /\ ok => exists
                 /\ docs' = IF ok THEN [docs EXCEPT ![w.uid] = Apply(docs[w.uid], w)] ELSE docs
                 /\ writes' = RemoveAt(writes, i)
                 /\ IF w.waits THEN Dispatch(w.kind, w.uid, ok, w.amount, w.here)
                               ELSE UNCHANGED queue
                 /\ unsure' = IF ok /\ w.waits /\ w.uid = currentUser THEN unsure
                              ELSE unsure \cup {w.uid}
                 /\ UNCHANGED <<appVars, currentUser, accounts, requests, donor, left, forms>>
<1> DEFINE i == SelectInSeq(writes, LAMBDA w : w.by = currentUser)
<1>1. i > 0
  BY DEF WriteAnswered
<1>2. i \in 1 .. Len(writes) /\ writes[i].by = currentUser
  BY <1>1, OldestWrite DEF TypeOK
<1>3. writes[i] \in Write
  BY <1>2, ElementOfSeq DEF TypeOK
<1>4. LET w == writes[i]
          exists == w.kind = "addUser" \/ docs[w.uid] # None
      IN  /\ w \in Write /\ w.by = currentUser
          /\ ok => exists
          /\ docs' = IF ok THEN [docs EXCEPT ![w.uid] = Apply(docs[w.uid], w)] ELSE docs
          /\ writes' = RemoveAt(writes, i)
          /\ IF w.waits THEN Dispatch(w.kind, w.uid, ok, w.amount, w.here)
                        ELSE UNCHANGED queue
          /\ unsure' = IF ok /\ w.waits /\ w.uid = currentUser THEN unsure
                       ELSE unsure \cup {w.uid}
          /\ UNCHANGED <<appVars, currentUser, accounts, requests, donor, left, forms>>
  BY <1>2, <1>3 DEF WriteAnswered
<1> HIDE DEF i
<1> QED  BY <1>2, <1>4

LEMMA WriteAnsweredTypes ==
    ASSUME TypeOK, NEW ok \in BOOLEAN, WriteAnswered(ok)
    PROVE  TypeOK'
<1>1. PICK i \in 1 .. Len(writes) :
         LET w == writes[i]
         IN  /\ w \in Write
             /\ docs' = IF ok THEN [docs EXCEPT ![w.uid] = Apply(docs[w.uid], w)] ELSE docs
             /\ writes' = RemoveAt(writes, i)
             /\ IF w.waits THEN Dispatch(w.kind, w.uid, ok, w.amount, w.here)
                           ELSE UNCHANGED queue
             /\ unsure' = IF ok /\ w.waits /\ w.uid = currentUser THEN unsure
                          ELSE unsure \cup {w.uid}
             /\ UNCHANGED <<appVars, currentUser, accounts, requests, donor, left, forms>>
  BY WriteAnsweredMeans
<1> DEFINE w == writes[i]
<1>2. /\ w \in Write /\ w.uid \in Users /\ w.kind \in Kinds /\ w.amount \in Amounts
      /\ w.here \in BOOLEAN
  BY <1>1 DEF Write, Kinds
<1>3. writes' \in Seq(Write)
  BY <1>1, RemoveAtProperties DEF TypeOK
<1>4. queue' \in Seq(Callback)
  <2>1. queue \in Seq(Callback)
    BY DEF TypeOK
  <2>2. Dispatch(w.kind, w.uid, ok, w.amount, w.here) => queue' \in Seq(Callback)
    <3> HIDE DEF w
    <3> QED  BY <1>2, <2>1, DispatchTypes
  <2> QED  BY <1>1, <2>1, <2>2
<1>5. docs' \in [Users -> Amounts \cup {None}]
  <2>1. docs \in [Users -> Amounts \cup {None}] /\ docs[w.uid] \in Amounts \cup {None}
    BY <1>2 DEF TypeOK
  <2>2. Apply(docs[w.uid], w) \in Amounts \cup {None}
    BY <1>2, <2>1, ApplyTypes
  <2> QED  BY <1>1, <2>1, <2>2
<1>6. unsure' \subseteq Users
  BY <1>1, <1>2 DEF TypeOK
<1> QED  BY <1>1, <1>3, <1>4, <1>5, <1>6 DEF TypeOK, appVars

LEMMA StepTypes == TypeOK /\ [Next]_vars => TypeOK'
<1> SUFFICES ASSUME TypeOK, [Next]_vars
             PROVE  TypeOK'
  OBVIOUS
<1> USE DEF firebaseVars, ghostVars, appVars
<1>1. requests \in SUBSET Request /\ Gone(requests) \in SUBSET Request
  BY GoneTypes DEF TypeOK
<1>2. CASE Launch
  <2>1. screen' \in Screens /\ requests' \subseteq Request
    BY <1>1, <1>2, FetchTypes DEF Launch, CheckAuth, Screens
  <2> QED  BY <1>2, <2>1 DEF Launch, TypeOK, Screens
<1>3. CASE GetStartedButtonPressed
  <2>1. screen' \in Screens /\ requests' \subseteq Request
    BY <1>1, <1>3, FetchTypes DEF GetStartedButtonPressed, Screens
  <2> QED  BY <1>3, <2>1 DEF GetStartedButtonPressed, TypeOK, Screens
<1>4. CASE Restart
  <2>1. writes' \in Seq(Write)
    BY <1>4, RestartWrites DEF Restart, TypeOK, Ended
  <2>2. queue' \in Seq(Callback)
    BY <1>4, EmptySeq DEF Restart
  <2> QED  BY <1>4, <2>1, <2>2 DEF Restart, TypeOK
<1>5. ASSUME NEW form \in {"signIn", "signUp"}, PresentForm(form)
      PROVE  TypeOK'
  BY <1>5 DEF PresentForm, TypeOK
<1>6. CASE FormLeft
  <2>1. writes' \in Seq(Write) /\ queue' \in Seq(Callback)
    BY <1>6, GoneAllWrites, GoneAllCallbacks DEF FormLeft, TypeOK
  <2> QED  BY <1>1, <1>6, <2>1 DEF FormLeft, RedirectToAuth, TypeOK
<1>7. ASSUME NEW u \in Users, SignInButtonPressed(u)
      PROVE  TypeOK'
  <2>1. Requesting("signIn", u, TRUE) \in Request
    BY RequestTypes DEF RequestKinds
  <2>2. forms' \in 0 .. MaxForms
    BY <1>7, AccountBounds DEF SignInButtonPressed, TypeOK
  <2>3. left' \subseteq Users
    BY <1>7, LeftTypes DEF SignInButtonPressed, TypeOK
  <2> QED  BY <1>1, <1>7, <2>1, <2>2, <2>3 DEF SignInButtonPressed, TypeOK
<1>8. ASSUME NEW u \in Users, SignUpButtonPressed(u)
      PROVE  TypeOK'
  <2>1. Requesting("createUser", u, TRUE) \in Request
    BY RequestTypes DEF RequestKinds
  <2>2. forms' \in 0 .. MaxForms
    BY <1>8, AccountBounds DEF SignUpButtonPressed, TypeOK
  <2> QED  BY <1>1, <1>8, <2>1, <2>2 DEF SignUpButtonPressed, TypeOK
<1>9. ASSUME NEW r \in requests,
             AuthAnswered(r) \/ CommitChangesAnswered(r) \/ FetchAnswered(r)
      PROVE  TypeOK'
  BY <1>9, AnswerTypes
<1>10. ASSUME NEW ok \in BOOLEAN, WriteAnswered(ok)
       PROVE  TypeOK'
  BY <1>10, WriteAnsweredTypes
<1>11. CASE SessionEnds
  BY <1>11, LeftTypes DEF SessionEnds, TypeOK
<1>12. CASE CallbackRuns
  BY <1>12, CallbackTypes
<1>13. ASSUME NEW v \in minAmount .. MaxAmount, StartContinue(v)
       PROVE  TypeOK'
  <2>1. writes' \in Seq(Write) /\ v \in Amounts
    BY <1>13, AmountWriteTypes DEF StartContinue
  <2>2. user' \in LendUser \cup {None}
    BY <1>13, <2>1 DEF StartContinue, TypeOK, LendUser
  <2>3. unsure' \subseteq Users
    BY <1>13, LeftTypes DEF StartContinue, TypeOK
  <2> QED  BY <1>13, <2>1, <2>2, <2>3 DEF StartContinue, TypeOK
<1>14. ASSUME NEW v \in minAmount .. MaxAmount, ChooseAmountContinue(v)
       PROVE  TypeOK'
  <2>1. writes' \in Seq(Write)
    BY <1>14, AmountWriteTypes DEF ChooseAmountContinue
  <2> QED  BY <1>14, <2>1 DEF ChooseAmountContinue, TypeOK
<1>15. CASE LetsGoBack
  BY <1>15 DEF LetsGoBack, TypeOK
<1>16. CASE WelcomeGetStarted \/ SeeOrganisations \/ BadgeContinue
  <2>1. PICK from \in {"welcome", "start", "letsGo"} : PresentRoot(from)
    BY <1>16 DEF WelcomeGetStarted, SeeOrganisations, BadgeContinue
  <2>2. screen' \in {"tabs", "auth"} /\ requests' \subseteq Request
    BY <2>1, <1>1, FetchTypes DEF PresentRoot, ShowRoot
  <2> QED  BY <2>1, <2>2 DEF PresentRoot, TypeOK
<1>17. CASE ScreenRefreshes
  <2>1. screen' \in {"tabs", "auth"} /\ requests' \subseteq Request
    BY <1>17, <1>1, FetchTypes DEF ScreenRefreshes
  <2> QED  BY <1>17, <2>1 DEF ScreenRefreshes, TypeOK
<1>18. CASE BucketSaved
  BY <1>18 DEF BucketSaved, TypeOK
<1>19. CASE LogoutButtonPressed
  BY <1>1, <1>19, LeftTypes
     DEF LogoutButtonPressed, SignOut, ResetUserData, RedirectToAuth, TypeOK
<1>20. CASE UNCHANGED vars
  BY <1>20 DEF vars, TypeOK
<1> QED
  BY <1>2, <1>3, <1>4, <1>5, <1>6, <1>7, <1>8, <1>9, <1>10, <1>11, <1>12, <1>13,
     <1>14, <1>15, <1>16, <1>17, <1>18, <1>19, <1>20 DEF Next

-----------------------------------------------------------------------------
(* Whose data there is *)

(* Requests and callbacks that put the profile of their account into the   *)
(* cache, or lead to one that does.                                         *)
OwnRequest(r) == r.kind \in {"commitChanges", "signInFetch", "fetch"}
IsCreating(c) == c.kind = "commitChanges" \/ (c.kind = "createUser" /\ c.ok)
IsFetch(c) == c.kind \in {"signInFetch", "fetch"} /\ c.ok

Requested(rs) == {r.uid : r \in {q \in rs : OwnRequest(q)}}
Called(s) == {s[i].uid : i \in {j \in 1 .. Len(s) : IsCreating(s[j]) \/ IsFetch(s[j])}}

Seen == left \cup {currentUser}

(* All that is kept of a donor is of this session's, or of one that left it *)
(* behind.  The tab bar is only ever shown to the donor of a session.       *)
Owners ==
    /\ Requested(requests) \subseteq Seen
    /\ Called(queue) \subseteq Seen
    /\ user # None => user.email \in Seen
    /\ completeDonation # None => completeDonation \in Seen
    /\ currentUser # None => donor = currentUser
    /\ screen = "tabs" /\ donor # None => donor \in Seen

LEMMA RequestedGone ==
    ASSUME NEW rs \in SUBSET Request
    PROVE  Requested(Gone(rs)) = Requested(rs)
<1>1. \A r \in rs : LET g == [r EXCEPT !.here = FALSE]
                    IN  g \in Gone(rs) /\ g.uid = r.uid /\ g.kind = r.kind
  BY DEF Gone, Request
<1>2. \A g \in Gone(rs) : \E r \in rs : g.uid = r.uid /\ g.kind = r.kind
  BY DEF Gone, Request
<1>3. ASSUME NEW x \in Requested(Gone(rs))
      PROVE  x \in Requested(rs)
  <2>1. PICK g \in Gone(rs) : OwnRequest(g) /\ x = g.uid
    BY <1>3 DEF Requested
  <2>2. PICK r \in rs : g.uid = r.uid /\ g.kind = r.kind
    BY <1>2
  <2>3. OwnRequest(r) /\ x = r.uid
    BY <2>1, <2>2 DEF OwnRequest
  <2> QED  BY <2>3 DEF Requested
<1>4. ASSUME NEW x \in Requested(rs)
      PROVE  x \in Requested(Gone(rs))
  <2>1. PICK r \in rs : OwnRequest(r) /\ x = r.uid
    BY <1>4 DEF Requested
  <2>2. PICK g \in Gone(rs) : g.uid = r.uid /\ g.kind = r.kind
    BY <1>1
  <2>3. OwnRequest(g) /\ x = g.uid
    BY <2>1, <2>2 DEF OwnRequest
  <2> QED  BY <2>3 DEF Requested
<1> QED  BY <1>3, <1>4

LEMMA RequestedAdd ==
    ASSUME NEW rs \in SUBSET Request, NEW kind, NEW u, NEW here
    PROVE  Requested(rs \cup {Requesting(kind, u, here)}) \subseteq Requested(rs) \cup {u}
  BY DEF Requested, Requesting

LEMMA RequestedLess ==
    ASSUME NEW rs, NEW r
    PROVE  Requested(rs \ {r}) \subseteq Requested(rs)
  BY DEF Requested

LEMMA CalledGone ==
    ASSUME NEW s \in Seq(Callback)
    PROVE  Called(GoneAll(s)) = Called(s)
<1>1. /\ Len(GoneAll(s)) = Len(s)
      /\ \A i \in 1 .. Len(s) : s[i] \in Callback /\ GoneAll(s)[i] = [s[i] EXCEPT !.here = FALSE]
  BY GoneAllCallbacks, ElementOfSeq
<1>2. \A i \in 1 .. Len(s) : /\ GoneAll(s)[i].uid = s[i].uid
                             /\ GoneAll(s)[i].kind = s[i].kind
                             /\ GoneAll(s)[i].ok = s[i].ok
  BY <1>1 DEF Callback
<1> QED  BY <1>1, <1>2 DEF Called, IsCreating, IsFetch

LEMMA CalledAppend ==
    ASSUME NEW s \in Seq(Callback), NEW c \in Callback
    PROVE  /\ Called(Append(s, c)) \subseteq Called(s) \cup {c.uid}
           /\ ~IsCreating(c) /\ ~IsFetch(c) => Called(Append(s, c)) \subseteq Called(s)
<1>1. /\ Len(s) \in Nat /\ Len(Append(s, c)) = Len(s) + 1 /\ Append(s, c)[Len(s) + 1] = c
      /\ \A i \in 1 .. Len(s) : Append(s, c)[i] = s[i]
  BY AppendProperties, LenProperties
<1>2. \A i \in 1 .. Len(s) + 1 : i = Len(s) + 1 \/ i \in 1 .. Len(s)
  BY <1>1
<1> QED  BY <1>1, <1>2 DEF Called

LEMMA CalledTail ==
    ASSUME NEW s \in Seq(Callback), s # <<>>
    PROVE  /\ Called(Tail(s)) \subseteq Called(s)
           /\ IsCreating(Head(s)) \/ IsFetch(Head(s)) => Head(s).uid \in Called(s)
<1>1. /\ Len(s) \in Nat \ {0} /\ Head(s) = s[1] /\ Len(Tail(s)) = Len(s) - 1
      /\ \A i \in 1 .. Len(s) - 1 : Tail(s)[i] = s[i + 1]
  BY EmptySeq, HeadTailProperties
<1>2. 1 \in 1 .. Len(s) /\ \A i \in 1 .. Len(s) - 1 : i + 1 \in 1 .. Len(s)
  BY <1>1
<1> QED  BY <1>1, <1>2 DEF Called

LEMMA CalledEmpty == Called(<<>>) = {}
<1>1. \A i \in 1 .. Len(<<>>) : FALSE
  OBVIOUS
<1> QED  BY <1>1 DEF Called

(* What is under way is of the accounts that a session leaves behind. *)
LEMMA OwnUnderWay ==
    ASSUME TypeOK
    PROVE  Requested(requests) \subseteq UnderWay /\ Called(queue) \subseteq UnderWay
<1>1. DOMAIN queue = 1 .. Len(queue)
  BY LenProperties DEF TypeOK
<1> QED  BY <1>1 DEF Requested, Called, UnderWay, OwnRequest, IsCreating, IsFetch, RequestKinds

(* When a session ends or another takes its place, what was kept stays     *)
(* accounted for.                                                          *)
LEMMA SeenStays ==
    ASSUME Owners, left \subseteq left',
           currentUser # None /\ currentUser' # currentUser => LeftOver \subseteq left'
    PROVE  Seen \ {None} \subseteq Seen'
<1>1. currentUser # None => currentUser \in LeftOver
  BY DEF Owners, LeftOver
<1> QED  BY <1>1 DEF Seen

LEMMA InitOwners == Init => Owners
<1>1. Requested({}) = {}
  BY DEF Requested
<1> QED  BY <1>1, CalledEmpty DEF Init, Owners, Seen

(* What the screens fetch is the profile of the session's account. *)
LEMMA FetchOwners ==
    ASSUME TypeOK, Owners, UNCHANGED <<currentUser, left, donor>>,
           NEW rs \in SUBSET Request, Requested(rs) \subseteq Seen,
           FetchOrRedirect(rs) \/ FetchUpdateUser(rs)
    PROVE  /\ Requested(requests') \subseteq Seen'
           /\ screen' = "tabs" /\ donor' # None => donor' \in Seen'
<1>1. CASE FetchUpdateUser(rs)
  <2>1. Requested(requests') \subseteq Requested(rs) \cup {currentUser}
    BY <1>1, RequestedAdd DEF FetchUpdateUser
  <2> QED  BY <1>1, <2>1 DEF FetchUpdateUser, Seen, Owners
<1>2. CASE RedirectToAuth(rs)
  BY <1>2, RequestedGone DEF RedirectToAuth, Seen
<1> QED  BY <1>1, <1>2 DEF FetchOrRedirect

LEMMA AnswerOwners ==
    ASSUME TypeOK, Owners, NEW r \in requests,
           AuthAnswered(r) \/ CommitChangesAnswered(r) \/ FetchAnswered(r)
    PROVE  Owners'
<1>1. /\ r \in Request /\ r.kind \in RequestKinds /\ r.kind \in Kinds
      /\ r.uid \in Users /\ r.here \in BOOLEAN /\ 0 \in Amounts
      /\ queue \in Seq(Callback) /\ docs \in Docs /\ writes \in Seq(Write)
  BY AccountBounds DEF TypeOK, Request, Kinds, Amounts, Docs
<1>2. Requested(requests \ {r}) \subseteq Requested(requests)
  BY RequestedLess
<1>3. OwnRequest(r) => r.uid \in Seen
  BY DEF Owners, Requested
<1>4. ASSUME NEW ok \in BOOLEAN, NEW amount \in Amounts,
             Dispatch(r.kind, r.uid, ok, amount, r.here)
      PROVE  /\ Called(queue') \subseteq Called(queue) \cup {r.uid}
             /\ ~OwnRequest(r) /\ ~ok => Called(queue') \subseteq Called(queue)
  <2> DEFINE c == [kind |-> r.kind, uid |-> r.uid, ok |-> ok, amount |-> amount, here |-> r.here]
  <2>1. c \in Callback /\ queue' = Append(queue, c)
    BY <1>1, <1>4, DispatchTypes
  <2>2. c.uid = r.uid /\ c.kind = r.kind /\ c.ok = ok
    OBVIOUS
  <2> HIDE DEF c
  <2>3. ~OwnRequest(r) /\ ~ok => ~IsCreating(c) /\ ~IsFetch(c)
    BY <2>2 DEF IsCreating, IsFetch, OwnRequest
  <2> QED  BY <1>1, <2>1, <2>2, <2>3, CalledAppend
<1>5. CASE AuthAnswered(r)
  <2>1. PICK ok \in BOOLEAN :
            /\ Dispatch(r.kind, r.uid, ok, 0, r.here)
            /\ IF ok THEN SessionBegins(r.uid) ELSE UNCHANGED <<currentUser, donor, left>>
    BY <1>5 DEF AuthAnswered
  <2>2. ~OwnRequest(r)
    BY <1>5 DEF AuthAnswered, OwnRequest
  <2>3. /\ Called(queue') \subseteq Called(queue) \cup {r.uid}
        /\ ~ok => Called(queue') \subseteq Called(queue)
    BY <1>1, <1>4, <2>1, <2>2
  <2>4. Seen \ {None} \subseteq Seen'
    <3>1. left \subseteq left'
      BY <2>1 DEF SessionBegins
    <3>2. currentUser # None /\ currentUser' # currentUser => LeftOver \subseteq left'
      BY <2>1 DEF SessionBegins
    <3> QED  BY <3>1, <3>2, SeenStays
  <2>5. ok => r.uid \in Seen' /\ currentUser' = r.uid /\ donor' = r.uid
    BY <2>1 DEF SessionBegins, Seen
  <2>6. Called(queue) \subseteq Seen \ {None} /\ Requested(requests) \subseteq Seen \ {None}
    <3>1. Called(queue) \subseteq Users /\ Requested(requests) \subseteq Users
      BY OwnUnderWay, LeftTypes
    <3> QED  BY <3>1, NoneAssumption DEF Owners
  <2>7. Called(queue') \subseteq Seen' /\ Requested(requests') \subseteq Seen'
    BY <1>2, <1>5, <2>3, <2>4, <2>5, <2>6 DEF AuthAnswered
  <2>8. /\ user' # None => user'.email \in Seen'
        /\ completeDonation' # None => completeDonation' \in Seen'
    <3>1. user # None => user.email \in Seen \ {None}
      BY NoneAssumption DEF Owners, TypeOK, LendUser
    <3> QED  BY <1>5, <2>4, <3>1 DEF AuthAnswered, appVars, Owners
  <2>9. /\ currentUser' # None => donor' = currentUser'
        /\ screen' = "tabs" /\ donor' # None => donor' \in Seen'
    <3>1. CASE ok
      BY <3>1, <2>5
    <3>2. CASE ~ok
      BY <3>2, <1>5, <2>1 DEF AuthAnswered, appVars, Owners, Seen
    <3> QED  BY <3>1, <3>2
  <2> QED  BY <2>7, <2>8, <2>9 DEF Owners
<1>6. CASE CommitChangesAnswered(r)
  <2>1. PICK ok \in BOOLEAN : Dispatch(r.kind, r.uid, ok, 0, r.here)
    BY <1>6 DEF CommitChangesAnswered
  <2>2. OwnRequest(r) /\ Called(queue') \subseteq Called(queue) \cup {r.uid}
    BY <1>1, <1>4, <1>6, <2>1 DEF CommitChangesAnswered, OwnRequest
  <2> QED  BY <1>2, <1>3, <1>6, <2>2
           DEF CommitChangesAnswered, appVars, firebaseVars, ghostVars, Owners, Seen
<1>7. CASE FetchAnswered(r)
  <2>1. View(r.uid) # None => View(r.uid) \in Amounts
    BY <1>1, ViewTypes
  <2>2. OwnRequest(r) /\ Called(queue') \subseteq Called(queue) \cup {r.uid}
    BY <1>1, <1>4, <1>7, <2>1 DEF FetchAnswered, OwnRequest
  <2> QED  BY <1>2, <1>3, <1>7, <2>2
           DEF FetchAnswered, appVars, firebaseVars, Owners, Seen
<1> QED  BY <1>5, <1>6, <1>7

LEMMA CallbackOwners ==
    ASSUME TypeOK, Owners, CallbackRuns
    PROVE  Owners'
<1>1. /\ Event \in Callback /\ queue \in Seq(Callback) /\ queue # <<>>
      /\ queue' = Tail(queue) /\ requests \in SUBSET Request
      /\ UNCHANGED <<currentUser, left, donor, completeDonation>>
  BY EventTypes DEF CallbackRuns, TypeOK, firebaseVars
<1>2. /\ Called(queue') \subseteq Seen'
      /\ IsCreating(Event) \/ IsFetch(Event) => Event.uid \in Seen
  BY <1>1, CalledTail DEF Owners, Seen, Event
<1>3. /\ Requested(requests') \subseteq Seen'
      /\ user' # None => user'.email \in Seen'
      /\ screen' = "tabs" => screen = "tabs"
  <2>1. CASE SignInReturned
    <3>1. currentUser # None =>
             Requested(requests \cup {Requesting("signInFetch", currentUser, Event.here)})
                 \subseteq Seen
      BY <1>1, RequestedAdd DEF Owners, Seen
    <3>2. Requested(Gone(requests)) \subseteq Seen
      BY <1>1, RequestedGone DEF Owners
    <3> QED  BY <2>1, <3>1, <3>2, <1>1 DEF SignInReturned, Owners, Seen
  <2>2. CASE CreateUserReturned
    <3>1. Event.ok => Event.uid \in Seen
      BY <1>2, <2>2 DEF CreateUserReturned, IsCreating
    <3>2. Event.ok => Requested(requests \cup {Requesting("commitChanges", Event.uid, Event.here)})
                          \subseteq Seen
      BY <1>1, <3>1, RequestedAdd DEF Owners
    <3>3. /\ screen' = screen
          /\ \/ requests' = requests
             \/ /\ Event.ok
                /\ requests' = requests \cup {Requesting("commitChanges", Event.uid, Event.here)}
      BY <2>2 DEF CreateUserReturned
    <3>4. user' = user \/ (Event.ok /\ user' = [email |-> Event.uid, default |-> 0])
      BY <2>2 DEF CreateUserReturned, AddUser
    <3>5. Requested(requests') \subseteq Seen'
      BY <3>2, <3>3, <1>1 DEF Owners, Seen
    <3>6. user' # None => user'.email \in Seen'
      BY <3>1, <3>4, <1>1 DEF Owners, Seen
    <3> QED  BY <3>3, <3>5, <3>6
  <2>3. CASE CommitChangesReturned
    BY <2>3, <1>1, <1>2 DEF CommitChangesReturned, AddUser, IsCreating, Owners, Seen
  <2>4. CASE FetchReturned
    BY <2>4, <1>1, <1>2 DEF FetchReturned, IsFetch, Owners, Seen
  <2>5. CASE AddUserReturned
    BY <2>5, <1>1 DEF AddUserReturned, Owners, Seen
  <2>6. CASE DefaultReturned
    BY <2>6, <1>1 DEF DefaultReturned, Owners, Seen, TypeOK, LendUser
  <2> QED  BY <2>1, <2>2, <2>3, <2>4, <2>5, <2>6 DEF CallbackRuns
<1> QED  BY <1>1, <1>2, <1>3 DEF Owners, Seen

LEMMA StepOwners == TypeOK /\ Owners /\ [Next]_vars => Owners'
<1> SUFFICES ASSUME TypeOK, Owners, [Next]_vars
             PROVE  Owners'
  OBVIOUS
<1> USE DEF firebaseVars, ghostVars, appVars
<1>1. /\ requests \in SUBSET Request /\ Gone(requests) \in SUBSET Request
      /\ Requested(Gone(requests)) = Requested(requests)
      /\ queue \in Seq(Callback) /\ writes \in Seq(Write)
  BY GoneTypes, RequestedGone DEF TypeOK
<1>2. Requested(requests) \subseteq Users /\ Called(queue) \subseteq Users
  BY OwnUnderWay, LeftTypes
<1>3. CASE Launch
  <2>1. CASE CheckAuth
    <3>1. /\ Requested(requests') \subseteq Seen'
          /\ screen' = "tabs" /\ donor' # None => donor' \in Seen'
      BY <1>1, <1>3, <2>1, FetchOwners DEF Launch, CheckAuth, Owners
    <3> QED  BY <1>3, <3>1 DEF Launch, Owners, Seen
  <2>2. CASE screen' = "onboarding" /\ UNCHANGED requests
    BY <1>3, <2>2 DEF Launch, Owners, Seen
  <2> QED  BY <1>3, <2>1, <2>2 DEF Launch
<1>4. CASE GetStartedButtonPressed
  <2>1. CASE FetchUpdateUser(Gone(requests))
    <3>1. /\ Requested(requests') \subseteq Seen'
          /\ screen' = "tabs" /\ donor' # None => donor' \in Seen'
      BY <1>1, <1>4, <2>1, FetchOwners DEF GetStartedButtonPressed, Owners
    <3> QED  BY <1>4, <3>1 DEF GetStartedButtonPressed, Owners, Seen
  <2>2. CASE screen' = "auth" /\ UNCHANGED requests
    BY <1>4, <2>2 DEF GetStartedButtonPressed, Owners, Seen
  <2> QED  BY <1>4, <2>1, <2>2 DEF GetStartedButtonPressed
<1>5. CASE Restart
  <2>1. Requested({}) = {}
    BY DEF Requested
  <2> QED  BY <1>5, <2>1, CalledEmpty DEF Restart, Owners, Seen
<1>6. ASSUME NEW form \in {"signIn", "signUp"}, PresentForm(form)
      PROVE  Owners'
  BY <1>6 DEF PresentForm, Owners, Seen
<1>7. CASE FormLeft
  <2>1. Called(queue') = Called(queue) /\ Requested(requests') = Requested(requests)
    BY <1>1, <1>7, CalledGone DEF FormLeft, RedirectToAuth
  <2> QED  BY <1>7, <2>1 DEF FormLeft, RedirectToAuth, Owners, Seen
<1>8. ASSUME NEW u \in Users, SignInButtonPressed(u)
      PROVE  Owners'
  <2>1. Requested(requests') \subseteq Requested(requests)
    <3>1. ~OwnRequest(Requesting("signIn", u, TRUE))
      BY DEF OwnRequest, Requesting
    <3> QED  BY <1>8, <3>1 DEF SignInButtonPressed, Requested
  <2>2. Seen \ {None} \subseteq Seen'
    BY <1>8, SeenStays DEF SignInButtonPressed
  <2>3. user # None => user.email \in Seen \ {None}
    BY NoneAssumption DEF Owners, TypeOK, LendUser
  <2> QED  BY <1>2, <1>8, <2>1, <2>2, <2>3, NoneAssumption DEF SignInButtonPressed, Owners
<1>9. ASSUME NEW u \in Users, SignUpButtonPressed(u)
      PROVE  Owners'
  <2>1. Requested(requests') \subseteq Requested(requests)
    <3>1. ~OwnRequest(Requesting("createUser", u, TRUE))
      BY DEF OwnRequest, Requesting
    <3> QED  BY <1>9, <3>1 DEF SignUpButtonPressed, Requested
  <2> QED  BY <1>9, <2>1 DEF SignUpButtonPressed, Owners, Seen
<1>10. ASSUME NEW r \in requests,
              AuthAnswered(r) \/ CommitChangesAnswered(r) \/ FetchAnswered(r)
       PROVE  Owners'
  BY <1>10, AnswerOwners
<1>11. ASSUME NEW ok \in BOOLEAN, WriteAnswered(ok)
       PROVE  Owners'
  <2>1. PICK i \in 1 .. Len(writes) :
           LET w == writes[i]
           IN  /\ w \in Write
               /\ IF w.waits THEN Dispatch(w.kind, w.uid, ok, w.amount, w.here)
                             ELSE UNCHANGED queue
               /\ UNCHANGED <<appVars, currentUser, accounts, requests, donor, left, forms>>
    BY <1>11, WriteAnsweredMeans
  <2> DEFINE w == writes[i]
             c == [kind |-> w.kind, uid |-> w.uid, ok |-> ok, amount |-> w.amount,
                   here |-> w.here]
  <2>2. /\ w \in Write /\ w.uid \in Users /\ w.kind \in WriteKinds /\ w.kind \in Kinds
        /\ w.amount \in Amounts /\ w.here \in BOOLEAN
    BY <2>1 DEF Write, Kinds
  <2>3. queue' = queue \/ (queue' = Append(queue, c) /\ c \in Callback)
    <3> HIDE DEF w
    <3> QED  BY <1>1, <2>1, <2>2, DispatchTypes DEF w
  <2>4. ~IsCreating(c) /\ ~IsFetch(c)
    BY <2>2 DEF IsCreating, IsFetch, WriteKinds
  <2> HIDE DEF c
  <2>5. Called(queue') \subseteq Called(queue)
    BY <1>1, <2>3, <2>4, CalledAppend
  <2> QED  BY <2>1, <2>5 DEF Owners, Seen
<1>12. CASE SessionEnds
  <2>1. Seen \ {None} \subseteq Seen' /\ LeftOver \subseteq Seen'
    BY <1>12, SeenStays DEF SessionEnds, Seen
  <2>2. user # None => user.email \in Seen \ {None}
    BY NoneAssumption DEF Owners, TypeOK, LendUser
  <2>3. donor # None => donor \in Seen'
    BY <2>1 DEF LeftOver
  <2> QED  BY <1>2, <1>12, <2>1, <2>2, <2>3, NoneAssumption DEF SessionEnds, Owners
<1>13. CASE CallbackRuns
  BY <1>13, CallbackOwners
<1>14. ASSUME NEW v \in minAmount .. MaxAmount, StartContinue(v)
       PROVE  Owners'
  BY <1>14 DEF StartContinue, Owners, Seen, TypeOK, LendUser
<1>15. ASSUME NEW v \in minAmount .. MaxAmount, ChooseAmountContinue(v)
       PROVE  Owners'
  BY <1>15 DEF ChooseAmountContinue, Owners, Seen
<1>16. CASE LetsGoBack
  BY <1>16 DEF LetsGoBack, Owners, Seen
<1>17. CASE WelcomeGetStarted \/ SeeOrganisations \/ BadgeContinue
  <2>1. PICK from \in {"welcome", "start", "letsGo"} : PresentRoot(from)
    BY <1>17 DEF WelcomeGetStarted, SeeOrganisations, BadgeContinue
  <2>2. /\ Requested(requests') \subseteq Seen'
        /\ screen' = "tabs" /\ donor' # None => donor' \in Seen'
    BY <2>1, <1>1, FetchOwners DEF PresentRoot, ShowRoot, Owners
  <2> QED  BY <2>1, <2>2 DEF PresentRoot, Owners, Seen
<1>18. CASE ScreenRefreshes
  <2>1. /\ Requested(requests') \subseteq Seen'
        /\ screen' = "tabs" /\ donor' # None => donor' \in Seen'
    BY <1>18, <1>1, FetchOwners DEF ScreenRefreshes, Owners
  <2> QED  BY <1>18, <2>1 DEF ScreenRefreshes, Owners, Seen
<1>19. CASE BucketSaved
  BY <1>19 DEF BucketSaved, Owners, Seen
<1>20. CASE LogoutButtonPressed
  <2>1. Requested(requests') = Requested(requests)
    BY <1>1, <1>20 DEF LogoutButtonPressed, RedirectToAuth
  <2>2. Requested(requests') \cup Called(queue) \subseteq left'
    BY <1>20, <2>1, OwnUnderWay DEF LogoutButtonPressed, SignOut
  <2> QED  BY <1>20, <2>2
           DEF LogoutButtonPressed, SignOut, ResetUserData, RedirectToAuth, Owners, Seen
<1>21. CASE UNCHANGED vars
  BY <1>21 DEF vars, Owners, Seen
<1> QED
  BY <1>3, <1>4, <1>5, <1>6, <1>7, <1>8, <1>9, <1>10, <1>11, <1>12, <1>13,
     <1>14, <1>15, <1>16, <1>17, <1>18, <1>19, <1>20, <1>21 DEF Next

-----------------------------------------------------------------------------
(* What the cache will show *)

(* Callbacks that set the cached amount, at least of a cached profile. *)
IsSet(c) == IsFetch(c) \/ (c.kind = "default" /\ c.ok)

(* Position 0 stands for the cache as it is, of the account owner and with  *)
(* the amount value.  EndsWith: there the cache gets the profile of u.      *)
(* Keeps: the callbacks after it put no other profile, and no amount of     *)
(* another account, into it.                                                *)
EndsWith(q, owner, u, F) ==
    \/ F = 0 /\ owner = u
    \/ F \in 1 .. Len(q) /\ IsFetch(q[F]) /\ q[F].uid = u
Keeps(q, u, F) ==
    \A i \in 1 .. Len(q) : i > F => ~IsFetch(q[i]) /\ (q[i].kind = "default" => q[i].uid = u)
IsLast(q, F, L) ==
    /\ L = F \/ (L > F /\ IsSet(q[L]))
    /\ \A i \in 1 .. Len(q) : i > L => ~IsSet(q[i])
AmountAt(q, value, L) == IF L = 0 THEN value ELSE q[L].amount

(* Once the callbacks of q have run, a cached profile of u has the amount b. *)
Shows(q, owner, value, u, b) ==
    \A F, L \in 0 .. Len(q) :
        EndsWith(q, owner, u, F) /\ Keeps(q, u, F) /\ IsLast(q, F, L)
            => AmountAt(q, value, L) = b

LEMMA ShowsAppend ==
    ASSUME NEW q \in Seq(Callback), NEW owner, NEW value, NEW u \in Users, NEW b,
           NEW c \in Callback,
           \/ ~IsFetch(c) /\ c.kind # "default" /\ Shows(q, owner, value, u, b)
           \/ IsSet(c) /\ (c.uid = u => c.amount = b)
           \/ c.kind = "default" /\ c.uid # u
    PROVE  Shows(Append(q, c), owner, value, u, b)
<1> DEFINE n == Len(q)
           p == Append(q, c)
<1>1. /\ n \in Nat /\ Len(p) = n + 1 /\ p[n + 1] = c
      /\ \A i \in 1 .. n : p[i] = q[i]
  BY AppendProperties, LenProperties
<1>2. n = Len(q)
  OBVIOUS
<1> HIDE DEF n, p
<1> SUFFICES ASSUME NEW F \in 0 .. n + 1, NEW L \in 0 .. n + 1,
                    EndsWith(p, owner, u, F), Keeps(p, u, F), IsLast(p, F, L)
             PROVE  AmountAt(p, value, L) = b
  BY <1>1 DEF Shows, p
<1>3. n + 1 \in 1 .. n + 1
  BY <1>1
<1>4. CASE ~IsFetch(c) /\ c.kind # "default" /\ Shows(q, owner, value, u, b)
  <2>1. ~IsSet(c)
    BY <1>4 DEF IsSet
  <2>2. F \in 0 .. n
    <3>1. F # n + 1
      BY <1>1, <1>4 DEF EndsWith
    <3> QED  BY <3>1, <1>1
  <2>3. L \in 0 .. n
    <3>1. L # n + 1
      BY <1>1, <2>1, <2>2 DEF IsLast
    <3> QED  BY <3>1, <1>1
  <2>4. \A i \in 1 .. n : i \in 1 .. n + 1
    BY <1>1
  <2>5. EndsWith(q, owner, u, F)
    BY <1>1, <1>2, <2>2 DEF EndsWith
  <2>6. Keeps(q, u, F)
    BY <1>1, <1>2, <2>4 DEF Keeps
  <2>7. IsLast(q, F, L)
    BY <1>1, <1>2, <2>2, <2>3, <2>4 DEF IsLast
  <2>8. AmountAt(q, value, L) = b
    BY <1>2, <1>4, <2>2, <2>3, <2>5, <2>6, <2>7 DEF Shows
  <2> QED  BY <1>1, <2>3, <2>8 DEF AmountAt
<1>5. CASE IsSet(c) /\ (c.uid = u => c.amount = b)
  <2>1. L = n + 1
    BY <1>1, <1>3, <1>5 DEF IsLast
  <2>2. c.uid = u
    <3>1. CASE F = n + 1
      BY <3>1, <1>1 DEF EndsWith
    <3>2. CASE F < n + 1
      BY <3>2, <1>1, <1>3, <1>5 DEF Keeps, IsSet
    <3> QED  BY <3>1, <3>2, <1>1
  <2> QED  BY <1>1, <1>5, <2>1, <2>2 DEF AmountAt
<1>6. CASE c.kind = "default" /\ c.uid # u
  <2>1. CASE F = n + 1
    BY <2>1, <1>1, <1>6 DEF EndsWith
  <2>2. CASE F < n + 1
    BY <2>2, <1>1, <1>3, <1>6 DEF Keeps
  <2> QED  BY <2>1, <2>2, <1>1
<1> QED  BY <1>4, <1>5, <1>6

(* The first callback runs; the cache is of owner2 and has value2 after it. *)
LEMMA ShowsTail ==
    ASSUME NEW q \in Seq(Callback), q # <<>>, NEW owner, NEW value, NEW u \in Users, NEW b,
           Shows(q, owner, value, u, b), NEW owner2, NEW value2,
           owner2 = u =>
               \/ /\ owner = u /\ ~IsFetch(Head(q))
                  /\ Head(q).kind = "default" => Head(q).uid = u
                  /\ value2 = IF IsSet(Head(q)) THEN Head(q).amount ELSE value
               \/ IsFetch(Head(q)) /\ Head(q).uid = u /\ value2 = Head(q).amount
    PROVE  Shows(Tail(q), owner2, value2, u, b)
<1> DEFINE n == Len(q)
           h == Head(q)
           t == Tail(q)
<1>1. /\ n \in Nat \ {0} /\ h = q[1] /\ Len(t) = n - 1
      /\ \A i \in 1 .. n - 1 : t[i] = q[i + 1]
  BY EmptySeq, HeadTailProperties
<1>2. n = Len(q)
  OBVIOUS
<1>3. owner2 = u =>
          \/ /\ owner = u /\ ~IsFetch(h)
             /\ h.kind = "default" => h.uid = u
             /\ value2 = IF IsSet(h) THEN h.amount ELSE value
          \/ IsFetch(h) /\ h.uid = u /\ value2 = h.amount
  OBVIOUS
<1> HIDE DEF n, h, t
<1> SUFFICES ASSUME NEW F \in 0 .. n - 1, NEW L \in 0 .. n - 1,
                    EndsWith(t, owner2, u, F), Keeps(t, u, F), IsLast(t, F, L)
             PROVE  AmountAt(t, value2, L) = b
  BY <1>1 DEF Shows, t
<1>4. L >= F /\ L + 1 \in 1 .. n /\ F + 1 \in 1 .. n
  BY <1>1 DEF IsLast
<1>5. /\ 1 \in 1 .. n
      /\ \A i \in 1 .. n : i = 1 \/ (i - 1 \in 1 .. n - 1 /\ q[i] = t[i - 1])
  <2>1. \A i \in 1 .. n : i = 1 \/ (i - 1 \in 1 .. n - 1 /\ (i - 1) + 1 = i)
    BY <1>1
  <2> QED  BY <2>1, <1>1
(* Where in q the profile and the amount come from. *)
<1> DEFINE F2 == IF F > 0 THEN F + 1 ELSE IF IsFetch(h) THEN 1 ELSE 0
           L2 == IF L > 0 THEN L + 1 ELSE IF IsSet(h) THEN 1 ELSE 0
<1>6. F2 \in 0 .. n /\ L2 \in 0 .. n
  BY <1>1, <1>4
<1>7. EndsWith(q, owner, u, F2)
  <2>1. CASE F > 0
    <3>1. IsFetch(t[F]) /\ t[F].uid = u /\ t[F] = q[F + 1]
      BY <2>1, <1>1 DEF EndsWith
    <3> QED  BY <2>1, <3>1, <1>2, <1>4 DEF EndsWith
  <2>2. CASE F = 0
    <3>1. owner2 = u
      BY <2>2 DEF EndsWith
    <3> QED  BY <2>2, <3>1, <1>1, <1>2, <1>3, <1>5 DEF EndsWith
  <2> QED  BY <2>1, <2>2, <1>1
<1>8. Keeps(q, u, F2)
  <2> SUFFICES ASSUME NEW i \in 1 .. n, i > F2
               PROVE  ~IsFetch(q[i]) /\ (q[i].kind = "default" => q[i].uid = u)
    BY <1>2 DEF Keeps
  <2>1. CASE i = 1
    <3>1. F = 0 /\ ~IsFetch(h) /\ owner2 = u
      BY <2>1, <1>1 DEF EndsWith
    <3> QED  BY <2>1, <3>1, <1>1, <1>3
  <2>2. CASE i # 1
    <3>1. i - 1 \in 1 .. n - 1 /\ q[i] = t[i - 1] /\ i - 1 > F
      BY <2>2, <1>1, <1>5
    <3> QED  BY <3>1, <1>1 DEF Keeps
  <2> QED  BY <2>1, <2>2
<1>9. IsLast(q, F2, L2)
  <2>1. L2 = F2 \/ (L2 > F2 /\ IsSet(q[L2]))
    <3>1. CASE L > 0
      <4>1. t[L] = q[L + 1]
        BY <3>1, <1>1
      <4> QED  BY <3>1, <4>1, <1>1, <1>4 DEF IsLast
    <3>2. CASE L = 0
      <4>1. F = 0
        BY <3>2, <1>4, <1>1
      <4> QED  BY <3>2, <4>1, <1>1 DEF IsSet
    <3> QED  BY <3>1, <3>2, <1>1
  <2>2. ASSUME NEW i \in 1 .. n, i > L2
        PROVE  ~IsSet(q[i])
    <3>1. CASE i = 1
      BY <3>1, <2>2, <1>1
    <3>2. CASE i # 1
      <4>1. i - 1 \in 1 .. n - 1 /\ q[i] = t[i - 1] /\ i - 1 > L
        BY <3>2, <2>2, <1>1, <1>5
      <4> QED  BY <4>1, <1>1 DEF IsLast
    <3> QED  BY <3>1, <3>2
  <2> QED  BY <2>1, <2>2, <1>2 DEF IsLast
<1>10. AmountAt(q, value, L2) = b
  <2> HIDE DEF F2, L2
  <2> QED  BY <1>2, <1>6, <1>7, <1>8, <1>9 DEF Shows
<1>11. CASE L > 0
  <2>1. t[L] = q[L + 1] /\ L2 = L + 1 /\ L + 1 # 0
    BY <1>11, <1>1
  <2> HIDE DEF L2
  <2> QED  BY <1>10, <1>11, <2>1 DEF AmountAt
<1>12. CASE L = 0
  <2>1. F = 0 /\ owner2 = u
    BY <1>12, <1>4, <1>1 DEF EndsWith
  <2> QED  BY <1>10, <1>12, <2>1, <1>1, <1>3 DEF AmountAt, IsSet
<1> QED  BY <1>11, <1>12, <1>1

(* A form that is left does not change what the cache will show. *)
LEMMA ShowsGone ==
    ASSUME NEW q \in Seq(Callback), NEW owner, NEW value, NEW u \in Users, NEW b,
           Shows(q, owner, value, u, b)
    PROVE  Shows(GoneAll(q), owner, value, u, b)
<1> DEFINE g == GoneAll(q)
<1>1. /\ Len(q) \in Nat /\ Len(g) = Len(q)
      /\ \A i \in 1 .. Len(q) : q[i] \in Callback /\ g[i] = [q[i] EXCEPT !.here = FALSE]
  BY GoneAllCallbacks, ElementOfSeq, LenProperties
<1>2. \A i \in 1 .. Len(q) : /\ g[i].uid = q[i].uid /\ g[i].kind = q[i].kind
                             /\ g[i].ok = q[i].ok /\ g[i].amount = q[i].amount
  BY <1>1 DEF Callback
<1> HIDE DEF g
<1>3. \A i \in 1 .. Len(q) : (IsFetch(g[i]) <=> IsFetch(q[i])) /\ (IsSet(g[i]) <=> IsSet(q[i]))
  BY <1>2 DEF IsFetch, IsSet
<1> SUFFICES ASSUME NEW F \in 0 .. Len(q), NEW L \in 0 .. Len(q),
                    EndsWith(g, owner, u, F), Keeps(g, u, F), IsLast(g, F, L)
             PROVE  AmountAt(g, value, L) = b
  BY <1>1 DEF Shows, g
<1>4. EndsWith(q, owner, u, F)
  BY <1>1, <1>2, <1>3 DEF EndsWith
<1>5. Keeps(q, u, F)
  BY <1>1, <1>2, <1>3 DEF Keeps
<1>6. IsLast(q, F, L)
  <2>1. L = F \/ (L > F /\ L \in 1 .. Len(q) /\ IsSet(q[L]))
    BY <1>1, <1>3 DEF IsLast
  <2>2. \A i \in 1 .. Len(q) : i > L => ~IsSet(q[i])
    BY <1>1, <1>3 DEF IsLast
  <2> QED  BY <2>1, <2>2 DEF IsLast
<1>7. AmountAt(q, value, L) = b
  BY <1>4, <1>5, <1>6 DEF Shows
<1> QED  BY <1>1, <1>2, <1>7 DEF AmountAt

(* Another donor's profile, or none, takes the place of the cached one. *)
LEMMA ShowsOther ==
    ASSUME NEW q \in Seq(Callback), NEW owner, NEW value, NEW u \in Users, NEW b,
           Shows(q, owner, value, u, b), NEW owner2, owner2 # u, NEW value2
    PROVE  Shows(q, owner2, value2, u, b)
<1> SUFFICES ASSUME NEW F \in 0 .. Len(q), NEW L \in 0 .. Len(q),
                    EndsWith(q, owner2, u, F), Keeps(q, u, F), IsLast(q, F, L)
             PROVE  AmountAt(q, value2, L) = b
  BY DEF Shows
<1>1. F > 0 /\ EndsWith(q, owner, u, F)
  BY LenProperties DEF EndsWith
<1>2. L # 0
  BY <1>1, LenProperties DEF IsLast
<1>3. AmountAt(q, value, L) = b
  BY <1>1 DEF Shows
<1> QED  BY <1>2, <1>3 DEF AmountAt

(* No callback of q sets the amount of u, and the cache has it. *)
LEMMA ShowsCached ==
    ASSUME NEW q \in Seq(Callback), NEW owner, NEW value, NEW u \in Users,
           \A i \in 1 .. Len(q) : IsSet(q[i]) => q[i].uid # u
    PROVE  Shows(q, owner, value, u, value)
<1> SUFFICES ASSUME NEW F \in 0 .. Len(q), NEW L \in 0 .. Len(q),
                    EndsWith(q, owner, u, F), Keeps(q, u, F), IsLast(q, F, L)
             PROVE  AmountAt(q, value, L) = value
  BY DEF Shows
<1>0. Len(q) \in Nat
  BY LenProperties
<1>1. F = 0
  BY <1>0 DEF EndsWith, IsSet
<1>2. L = 0
  <2> SUFFICES ASSUME L # 0
               PROVE  FALSE
    OBVIOUS
  <2>1. L \in 1 .. Len(q) /\ L > F /\ IsSet(q[L])
    BY <1>0, <1>1 DEF IsLast
  <2> QED  BY <2>1 DEF Keeps, IsSet
<1> QED  BY <1>2 DEF AmountAt

-----------------------------------------------------------------------------
(* An account is made once *)

(* The steps that make the profile of u: the answer of createUser, the      *)
(* request for the name and its answer, and the write of the profile.       *)
NewRequests(rs, u) == {r \in rs : r.kind = "commitChanges" /\ r.uid = u}
NewCalls(q, u) == {i \in 1 .. Len(q) : IsCreating(q[i]) /\ q[i].uid = u}
NewWrites(ws, u) == {i \in 1 .. Len(ws) : ws[i].kind = "addUser" /\ ws[i].uid = u}
SetCalls(q, u) == {i \in 1 .. Len(q) : IsSet(q[i]) /\ q[i].uid = u}

AtMostOne(S) == \A x, y \in S : x = y
Fewer(S, T) == (T = {} => S = {}) /\ (AtMostOne(T) => AtMostOne(S))

MadeOnce(rs, q, ws, doc, u) ==
    /\ AtMostOne(NewRequests(rs, u)) /\ AtMostOne(NewCalls(q, u)) /\ AtMostOne(NewWrites(ws, u))
    /\ NewRequests(rs, u) = {} \/ NewCalls(q, u) = {}
    /\ NewRequests(rs, u) # {} \/ NewCalls(q, u) # {} =>
          NewWrites(ws, u) = {} /\ SetCalls(q, u) = {} /\ doc = None
    /\ NewWrites(ws, u) # {} => doc = None

LEMMA MadeOnceFewer ==
    ASSUME NEW rs, NEW q, NEW ws, NEW doc, NEW u, MadeOnce(rs, q, ws, doc, u),
           NEW rs2, NEW q2, NEW ws2,
           Fewer(NewRequests(rs2, u), NewRequests(rs, u)),
           Fewer(NewCalls(q2, u), NewCalls(q, u)),
           Fewer(NewWrites(ws2, u), NewWrites(ws, u)),
           SetCalls(q, u) = {} => SetCalls(q2, u) = {}
    PROVE  MadeOnce(rs2, q2, ws2, doc, u)
  BY DEF MadeOnce, Fewer

LEMMA FewerSame == \A S : Fewer(S, S)
  BY DEF Fewer

LEMMA FewerSub ==
    ASSUME NEW S, NEW T, S \subseteq T
    PROVE  Fewer(S, T)
  BY DEF Fewer, AtMostOne

LEMMA GoneRequestsFewer ==
    ASSUME NEW rs \in SUBSET Request, NEW u
    PROVE  Fewer(NewRequests(Gone(rs), u), NewRequests(rs, u))
<1>1. \A g \in NewRequests(Gone(rs), u) :
          \E r \in NewRequests(rs, u) : g = [r EXCEPT !.here = FALSE]
  BY DEF NewRequests, Gone, Request
<1> QED  BY <1>1 DEF Fewer, AtMostOne

LEMMA OtherRequestFewer ==
    ASSUME NEW rs \in SUBSET Request, NEW kind, NEW v, NEW here, NEW u,
           kind # "commitChanges" \/ v # u
    PROVE  Fewer(NewRequests(rs \cup {Requesting(kind, v, here)}, u), NewRequests(rs, u))
<1>1. NewRequests(rs \cup {Requesting(kind, v, here)}, u) \subseteq NewRequests(rs, u)
  BY DEF NewRequests, Requesting
<1> QED  BY <1>1, FewerSub

LEMMA LessRequestsFewer ==
    ASSUME NEW rs, NEW r, NEW u
    PROVE  Fewer(NewRequests(rs \ {r}, u), NewRequests(rs, u))
<1>1. NewRequests(rs \ {r}, u) \subseteq NewRequests(rs, u)
  BY DEF NewRequests
<1> QED  BY <1>1, FewerSub

LEMMA GoneCallsFewer ==
    ASSUME NEW q \in Seq(Callback), NEW u
    PROVE  /\ NewCalls(GoneAll(q), u) = NewCalls(q, u)
           /\ SetCalls(GoneAll(q), u) = SetCalls(q, u)
<1> DEFINE g == GoneAll(q)
<1>1. /\ Len(g) = Len(q)
      /\ \A i \in 1 .. Len(q) : q[i] \in Callback /\ g[i] = [q[i] EXCEPT !.here = FALSE]
  BY GoneAllCallbacks, ElementOfSeq
<1>2. \A i \in 1 .. Len(q) : g[i].uid = q[i].uid /\ g[i].kind = q[i].kind /\ g[i].ok = q[i].ok
  BY <1>1 DEF Callback
<1> HIDE DEF g
<1> QED  BY <1>1, <1>2 DEF NewCalls, SetCalls, IsCreating, IsSet, IsFetch, g

LEMMA AppendCallFewer ==
    ASSUME NEW q \in Seq(Callback), NEW c \in Callback, NEW u
    PROVE  /\ ~IsCreating(c) \/ c.uid # u => NewCalls(Append(q, c), u) = NewCalls(q, u)
           /\ ~IsSet(c) \/ c.uid # u => SetCalls(Append(q, c), u) = SetCalls(q, u)
           /\ NewCalls(Append(q, c), u) \subseteq NewCalls(q, u) \cup {Len(q) + 1}
<1>1. /\ Len(q) \in Nat /\ Len(Append(q, c)) = Len(q) + 1 /\ Append(q, c)[Len(q) + 1] = c
      /\ \A i \in 1 .. Len(q) : Append(q, c)[i] = q[i]
  BY AppendProperties, LenProperties
<1>2. \A i \in 1 .. Len(q) + 1 : i = Len(q) + 1 \/ i \in 1 .. Len(q)
  BY <1>1
<1>3. \A i \in 1 .. Len(q) : i \in 1 .. Len(q) + 1
  BY <1>1
<1> QED  BY <1>1, <1>2, <1>3 DEF NewCalls, SetCalls

LEMMA TailCallFewer ==
    ASSUME NEW q \in Seq(Callback), q # <<>>, NEW u
    PROVE  /\ Fewer(NewCalls(Tail(q), u), NewCalls(q, u))
           /\ SetCalls(q, u) = {} => SetCalls(Tail(q), u) = {}
           /\ IsCreating(Head(q)) /\ Head(q).uid = u =>
                 /\ NewCalls(q, u) # {}
                 /\ AtMostOne(NewCalls(q, u)) => NewCalls(Tail(q), u) = {}
<1>1. /\ Len(q) \in Nat \ {0} /\ Head(q) = q[1] /\ Len(Tail(q)) = Len(q) - 1
      /\ \A i \in 1 .. Len(q) - 1 : Tail(q)[i] = q[i + 1]
  BY EmptySeq, HeadTailProperties
<1>2. 1 \in 1 .. Len(q) /\ \A i \in 1 .. Len(q) - 1 : i + 1 \in 1 .. Len(q) /\ i + 1 # 1
  BY <1>1
<1>3. \A i \in NewCalls(Tail(q), u) : i \in 1 .. Len(q) - 1 /\ i + 1 \in NewCalls(q, u)
  BY <1>1, <1>2 DEF NewCalls
<1>4. \A i \in SetCalls(Tail(q), u) : i + 1 \in SetCalls(q, u)
  BY <1>1, <1>2 DEF SetCalls
<1>5. Fewer(NewCalls(Tail(q), u), NewCalls(q, u))
  <2>1. ASSUME AtMostOne(NewCalls(q, u)), NEW i \in NewCalls(Tail(q), u),
               NEW j \in NewCalls(Tail(q), u)
        PROVE  i = j
    <3>1. i + 1 = j + 1
      BY <1>3, <2>1 DEF AtMostOne
    <3> QED  BY <3>1, <1>3, <1>1
  <2> QED  BY <1>3, <2>1 DEF Fewer, AtMostOne
<1>6. IsCreating(Head(q)) /\ Head(q).uid = u => 1 \in NewCalls(q, u)
  BY <1>1, <1>2 DEF NewCalls
<1> QED  BY <1>2, <1>3, <1>4, <1>5, <1>6 DEF AtMostOne

LEMMA SameWrites ==
    ASSUME NEW ws, NEW ws2, Len(ws2) = Len(ws), NEW u,
           \A i \in 1 .. Len(ws) : ws2[i].kind = ws[i].kind /\ ws2[i].uid = ws[i].uid
    PROVE  NewWrites(ws2, u) = NewWrites(ws, u)
  BY DEF NewWrites

LEMMA AppendWrite ==
    ASSUME NEW ws \in Seq(Write), NEW w \in Write
    PROVE  /\ Append(ws, w) \in Seq(Write)
           /\ \A i \in 1 .. Len(ws) : i \in 1 .. Len(Append(ws, w)) /\ Append(ws, w)[i] = ws[i]
           /\ Len(ws) + 1 \in 1 .. Len(Append(ws, w)) /\ Append(ws, w)[Len(ws) + 1] = w
           /\ \A i \in 1 .. Len(Append(ws, w)) : i = Len(ws) + 1 \/ i \in 1 .. Len(ws)
<1>1. /\ Len(ws) \in Nat /\ Len(Append(ws, w)) = Len(ws) + 1 /\ Append(ws, w)[Len(ws) + 1] = w
      /\ \A i \in 1 .. Len(ws) : Append(ws, w)[i] = ws[i]
      /\ Append(ws, w) \in Seq(Write)
  BY AppendProperties, LenProperties
<1>2. \A i \in 1 .. Len(ws) + 1 : i = Len(ws) + 1 \/ i \in 1 .. Len(ws)
  BY <1>1
<1>3. (\A i \in 1 .. Len(ws) : i \in 1 .. Len(ws) + 1) /\ Len(ws) + 1 \in 1 .. Len(ws) + 1
  BY <1>1
<1> QED  BY <1>1, <1>2, <1>3

LEMMA AppendNewWrite ==
    ASSUME NEW ws \in Seq(Write), NEW w \in Write, NEW u
    PROVE  NewWrites(Append(ws, w), u) = IF w.kind = "addUser" /\ w.uid = u
                                         THEN NewWrites(ws, u) \cup {Len(ws) + 1}
                                         ELSE NewWrites(ws, u)
  BY AppendWrite DEF NewWrites

LEMMA RemoveWrite ==
    ASSUME NEW ws \in Seq(Write), NEW i \in 1 .. Len(ws), NEW u
    PROVE  /\ Fewer(NewWrites(RemoveAt(ws, i), u), NewWrites(ws, u))
           /\ i \in NewWrites(ws, u) /\ AtMostOne(NewWrites(ws, u)) =>
                 NewWrites(RemoveAt(ws, i), u) = {}
           /\ i \notin NewWrites(ws, u) /\ NewWrites(ws, u) # {} =>
                 NewWrites(RemoveAt(ws, i), u) # {}
           /\ \A j \in 1 .. Len(ws) : j # i =>
                 \E k \in 1 .. Len(RemoveAt(ws, i)) : RemoveAt(ws, i)[k] = ws[j]
           /\ \A k \in 1 .. Len(RemoveAt(ws, i)) :
                 \E j \in 1 .. Len(ws) : RemoveAt(ws, i)[k] = ws[j]
<1> DEFINE n == Len(ws)
           r == RemoveAt(ws, i)
           from(k) == IF k < i THEN k ELSE k + 1
           to(j) == IF j < i THEN j ELSE j - 1
<1>1. /\ n \in Nat /\ i \in 1 .. n /\ Len(r) = n - 1
      /\ \A k \in 1 .. n - 1 : r[k] = IF k < i THEN ws[k] ELSE ws[k + 1]
  BY RemoveAtProperties, LenProperties
<1>2. n = Len(ws)
  OBVIOUS
<1> HIDE DEF n, r
<1>3. \A k \in 1 .. n - 1 : from(k) \in 1 .. n /\ from(k) # i /\ r[k] = ws[from(k)]
  BY <1>1
<1>4. \A j \in 1 .. n : j # i => to(j) \in 1 .. n - 1 /\ r[to(j)] = ws[j]
  <2> TAKE j \in 1 .. n
  <2> HAVE j # i
  <2>1. to(j) \in 1 .. n - 1 /\ from(to(j)) = j
    BY <1>1
  <2> HIDE DEF from, to
  <2> QED  BY <2>1, <1>3
<1>5. \A k, l \in 1 .. n - 1 : from(k) = from(l) => k = l
  BY <1>1
<1> HIDE DEF from, to
<1>6. \A k \in NewWrites(r, u) : k \in 1 .. n - 1 /\ from(k) \in NewWrites(ws, u) /\ from(k) # i
  BY <1>1, <1>2, <1>3 DEF NewWrites
<1>7. \A j \in NewWrites(ws, u) : j # i => to(j) \in NewWrites(r, u)
  BY <1>1, <1>2, <1>4 DEF NewWrites
<1>8. Fewer(NewWrites(r, u), NewWrites(ws, u))
  BY <1>5, <1>6 DEF Fewer, AtMostOne
<1>9. i \in NewWrites(ws, u) /\ AtMostOne(NewWrites(ws, u)) => NewWrites(r, u) = {}
  BY <1>6 DEF AtMostOne
<1>10. i \notin NewWrites(ws, u) /\ NewWrites(ws, u) # {} => NewWrites(r, u) # {}
  BY <1>7
<1>11. \A j \in 1 .. n : j # i => \E k \in 1 .. n - 1 : r[k] = ws[j]
  BY <1>4
<1>12. \A k \in 1 .. n - 1 : \E j \in 1 .. n : r[k] = ws[j]
  BY <1>3
<1> QED  BY <1>1, <1>2, <1>8, <1>9, <1>10, <1>11, <1>12 DEF r

-----------------------------------------------------------------------------
(* Nothing is of an account that does not exist yet. *)
Known ==
    /\ currentUser \in accounts \cup {None}
    /\ Requested(requests) \subseteq accounts
    /\ Called(queue) \subseteq accounts
    /\ \A u \in Users \ accounts :
          /\ SetCalls(queue, u) = {}
          /\ docs[u] = None
          /\ \A i \in 1 .. Len(writes) : writes[i].uid # u

LEMMA InitKnown == Init => Known
<1> SUFFICES ASSUME Init
             PROVE  Known
  OBVIOUS
<1>1. Requested({}) = {} /\ Called(<<>>) = {}
  BY CalledEmpty DEF Requested
<1>2. \A u : SetCalls(<<>>, u) = {}
  BY DEF SetCalls
<1>3. \A i \in 1 .. Len(<<>>) : FALSE
  OBVIOUS
<1>4. \A u \in Users \ accounts : docs[u] = None
  BY DEF Init
<1> QED  BY <1>1, <1>2, <1>3, <1>4 DEF Init, Known

LEMMA UnknownIsNew ==
    ASSUME TypeOK, Known, NEW u \in Users \ accounts
    PROVE  /\ NewRequests(requests, u) = {} /\ NewCalls(queue, u) = {}
           /\ NewWrites(writes, u) = {}
<1>1. NewRequests(requests, u) = {}
  BY DEF NewRequests, Known, Requested, OwnRequest
<1>2. NewCalls(queue, u) = {}
  BY DEF NewCalls, Known, Called
<1>3. NewWrites(writes, u) = {}
  BY DEF NewWrites, Known
<1> QED  BY <1>1, <1>2, <1>3

LEMMA FetchKnown ==
    ASSUME TypeOK, Known, NEW rs \in SUBSET Request, Requested(rs) \subseteq accounts,
           FetchOrRedirect(rs) \/ FetchUpdateUser(rs)
    PROVE  Requested(requests') \subseteq accounts
<1>1. CASE FetchUpdateUser(rs)
  <2>1. Requested(requests') \subseteq Requested(rs) \cup {currentUser}
    BY <1>1, RequestedAdd DEF FetchUpdateUser
  <2> QED  BY <1>1, <2>1 DEF FetchUpdateUser, Known
<1>2. CASE RedirectToAuth(rs)
  BY <1>2, RequestedGone DEF RedirectToAuth
<1> QED  BY <1>1, <1>2 DEF FetchOrRedirect

LEMMA AnswerKnown ==
    ASSUME TypeOK, Known, NEW r \in requests,
           AuthAnswered(r) \/ CommitChangesAnswered(r) \/ FetchAnswered(r)
    PROVE  Known'
<1>1. /\ r \in Request /\ r.kind \in RequestKinds /\ r.kind \in Kinds
      /\ r.uid \in Users /\ r.here \in BOOLEAN /\ 0 \in Amounts
      /\ queue \in Seq(Callback) /\ docs \in Docs /\ writes \in Seq(Write)
  BY AccountBounds DEF TypeOK, Request, Kinds, Amounts, Docs
<1>2. Requested(requests \ {r}) \subseteq Requested(requests)
  BY RequestedLess
<1>3. OwnRequest(r) => r.uid \in accounts
  BY DEF Known, Requested
<1>4. ASSUME NEW ok \in BOOLEAN, NEW amount \in Amounts,
             Dispatch(r.kind, r.uid, ok, amount, r.here)
      PROVE  /\ Called(queue') \subseteq Called(queue) \cup {r.uid}
             /\ ~OwnRequest(r) /\ ~ok => Called(queue') \subseteq Called(queue)
             /\ \A u : u # r.uid \/ ~OwnRequest(r) => SetCalls(queue', u) = SetCalls(queue, u)
  <2> DEFINE c == [kind |-> r.kind, uid |-> r.uid, ok |-> ok, amount |-> amount, here |-> r.here]
  <2>1. c \in Callback /\ queue' = Append(queue, c)
    BY <1>1, <1>4, DispatchTypes
  <2>2. c.uid = r.uid /\ c.kind = r.kind /\ c.ok = ok
    OBVIOUS
  <2> HIDE DEF c
  <2>3. ~OwnRequest(r) /\ ~ok => ~IsCreating(c) /\ ~IsFetch(c)
    BY <2>2 DEF IsCreating, IsFetch, OwnRequest
  <2>4. ~OwnRequest(r) => ~IsSet(c)
    BY <1>1, <2>2 DEF IsSet, IsFetch, OwnRequest, RequestKinds
  <2>5. \A u : u # r.uid \/ ~OwnRequest(r) => SetCalls(queue', u) = SetCalls(queue, u)
    BY <1>1, <2>1, <2>2, <2>4, AppendCallFewer
  <2> QED  BY <1>1, <2>1, <2>2, <2>3, <2>5, CalledAppend
<1>5. CASE AuthAnswered(r)
  <2>1. PICK ok \in BOOLEAN :
            /\ Dispatch(r.kind, r.uid, ok, 0, r.here)
            /\ IF ok THEN SessionBegins(r.uid) ELSE UNCHANGED <<currentUser, donor, left>>
            /\ accounts' = IF ok THEN accounts \cup {r.uid} ELSE accounts
    BY <1>5 DEF AuthAnswered
  <2>2. ~OwnRequest(r)
    BY <1>5 DEF AuthAnswered, OwnRequest
  <2>3. /\ Called(queue') \subseteq accounts'
        /\ \A u : SetCalls(queue', u) = SetCalls(queue, u)
    BY <1>1, <1>4, <2>1, <2>2 DEF Known
  <2>4. currentUser' \in accounts' \cup {None}
    BY <2>1 DEF SessionBegins, Known
  <2>5. Requested(requests') \subseteq accounts'
    BY <1>2, <1>5, <2>1 DEF AuthAnswered, Known
  <2>6. accounts \subseteq accounts'
    BY <2>1
  <2> QED  BY <1>5, <2>3, <2>4, <2>5, <2>6 DEF AuthAnswered, Known
<1>6. CASE CommitChangesAnswered(r)
  <2>1. PICK ok \in BOOLEAN : Dispatch(r.kind, r.uid, ok, 0, r.here)
    BY <1>6 DEF CommitChangesAnswered
  <2>2. OwnRequest(r)
    BY <1>6 DEF CommitChangesAnswered, OwnRequest
  <2>3. /\ Called(queue') \subseteq Called(queue) \cup {r.uid}
        /\ \A u : u # r.uid => SetCalls(queue', u) = SetCalls(queue, u)
    BY <1>1, <1>4, <2>1
  <2> QED  BY <1>2, <1>3, <1>6, <2>2, <2>3
           DEF CommitChangesAnswered, firebaseVars, Known
<1>7. CASE FetchAnswered(r)
  <2>1. View(r.uid) # None => View(r.uid) \in Amounts
    BY <1>1, ViewTypes
  <2>2. OwnRequest(r)
    BY <1>7 DEF FetchAnswered, OwnRequest
  <2>3. /\ Called(queue') \subseteq Called(queue) \cup {r.uid}
        /\ \A u : u # r.uid => SetCalls(queue', u) = SetCalls(queue, u)
    BY <1>1, <1>4, <1>7, <2>1 DEF FetchAnswered
  <2> QED  BY <1>2, <1>3, <1>7, <2>2, <2>3 DEF FetchAnswered, firebaseVars, Known
<1> QED  BY <1>5, <1>6, <1>7

(* What AddUser and an amount that is saved append to the writes. *)
LEMMA AddUserAppends ==
    ASSUME TypeOK, NEW u \in Users, NEW here \in BOOLEAN, AddUser(u, here)
    PROVE  LET w == [kind |-> "addUser", uid |-> u, by |-> currentUser, amount |-> 0,
                     here |-> here, waits |-> TRUE]
           IN  /\ w \in Write /\ writes' = Append(writes, w)
               /\ user' = [email |-> u, default |-> 0]
<1>1. 0 \in Amounts
  BY AccountBounds DEF Amounts
<1> QED  BY <1>1 DEF AddUser, TypeOK, Write, WriteKinds

LEMMA AmountAppends ==
    ASSUME TypeOK, NEW v \in minAmount .. MaxAmount, UpdateDefaultDonateAmount(v)
    PROVE  LET w == [kind |-> "default", uid |-> currentUser, by |-> currentUser,
                     amount |-> v, here |-> FALSE, waits |-> TRUE]
           IN  \/ /\ currentUser # None
                  /\ w \in Write /\ writes' = Append(writes, w)
               \/ /\ currentUser = None \/ (user # None /\ user.default = v)
                  /\ writes' = writes
<1>1. v \in Amounts
  BY AccountBounds DEF minAmount, Amounts
<1> QED  BY <1>1 DEF UpdateDefaultDonateAmount, TypeOK, Write, WriteKinds

LEMMA CallbackKnown ==
    ASSUME TypeOK, Known, CallbackRuns
    PROVE  Known'
<1>1. /\ Event \in Callback /\ queue \in Seq(Callback) /\ queue # <<>>
      /\ Event.uid \in Users /\ Event.here \in BOOLEAN
      /\ queue' = Tail(queue) /\ requests \in SUBSET Request
      /\ writes \in Seq(Write)
      /\ UNCHANGED <<currentUser, accounts, docs>>
  BY EventTypes DEF CallbackRuns, TypeOK, firebaseVars, Callback
<1>2. /\ Called(queue') \subseteq accounts
      /\ IsCreating(Event) \/ IsFetch(Event) => Event.uid \in accounts
  BY <1>1, CalledTail DEF Known, Event
<1>3. \A u \in Users \ accounts : SetCalls(queue', u) = {}
  BY <1>1, TailCallFewer DEF Known
<1>4. ASSUME IsCreating(Event), AddUser(Event.uid, Event.here)
      PROVE  \A u \in Users \ accounts : \A i \in 1 .. Len(writes') : writes'[i].uid # u
  <2> DEFINE w == [kind |-> "addUser", uid |-> Event.uid, by |-> currentUser,
                   amount |-> 0, here |-> Event.here, waits |-> TRUE]
  <2>1. w \in Write /\ writes' = Append(writes, w) /\ w.uid = Event.uid
    BY <1>1, <1>4, AddUserAppends
  <2> HIDE DEF w
  <2> QED  BY <1>1, <1>2, <1>4, <2>1, AppendWrite DEF Known
<1>5. /\ Requested(requests') \subseteq accounts
      /\ \A u \in Users \ accounts : \A i \in 1 .. Len(writes') : writes'[i].uid # u
  <2>1. CASE SignInReturned
    <3>1. currentUser # None =>
             Requested(requests \cup {Requesting("signInFetch", currentUser, Event.here)})
                 \subseteq accounts
      BY <1>1, RequestedAdd DEF Known
    <3>2. Requested(Gone(requests)) \subseteq accounts
      BY <1>1, RequestedGone DEF Known
    <3> QED  BY <2>1, <3>1, <3>2 DEF SignInReturned, Known
  <2>2. CASE CreateUserReturned
    <3>1. Event.ok => IsCreating(Event) /\ Event.uid \in accounts
      BY <1>2, <2>2 DEF CreateUserReturned, IsCreating
    <3>2. Event.ok => Requested(requests \cup {Requesting("commitChanges", Event.uid, Event.here)})
                          \subseteq accounts
      BY <1>1, <3>1, RequestedAdd DEF Known
    <3>3. \/ requests' = requests
          \/ /\ Event.ok
             /\ requests' = requests \cup {Requesting("commitChanges", Event.uid, Event.here)}
      BY <2>2 DEF CreateUserReturned
    <3>4. writes' = writes \/ (Event.ok /\ AddUser(Event.uid, Event.here))
      BY <2>2 DEF CreateUserReturned
    <3> QED  BY <1>4, <3>1, <3>2, <3>3, <3>4 DEF Known
  <2>3. CASE CommitChangesReturned
    BY <2>3, <1>4 DEF CommitChangesReturned, IsCreating, Known
  <2>4. CASE FetchReturned \/ AddUserReturned \/ DefaultReturned
    BY <2>4 DEF FetchReturned, AddUserReturned, DefaultReturned, Known
  <2> QED  BY <2>1, <2>2, <2>3, <2>4 DEF CallbackRuns
<1> QED  BY <1>1, <1>2, <1>3, <1>5 DEF Known

LEMMA WriteAnsweredKnown ==
    ASSUME TypeOK, Known, NEW ok \in BOOLEAN, WriteAnswered(ok)
    PROVE  Known'
<1>1. PICK i \in 1 .. Len(writes) :
         LET w == writes[i]
         IN  /\ w \in Write
             /\ docs' = IF ok THEN [docs EXCEPT ![w.uid] = Apply(docs[w.uid], w)] ELSE docs
             /\ writes' = RemoveAt(writes, i)
             /\ IF w.waits THEN Dispatch(w.kind, w.uid, ok, w.amount, w.here)
                           ELSE UNCHANGED queue
             /\ UNCHANGED <<currentUser, accounts, requests>>
  BY WriteAnsweredMeans DEF appVars
<1> DEFINE w == writes[i]
           c == [kind |-> w.kind, uid |-> w.uid, ok |-> ok, amount |-> w.amount,
                 here |-> w.here]
<1>2. /\ w \in Write /\ w.uid \in Users /\ w.kind \in WriteKinds /\ w.kind \in Kinds
      /\ w.amount \in Amounts /\ w.here \in BOOLEAN
      /\ queue \in Seq(Callback) /\ writes \in Seq(Write) /\ docs \in Docs
  BY <1>1 DEF Write, Kinds, TypeOK, Docs
<1>3. w.uid \in accounts
  BY <1>2 DEF Known
<1>4. queue' = queue \/ (queue' = Append(queue, c) /\ c \in Callback)
  <2> HIDE DEF w
  <2> QED  BY <1>1, <1>2, DispatchTypes DEF w
<1>5. ~IsCreating(c) /\ ~IsFetch(c) /\ c.uid = w.uid
  BY <1>2 DEF IsCreating, IsFetch, WriteKinds
<1> HIDE DEF c
<1>6. Called(queue') \subseteq Called(queue)
  BY <1>2, <1>4, <1>5, CalledAppend
<1>7. ASSUME NEW u \in Users \ accounts
      PROVE  /\ SetCalls(queue', u) = {}
             /\ docs'[u] = None
             /\ \A k \in 1 .. Len(writes') : writes'[k].uid # u
  <2>1. u # w.uid
    BY <1>3
  <2>2. SetCalls(queue', u) = {}
    <3>1. SetCalls(queue, u) = {}
      BY DEF Known
    <3>2. c \in Callback => SetCalls(Append(queue, c), u) = SetCalls(queue, u)
      BY <1>2, <1>5, <2>1, AppendCallFewer
    <3> QED  BY <1>4, <3>1, <3>2
  <2>3. docs'[u] = None
    BY <1>1, <1>2, <2>1 DEF Known, Docs
  <2>4. \A k \in 1 .. Len(RemoveAt(writes, i)) :
            \E j \in 1 .. Len(writes) : RemoveAt(writes, i)[k] = writes[j]
    <3>1. i \in 1 .. Len(writes) /\ writes \in Seq(Write)
      BY <1>2
    <3> QED  BY ONLY <3>1, RemoveWrite
  <2>5. writes' = RemoveAt(writes, i)
    BY <1>1
  <2> QED  BY <2>2, <2>3, <2>4, <2>5 DEF Known
<1> QED  BY <1>1, <1>6, <1>7 DEF Known

LEMMA StepKnown == TypeOK /\ Known /\ [Next]_vars => Known'
<1> SUFFICES ASSUME TypeOK, Known, [Next]_vars
             PROVE  Known'
  OBVIOUS
<1> USE DEF firebaseVars
<1>1. /\ requests \in SUBSET Request /\ Gone(requests) \in SUBSET Request
      /\ Requested(Gone(requests)) = Requested(requests)
      /\ queue \in Seq(Callback) /\ writes \in Seq(Write)
  BY GoneTypes, RequestedGone DEF TypeOK
<1>2. ASSUME Requested(requests') \subseteq accounts,
             currentUser' \in {currentUser, None},
             UNCHANGED <<accounts, docs, writes, queue>>
      PROVE  Known'
  BY <1>2 DEF Known
<1>3. CASE Launch
  <2>1. CASE CheckAuth
    <3>1. Requested(requests') \subseteq accounts
      BY <1>1, <2>1, FetchKnown DEF CheckAuth, Known
    <3> QED  BY <1>2, <1>3, <3>1 DEF Launch
  <2>2. CASE UNCHANGED requests
    BY <1>2, <1>3, <2>2 DEF Launch, Known
  <2> QED  BY <1>3, <2>1, <2>2 DEF Launch
<1>4. CASE GetStartedButtonPressed
  <2>1. CASE FetchUpdateUser(Gone(requests))
    <3>1. Requested(requests') \subseteq accounts
      BY <1>1, <2>1, FetchKnown DEF Known
    <3> QED  BY <1>2, <1>4, <3>1 DEF GetStartedButtonPressed
  <2>2. CASE UNCHANGED requests
    BY <1>2, <1>4, <2>2 DEF GetStartedButtonPressed, Known
  <2> QED  BY <1>4, <2>1, <2>2 DEF GetStartedButtonPressed
<1>5. CASE Restart
  <2>1. Requested({}) = {}
    BY DEF Requested
  <2>2. \A u : SetCalls(<<>>, u) = {}
    BY DEF SetCalls
  <2>3. /\ Len(writes') = Len(writes)
        /\ \A i \in 1 .. Len(writes) :
               writes'[i] = [writes[i] EXCEPT !.here = FALSE, !.waits = FALSE]
    <3>1. writes \in Seq(Write)
      BY <1>1
    <3>2. Ended(writes, writes')
      BY ONLY <1>5 DEF Restart, Ended
    <3> QED  BY ONLY <3>1, <3>2, RestartWrites
  <2>4. \A i \in 1 .. Len(writes) : writes[i] \in Write
    BY <1>1, ElementOfSeq
  <2>5. \A i \in 1 .. Len(writes) : writes'[i].uid = writes[i].uid
    BY <2>3, <2>4 DEF Write
  <2>6. requests' = {} /\ queue' = <<>>
    BY <1>5 DEF Restart
  <2>7. UNCHANGED <<currentUser, accounts, docs>>
    BY <1>5 DEF Restart, firebaseVars, ghostVars
  <2>8. \A i \in 1 .. Len(writes') : \A u : writes[i].uid # u => writes'[i].uid # u
    BY <2>3, <2>5
  <2>9. Requested(requests') \subseteq accounts' /\ Called(queue') \subseteq accounts'
    BY <2>1, <2>6, CalledEmpty
  <2> QED  BY <2>2, <2>3, <2>6, <2>7, <2>8, <2>9 DEF Known
<1>6. ASSUME NEW form \in {"signIn", "signUp"}, PresentForm(form)
      PROVE  Known'
  BY <1>2, <1>6 DEF PresentForm, Known
<1>7. CASE FormLeft
  <2>1. Called(queue') = Called(queue) /\ Requested(requests') = Requested(requests)
    BY <1>1, <1>7, CalledGone DEF FormLeft, RedirectToAuth
  <2>2. \A u : SetCalls(queue', u) = SetCalls(queue, u)
    BY <1>1, <1>7, GoneCallsFewer DEF FormLeft
  <2>3. /\ Len(writes') = Len(writes)
        /\ \A i \in 1 .. Len(writes) : writes'[i] = [writes[i] EXCEPT !.here = FALSE]
    BY <1>1, <1>7, GoneAllWrites DEF FormLeft
  <2>4. \A i \in 1 .. Len(writes) : writes[i] \in Write
    BY <1>1, ElementOfSeq
  <2>5. \A i \in 1 .. Len(writes) : writes'[i].uid = writes[i].uid
    BY <2>3, <2>4 DEF Write
  <2> QED  BY <1>7, <2>1, <2>2, <2>3, <2>5 DEF FormLeft, Known
<1>8. ASSUME NEW u \in Users, SignInButtonPressed(u) \/ SignUpButtonPressed(u)
      PROVE  Known'
  <2>1. \A kind \in {"signIn", "createUser"} : ~OwnRequest(Requesting(kind, u, TRUE))
    BY DEF OwnRequest, Requesting
  <2>2. Requested(requests') \subseteq Requested(requests)
    BY <1>8, <2>1 DEF SignInButtonPressed, SignUpButtonPressed, Requested
  <2> QED  BY <1>2, <1>8, <2>2 DEF SignInButtonPressed, SignUpButtonPressed, Known
<1>9. ASSUME NEW r \in requests,
             AuthAnswered(r) \/ CommitChangesAnswered(r) \/ FetchAnswered(r)
      PROVE  Known'
  BY <1>9, AnswerKnown
<1>10. ASSUME NEW ok \in BOOLEAN, WriteAnswered(ok)
       PROVE  Known'
  BY <1>10, WriteAnsweredKnown
<1>11. CASE SessionEnds
  BY <1>2, <1>11 DEF SessionEnds, Known
<1>12. CASE CallbackRuns
  BY <1>12, CallbackKnown
<1>13. ASSUME NEW v \in minAmount .. MaxAmount, StartContinue(v) \/ ChooseAmountContinue(v)
       PROVE  Known'
  <2> DEFINE w == [kind |-> "default", uid |-> currentUser, by |-> currentUser,
                   amount |-> v, here |-> FALSE, waits |-> TRUE]
  <2>1. UNCHANGED <<currentUser, accounts, docs, requests, queue>>
    BY <1>13 DEF StartContinue, ChooseAmountContinue
  <2>2. \/ writes' = writes
        \/ w \in Write /\ writes' = Append(writes, w) /\ currentUser # None
    BY <1>13, AmountAppends DEF StartContinue, ChooseAmountContinue
  <2>3. w.uid = currentUser
    OBVIOUS
  <2> HIDE DEF w
  <2>4. ASSUME NEW u \in Users \ accounts, NEW i \in 1 .. Len(writes')
        PROVE  writes'[i].uid # u
    <3>1. CASE writes' = writes
      BY <3>1 DEF Known
    <3>2. CASE w \in Write /\ writes' = Append(writes, w) /\ currentUser # None
      <4>1. writes'[i] = w \/ \E j \in 1 .. Len(writes) : writes'[i] = writes[j]
        BY <1>1, <3>2, AppendWrite
      <4>2. currentUser # u
        BY <3>2 DEF Known
      <4> QED  BY <2>3, <4>1, <4>2 DEF Known
    <3> QED  BY <2>2, <3>1, <3>2
  <2> QED  BY <2>1, <2>4 DEF Known
<1>14. CASE LetsGoBack \/ BucketSaved
  BY <1>2, <1>14 DEF LetsGoBack, BucketSaved, Known
<1>15. CASE WelcomeGetStarted \/ SeeOrganisations \/ BadgeContinue
  <2>1. PICK from \in {"welcome", "start", "letsGo"} : PresentRoot(from)
    BY <1>15 DEF WelcomeGetStarted, SeeOrganisations, BadgeContinue
  <2>2. Requested(requests') \subseteq accounts
    BY <2>1, <1>1, FetchKnown DEF PresentRoot, ShowRoot, Known
  <2> QED  BY <1>2, <2>1, <2>2 DEF PresentRoot
<1>16. CASE ScreenRefreshes
  <2>1. Requested(requests') \subseteq accounts
    BY <1>16, <1>1, FetchKnown DEF ScreenRefreshes, Known
  <2> QED  BY <1>2, <1>16, <2>1 DEF ScreenRefreshes
<1>17. CASE LogoutButtonPressed
  <2>1. Requested(requests') = Requested(requests)
    BY <1>1, <1>17 DEF LogoutButtonPressed, RedirectToAuth
  <2> QED  BY <1>2, <1>17, <2>1 DEF LogoutButtonPressed, SignOut, Known
<1>18. CASE UNCHANGED vars
  BY <1>18 DEF vars, Known
<1> QED
  BY <1>3, <1>4, <1>5, <1>6, <1>7, <1>8, <1>9, <1>10, <1>11, <1>12, <1>13,
     <1>14, <1>15, <1>16, <1>17, <1>18 DEF Next

-----------------------------------------------------------------------------
(* Every account is made once. *)
Once == \A u \in Users : MadeOnce(requests, queue, writes, docs[u], u)

LEMMA FewerTrans ==
    ASSUME NEW S, NEW T, NEW U, Fewer(S, T), Fewer(T, U)
    PROVE  Fewer(S, U)
  BY DEF Fewer

LEMMA FetchFewer ==
    ASSUME NEW rs \in SUBSET Request, FetchOrRedirect(rs) \/ FetchUpdateUser(rs), NEW u
    PROVE  Fewer(NewRequests(requests', u), NewRequests(rs, u))
<1>1. CASE FetchUpdateUser(rs)
  BY <1>1, OtherRequestFewer DEF FetchUpdateUser
<1>2. CASE RedirectToAuth(rs)
  BY <1>2, GoneRequestsFewer DEF RedirectToAuth
<1> QED  BY <1>1, <1>2 DEF FetchOrRedirect

LEMMA InitOnce == Init => Once
<1>1. \A i \in 1 .. Len(<<>>) : FALSE
  OBVIOUS
<1>2. \A u : /\ NewRequests({}, u) = {} /\ NewCalls(<<>>, u) = {}
             /\ NewWrites(<<>>, u) = {}
  BY <1>1 DEF NewRequests, NewCalls, NewWrites
<1> QED  BY <1>2 DEF Init, Once, MadeOnce, AtMostOne

(* An answer without a profile in it. *)
LEMMA QuietAnswerOnce ==
    ASSUME TypeOK, Once, NEW r \in requests, NEW c \in Callback,
           requests' = requests \ {r}, queue' = Append(queue, c), UNCHANGED <<writes, docs>>,
           NEW u \in Users, c.uid # u \/ (~IsCreating(c) /\ ~IsSet(c))
    PROVE  MadeOnce(requests', queue', writes', docs'[u], u)
<1>1. queue \in Seq(Callback)
  BY DEF TypeOK
<1>2. NewCalls(queue', u) = NewCalls(queue, u) /\ SetCalls(queue', u) = SetCalls(queue, u)
  BY <1>1, AppendCallFewer
<1>3. Fewer(NewRequests(requests', u), NewRequests(requests, u))
  BY LessRequestsFewer
<1>4. MadeOnce(requests, queue, writes, docs[u], u)
  BY DEF Once
<1> QED  BY <1>2, <1>3, <1>4, FewerSame, MadeOnceFewer

LEMMA AuthOnce ==
    ASSUME TypeOK, Known, Once, NEW r \in requests, AuthAnswered(r)
    PROVE  Once'
<1>1. /\ r \in Request /\ r.kind \in RequestKinds /\ r.kind \in Kinds
      /\ r.uid \in Users /\ r.here \in BOOLEAN /\ 0 \in Amounts
      /\ queue \in Seq(Callback)
  BY AccountBounds DEF TypeOK, Request, Kinds, Amounts
<1>2. PICK ok \in BOOLEAN :
          /\ Dispatch(r.kind, r.uid, ok, 0, r.here)
          /\ ok => (r.uid \in accounts) = (r.kind = "signIn")
  BY DEF AuthAnswered
<1> DEFINE c == [kind |-> r.kind, uid |-> r.uid, ok |-> ok, amount |-> 0, here |-> r.here]
<1>3. c \in Callback /\ queue' = Append(queue, c)
  BY <1>1, <1>2, DispatchTypes
<1>4. c.uid = r.uid /\ c.kind = r.kind /\ c.ok = ok /\ ~IsSet(c)
  BY DEF AuthAnswered, IsSet, IsFetch
<1> HIDE DEF c
<1>5. requests' = requests \ {r} /\ UNCHANGED <<writes, docs>>
  BY DEF AuthAnswered
<1> SUFFICES ASSUME NEW u \in Users
             PROVE  MadeOnce(requests', queue', writes', docs'[u], u)
  BY DEF Once
<1>6. CASE c.uid # u \/ ~IsCreating(c)
  BY <1>3, <1>4, <1>5, <1>6, QuietAnswerOnce
<1>7. CASE c.uid = u /\ IsCreating(c)
  <2>1. u \in Users \ accounts
    BY <1>2, <1>4, <1>7 DEF IsCreating, AuthAnswered
  <2>2. /\ NewRequests(requests, u) = {} /\ NewCalls(queue, u) = {}
        /\ NewWrites(writes, u) = {} /\ SetCalls(queue, u) = {} /\ docs[u] = None
    BY <2>1, UnknownIsNew DEF Known
  <2>3. NewRequests(requests', u) = {}
    BY <1>5, <2>2 DEF NewRequests
  <2>4. NewCalls(queue', u) \subseteq {Len(queue) + 1} /\ SetCalls(queue', u) = {}
    BY <1>1, <1>3, <1>4, <2>2, AppendCallFewer
  <2> QED  BY <1>5, <2>2, <2>3, <2>4 DEF MadeOnce, AtMostOne
<1> QED  BY <1>6, <1>7

LEMMA CommitOnce ==
    ASSUME TypeOK, Once, NEW r \in requests, CommitChangesAnswered(r)
    PROVE  Once'
<1>1. /\ r \in Request /\ r.kind \in RequestKinds /\ r.kind \in Kinds
      /\ r.uid \in Users /\ r.here \in BOOLEAN /\ 0 \in Amounts
      /\ queue \in Seq(Callback)
  BY AccountBounds DEF TypeOK, Request, Kinds, Amounts
<1>2. PICK ok \in BOOLEAN : Dispatch(r.kind, r.uid, ok, 0, r.here)
  BY DEF CommitChangesAnswered
<1> DEFINE c == [kind |-> r.kind, uid |-> r.uid, ok |-> ok, amount |-> 0, here |-> r.here]
<1>3. c \in Callback /\ queue' = Append(queue, c)
  BY <1>1, <1>2, DispatchTypes
<1>4. c.uid = r.uid /\ ~IsSet(c)
  BY DEF CommitChangesAnswered, IsSet, IsFetch
<1> HIDE DEF c
<1>5. requests' = requests \ {r} /\ UNCHANGED <<writes, docs>>
  BY DEF CommitChangesAnswered, firebaseVars
<1> SUFFICES ASSUME NEW u \in Users
             PROVE  MadeOnce(requests', queue', writes', docs'[u], u)
  BY DEF Once
<1>6. CASE c.uid # u
  BY <1>3, <1>5, <1>6, QuietAnswerOnce
<1>7. CASE c.uid = u
  <2>1. r \in NewRequests(requests, u) /\ MadeOnce(requests, queue, writes, docs[u], u)
    BY <1>4, <1>7 DEF CommitChangesAnswered, NewRequests, Once
  <2>2. NewRequests(requests', u) = {}
    BY <1>5, <2>1 DEF MadeOnce, AtMostOne, NewRequests
  <2>3. /\ NewCalls(queue, u) = {} /\ NewWrites(writes, u) = {}
        /\ SetCalls(queue, u) = {} /\ docs[u] = None
    BY <2>1 DEF MadeOnce
  <2>4. NewCalls(queue', u) \subseteq {Len(queue) + 1} /\ SetCalls(queue', u) = {}
    BY <1>1, <1>3, <1>4, <2>3, AppendCallFewer
  <2> QED  BY <1>5, <2>2, <2>3, <2>4 DEF MadeOnce, AtMostOne
<1> QED  BY <1>6, <1>7

(* A profile that is there is not being made. *)
LEMMA FetchOnce ==
    ASSUME TypeOK, Once, NEW r \in requests, FetchAnswered(r)
    PROVE  Once'
<1>1. /\ r \in Request /\ r.kind \in RequestKinds /\ r.kind \in Kinds
      /\ r.uid \in Users /\ r.here \in BOOLEAN /\ 0 \in Amounts
      /\ queue \in Seq(Callback) /\ docs \in Docs /\ writes \in Seq(Write)
  BY AccountBounds DEF TypeOK, Request, Kinds, Amounts, Docs
<1>2. View(r.uid) # None => View(r.uid) \in Amounts
  BY <1>1, ViewTypes
<1>3. PICK ok \in BOOLEAN, amount \in Amounts :
          Dispatch(r.kind, r.uid, ok, amount, r.here) /\ (ok => View(r.uid) # None)
  BY <1>1, <1>2 DEF FetchAnswered
<1> DEFINE c == [kind |-> r.kind, uid |-> r.uid, ok |-> ok, amount |-> amount, here |-> r.here]
<1>4. c \in Callback /\ queue' = Append(queue, c)
  BY <1>1, <1>3, DispatchTypes
<1>5. c.uid = r.uid /\ c.ok = ok /\ ~IsCreating(c) /\ (IsSet(c) => ok)
  BY DEF FetchAnswered, IsSet, IsFetch, IsCreating
<1> HIDE DEF c
<1>6. requests' = requests \ {r} /\ UNCHANGED <<writes, docs>>
  BY DEF FetchAnswered, firebaseVars
<1> SUFFICES ASSUME NEW u \in Users
             PROVE  MadeOnce(requests', queue', writes', docs'[u], u)
  BY DEF Once
<1>7. CASE c.uid # u \/ ~IsSet(c)
  BY <1>4, <1>5, <1>6, <1>7, QuietAnswerOnce
<1>8. CASE c.uid = u /\ IsSet(c)
  <2>1. View(u) # None /\ MadeOnce(requests, queue, writes, docs[u], u)
    BY <1>3, <1>5, <1>8 DEF Once
  <2>2. NewRequests(requests, u) = {} /\ NewCalls(queue, u) = {}
    <3> SUFFICES ASSUME docs[u] = None, NewWrites(writes, u) = {}
                 PROVE  FALSE
      BY <2>1 DEF MadeOnce
    <3>1. \A i \in 1 .. Len(writes) : writes[i].uid = u => writes[i].kind # "addUser"
      BY DEF NewWrites
    <3> QED  BY <1>1, <2>1, <3>1, ViewOfNone
  <2>3. NewRequests(requests', u) = {} /\ NewCalls(queue', u) = NewCalls(queue, u)
    BY <1>1, <1>4, <1>5, <1>6, <2>2, AppendCallFewer DEF NewRequests
  <2> QED  BY <1>6, <2>1, <2>2, <2>3 DEF MadeOnce, AtMostOne
<1> QED  BY <1>7, <1>8

LEMMA WriteAnsweredOnce ==
    ASSUME TypeOK, Once, NEW ok \in BOOLEAN, WriteAnswered(ok)
    PROVE  Once'
<1>1. PICK i \in 1 .. Len(writes) :
         LET w == writes[i]
         IN  /\ w \in Write
             /\ ok => w.kind = "addUser" \/ docs[w.uid] # None
             /\ docs' = IF ok THEN [docs EXCEPT ![w.uid] = Apply(docs[w.uid], w)] ELSE docs
             /\ writes' = RemoveAt(writes, i)
             /\ IF w.waits THEN Dispatch(w.kind, w.uid, ok, w.amount, w.here)
                           ELSE UNCHANGED queue
             /\ UNCHANGED <<currentUser, accounts, requests>>
  BY WriteAnsweredMeans DEF appVars
<1> DEFINE w == writes[i]
           c == [kind |-> w.kind, uid |-> w.uid, ok |-> ok, amount |-> w.amount,
                 here |-> w.here]
<1>2. /\ w \in Write /\ w.uid \in Users /\ w.kind \in WriteKinds /\ w.kind \in Kinds
      /\ w.amount \in Amounts /\ w.here \in BOOLEAN
      /\ queue \in Seq(Callback) /\ writes \in Seq(Write) /\ docs \in Docs
  BY <1>1 DEF Write, Kinds, TypeOK, Docs
<1>3. queue' = queue \/ (queue' = Append(queue, c) /\ c \in Callback)
  <2> HIDE DEF w
  <2> QED  BY <1>1, <1>2, DispatchTypes DEF w
<1>4. c.uid = w.uid /\ ~IsCreating(c) /\ (IsSet(c) => ok /\ w.kind = "default")
  BY <1>2 DEF IsCreating, IsSet, IsFetch, WriteKinds
<1>5. writes' = RemoveAt(writes, i) /\ requests' = requests
  BY <1>1
<1> HIDE DEF c
<1> SUFFICES ASSUME NEW u \in Users
             PROVE  MadeOnce(requests', queue', writes', docs'[u], u)
  BY DEF Once
<1>6. MadeOnce(requests, queue, writes, docs[u], u)
  BY DEF Once
<1>7. NewCalls(queue', u) = NewCalls(queue, u)
  BY <1>2, <1>3, <1>4, AppendCallFewer
<1>8. /\ Fewer(NewWrites(writes', u), NewWrites(writes, u))
      /\ i \in NewWrites(writes, u) => NewWrites(writes', u) = {}
  <2>1. AtMostOne(NewWrites(writes, u))
    BY <1>6 DEF MadeOnce
  <2> QED  BY <1>2, <1>5, <2>1, RemoveWrite
<1>9. CASE u # w.uid \/ ~ok
  <2>1. docs'[u] = docs[u]
    BY <1>1, <1>2, <1>9 DEF Docs
  <2>2. SetCalls(queue', u) = SetCalls(queue, u)
    BY <1>2, <1>3, <1>4, <1>9, AppendCallFewer
  <2> QED  BY <1>5, <1>6, <1>7, <1>8, <2>1, <2>2, FewerSame, MadeOnceFewer
<1>10. CASE u = w.uid /\ ok
  <2>1. w.kind = "addUser" \/ docs[u] # None
    BY <1>1, <1>10
  <2>2. CASE w.kind = "addUser"
    <3>1. i \in NewWrites(writes, u)
      BY <1>10, <2>2 DEF NewWrites
    <3> QED  BY <1>5, <1>6, <1>7, <1>8, <3>1 DEF MadeOnce, AtMostOne
  <2>3. CASE docs[u] # None
    <3>1. NewWrites(writes', u) = {}
      BY <1>6, <1>8, <2>3 DEF MadeOnce, Fewer
    <3> QED  BY <1>5, <1>6, <1>7, <2>3, <3>1 DEF MadeOnce, AtMostOne
  <2> QED  BY <2>1, <2>2, <2>3
<1> QED  BY <1>9, <1>10

(* The profile of an account is made by the one callback that leads to it. *)
LEMMA MakesProfileOnce ==
    ASSUME TypeOK, Once, queue # <<>>, IsCreating(Event), AddUser(Event.uid, Event.here),
           queue' = Tail(queue), UNCHANGED <<requests, docs>>
    PROVE  Once'
<1>1. /\ Event \in Callback /\ queue \in Seq(Callback) /\ writes \in Seq(Write)
      /\ Event.uid \in Users /\ Event.here \in BOOLEAN /\ Event = Head(queue)
  BY EventTypes DEF TypeOK, Callback, Event
<1> DEFINE w == [kind |-> "addUser", uid |-> Event.uid, by |-> currentUser,
                 amount |-> 0, here |-> Event.here, waits |-> TRUE]
<1>2. w \in Write /\ writes' = Append(writes, w)
  BY <1>1, AddUserAppends
<1>3. w.uid = Event.uid /\ w.kind = "addUser"
  OBVIOUS
<1> HIDE DEF w
<1> SUFFICES ASSUME NEW u \in Users
             PROVE  MadeOnce(requests', queue', writes', docs'[u], u)
  BY DEF Once
<1>4. MadeOnce(requests, queue, writes, docs[u], u)
  BY DEF Once
<1>5. /\ Fewer(NewCalls(queue', u), NewCalls(queue, u))
      /\ SetCalls(queue, u) = {} => SetCalls(queue', u) = {}
      /\ Event.uid = u =>
            /\ NewCalls(queue, u) # {}
            /\ AtMostOne(NewCalls(queue, u)) => NewCalls(queue', u) = {}
  BY <1>1, TailCallFewer
<1>6. CASE Event.uid # u
  <2>1. NewWrites(writes', u) = NewWrites(writes, u)
    BY <1>1, <1>2, <1>3, <1>6, AppendNewWrite
  <2> QED  BY <1>4, <1>5, <2>1, FewerSame, MadeOnceFewer
<1>7. CASE Event.uid = u
  <2>1. NewCalls(queue', u) = {}
    BY <1>4, <1>5, <1>7 DEF MadeOnce
  <2>2. /\ NewRequests(requests, u) = {} /\ NewWrites(writes, u) = {}
        /\ SetCalls(queue, u) = {} /\ docs[u] = None
    BY <1>4, <1>5, <1>7 DEF MadeOnce
  <2>3. NewWrites(writes', u) = NewWrites(writes, u) \cup {Len(writes) + 1}
    BY <1>1, <1>2, <1>3, <1>7, AppendNewWrite
  <2> QED  BY <2>1, <2>2, <2>3 DEF MadeOnce, AtMostOne
<1> QED  BY <1>6, <1>7

LEMMA CallbackOnce ==
    ASSUME TypeOK, Once, CallbackRuns
    PROVE  Once'
<1>1. /\ Event \in Callback /\ queue \in Seq(Callback) /\ queue # <<>>
      /\ Event.uid \in Users /\ Event.here \in BOOLEAN /\ Event = Head(queue)
      /\ queue' = Tail(queue) /\ requests \in SUBSET Request
      /\ writes \in Seq(Write) /\ UNCHANGED docs
  BY EventTypes DEF CallbackRuns, TypeOK, firebaseVars, Callback, Event
<1>2. ASSUME NEW u \in Users
      PROVE  /\ MadeOnce(requests, queue, writes, docs[u], u)
             /\ Fewer(NewCalls(queue', u), NewCalls(queue, u))
             /\ SetCalls(queue, u) = {} => SetCalls(queue', u) = {}
             /\ IsCreating(Event) /\ Event.uid = u =>
                   /\ NewCalls(queue, u) # {}
                   /\ AtMostOne(NewCalls(queue, u)) => NewCalls(queue', u) = {}
  BY <1>1, TailCallFewer DEF Once
<1>3. ASSUME \A u \in Users : Fewer(NewRequests(requests', u), NewRequests(requests, u)),
             writes' = writes
      PROVE  Once'
  <2>1. ASSUME NEW u \in Users
        PROVE  MadeOnce(requests', queue', writes', docs'[u], u)
    BY <1>1, <1>2, <1>3, FewerSame, MadeOnceFewer
  <2> QED  BY <2>1 DEF Once
<1>4. CASE SignInReturned
  <2>1. ASSUME NEW u \in Users
        PROVE  Fewer(NewRequests(requests', u), NewRequests(requests, u))
    BY <1>1, <1>4, FewerSame, GoneRequestsFewer, OtherRequestFewer DEF SignInReturned
  <2> QED  BY <1>3, <1>4, <2>1 DEF SignInReturned
<1>5. CASE CreateUserReturned
  <2>1. CASE Event.ok /\ AddUser(Event.uid, Event.here) /\ requests' = requests
    BY <1>1, <1>5, <2>1, MakesProfileOnce DEF CreateUserReturned, IsCreating
  <2>2. CASE requests' = requests /\ writes' = writes
    BY <1>3, <2>2, FewerSame
  <2>3. CASE /\ Event.ok /\ writes' = writes
             /\ requests' = requests \cup {Requesting("commitChanges", Event.uid, Event.here)}
    <3> SUFFICES ASSUME NEW u \in Users
                 PROVE  MadeOnce(requests', queue', writes', docs'[u], u)
      BY DEF Once
    <3>1. CASE Event.uid # u
      <4>1. Fewer(NewRequests(requests', u), NewRequests(requests, u))
        BY <1>1, <2>3, <3>1, OtherRequestFewer
      <4> QED  BY <1>1, <1>2, <2>3, <4>1, FewerSame, MadeOnceFewer
    <3>2. CASE Event.uid = u
      <4>1. IsCreating(Event)
        BY <1>5, <2>3 DEF CreateUserReturned, IsCreating
      <4>2. NewCalls(queue', u) = {}
        BY <1>2, <3>2, <4>1 DEF MadeOnce
      <4>3. /\ NewRequests(requests, u) = {} /\ NewWrites(writes, u) = {}
            /\ SetCalls(queue, u) = {} /\ docs[u] = None
        BY <1>2, <3>2, <4>1 DEF MadeOnce
      <4>4. NewRequests(requests', u) \subseteq
                NewRequests(requests, u) \cup {Requesting("commitChanges", Event.uid, Event.here)}
        BY <2>3 DEF NewRequests
      <4> QED  BY <1>1, <1>2, <2>3, <4>2, <4>3, <4>4 DEF MadeOnce, AtMostOne
    <3> QED  BY <3>1, <3>2
  <2> QED  BY <1>5, <2>1, <2>2, <2>3 DEF CreateUserReturned
<1>6. CASE CommitChangesReturned
  BY <1>1, <1>6, MakesProfileOnce DEF CommitChangesReturned, IsCreating
<1>7. CASE FetchReturned \/ AddUserReturned \/ DefaultReturned
  BY <1>3, <1>7, FewerSame DEF FetchReturned, AddUserReturned, DefaultReturned
<1> QED  BY <1>4, <1>5, <1>6, <1>7 DEF CallbackRuns

LEMMA StepOnce == TypeOK /\ Known /\ Once /\ [Next]_vars => Once'
<1> SUFFICES ASSUME TypeOK, Known, Once, [Next]_vars
             PROVE  Once'
  OBVIOUS
<1> USE DEF firebaseVars
<1>1. /\ requests \in SUBSET Request /\ Gone(requests) \in SUBSET Request
      /\ queue \in Seq(Callback) /\ writes \in Seq(Write)
  BY GoneTypes DEF TypeOK
<1>2. ASSUME \A u \in Users : /\ Fewer(NewRequests(requests', u), NewRequests(requests, u))
                              /\ Fewer(NewCalls(queue', u), NewCalls(queue, u))
                              /\ SetCalls(queue, u) = {} => SetCalls(queue', u) = {}
                              /\ NewWrites(writes', u) = NewWrites(writes, u),
             UNCHANGED docs
      PROVE  Once'
  <2> SUFFICES ASSUME NEW u \in Users
               PROVE  MadeOnce(requests', queue', writes', docs'[u], u)
    BY DEF Once
  <2>1. MadeOnce(requests, queue, writes, docs[u], u)
    BY DEF Once
  <2> QED  BY <1>2, <2>1, FewerSame, MadeOnceFewer
<1>3. ASSUME \A u \in Users : Fewer(NewRequests(requests', u), NewRequests(requests, u)),
             UNCHANGED <<docs, queue, writes>>
      PROVE  Once'
  BY <1>2, <1>3, FewerSame
<1>4. ASSUME \/ FetchOrRedirect(requests) \/ FetchUpdateUser(requests)
             \/ FetchOrRedirect(Gone(requests)) \/ FetchUpdateUser(Gone(requests))
      PROVE  \A u \in Users : Fewer(NewRequests(requests', u), NewRequests(requests, u))
  BY <1>1, <1>4, FetchFewer, GoneRequestsFewer, FewerTrans
<1>5. CASE Launch
  BY <1>3, <1>4, <1>5, FewerSame DEF Launch, CheckAuth
<1>6. CASE GetStartedButtonPressed
  BY <1>3, <1>4, <1>6, FewerSame DEF GetStartedButtonPressed
<1>7. CASE Restart
  <2>1. /\ Len(writes') = Len(writes)
        /\ \A i \in 1 .. Len(writes) :
               writes'[i] = [writes[i] EXCEPT !.here = FALSE, !.waits = FALSE]
    <3>1. writes \in Seq(Write)
      BY <1>1
    <3>2. Ended(writes, writes')
      BY ONLY <1>7 DEF Restart, Ended
    <3> QED  BY ONLY <3>1, <3>2, RestartWrites
  <2>2. \A i \in 1 .. Len(writes) : writes[i] \in Write
    BY <1>1, ElementOfSeq
  <2>3. \A i \in 1 .. Len(writes) :
            writes'[i].kind = writes[i].kind /\ writes'[i].uid = writes[i].uid
    BY <2>1, <2>2 DEF Write
  <2>4. \A u : NewWrites(writes', u) = NewWrites(writes, u)
    BY <2>1, <2>3, SameWrites
  <2>5. \A u : NewRequests({}, u) = {} /\ NewCalls(<<>>, u) = {} /\ SetCalls(<<>>, u) = {}
    BY DEF NewRequests, NewCalls, SetCalls
  <2>6. \A S : Fewer({}, S)
    BY DEF Fewer, AtMostOne
  <2> QED  BY <1>2, <1>7, <2>4, <2>5, <2>6 DEF Restart
<1>8. CASE FormLeft
  <2>1. /\ Len(writes') = Len(writes)
        /\ \A i \in 1 .. Len(writes) : writes'[i] = [writes[i] EXCEPT !.here = FALSE]
    BY <1>1, <1>8, GoneAllWrites DEF FormLeft
  <2>2. \A i \in 1 .. Len(writes) : writes[i] \in Write
    BY <1>1, ElementOfSeq
  <2>3. \A i \in 1 .. Len(writes) :
            writes'[i].kind = writes[i].kind /\ writes'[i].uid = writes[i].uid
    BY <2>1, <2>2 DEF Write
  <2>4. \A u : NewWrites(writes', u) = NewWrites(writes, u)
    BY <2>1, <2>3, SameWrites
  <2>5. \A u : NewCalls(queue', u) = NewCalls(queue, u) /\ SetCalls(queue', u) = SetCalls(queue, u)
    BY <1>1, <1>8, GoneCallsFewer DEF FormLeft
  <2>6. \A u : Fewer(NewRequests(requests', u), NewRequests(requests, u))
    BY <1>1, <1>8, GoneRequestsFewer DEF FormLeft, RedirectToAuth
  <2>7. UNCHANGED docs
    BY <1>8 DEF FormLeft
  <2> QED  BY <1>2, <2>4, <2>5, <2>6, <2>7, FewerSame
<1>9. ASSUME NEW x \in Users, SignInButtonPressed(x) \/ SignUpButtonPressed(x)
      PROVE  Once'
  <2>1. PICK kind \in {"signIn", "createUser"} :
            requests' = requests \cup {Requesting(kind, x, TRUE)}
    BY <1>9 DEF SignInButtonPressed, SignUpButtonPressed
  <2>2. ASSUME NEW u \in Users
        PROVE  Fewer(NewRequests(requests', u), NewRequests(requests, u))
    BY <1>1, <2>1, OtherRequestFewer
  <2> QED  BY <1>3, <1>9, <2>2 DEF SignInButtonPressed, SignUpButtonPressed
<1>10. ASSUME NEW r \in requests,
              AuthAnswered(r) \/ CommitChangesAnswered(r) \/ FetchAnswered(r)
       PROVE  Once'
  BY <1>10, AuthOnce, CommitOnce, FetchOnce
<1>11. ASSUME NEW ok \in BOOLEAN, WriteAnswered(ok)
       PROVE  Once'
  BY <1>11, WriteAnsweredOnce
<1>12. CASE CallbackRuns
  BY <1>12, CallbackOnce
<1>13. ASSUME NEW v \in minAmount .. MaxAmount, StartContinue(v) \/ ChooseAmountContinue(v)
       PROVE  Once'
  <2> DEFINE w == [kind |-> "default", uid |-> currentUser, by |-> currentUser,
                   amount |-> v, here |-> FALSE, waits |-> TRUE]
  <2>1. UNCHANGED <<docs, requests, queue>>
    BY <1>13 DEF StartContinue, ChooseAmountContinue
  <2>2. writes' = writes \/ (w \in Write /\ writes' = Append(writes, w))
    BY <1>13, AmountAppends DEF StartContinue, ChooseAmountContinue
  <2>3. w.kind # "addUser"
    OBVIOUS
  <2> HIDE DEF w
  <2>4. ASSUME NEW u \in Users
        PROVE  NewWrites(writes', u) = NewWrites(writes, u)
    <3>1. w \in Write => NewWrites(Append(writes, w), u) = NewWrites(writes, u)
      BY <1>1, <2>3, AppendNewWrite
    <3> QED  BY <2>2, <3>1
  <2> QED  BY <1>2, <2>1, <2>4, FewerSame
<1>14. CASE LetsGoBack \/ BucketSaved \/ SessionEnds
  BY <1>3, <1>14, FewerSame DEF LetsGoBack, BucketSaved, SessionEnds
<1>15. CASE WelcomeGetStarted \/ SeeOrganisations \/ BadgeContinue \/ ScreenRefreshes
  BY <1>3, <1>4, <1>15
     DEF WelcomeGetStarted, SeeOrganisations, BadgeContinue, PresentRoot, ShowRoot,
         ScreenRefreshes
<1>16. CASE LogoutButtonPressed
  BY <1>1, <1>3, <1>16, GoneRequestsFewer DEF LogoutButtonPressed, RedirectToAuth
<1>17. CASE UNCHANGED vars
  BY <1>3, <1>17, FewerSame DEF vars
<1>18. ASSUME NEW form \in {"signIn", "signUp"}, PresentForm(form)
       PROVE  Once'
  BY <1>3, <1>18, FewerSame DEF PresentForm
<1> QED
  BY <1>5, <1>6, <1>7, <1>8, <1>9, <1>10, <1>11, <1>12, <1>13,
     <1>14, <1>15, <1>16, <1>17, <1>18 DEF Next

-----------------------------------------------------------------------------
(* The cache is to show what is stored *)

(* Of the writes to u's document only the one that makes it is under way,   *)
(* in u's own session.                                                      *)
CleanWrites(ws, u) ==
    \A i \in 1 .. Len(ws) : ws[i].uid = u => ws[i].kind = "addUser" /\ ws[i].by = u /\ ws[i].waits

(* The amount that is stored, once the profile is made. *)
Stored(ws, doc, u) == IF NewWrites(ws, u) # {} THEN 0 ELSE doc

Owner == IF user = None THEN None ELSE user.email
Cached == IF user = None THEN 0 ELSE user.default

Current(u) ==
    u \notin unsure /\ CleanWrites(writes, u)
        => Shows(queue, Owner, Cached, u, Stored(writes, docs[u], u))

AllCurrent == \A u \in Users : Current(u)

LEMMA CleanAppend ==
    ASSUME NEW ws \in Seq(Write), NEW w \in Write, NEW u, CleanWrites(Append(ws, w), u)
    PROVE  CleanWrites(ws, u) /\ (w.uid = u => w.kind = "addUser" /\ w.by = u /\ w.waits)
  BY AppendWrite DEF CleanWrites

LEMMA CleanRemove ==
    ASSUME NEW ws \in Seq(Write), NEW i \in 1 .. Len(ws), NEW u,
           CleanWrites(RemoveAt(ws, i), u),
           ws[i].uid = u => ws[i].kind = "addUser" /\ ws[i].by = u /\ ws[i].waits
    PROVE  CleanWrites(ws, u)
<1>1. \A j \in 1 .. Len(ws) : j # i =>
          \E k \in 1 .. Len(RemoveAt(ws, i)) : RemoveAt(ws, i)[k] = ws[j]
  BY RemoveWrite
<1> HIDE DEF CleanWrites
<1>2. ASSUME NEW j \in 1 .. Len(ws), ws[j].uid = u
      PROVE  ws[j].kind = "addUser" /\ ws[j].by = u /\ ws[j].waits
  <2>1. CASE j = i
    BY <1>2, <2>1
  <2>2. CASE j # i
    <3>1. PICK k \in 1 .. Len(RemoveAt(ws, i)) : RemoveAt(ws, i)[k] = ws[j]
      BY <1>1, <2>2
    <3> QED  BY <1>2, <3>1 DEF CleanWrites
  <2> QED  BY <2>1, <2>2
<1> QED  BY <1>2 DEF CleanWrites

(* What the client shows of a profile that only is being made, or is there. *)
LEMMA ViewOfClean ==
    ASSUME TypeOK, Once, NEW u \in Users, CleanWrites(writes, u), View(u) # None
    PROVE  View(u) = Stored(writes, docs[u], u)
<1>1. docs \in Docs /\ writes \in Seq(Write)
  BY DEF TypeOK, Docs
<1>2. View(u) = IF \E i \in 1 .. Len(writes) :
                       writes[i].uid = u /\ writes[i].by = currentUser
                THEN 0 ELSE docs[u]
  BY <1>1, ViewOfProfiles DEF CleanWrites
<1>3. NewWrites(writes, u) # {} => docs[u] = None
  BY DEF Once, MadeOnce
<1>4. CASE \E i \in 1 .. Len(writes) : writes[i].uid = u /\ writes[i].by = currentUser
  <2>1. NewWrites(writes, u) # {}
    BY <1>4 DEF CleanWrites, NewWrites
  <2> QED  BY <1>2, <1>4, <2>1 DEF Stored
<1>5. CASE ~\E i \in 1 .. Len(writes) : writes[i].uid = u /\ writes[i].by = currentUser
  BY <1>2, <1>3, <1>5 DEF Stored
<1> QED  BY <1>4, <1>5

LEMMA NoCachedNone == \A v \in LendUser : v # None
<1>1. Amounts \subseteq Int
  BY AccountBounds DEF Amounts
<1>2. LendUser \subseteq [email : Users, default : Int]
  BY <1>1 DEF LendUser
<1> QED  BY <1>2, NoneAssumption

LEMMA InitCurrent == Init => AllCurrent
<1> SUFFICES ASSUME Init, NEW u \in Users
             PROVE  Shows(<<>>, Owner, Cached, u, Stored(writes, docs[u], u))
  BY DEF Init, AllCurrent, Current
<1>1. Owner # u
  BY NoneAssumption DEF Init, Owner
<1> QED  BY <1>1 DEF Shows, EndsWith

LEMMA QuietCurrent ==
    ASSUME NEW u \in Users, Current(u),
           u \notin unsure' => u \notin unsure,
           CleanWrites(writes', u) => CleanWrites(writes, u),
           Stored(writes', docs'[u], u) = Stored(writes, docs[u], u),
           \A b : Shows(queue, Owner, Cached, u, b) => Shows(queue', Owner', Cached', u, b)
    PROVE  Current(u)'
  BY DEF Current

(* Auth has answered, or a fetch. *)
LEMMA AnswerCurrent ==
    ASSUME TypeOK, Once, AllCurrent, NEW r \in requests,
           AuthAnswered(r) \/ CommitChangesAnswered(r) \/ FetchAnswered(r)
    PROVE  AllCurrent'
<1>1. /\ r \in Request /\ r.kind \in RequestKinds /\ r.kind \in Kinds
      /\ r.uid \in Users /\ r.here \in BOOLEAN /\ 0 \in Amounts
      /\ queue \in Seq(Callback) /\ docs \in Docs /\ writes \in Seq(Write)
  BY AccountBounds DEF TypeOK, Request, Kinds, Amounts, Docs
<1>2. UNCHANGED <<user, docs, writes>>
  BY DEF AuthAnswered, CommitChangesAnswered, FetchAnswered, appVars, firebaseVars
<1>3. Owner' = Owner /\ Cached' = Cached
  BY <1>2 DEF Owner, Cached
<1>4. View(r.uid) # None => View(r.uid) \in Amounts
  BY <1>1, ViewTypes
<1>5. PICK ok \in BOOLEAN, amount \in Amounts :
          /\ Dispatch(r.kind, r.uid, ok, amount, r.here)
          /\ \/ unsure' = unsure /\ (ok => r.kind \notin {"fetch", "signInFetch"})
             \/ /\ ok /\ r.kind \in {"fetch", "signInFetch"}
                /\ unsure' = unsure \ {r.uid}
                /\ View(r.uid) # None /\ amount = View(r.uid)
  <2>1. CASE AuthAnswered(r)
    BY <1>1, <2>1 DEF AuthAnswered
  <2>2. CASE CommitChangesAnswered(r)
    BY <1>1, <2>2 DEF CommitChangesAnswered, ghostVars
  <2>3. CASE FetchAnswered(r)
    BY <1>1, <1>4, <2>3 DEF FetchAnswered
  <2> QED  BY <2>1, <2>2, <2>3
<1> DEFINE c == [kind |-> r.kind, uid |-> r.uid, ok |-> ok, amount |-> amount, here |-> r.here]
<1>6. c \in Callback /\ queue' = Append(queue, c)
  BY <1>1, <1>5, DispatchTypes
<1>7. c.uid = r.uid /\ c.ok = ok /\ c.kind = r.kind /\ c.amount = amount
  OBVIOUS
<1> HIDE DEF c
<1> SUFFICES ASSUME NEW u \in Users
             PROVE  Current(u)'
  BY DEF AllCurrent
<1>8. Current(u)
  BY DEF AllCurrent
<1>9. CASE unsure' = unsure /\ (ok => r.kind \notin {"fetch", "signInFetch"})
  <2>1. ~IsFetch(c) /\ c.kind # "default"
    BY <1>1, <1>7, <1>9 DEF IsFetch, RequestKinds
  <2>2. \A b : Shows(queue, Owner, Cached, u, b) => Shows(Append(queue, c), Owner, Cached, u, b)
    BY <1>1, <1>6, <2>1, ShowsAppend
  <2> QED  BY <1>2, <1>3, <1>6, <1>8, <1>9, <2>2, QuietCurrent
<1>10. CASE /\ ok /\ r.kind \in {"fetch", "signInFetch"}
            /\ View(r.uid) # None /\ amount = View(r.uid)
  <2> SUFFICES ASSUME CleanWrites(writes, u)
               PROVE  Shows(Append(queue, c), Owner, Cached, u, Stored(writes, docs[u], u))
    BY <1>2, <1>3, <1>6 DEF Current
  <2>1. IsSet(c)
    BY <1>7, <1>10 DEF IsSet, IsFetch
  <2>2. c.uid = u => c.amount = Stored(writes, docs[u], u)
    BY <1>7, <1>10, ViewOfClean
  <2> QED  BY <1>1, <1>6, <2>1, <2>2, ShowsAppend
<1> QED  BY <1>5, <1>9, <1>10

LEMMA WriteAnsweredCurrent ==
    ASSUME TypeOK, Once, AllCurrent, NEW ok \in BOOLEAN, WriteAnswered(ok)
    PROVE  AllCurrent'
<1>1. PICK i \in 1 .. Len(writes) :
         LET w == writes[i]
         IN  /\ w \in Write /\ w.by = currentUser
             /\ ok => w.kind = "addUser" \/ docs[w.uid] # None
             /\ docs' = IF ok THEN [docs EXCEPT ![w.uid] = Apply(docs[w.uid], w)] ELSE docs
             /\ writes' = RemoveAt(writes, i)
             /\ IF w.waits THEN Dispatch(w.kind, w.uid, ok, w.amount, w.here)
                           ELSE UNCHANGED queue
             /\ unsure' = IF ok /\ w.waits /\ w.uid = currentUser THEN unsure
                          ELSE unsure \cup {w.uid}
             /\ user' = user
  BY WriteAnsweredMeans DEF appVars
<1> DEFINE w == writes[i]
           c == [kind |-> w.kind, uid |-> w.uid, ok |-> ok, amount |-> w.amount,
                 here |-> w.here]
<1>2. /\ w \in Write /\ w.uid \in Users /\ w.kind \in WriteKinds /\ w.kind \in Kinds
      /\ w.amount \in Amounts /\ w.here \in BOOLEAN /\ w.by = currentUser
      /\ queue \in Seq(Callback) /\ writes \in Seq(Write) /\ docs \in Docs
  BY <1>1 DEF Write, Kinds, TypeOK, Docs
<1>3. queue' = queue \/ (queue' = Append(queue, c) /\ c \in Callback)
  <2> HIDE DEF w
  <2> QED  BY <1>1, <1>2, DispatchTypes DEF w
<1>4. w.waits => queue' = Append(queue, c) /\ c \in Callback
  <2> HIDE DEF w
  <2> QED  BY <1>1, <1>2, DispatchTypes DEF w
<1>5. c.uid = w.uid /\ c.kind = w.kind /\ c.ok = ok /\ c.amount = w.amount /\ ~IsFetch(c)
  BY <1>2 DEF IsFetch, WriteKinds
<1>6. writes' = RemoveAt(writes, i) /\ Owner' = Owner /\ Cached' = Cached
  BY <1>1 DEF Owner, Cached
<1>7. unsure' = IF ok /\ w.waits /\ w.uid = currentUser THEN unsure ELSE unsure \cup {w.uid}
  BY <1>1
<1> HIDE DEF c
<1> SUFFICES ASSUME NEW u \in Users, u \notin unsure', CleanWrites(writes', u)
             PROVE  Shows(queue', Owner, Cached, u, Stored(writes', docs'[u], u))
  BY <1>6 DEF AllCurrent, Current
<1>8. u \notin unsure /\ Current(u) /\ MadeOnce(requests, queue, writes, docs[u], u)
  BY <1>7 DEF AllCurrent, Once
<1>9. CASE w.kind = "default" /\ w.uid = u
  <2>1. ok /\ w.waits
    BY <1>7, <1>9
  <2>2. docs[u] # None /\ docs'[u] = w.amount
    <3>1. docs[u] # None /\ docs'[u] = Apply(docs[u], w)
      BY <1>1, <1>2, <1>9, <2>1 DEF Docs
    <3>2. docs[u] \in Amounts \cup {None}
      BY <1>2 DEF Docs
    <3> HIDE DEF w
    <3> QED  BY <1>2, <1>9, <3>1, <3>2, ApplyTypes
  <2>3. NewWrites(writes', u) = {}
    <3>1. NewWrites(writes, u) = {}
      BY <1>8, <2>2 DEF MadeOnce
    <3>2. Fewer(NewWrites(RemoveAt(writes, i), u), NewWrites(writes, u))
      BY <1>2, RemoveWrite
    <3> QED  BY <1>6, <3>1, <3>2 DEF Fewer
  <2>4. IsSet(c) /\ c.amount = Stored(writes', docs'[u], u)
    BY <1>5, <1>9, <2>1, <2>2, <2>3 DEF IsSet, Stored
  <2> QED  BY <1>2, <1>4, <2>1, <2>4, ShowsAppend
<1>10. CASE w.kind = "addUser" /\ w.uid = u
  <2>1. ok /\ w.waits /\ w.by = u
    BY <1>1, <1>7, <1>10
  <2>2. CleanWrites(writes, u)
    BY <1>2, <1>6, <1>10, <2>1, CleanRemove
  <2>3. i \in NewWrites(writes, u)
    BY <1>10 DEF NewWrites
  <2>4. Stored(writes', docs'[u], u) = 0 /\ Stored(writes, docs[u], u) = 0
    <3>1. docs'[u] = Apply(docs[u], w)
      BY <1>1, <1>2, <1>10, <2>1 DEF Docs
    <3>2. docs'[u] = 0
      BY <1>10, <3>1 DEF Apply
    <3> QED  BY <2>3, <3>2 DEF Stored
  <2>5. Shows(queue, Owner, Cached, u, 0)
    BY <1>8, <2>2, <2>4 DEF Current
  <2>6. Shows(Append(queue, c), Owner, Cached, u, 0)
    BY <1>2, <1>4, <1>5, <1>10, <2>1, <2>5, ShowsAppend
  <2> QED  BY <1>4, <2>1, <2>4, <2>6
<1>11. CASE w.uid # u
  <2>1. CleanWrites(writes, u)
    BY <1>2, <1>6, <1>11, CleanRemove
  <2>2. docs'[u] = docs[u]
    BY <1>1, <1>2, <1>11 DEF Docs
  <2>3. NewWrites(writes', u) = {} <=> NewWrites(writes, u) = {}
    <3>1. i \notin NewWrites(writes, u)
      BY <1>11 DEF NewWrites
    <3>2. /\ Fewer(NewWrites(RemoveAt(writes, i), u), NewWrites(writes, u))
          /\ NewWrites(writes, u) # {} => NewWrites(RemoveAt(writes, i), u) # {}
      BY <1>2, <3>1, RemoveWrite
    <3> QED  BY <1>6, <3>2 DEF Fewer
  <2>4. Stored(writes', docs'[u], u) = Stored(writes, docs[u], u)
    BY <2>2, <2>3 DEF Stored
  <2>5. Shows(queue, Owner, Cached, u, Stored(writes, docs[u], u))
    BY <1>8, <2>1 DEF Current
  <2>6. c \in Callback =>
            Shows(Append(queue, c), Owner, Cached, u, Stored(writes, docs[u], u))
    BY <1>2, <1>5, <1>11, <2>5, ShowsAppend DEF WriteKinds
  <2> QED  BY <1>3, <2>4, <2>5, <2>6
<1> QED  BY <1>2, <1>9, <1>10, <1>11 DEF WriteKinds

(* A profile that is made is shown as it will be stored. *)
LEMMA MakesProfileCurrent ==
    ASSUME TypeOK, Once, AllCurrent, queue # <<>>, IsCreating(Event),
           AddUser(Event.uid, Event.here), queue' = Tail(queue), UNCHANGED <<docs, unsure>>
    PROVE  AllCurrent'
<1>1. /\ Event \in Callback /\ queue \in Seq(Callback) /\ writes \in Seq(Write)
      /\ Event.uid \in Users /\ Event.here \in BOOLEAN /\ Event = Head(queue)
      /\ Tail(queue) \in Seq(Callback)
  BY EventTypes DEF TypeOK, Callback, Event
<1> DEFINE w == [kind |-> "addUser", uid |-> Event.uid, by |-> currentUser,
                 amount |-> 0, here |-> Event.here, waits |-> TRUE]
<1>2. w \in Write /\ writes' = Append(writes, w) /\ user' = [email |-> Event.uid, default |-> 0]
  BY <1>1, AddUserAppends
<1>3. w.uid = Event.uid /\ w.kind = "addUser"
  OBVIOUS
<1> HIDE DEF w
<1>4. Owner' = Event.uid /\ Cached' = 0
  <2>1. user' # None
    BY <1>1, <1>2, NoCachedNone, AccountBounds DEF LendUser, Amounts
  <2> QED  BY <1>2, <2>1 DEF Owner, Cached
<1> SUFFICES ASSUME NEW u \in Users, u \notin unsure, CleanWrites(writes', u)
             PROVE  Shows(Tail(queue), Event.uid, 0, u, Stored(writes', docs[u], u))
  BY <1>4 DEF AllCurrent, Current
<1>5. NewWrites(writes', u) = IF Event.uid = u THEN NewWrites(writes, u) \cup {Len(writes) + 1}
                              ELSE NewWrites(writes, u)
  BY <1>1, <1>2, <1>3, AppendNewWrite
<1>6. CASE Event.uid = u
  <2>1. /\ NewCalls(queue, u) # {}
        /\ SetCalls(queue, u) = {} => SetCalls(Tail(queue), u) = {}
    BY <1>1, <1>6, TailCallFewer
  <2>2. SetCalls(Tail(queue), u) = {}
    BY <2>1 DEF Once, MadeOnce
  <2>3. \A i \in 1 .. Len(Tail(queue)) : IsSet(Tail(queue)[i]) => Tail(queue)[i].uid # u
    BY <2>2 DEF SetCalls
  <2>4. Shows(Tail(queue), Event.uid, 0, u, 0)
    BY <1>1, <2>3, ShowsCached
  <2> QED  BY <1>5, <1>6, <2>4 DEF Stored
<1>7. CASE Event.uid # u
  <2>1. CleanWrites(writes, u)
    BY <1>1, <1>2, CleanAppend
  <2>2. Shows(queue, Owner, Cached, u, Stored(writes, docs[u], u))
    BY <2>1 DEF AllCurrent, Current
  <2>3. Shows(Tail(queue), Event.uid, 0, u, Stored(writes, docs[u], u))
    BY <1>1, <1>7, <2>2, ShowsTail
  <2> QED  BY <1>5, <1>7, <2>3 DEF Stored
<1> QED  BY <1>6, <1>7

LEMMA CallbackCurrent ==
    ASSUME TypeOK, Once, AllCurrent, CallbackRuns
    PROVE  AllCurrent'
<1>1. /\ Event \in Callback /\ queue \in Seq(Callback) /\ queue # <<>>
      /\ Event.uid \in Users /\ Event.amount \in Amounts /\ Event = Head(queue)
      /\ queue' = Tail(queue) /\ UNCHANGED docs
      /\ user \in LendUser \cup {None}
      /\ unsure' = IF Event.kind = "default" THEN unsure \cup CacheBut(Event.uid) ELSE unsure
  BY EventTypes DEF CallbackRuns, TypeOK, firebaseVars, Callback, Event
<1>2. ASSUME writes' = writes,
             \A u \in Users : u \notin unsure' /\ Owner' = u =>
                 \/ /\ Owner = u /\ ~IsFetch(Event)
                    /\ Event.kind = "default" => Event.uid = u
                    /\ Cached' = IF IsSet(Event) THEN Event.amount ELSE Cached
                 \/ IsFetch(Event) /\ Event.uid = u /\ Cached' = Event.amount
      PROVE  AllCurrent'
  <2> SUFFICES ASSUME NEW u \in Users, u \notin unsure', CleanWrites(writes, u)
               PROVE  Shows(Tail(queue), Owner', Cached', u, Stored(writes, docs[u], u))
    BY <1>1, <1>2 DEF AllCurrent, Current
  <2>1. Shows(queue, Owner, Cached, u, Stored(writes, docs[u], u))
    BY <1>1 DEF AllCurrent, Current
  <2> QED  BY <1>1, <1>2, <2>1, ShowsTail
<1>3. ASSUME UNCHANGED <<user, writes>>, ~IsFetch(Event), Event.kind # "default"
      PROVE  AllCurrent'
  <2>1. Owner' = Owner /\ Cached' = Cached /\ ~IsSet(Event)
    BY <1>3 DEF Owner, Cached, IsSet
  <2> QED  BY <1>2, <1>3, <2>1
<1>4. CASE SignInReturned
  BY <1>3, <1>4 DEF SignInReturned, IsFetch
<1>5. CASE CreateUserReturned
  <2>1. CASE Event.ok /\ AddUser(Event.uid, Event.here)
    BY <1>1, <1>5, <2>1, MakesProfileCurrent DEF CreateUserReturned, IsCreating
  <2>2. CASE UNCHANGED <<user, writes>>
    BY <1>3, <1>5, <2>2 DEF CreateUserReturned, IsFetch
  <2> QED  BY <1>5, <2>1, <2>2 DEF CreateUserReturned
<1>6. CASE CommitChangesReturned
  BY <1>1, <1>6, MakesProfileCurrent DEF CommitChangesReturned, IsCreating
<1>7. CASE FetchReturned
  <2>1. CASE Event.ok
    <3>1. user' = [email |-> Event.uid, default |-> Event.amount] /\ IsFetch(Event)
      BY <1>7, <2>1 DEF FetchReturned, IsFetch
    <3>2. user' # None
      BY <3>1, <1>1, NoCachedNone DEF LendUser
    <3>3. Owner' = Event.uid /\ Cached' = Event.amount
      BY <3>1, <3>2 DEF Owner, Cached
    <3> QED  BY <1>2, <1>7, <3>1, <3>3 DEF FetchReturned
  <2>2. CASE ~Event.ok
    BY <1>3, <1>7, <2>2 DEF FetchReturned, IsFetch
  <2> QED  BY <2>1, <2>2
<1>8. CASE AddUserReturned
  BY <1>3, <1>8 DEF AddUserReturned, IsFetch
<1>9. CASE DefaultReturned
  <2>1. Event.kind = "default" /\ writes' = writes /\ ~IsFetch(Event) /\ (IsSet(Event) <=> Event.ok)
    BY <1>9 DEF DefaultReturned, IsFetch, IsSet
  <2>2. /\ Owner' = Owner
        /\ user # None => Cached' = IF Event.ok THEN Event.amount ELSE Cached
    <3>1. CASE Event.ok /\ user # None
      <4>1. user' = [user EXCEPT !.default = Event.amount] /\ user \in LendUser
        BY <1>1, <1>9, <3>1 DEF DefaultReturned
      <4>2. /\ user' \in LendUser /\ user'.email = user.email
            /\ user'.default = Event.amount
        BY <1>1, <4>1 DEF LendUser
      <4>3. user' # None
        BY <4>2, NoCachedNone
      <4> QED  BY <3>1, <4>2, <4>3 DEF Owner, Cached
    <3>2. CASE ~(Event.ok /\ user # None)
      <4>1. user' = user
        BY <1>9, <3>2 DEF DefaultReturned
      <4> QED  BY <3>2, <4>1 DEF Owner, Cached
    <3> QED  BY <3>1, <3>2
  <2>4. ASSUME NEW u \in Users, u \notin unsure', Owner' = u
        PROVE  user # None /\ Event.uid = u
    <3>1. user # None /\ user.email = u
      BY <2>2, <2>4, NoneAssumption DEF Owner
    <3> QED  BY <1>1, <2>1, <2>4, <3>1 DEF CacheBut
  <2> QED  BY <1>2, <2>1, <2>2, <2>4
<1> QED  BY <1>4, <1>5, <1>6, <1>7, <1>8, <1>9 DEF CallbackRuns

(* A new amount of the session's own profile is not yet stored; in another *)
(* donor's cached profile it makes that account unsure.                    *)
LEMMA AmountCurrent ==
    ASSUME TypeOK, AllCurrent, NEW v \in minAmount .. MaxAmount,
           StartContinue(v) \/ ChooseAmountContinue(v)
    PROVE  AllCurrent'
<1> DEFINE w == [kind |-> "default", uid |-> currentUser, by |-> currentUser,
                 amount |-> v, here |-> FALSE, waits |-> TRUE]
<1>1. UNCHANGED <<docs, queue>> /\ queue \in Seq(Callback) /\ writes \in Seq(Write)
  BY DEF StartContinue, ChooseAmountContinue, firebaseVars, TypeOK
<1>2. \/ w \in Write /\ writes' = Append(writes, w)
      \/ /\ writes' = writes
         /\ currentUser = None \/ (user # None /\ user.default = v)
  BY AmountAppends DEF StartContinue, ChooseAmountContinue
<1>3. w.uid = currentUser /\ w.kind = "default"
  OBVIOUS
<1> HIDE DEF w
<1> SUFFICES ASSUME NEW u \in Users, u \notin unsure', CleanWrites(writes', u)
             PROVE  Shows(queue, Owner', Cached', u, Stored(writes', docs[u], u))
  BY <1>1 DEF AllCurrent, Current
<1>4. u \notin unsure
  BY DEF StartContinue, ChooseAmountContinue, ghostVars
<1>5. /\ CleanWrites(writes, u) /\ Stored(writes', docs[u], u) = Stored(writes, docs[u], u)
      /\ u = currentUser => user # None /\ user.default = v
  <2>1. CASE w \in Write /\ writes' = Append(writes, w)
    <3>1. CleanWrites(writes, u) /\ u # currentUser
      BY <1>1, <1>3, <2>1, CleanAppend
    <3>2. NewWrites(writes', u) = NewWrites(writes, u)
      BY <1>1, <1>3, <2>1, AppendNewWrite
    <3> QED  BY <3>1, <3>2 DEF Stored
  <2>2. CASE writes' = writes /\ (currentUser = None \/ (user # None /\ user.default = v))
    BY <2>2, NoneAssumption DEF TypeOK
  <2> QED  BY <1>2, <2>1, <2>2
<1>6. Shows(queue, Owner, Cached, u, Stored(writes, docs[u], u))
  BY <1>4, <1>5 DEF AllCurrent, Current
<1>7. CASE user' = user
  BY <1>5, <1>6, <1>7 DEF Owner, Cached
<1>8. CASE user # None /\ StartContinue(v)
  <2>1. user' = [user EXCEPT !.default = v] /\ unsure' = unsure \cup CacheBut(currentUser)
    BY <1>8 DEF StartContinue
  <2>2. v \in Amounts /\ user \in LendUser
    BY <1>8, AccountBounds DEF TypeOK, Amounts, minAmount
  <2>3. user' \in LendUser /\ user'.email = user.email
    BY <2>1, <2>2 DEF LendUser
  <2>4. Owner = user.email /\ Owner' = user.email
    BY <1>8, <2>3, NoCachedNone DEF Owner
  <2>5. CASE user.email # u
    BY <1>1, <1>5, <1>6, <2>4, <2>5, ShowsOther
  <2>6. CASE user.email = u
    <3>1. u = currentUser
      BY <1>8, <2>1, <2>6 DEF CacheBut
    <3>2. user' = user
      BY <1>5, <2>1, <2>2, <3>1 DEF LendUser
    <3> QED  BY <1>7, <3>2
  <2> QED  BY <2>5, <2>6
<1> QED  BY <1>7, <1>8 DEF StartContinue, ChooseAmountContinue

LEMMA StepCurrent == TypeOK /\ Once /\ AllCurrent /\ [Next]_vars => AllCurrent'
<1> SUFFICES ASSUME TypeOK, Once, AllCurrent, [Next]_vars
             PROVE  AllCurrent'
  OBVIOUS
<1> USE DEF firebaseVars, ghostVars, appVars
<1>1. queue \in Seq(Callback) /\ writes \in Seq(Write)
  BY DEF TypeOK
<1>2. ASSUME UNCHANGED <<user, docs, queue, writes, unsure>>
      PROVE  AllCurrent'
  BY <1>2 DEF AllCurrent, Current, Owner, Cached
<1>3. ASSUME user' = None, UNCHANGED <<docs, queue, writes, unsure>>
      PROVE  AllCurrent'
  <2>1. Owner' = None
    BY <1>3 DEF Owner
  <2> SUFFICES ASSUME NEW u \in Users
               PROVE  Current(u)'
    BY DEF AllCurrent
  <2>2. u # None
    BY NoneAssumption
  <2>3. \A b : Shows(queue, Owner, Cached, u, b) => Shows(queue, None, Cached', u, b)
    BY <1>1, <2>2, ShowsOther
  <2> QED  BY <1>3, <2>1, <2>3 DEF AllCurrent, Current
<1>4. CASE Launch \/ GetStartedButtonPressed
  BY <1>2, <1>4 DEF Launch, GetStartedButtonPressed
<1>5. CASE Restart
  <2>1. Owner' = None /\ queue' = <<>>
    BY <1>5 DEF Restart, Owner
  <2>2. ASSUME NEW u \in Users, NEW b
        PROVE  Shows(<<>>, None, Cached', u, b)
    <3>1. u # None
      BY NoneAssumption
    <3> QED  BY <3>1 DEF Shows, EndsWith
  <2> QED  BY <2>1, <2>2 DEF AllCurrent, Current
<1>6. ASSUME NEW form \in {"signIn", "signUp"}, PresentForm(form)
      PROVE  AllCurrent'
  BY <1>2, <1>6 DEF PresentForm
<1>7. CASE FormLeft
  <2>1. /\ Len(writes') = Len(writes)
        /\ \A i \in 1 .. Len(writes) : writes'[i] = [writes[i] EXCEPT !.here = FALSE]
    BY <1>1, <1>7, GoneAllWrites DEF FormLeft
  <2>2. \A i \in 1 .. Len(writes) : writes[i] \in Write
    BY <1>1, ElementOfSeq
  <2>3. \A i \in 1 .. Len(writes) :
            /\ writes'[i].kind = writes[i].kind /\ writes'[i].uid = writes[i].uid
            /\ writes'[i].by = writes[i].by /\ writes'[i].waits = writes[i].waits
    BY <2>1, <2>2 DEF Write
  <2> SUFFICES ASSUME NEW u \in Users
               PROVE  Current(u)'
    BY DEF AllCurrent
  <2>4. CleanWrites(writes', u) => CleanWrites(writes, u)
    BY <2>1, <2>3 DEF CleanWrites
  <2>5. NewWrites(writes', u) = NewWrites(writes, u)
    BY <2>1, <2>3, SameWrites
  <2>6. \A b : Shows(queue, Owner, Cached, u, b) => Shows(GoneAll(queue), Owner, Cached, u, b)
    BY <1>1, ShowsGone
  <2>7. UNCHANGED <<user, docs, unsure>> /\ queue' = GoneAll(queue)
    BY <1>7 DEF FormLeft
  <2>8. Owner' = Owner /\ Cached' = Cached
    BY <2>7 DEF Owner, Cached
  <2>9. Stored(writes', docs'[u], u) = Stored(writes, docs[u], u)
    BY <2>5, <2>7 DEF Stored
  <2>10. Current(u)
    BY DEF AllCurrent
  <2> QED  BY <2>4, <2>6, <2>7, <2>8, <2>9, <2>10 DEF Current
<1>8. ASSUME NEW u \in Users, SignInButtonPressed(u) \/ SignUpButtonPressed(u)
      PROVE  AllCurrent'
  BY <1>2, <1>8 DEF SignInButtonPressed, SignUpButtonPressed
<1>9. ASSUME NEW r \in requests,
             AuthAnswered(r) \/ CommitChangesAnswered(r) \/ FetchAnswered(r)
      PROVE  AllCurrent'
  BY <1>9, AnswerCurrent
<1>10. ASSUME NEW ok \in BOOLEAN, WriteAnswered(ok)
       PROVE  AllCurrent'
  BY <1>10, WriteAnsweredCurrent
<1>11. CASE CallbackRuns
  BY <1>11, CallbackCurrent
<1>12. ASSUME NEW v \in minAmount .. MaxAmount, StartContinue(v) \/ ChooseAmountContinue(v)
       PROVE  AllCurrent'
  BY <1>12, AmountCurrent
<1>13. CASE LetsGoBack \/ BucketSaved \/ SessionEnds
  BY <1>2, <1>13 DEF LetsGoBack, BucketSaved, SessionEnds
<1>14. CASE WelcomeGetStarted \/ SeeOrganisations \/ BadgeContinue \/ ScreenRefreshes
  BY <1>2, <1>14
     DEF WelcomeGetStarted, SeeOrganisations, BadgeContinue, PresentRoot, ScreenRefreshes
<1>15. CASE LogoutButtonPressed
  BY <1>3, <1>15 DEF LogoutButtonPressed, ResetUserData
<1>16. CASE UNCHANGED vars
  BY <1>2, <1>16 DEF vars
<1> QED
  BY <1>4, <1>5, <1>6, <1>7, <1>8, <1>9, <1>10, <1>11, <1>12, <1>13,
     <1>14, <1>15, <1>16 DEF Next

(* With nothing left to run, the cache is what it will show. *)
LEMMA CurrentIsStored ==
    ASSUME TypeOK, AllCurrent
    PROVE  CacheIsStored
<1> SUFFICES ASSUME user # None, currentUser # None, user.email = currentUser,
                    currentUser \notin unsure, queue = <<>>,
                    \A i \in DOMAIN writes : writes[i].uid # currentUser
             PROVE  docs[currentUser] = user.default
  BY DEF CacheIsStored
<1>1. currentUser \in Users /\ DOMAIN writes = 1 .. Len(writes)
  BY LenProperties DEF TypeOK
<1>2. CleanWrites(writes, currentUser) /\ NewWrites(writes, currentUser) = {}
  BY <1>1 DEF CleanWrites, NewWrites
<1>3. Shows(<<>>, currentUser, user.default, currentUser, docs[currentUser])
  BY <1>1, <1>2 DEF AllCurrent, Current, Stored, Owner, Cached
<1>4. Len(<<>>) = 0
  OBVIOUS
<1>5. /\ EndsWith(<<>>, currentUser, currentUser, 0) /\ Keeps(<<>>, currentUser, 0)
      /\ IsLast(<<>>, 0, 0) /\ AmountAt(<<>>, user.default, 0) = user.default
  BY <1>4 DEF EndsWith, Keeps, IsLast, AmountAt
<1>6. 0 \in 0 .. Len(<<>>)
  BY <1>4
<1> QED  BY <1>3, <1>5, <1>6 DEF Shows

-----------------------------------------------------------------------------
(* The theorems *)

(* The session, the cache, the documents and what is under way keep their   *)
(* types, whatever Firebase answers and whenever it does.                   *)
THEOREM AccountTypes == Spec => []TypeOK
<1>1. Init => TypeOK
  BY InitTypes
<1>2. TypeOK /\ [Next]_vars => TypeOK'
  BY StepTypes
<1> QED  BY <1>1, <1>2, PTL DEF Spec

(* A session sees its own donor's profile and saved bucket only, but for   *)
(* what an earlier session left behind that ended without a logout or with *)
(* requests under way (SettingsViewController, logoutButtonPressed;        *)
(* FirebaseManager, signIn and signOut; UserManager, resetUserData).       *)
THEOREM AccountNothingOfOthers == Spec => []NothingOfOthers
<1>1. Init => TypeOK /\ Owners
  BY InitTypes, InitOwners
<1>2. TypeOK /\ Owners /\ [Next]_vars => TypeOK' /\ Owners'
  BY StepTypes, StepOwners
<1>3. Owners => NothingOfOthers
  BY DEF Owners, NothingOfOthers, Seen
<1> QED  BY <1>1, <1>2, <1>3, PTL DEF Spec

(* Once no write and no callback is under way, the cached amount of the     *)
(* session's donor is the stored one, unless a refused write, a restart or *)
(* another donor's session has made the account unsure since its last      *)
(* fetch (StartDonateViewController, continue; FirebaseManager, addUser,   *)
(* fetchUpdateUser and updateDefaultDonateAmount).                         *)
THEOREM AccountCacheIsStored == Spec => []CacheIsStored
<1> DEFINE Inv == TypeOK /\ Known /\ Once /\ AllCurrent
<1>1. Init => Inv
  BY InitTypes, InitKnown, InitOnce, InitCurrent
<1>2. Inv /\ [Next]_vars => Inv'
  BY StepTypes, StepKnown, StepOnce, StepCurrent
<1>3. Inv => CacheIsStored
  BY CurrentIsStored
<1> QED  BY <1>1, <1>2, <1>3, PTL DEF Spec
=============================================================================
