--------------------------- MODULE FirestoreSteps ---------------------------
(***************************************************************************)
(* The inductive invariant of FirestoreWrites, for any users, refusals and *)
(* bounds, and the steps that settle no write: each keeps it.  First what  *)
(* is under way between a pipeline and the backend, how the operations of  *)
(* the remote store leave it, the worker queue and the batches of a user.  *)
(***************************************************************************)
EXTENDS FirestoreWrites, FiniteSetTheorems, SequenceTheorems, TLAPS

IsToken(t) == t.task = "token"

(* At most one call of GetToken, or its answer, is for the stream that is  *)
(* starting; the others are for streams that were closed.                  *)
OneToken(r, tasks) ==
    /\ \A a \in r.asks : a.close <= r.closes /\ (a.close = r.closes => r.stream = "Starting")
    /\ \A i \in 1 .. Len(tasks) : IsToken(tasks[i]) =>
          tasks[i].close <= r.closes /\ (tasks[i].close = r.closes => r.stream = "Starting")
    /\ \A a, b \in r.asks : a.close = r.closes /\ b.close = r.closes => a = b
    /\ \A i, j \in 1 .. Len(tasks) :
          IsToken(tasks[i]) /\ IsToken(tasks[j])
             /\ tasks[i].close = r.closes /\ tasks[j].close = r.closes => i = j
    /\ \A a \in r.asks : \A i \in 1 .. Len(tasks) :
          ~(IsToken(tasks[i]) /\ a.close = r.closes /\ tasks[i].close = r.closes)

RowsInOrder(q) ==
    \A i, j \in 1 .. Len(q) : i < j => q[i].id < q[j].id /\ q[i].w.n < q[j].w.n
RowsOf(q, u) == \A i \in 1 .. Len(q) : q[i].w.by = u
IdsUpTo(q, m) == \A i \in 1 .. Len(q) : q[i].id <= m

(* The answers of a stream that were not seen yet. *)
Taken(r) == Len(r.net.down) + IF IsIn("ok", r.net.events) THEN 1 ELSE 0

(* What is under way on an open stream: the handshake, and after it the    *)
(* answers to the first writes of the pipeline, then the others.  c are    *)
(* the writes that were stored, s is the last that was.                    *)
Greeting(r) ==
    \/ /\ r.net.status = "none"
       /\ \/ r.net.up = <<Hello>> /\ r.net.down = <<>> /\ r.net.events = <<>>
          \/ r.net.up = <<>> /\ r.net.down = <<"hello">> /\ r.net.events = <<>>
          \/ r.net.up = <<>> /\ r.net.down = <<>> /\ r.net.events = <<"hello">>
    \/ /\ r.net.status # "none"
       /\ r.net.up = <<>> /\ r.net.down = <<>>
       /\ \/ r.net.events = <<>> \/ r.net.events = <<"failed">>
          \/ r.net.events = <<"hello">> /\ r.net.status = "broken"

Sending(r, c, s) ==
    /\ \A i \in 1 .. Len(r.net.down) : r.net.down[i] = "ok"
    /\ \/ r.net.events = <<>> \/ r.net.events = <<"ok">>
       \/ /\ r.net.status # "none"
          /\ \/ r.net.events = <<"failed">>
             \/ r.net.events = <<"ok", "failed">>
             \/ r.net.events = <<"failed", "ok">>
    /\ Taken(r) <= Len(r.pipeline)
    /\ \A i \in 1 .. Taken(r) : r.pipeline[i].w \in c /\ r.pipeline[i].w.n <= s
    /\ r.net.status = "none" =>
          r.net.up = SubSeq(r.pipeline, Taken(r) + 1, Len(r.pipeline))
    /\ r.net.status # "none" => r.net.up = <<>>
    /\ r.net.status = "refused" =>
          Taken(r) < Len(r.pipeline) /\ r.pipeline[Taken(r) + 1].w \in Refused

InFlight(r, c, s) ==
    r.net.open => IF r.handshake THEN Sending(r, c, s) ELSE Greeting(r)

IsPrefix(p, q) == Len(p) <= Len(q) /\ \A i \in 1 .. Len(p) : p[i] = q[i]

RemoteFits(r, q, u, c, s) ==
    /\ r \in Remotes
    /\ r.net.open <=> r.stream = "Open"
    /\ r.net.open => r.net.token = u
    /\ r.idle => r.stream = "Open" /\ r.handshake /\ r.pipeline = <<>>
    /\ IsPrefix(r.pipeline, q)
    /\ InFlight(r, c, s)

RemoteOK(r, q, u, c, s) ==
    RemoteFits(r, q, u, c, s) /\ (r.handshake => r.stream = "Open")

-----------------------------------------------------------------------------
(* Sequences of at most two elements *)

LEMMA InShort ==
    /\ \A x : ~IsIn(x, <<>>)
    /\ \A x, a : IsIn(x, <<a>>) <=> x = a
    /\ \A x, a, b : IsIn(x, <<a, b>>) <=> x = a \/ x = b
<1>1. \A x : ~IsIn(x, <<>>)
  BY DEF IsIn
<1>2. \A x, a : IsIn(x, <<a>>) <=> x = a
  BY DEF IsIn
<1>3. \A x, a, b : IsIn(x, <<a, b>>) <=> x = a \/ x = b
  BY DEF IsIn
<1> QED  BY <1>1, <1>2, <1>3

LEMMA AppendShort ==
    /\ \A x : Append(<<>>, x) = <<x>>
    /\ \A x, a : Append(<<a>>, x) = <<a, x>>
<1>1. \A x : Append(<<>>, x) = <<x>>
  OBVIOUS
<1>2. ASSUME NEW x, NEW a
      PROVE  Append(<<a>>, x) = <<a, x>>
  <2>1. <<a>> \in Seq({a, x}) /\ <<a, x>> \in Seq({a, x})
    OBVIOUS
  <2>2. /\ Append(<<a>>, x) \in Seq({a, x})
        /\ Len(Append(<<a>>, x)) = 2
        /\ Append(<<a>>, x)[1] = a /\ Append(<<a>>, x)[2] = x
    BY <2>1, AppendProperties
  <2> DEFINE e == Append(<<a>>, x)
             f == <<a, x>>
  <2>3. f[1] = a /\ f[2] = x /\ Len(f) = 2
    OBVIOUS
  <2>4. e \in Seq({a, x}) /\ f \in Seq({a, x}) /\ Len(e) = Len(f)
    BY <2>1, <2>2, <2>3
  <2>5. \A i \in 1 .. Len(e) : e[i] = f[i]
    <3> HIDE DEF e, f
    <3> SUFFICES \A i \in 1 .. 2 : e[i] = f[i]
      BY <2>3, <2>4
    <3> QED  BY <2>2, <2>3 DEF e
  <2> HIDE DEF e, f
  <2>6. e = f
    BY <2>4, <2>5, SeqEqual
  <2> QED  BY <2>6 DEF e, f
<1> QED  BY <1>1, <1>2

(* What has happened on a stream: at most an answer and a failure. *)
LEMMA EventsShort ==
    /\ ~IsIn("ok", <<>>) /\ ~IsIn("failed", <<>>)
    /\ IsIn("ok", <<"ok">>) /\ ~IsIn("failed", <<"ok">>)
    /\ ~IsIn("ok", <<"failed">>) /\ IsIn("failed", <<"failed">>)
    /\ ~IsIn("ok", <<"hello">>) /\ ~IsIn("failed", <<"hello">>)
    /\ IsIn("ok", <<"ok", "failed">>) /\ IsIn("failed", <<"ok", "failed">>)
    /\ IsIn("ok", <<"failed", "ok">>) /\ IsIn("failed", <<"failed", "ok">>)
    /\ Append(<<>>, "failed") = <<"failed">> /\ Append(<<"ok">>, "failed") = <<"ok", "failed">>
    /\ Append(<<>>, "ok") = <<"ok">> /\ Append(<<"failed">>, "ok") = <<"failed", "ok">>
    /\ Append(<<>>, "hello") = <<"hello">>
  BY InShort, AppendShort

LEMMA TailShort ==
    /\ \A a : Head(<<a>>) = a /\ Tail(<<a>>) = <<>>
    /\ \A a, b : Head(<<a, b>>) = a /\ Tail(<<a, b>>) = <<b>>
<1>1. \A a : Head(<<a>>) = a /\ Tail(<<a>>) = <<>>
  OBVIOUS
<1>2. \A a, b : Head(<<a, b>>) = a /\ Tail(<<a, b>>) = <<b>>
  OBVIOUS
<1> QED  BY <1>1, <1>2

LEMMA DifferShort ==
    /\ \A a, b : a # b => <<a>> # <<b>>
    /\ \A a : <<a>> # <<>> /\ Len(<<a>>) = 1
    /\ \A a, b : <<a, b>> # <<>> /\ Len(<<a, b>>) = 2
                /\ <<a, b>>[1] = a /\ <<a, b>>[2] = b
  OBVIOUS

LEMMA SubSeqFrom ==
    ASSUME NEW S, NEW q \in Seq(S), NEW k \in 0 .. Len(q)
    PROVE  LET rest == SubSeq(q, k + 1, Len(q)) IN
           /\ rest \in Seq(S) /\ Len(rest) = Len(q) - k
           /\ \A i \in 1 .. Len(q) - k : rest[i] = q[k + i]
<1> DEFINE m == k + 1
           n == Len(q)
<1>1. k \in Int /\ m \in Int /\ n \in Int /\ k <= n /\ \A i \in m .. n : q[i] \in S
  BY LenProperties, ElementOfSeq
<1> HIDE DEF m, n
<1>2. /\ SubSeq(q, m, n) \in Seq(S)
      /\ Len(SubSeq(q, m, n)) = IF m <= n THEN n - m + 1 ELSE 0
      /\ \A i \in 1 .. n - m + 1 : SubSeq(q, m, n)[i] = q[m + i - 1]
  BY <1>1, SubSeqProperties
<1> QED  BY <1>1, <1>2 DEF m, n

(* The end of a sequence grows with it. *)
LEMMA SubSeqOfMore ==
    ASSUME NEW S, NEW p \in Seq(S), NEW more \in Seq(S), NEW t \in 0 .. Len(p)
    PROVE  SubSeq(p, t + 1, Len(p)) \o more = SubSeq(p \o more, t + 1, Len(p \o more))
<1>1. t \in Nat /\ Len(p) \in Nat /\ Len(more) \in Nat /\ t <= Len(p)
  BY LenProperties
<1> DEFINE rest == SubSeq(p, t + 1, Len(p))
           all  == p \o more
           end  == SubSeq(all, t + 1, Len(all))
           both == rest \o more
<1>2. /\ rest \in Seq(S)
      /\ Len(rest) = Len(p) - t
      /\ \A i \in 1 .. Len(p) - t : rest[i] = p[t + i]
  BY SubSeqFrom
<1>3. /\ all \in Seq(S)
      /\ Len(all) = Len(p) + Len(more)
      /\ \A i \in 1 .. Len(p) + Len(more) :
             all[i] = IF i <= Len(p) THEN p[i] ELSE more[i - Len(p)]
  BY ConcatProperties
<1>4. /\ end \in Seq(S)
      /\ Len(end) = Len(all) - t
      /\ \A i \in 1 .. Len(all) - t : end[i] = all[t + i]
  <2>1. t \in 0 .. Len(all) /\ all \in Seq(S)
    BY <1>1, <1>3
  <2> HIDE DEF all
  <2> QED  BY <2>1, SubSeqFrom
<1>5. /\ both \in Seq(S)
      /\ Len(both) = Len(rest) + Len(more)
      /\ \A i \in 1 .. Len(rest) + Len(more) :
             both[i] = IF i <= Len(rest) THEN rest[i] ELSE more[i - Len(rest)]
  <2> HIDE DEF rest
  <2> QED  BY <1>2, ConcatProperties
<1> HIDE DEF rest, all, end, both
<1> DEFINE n == Len(p)
           k == Len(more)
<1>6. n \in Nat /\ k \in Nat /\ t \in 0 .. n /\ Len(rest) = n - t /\ Len(all) = n + k
  BY <1>1, <1>2, <1>3
<1>7. /\ \A i \in 1 .. n - t : rest[i] = p[t + i]
      /\ \A i \in 1 .. n + k : all[i] = IF i <= n THEN p[i] ELSE more[i - n]
  BY <1>2, <1>3
<1>8. Len(both) = n - t + k /\ Len(end) = n + k - t
  BY <1>4, <1>5, <1>6
<1>9. /\ \A i \in 1 .. n + k - t : end[i] = all[t + i]
      /\ \A i \in 1 .. n - t + k :
            both[i] = IF i <= n - t THEN rest[i] ELSE more[i - (n - t)]
  BY <1>4, <1>5, <1>6
<1> HIDE DEF n, k
<1>10. ASSUME NEW i \in 1 .. n - t + k
       PROVE  both[i] = end[i]
  <2>1. end[i] = all[t + i] /\ t + i \in 1 .. n + k
    BY <1>6, <1>9
  <2>2. CASE i <= n - t
    <3>1. both[i] = rest[i]
      BY <2>2, <1>6, <1>9
    <3>2. i \in 1 .. n - t /\ t + i <= n
      BY <2>2, <1>6
    <3>3. rest[i] = p[t + i]
      BY <3>2, <1>7
    <3>4. all[t + i] = p[t + i]
      BY <2>1, <3>2, <1>7
    <3> QED  BY <2>1, <3>1, <3>3, <3>4
  <2>3. CASE i > n - t
    <3>1. both[i] = more[i - (n - t)]
      BY <2>3, <1>6, <1>9
    <3>2. all[t + i] = more[t + i - n]
      BY <2>1, <2>3, <1>6, <1>7
    <3>3. t + i - n = i - (n - t)
      BY <1>6
    <3> QED  BY <2>1, <3>1, <3>2, <3>3
  <2> QED  BY <2>2, <2>3, <1>6
<1>11. both = end
  <2>1. Len(both) = Len(end) /\ \A i \in 1 .. Len(both) : both[i] = end[i]
    BY <1>6, <1>8, <1>10
  <2> QED  BY <2>1, <1>4, <1>5, SeqEqual
<1> QED  BY <1>11 DEF both, end, rest, all

-----------------------------------------------------------------------------
(* Filling the pipeline *)

(* What is not in the pipeline of an ordered queue is the rest of it. *)
LEMMA UnsentIs ==
    ASSUME NEW r \in Remotes, NEW q \in Seq(Batches),
           RowsInOrder(q), IsPrefix(r.pipeline, q)
    PROVE  Unsent(r, q) = SubSeq(q, Len(r.pipeline) + 1, Len(q))
<1> DEFINE p == r.pipeline
           last == IF p = <<>> THEN -1 ELSE p[Len(p)].id
           sent == {i \in DOMAIN q : q[i].id <= last}
<1>1. p \in Seq(Batches) /\ Len(p) \in Nat /\ Len(q) \in Nat /\ DOMAIN q = 1 .. Len(q)
  BY LenProperties DEF Remotes
<1>2. \A i \in 1 .. Len(q) : q[i].id \in Nat
  <2>1. \A i \in 1 .. Len(q) : q[i] \in Batches
    BY ElementOfSeq
  <2> QED  BY <2>1 DEF Batches
<1>3. sent = 1 .. Len(p)
  <2>1. CASE p = <<>>
    BY <2>1, <1>1, <1>2
  <2>2. CASE p # <<>>
    <3>1. Len(p) \in 1 .. Len(q) /\ last = q[Len(p)].id
      BY <2>2, <1>1 DEF IsPrefix
    <3>2. \A i \in 1 .. Len(q) : q[i].id <= last <=> i <= Len(p)
      <4> TAKE i \in 1 .. Len(q)
      <4>1. CASE i < Len(p)
        BY <4>1, <3>1, <1>2 DEF RowsInOrder
      <4>2. CASE i = Len(p)
        BY <4>2, <3>1, <1>2
      <4>3. CASE i > Len(p)
        BY <4>3, <3>1, <1>2 DEF RowsInOrder
      <4> QED  BY <4>1, <4>2, <4>3, <1>1
    <3> QED  BY <3>1, <3>2, <1>1
  <2> QED  BY <2>1, <2>2
<1>4. Cardinality(1 .. Len(p)) = Len(p)
  <2>1. ASSUME NEW n \in Nat
        PROVE  Cardinality(1 .. n) = n
    <3>1. Cardinality(1 .. n) = IF 1 > n THEN 0 ELSE n - 1 + 1
      BY FS_Interval
    <3> QED  BY <3>1
  <2> QED  BY <1>1, <2>1
<1> QED  BY <1>3, <1>4 DEF Unsent

(* The batches that are added to the pipeline keep it a prefix. *)
LEMMA MoreOfQueue ==
    ASSUME NEW p \in Seq(Batches), NEW q \in Seq(Batches), IsPrefix(p, q),
           NEW k \in Int, k <= Len(q) - Len(p)
    PROVE  LET more == SubSeq(SubSeq(q, Len(p) + 1, Len(q)), 1, k) IN
           /\ more \in Seq(Batches)
           /\ p \o more \in Seq(Batches)
           /\ IsPrefix(p \o more, q)
           /\ k > 0 => more # <<>>
           /\ p \o more = <<>> => p = <<>> /\ more = <<>>
<1> DEFINE unsent == SubSeq(q, Len(p) + 1, Len(q))
           more == SubSeq(unsent, 1, k)
<1>1. /\ Len(p) \in Nat /\ Len(q) \in Nat /\ Len(p) <= Len(q)
      /\ \A i \in 1 .. Len(q) : q[i] \in Batches
  BY LenProperties, ElementOfSeq DEF IsPrefix
<1>2. /\ unsent \in Seq(Batches)
      /\ Len(unsent) = Len(q) - Len(p)
      /\ \A i \in 1 .. Len(q) - Len(p) : unsent[i] = q[Len(p) + i]
  BY <1>1, SubSeqFrom
<1> HIDE DEF unsent
<1>3. \A i \in 1 .. k : unsent[i] \in Batches
  BY <1>1, <1>2, ElementOfSeq
<1>4. /\ more \in Seq(Batches)
      /\ Len(more) = IF 1 <= k THEN k ELSE 0
      /\ \A i \in 1 .. k : more[i] = unsent[i]
  <2>1. /\ more \in Seq(Batches)
        /\ Len(more) = IF 1 <= k THEN k - 1 + 1 ELSE 0
        /\ \A i \in 1 .. k - 1 + 1 : more[i] = unsent[1 + i - 1]
    BY <1>3, SubSeqProperties
  <2> QED  BY <2>1
<1> HIDE DEF more
<1>5. /\ p \o more \in Seq(Batches)
      /\ Len(p \o more) = Len(p) + Len(more)
      /\ \A i \in 1 .. Len(p) + Len(more) :
             (p \o more)[i] = IF i <= Len(p) THEN p[i] ELSE more[i - Len(p)]
  BY <1>4, ConcatProperties
<1>6. IsPrefix(p \o more, q)
  <2>1. Len(p \o more) <= Len(q)
    <3>1. Len(more) = 0 \/ Len(more) = k
      BY <1>4
    <3> QED  BY <3>1, <1>1, <1>5
  <2>2. ASSUME NEW i \in 1 .. Len(p \o more)
        PROVE  (p \o more)[i] = q[i]
    <3>1. CASE i <= Len(p)
      BY <3>1, <1>1, <1>5 DEF IsPrefix
    <3>2. CASE i > Len(p)
      <4>1. i - Len(p) \in 1 .. k /\ (p \o more)[i] = more[i - Len(p)]
        <5>1. Len(more) = 0 \/ Len(more) = k
          BY <1>4
        <5> QED  BY <5>1, <3>2, <1>1, <1>4, <1>5
      <4>2. i - Len(p) \in 1 .. Len(q) - Len(p) /\ Len(p) + (i - Len(p)) = i
        BY <4>1, <1>1
      <4> QED  BY <4>1, <4>2, <1>2, <1>4
    <3> QED  BY <3>1, <3>2, <1>1
  <2> QED  BY <2>1, <2>2 DEF IsPrefix
<1>7. k > 0 => more # <<>>
  BY <1>4, EmptySeq
<1>8. p \o more = <<>> => p = <<>> /\ more = <<>>
  <2> SUFFICES ASSUME p \o more = <<>>
               PROVE  Len(p) = 0 /\ Len(more) = 0
    BY <1>4, EmptySeq
  <2>1. Len(p \o more) = 0
    BY EmptySeq
  <2> QED  BY <2>1, <1>1, <1>4, <1>5, LenProperties
<1> QED  BY <1>4, <1>5, <1>6, <1>7, <1>8 DEF more, unsent

-----------------------------------------------------------------------------
(* The record of the remote store *)

LEMMA RemoteFields ==
    ASSUME NEW r \in Remotes
    PROVE  /\ r.pipeline \in Seq(Batches) /\ r.closes \in Nat /\ r.asks \subseteq Asks
           /\ r.handshake \in BOOLEAN /\ r.idle \in BOOLEAN
           /\ r.net.open \in BOOLEAN
           /\ r.net.open =>
                 /\ r.net \in [open : {TRUE}, token : Users,
                               up : Seq(Batches \cup {Hello}),
                               down : Seq({"hello", "ok"}),
                               status : {"none", "refused", "broken"},
                               events : Seq({"hello", "ok", "failed"})]
                 /\ r.net.up \in Seq(Batches \cup {Hello})
                 /\ r.net.down \in Seq({"hello", "ok"})
                 /\ r.net.events \in Seq({"hello", "ok", "failed"})
                 /\ r.net.token \in Users
           /\ ~r.net.open => r.net = NoStream
<1>1. /\ r.pipeline \in Seq(Batches) /\ r.closes \in Nat /\ r.asks \subseteq Asks
      /\ r.handshake \in BOOLEAN /\ r.idle \in BOOLEAN /\ r.net \in Streams
  BY DEF Remotes
<1>2. CASE r.net = NoStream
  BY <1>1, <1>2 DEF NoStream
<1>3. CASE r.net \in [open : {TRUE}, token : Users,
                     up : Seq(Batches \cup {Hello}),
                     down : Seq({"hello", "ok"}),
                     status : {"none", "refused", "broken"},
                     events : Seq({"hello", "ok", "failed"})]
  BY <1>1, <1>3
<1> QED  BY <1>1, <1>2, <1>3 DEF Streams

(* Writing on an open stream leaves all but its messages alone. *)
LEMMA WriteFields ==
    ASSUME NEW r \in Remotes, r.net.open,
           NEW m \in Seq(Batches \cup {Hello})
    PROVE  LET f == Write(r, m) IN
           /\ f \in Remotes
           /\ f.pipeline = r.pipeline /\ f.stream = r.stream
           /\ f.handshake = r.handshake /\ f.closes = r.closes /\ f.asks = r.asks
           /\ f.idle = FALSE
           /\ f.net.open /\ f.net.token = r.net.token
           /\ f.net.down = r.net.down /\ f.net.status = r.net.status
           /\ f.net.up = IF r.net.status = "none" THEN r.net.up \o m ELSE r.net.up
           /\ f.net.events = IF r.net.status = "none" \/ IsIn("failed", r.net.events)
                             THEN r.net.events ELSE Append(r.net.events, "failed")
<1>1. r.net.up \o m \in Seq(Batches \cup {Hello})
  BY RemoteFields, ConcatProperties
<1>2. Append(r.net.events, "failed") \in Seq({"hello", "ok", "failed"})
  BY RemoteFields, AppendProperties
<1> DEFINE n == GrpcWrite(r.net, m)
<1>3. /\ n \in Streams /\ n.open /\ n.token = r.net.token
      /\ n.down = r.net.down /\ n.status = r.net.status
      /\ n.up = IF r.net.status = "none" THEN r.net.up \o m ELSE r.net.up
      /\ n.events = IF r.net.status = "none" \/ IsIn("failed", r.net.events)
                    THEN r.net.events ELSE Append(r.net.events, "failed")
  <2> DEFINE T == [open : {TRUE}, token : Users,
                   up : Seq(Batches \cup {Hello}),
                   down : Seq({"hello", "ok"}),
                   status : {"none", "refused", "broken"},
                   events : Seq({"hello", "ok", "failed"})]
  <2>1. r.net \in T
    BY RemoteFields
  <2>2. CASE r.net.status = "none"
    BY <2>1, <2>2, <1>1 DEF Streams, GrpcWrite
  <2>3. CASE r.net.status # "none" /\ IsIn("failed", r.net.events)
    BY <2>1, <2>3 DEF Streams, GrpcWrite
  <2>4. CASE r.net.status # "none" /\ ~IsIn("failed", r.net.events)
    BY <2>1, <2>4, <1>2 DEF Streams, GrpcWrite
  <2> QED  BY <2>2, <2>3, <2>4
<1>4. Write(r, m) = [r EXCEPT !.idle = FALSE, !.net = n]
  BY DEF Write
<1> HIDE DEF n
<1> QED  BY <1>3, <1>4 DEF Remotes

LEMMA TakenIs ==
    ASSUME NEW r, Len(r.net.down) \in Nat
    PROVE  /\ IsIn("ok", r.net.events) => Taken(r) = Len(r.net.down) + 1
           /\ ~IsIn("ok", r.net.events) => Taken(r) = Len(r.net.down)
<1>1. CASE IsIn("ok", r.net.events)
  BY <1>1 DEF Taken
<1>2. CASE ~IsIn("ok", r.net.events)
  BY <1>2 DEF Taken
<1> QED  BY <1>1, <1>2

AskNow(r) == [close |-> r.closes, counter |-> counter, by |-> auth]

(* f is r, or r with its stream on the way up. *)
MayStart(r, f) ==
    /\ f.closes = r.closes
    /\ \/ f.stream = r.stream /\ f.asks = r.asks
       \/ r.stream = "Error" /\ f.stream = "Backoff" /\ f.asks = r.asks
       \/ r.stream = "Initial" /\ f.stream = "Starting" /\ f.asks = r.asks \cup {AskNow(r)}

LEMMA StartFields ==
    ASSUME NEW r \in Remotes, auth \in Users, counter \in 0 .. MaxChanges,
           r.stream \in {"Initial", "Error"}
    PROVE  /\ Start(r) \in Remotes /\ MayStart(r, Start(r))
           /\ Start(r).pipeline = r.pipeline /\ Start(r).handshake = r.handshake
           /\ Start(r).idle = r.idle /\ Start(r).net = r.net
           /\ Start(r).stream \in {"Starting", "Backoff"}
<1> DEFINE asks == r.asks \cup {AskNow(r)}
<1>1. CASE r.stream = "Error"
  BY <1>1 DEF Start, MayStart, Remotes
<1>2. CASE r.stream = "Initial"
  <2>1. AskNow(r) \in Asks
    BY DEF AskNow, Asks, Remotes
  <2>2. asks \subseteq Asks
    BY <2>1 DEF Remotes
  <2>3. Start(r) = [r EXCEPT !.stream = "Starting", !.asks = asks]
    BY <1>2 DEF Start, RequestCredentials, AskNow, Remotes
  <2> HIDE DEF asks
  <2>4. /\ Start(r) \in Remotes
        /\ Start(r).stream = "Starting" /\ Start(r).asks = asks
        /\ Start(r).closes = r.closes
        /\ Start(r).pipeline = r.pipeline /\ Start(r).handshake = r.handshake
        /\ Start(r).idle = r.idle /\ Start(r).net = r.net
    BY <2>2, <2>3 DEF Remotes
  <2> QED  BY <2>4, <1>2 DEF MayStart, asks
<1> QED  BY <1>1, <1>2

LEMMA StartIfNeededFields ==
    ASSUME NEW r \in Remotes, auth \in Users, counter \in 0 .. MaxChanges
    PROVE  LET f == StartIfNeeded(r) IN
           /\ f \in Remotes /\ MayStart(r, f)
           /\ f.pipeline = r.pipeline /\ f.handshake = r.handshake
           /\ f.idle = r.idle /\ f.net = r.net
           /\ f.stream = "Open" <=> r.stream = "Open"
<1>1. CASE ~IsStarted(r) /\ r.pipeline # <<>>
  <2>1. r.stream \in {"Initial", "Error"} /\ StartIfNeeded(r) = Start(r)
    BY <1>1 DEF IsStarted, StartIfNeeded, Remotes
  <2> QED  BY <2>1, StartFields
<1>2. CASE ~(~IsStarted(r) /\ r.pipeline # <<>>)
  BY <1>2 DEF StartIfNeeded, MayStart
<1> QED  BY <1>1, <1>2

LEMMA ClosedFields ==
    ASSUME NEW r \in Remotes, NEW state \in {"Initial", "Error"}
    PROVE  LET f == Closed(r, state) IN
           /\ f \in Remotes
           /\ f.pipeline = r.pipeline /\ f.handshake = r.handshake
           /\ f.asks = r.asks /\ f.closes = r.closes + 1
           /\ f.idle = FALSE /\ f.net = NoStream /\ f.stream = state
           /\ ~f.net.open
<1>1. NoStream \in Streams /\ ~NoStream.open
  BY DEF Streams, NoStream
<1>2. r.closes + 1 \in Nat
  BY DEF Remotes
<1> QED  BY <1>1, <1>2 DEF Closed, Remotes

LEMMA ForgetHandshakeFields ==
    ASSUME NEW r \in Remotes
    PROVE  LET f == ForgetHandshake(r) IN
           /\ f \in Remotes /\ f.pipeline = r.pipeline /\ f.handshake = FALSE
           /\ f.asks = r.asks /\ f.closes = r.closes
           /\ f.idle = r.idle /\ f.net = r.net /\ f.stream = r.stream
  BY DEF ForgetHandshake, Remotes

(* What is sent as it is added to the pipeline is under way like the rest. *)
LEMMA SendingGrows ==
    ASSUME NEW r \in Remotes, NEW c, NEW s, r.net.open, Sending(r, c, s),
           NEW more \in Seq(Batches),
           NEW f \in Remotes, f.pipeline = r.pipeline \o more,
           f.net.open, f.net.down = r.net.down, f.net.status = r.net.status,
           f.net.up = IF r.net.status = "none" THEN r.net.up \o more ELSE r.net.up,
           f.net.events = IF r.net.status = "none" \/ IsIn("failed", r.net.events)
                          THEN r.net.events ELSE Append(r.net.events, "failed")
    PROVE  Sending(f, c, s)
<1> DEFINE p == r.pipeline
           t == Taken(r)
<1>1. /\ p \in Seq(Batches) /\ Len(p) \in Nat /\ Len(more) \in Nat
      /\ Len(r.net.down) \in Nat
  BY RemoteFields, LenProperties
<1>2. /\ Len(p \o more) = Len(p) + Len(more)
      /\ \A i \in 1 .. Len(p) + Len(more) :
             (p \o more)[i] = IF i <= Len(p) THEN p[i] ELSE more[i - Len(p)]
  BY <1>1, ConcatProperties
<1>3. t \in 0 .. Len(p)
  <2>1. t = Len(r.net.down) \/ t = Len(r.net.down) + 1
    BY <1>1, TakenIs
  <2>2. t <= Len(p)
    BY DEF Sending
  <2> QED  BY <2>1, <2>2, <1>1
<1>4. /\ IsIn("ok", f.net.events) <=> IsIn("ok", r.net.events)
      /\ \/ f.net.events = <<>> \/ f.net.events = <<"ok">>
         \/ /\ f.net.status # "none"
            /\ \/ f.net.events = <<"failed">>
               \/ f.net.events = <<"ok", "failed">>
               \/ f.net.events = <<"failed", "ok">>
  <2>1. CASE r.net.status = "none"
    BY <2>1 DEF Sending
  <2>2. CASE r.net.status # "none" /\ IsIn("failed", r.net.events)
    BY <2>2 DEF Sending
  <2>3. CASE r.net.status # "none" /\ ~IsIn("failed", r.net.events)
    <3>1. r.net.events = <<>> \/ r.net.events = <<"ok">>
      BY <2>3, EventsShort DEF Sending
    <3> QED  BY <2>3, <3>1, EventsShort
  <2> QED  BY <2>1, <2>2, <2>3
<1>5. Taken(f) = t
  BY <1>4 DEF Taken
<1>6. \A i \in 1 .. t : f.pipeline[i] = p[i]
  BY <1>1, <1>2, <1>3
<1>7. ASSUME r.net.status = "none"
      PROVE  f.net.up = SubSeq(f.pipeline, t + 1, Len(f.pipeline))
  <2>1. SubSeq(p, t + 1, Len(p)) \o more = SubSeq(p \o more, t + 1, Len(p \o more))
    <3> HIDE DEF p, t
    <3> QED  BY <1>1, <1>3, SubSeqOfMore
  <2>2. r.net.up = SubSeq(p, t + 1, Len(p))
    BY <1>7 DEF Sending
  <2> QED  BY <1>7, <2>1, <2>2
<1>8. r.net.status = "refused" =>
         t < Len(f.pipeline) /\ f.pipeline[t + 1].w \in Refused
  <2> SUFFICES ASSUME r.net.status = "refused"
               PROVE  t < Len(f.pipeline) /\ f.pipeline[t + 1].w \in Refused
    OBVIOUS
  <2>1. t < Len(p) /\ p[t + 1].w \in Refused
    BY DEF Sending
  <2> QED  BY <2>1, <1>1, <1>2, <1>3
<1>9. /\ \A i \in 1 .. Len(f.net.down) : f.net.down[i] = "ok"
      /\ \A i \in 1 .. t : p[i].w \in c /\ p[i].w.n <= s
      /\ r.net.status # "none" => f.net.up = <<>>
  BY DEF Sending
<1> HIDE DEF t
<1>10. t <= Len(f.pipeline)
  BY <1>1, <1>2, <1>3
<1> QED  BY <1>4, <1>5, <1>6, <1>7, <1>8, <1>9, <1>10 DEF Sending

(* Adding to a pipeline before the handshake changes nothing that is under *)
(* way.                                                                    *)
LEMMA SameNetInFlight ==
    ASSUME NEW r, NEW f, NEW c, NEW s, InFlight(r, c, s), f.net = r.net,
           f.handshake = r.handshake,
           f.pipeline = r.pipeline \/ ~r.handshake \/ ~r.net.open
    PROVE  InFlight(f, c, s)
<1>1. CASE ~r.net.open
  BY <1>1 DEF InFlight
<1>2. CASE r.net.open /\ ~r.handshake
  BY <1>2 DEF InFlight, Greeting
<1>3. CASE r.net.open /\ r.handshake
  <2>1. f.pipeline = r.pipeline
    BY <1>3
  <2>2. Taken(f) = Taken(r)
    BY DEF Taken
  <2>3. Sending(f, c, s)
    BY <1>3, <2>1, <2>2 DEF InFlight, Sending
  <2> QED  BY <1>3, <2>3 DEF InFlight
<1> QED  BY <1>1, <1>2, <1>3

(* RemoteStore::FillWritePipeline leaves the stream, its messages and the  *)
(* pipeline in order, and may start the stream.                            *)
LEMMA FillKeeps ==
    ASSUME NEW r, NEW q \in Seq(Batches), NEW u, NEW c, NEW s,
           RemoteFits(r, q, u, c, s), RowsInOrder(q),
           auth \in Users, counter \in 0 .. MaxChanges,
           r.stream = "Open" => r.handshake \/ q # <<>>
    PROVE  LET f == FillWritePipeline(r, q) IN
           /\ RemoteFits(f, q, u, c, s)
           /\ f.handshake = r.handshake
           /\ f.stream = "Open" <=> r.stream = "Open"
           /\ MayStart(r, f)
<1> DEFINE p == r.pipeline
           room == kMaxPendingWrites - Len(p)
           unsent == Unsent(r, q)
           more == SubSeq(unsent, 1, IF Len(unsent) < room THEN Len(unsent) ELSE room)
           filled == [r EXCEPT !.pipeline = @ \o more]
           sent == IF more # <<>> /\ CanSend(r) THEN Write(filled, more) ELSE filled
           marked == IF sent.pipeline = <<>> /\ sent.stream = "Open"
                     THEN [sent EXCEPT !.idle = TRUE] ELSE sent
           f == StartIfNeeded(marked)
<1>1. /\ r \in Remotes /\ p \in Seq(Batches) /\ Len(p) \in Nat
      /\ IsPrefix(p, q) /\ InFlight(r, c, s)
  BY RemoteFields, LenProperties DEF RemoteFits
<1>2. /\ more \in Seq(Batches) /\ p \o more \in Seq(Batches) /\ IsPrefix(p \o more, q)
      /\ p = <<>> /\ q # <<>> => more # <<>>
      /\ p \o more = <<>> => p = <<>> /\ more = <<>>
  <2>1. unsent = SubSeq(q, Len(p) + 1, Len(q))
    BY <1>1, UnsentIs
  <2> DEFINE k == IF Len(unsent) < room THEN Len(unsent) ELSE room
  <2>2. Len(unsent) = Len(q) - Len(p) /\ Len(q) \in Nat
    <3>1. Len(q) \in Nat /\ Len(p) \in 0 .. Len(q)
      BY <1>1, LenProperties DEF IsPrefix
    <3> HIDE DEF unsent, p
    <3> QED  BY <3>1, <2>1, SubSeqFrom
  <2>3. room \in Int /\ (p = <<>> => room > 0)
    BY <1>1, BoundsAssumption
  <2>4. k \in Int /\ k <= Len(q) - Len(p) /\ (p = <<>> /\ q # <<>> => k > 0)
    <3>1. p = <<>> => Len(p) = 0
      OBVIOUS
    <3>2. q # <<>> => Len(q) > 0
      BY EmptySeq
    <3> HIDE DEF room, unsent, p
    <3> QED  BY <3>1, <3>2, <2>2, <2>3, <1>1
  <2>5. more = SubSeq(SubSeq(q, Len(p) + 1, Len(q)), 1, k)
    BY <2>1
  <2> HIDE DEF more, k, p
  <2> QED  BY <1>1, <2>4, <2>5, MoreOfQueue
<1> HIDE DEF more
<1>3. /\ filled \in Remotes /\ filled.pipeline = p \o more
      /\ filled.stream = r.stream /\ filled.handshake = r.handshake
      /\ filled.idle = r.idle /\ filled.closes = r.closes
      /\ filled.asks = r.asks /\ filled.net = r.net
  BY <1>1, <1>2 DEF Remotes
<1> HIDE DEF filled
<1>4. /\ sent \in Remotes /\ sent.pipeline = p \o more
      /\ sent.stream = r.stream /\ sent.handshake = r.handshake
      /\ sent.closes = r.closes /\ sent.asks = r.asks
      /\ sent.net.open <=> r.net.open
      /\ r.net.open => sent.net.token = r.net.token
      /\ InFlight(sent, c, s)
      /\ sent.idle => r.idle /\ sent.pipeline = <<>>
  <2>1. CASE more # <<>> /\ CanSend(r)
    <3>1. r.net.open /\ r.handshake /\ filled.net.open /\ Sending(r, c, s)
      BY <2>1, <1>1, <1>3 DEF CanSend, RemoteFits, InFlight
    <3>2. more \in Seq(Batches \cup {Hello})
      BY <1>2, SeqMonotonic
    <3> DEFINE w == Write(filled, more)
    <3>3. /\ w \in Remotes /\ w.pipeline = filled.pipeline /\ w.stream = filled.stream
          /\ w.handshake = filled.handshake /\ w.closes = filled.closes /\ w.asks = filled.asks
          /\ w.idle = FALSE
          /\ w.net.open /\ w.net.token = filled.net.token
          /\ w.net.down = filled.net.down /\ w.net.status = filled.net.status
          /\ w.net.up = IF filled.net.status = "none" THEN filled.net.up \o more
                        ELSE filled.net.up
          /\ w.net.events = IF filled.net.status = "none" \/ IsIn("failed", filled.net.events)
                            THEN filled.net.events ELSE Append(filled.net.events, "failed")
      BY <1>3, <3>1, <3>2, WriteFields
    <3> HIDE DEF w
    <3>4. Sending(w, c, s)
      <4>1. /\ w \in Remotes /\ w.pipeline = r.pipeline \o more
            /\ w.net.open /\ w.net.down = r.net.down /\ w.net.status = r.net.status
            /\ w.net.up = IF r.net.status = "none" THEN r.net.up \o more ELSE r.net.up
            /\ w.net.events = IF r.net.status = "none" \/ IsIn("failed", r.net.events)
                              THEN r.net.events ELSE Append(r.net.events, "failed")
        BY <1>3, <3>3
      <4>2. r \in Remotes /\ r.net.open /\ Sending(r, c, s) /\ more \in Seq(Batches)
        BY <1>1, <1>2, <3>1
      <4> QED  BY <4>1, <4>2, SendingGrows
    <3>5. sent = w
      BY <2>1 DEF w
    <3> HIDE DEF sent
    <3> QED  BY <1>3, <3>1, <3>3, <3>4, <3>5 DEF InFlight
  <2>2. CASE ~(more # <<>> /\ CanSend(r))
    <3>1. sent = filled
      BY <2>2
    <3>2. r.net.open => more = <<>> \/ ~r.handshake
      BY <2>2 DEF CanSend, RemoteFits
    <3>3. more = <<>> => p \o more = p
      BY <1>1, ConcatEmptySeq
    <3>4. InFlight(filled, c, s)
      BY <1>1, <1>3, <3>2, <3>3, SameNetInFlight
    <3>5. r.idle => p \o more = <<>>
      BY <2>2, <3>3 DEF CanSend, RemoteFits
    <3> HIDE DEF sent
    <3> QED  BY <1>3, <3>1, <3>4, <3>5
  <2> QED  BY <2>1, <2>2
<1> HIDE DEF sent
<1>5. /\ marked \in Remotes /\ marked.pipeline = p \o more
      /\ marked.stream = r.stream /\ marked.handshake = r.handshake
      /\ marked.closes = r.closes /\ marked.asks = r.asks /\ marked.net = sent.net
      /\ marked.idle => marked.stream = "Open" /\ marked.handshake /\ marked.pipeline = <<>>
  <2>1. CASE sent.pipeline = <<>> /\ sent.stream = "Open"
    <3>1. r.handshake
      BY <2>1, <1>2, <1>4
    <3>2. marked = [sent EXCEPT !.idle = TRUE]
      BY <2>1
    <3> QED  BY <2>1, <3>1, <3>2, <1>4 DEF Remotes
  <2>2. CASE ~(sent.pipeline = <<>> /\ sent.stream = "Open")
    <3>1. marked = sent
      BY <2>2
    <3> QED  BY <3>1, <1>4 DEF RemoteFits
  <2> QED  BY <2>1, <2>2
<1> HIDE DEF marked
<1>6. InFlight(marked, c, s)
  BY <1>4, <1>5, SameNetInFlight
<1>7. /\ f \in Remotes /\ MayStart(marked, f)
      /\ f.pipeline = marked.pipeline /\ f.handshake = marked.handshake
      /\ f.idle = marked.idle /\ f.net = marked.net
      /\ f.stream = "Open" <=> marked.stream = "Open"
  BY <1>5, StartIfNeededFields
<1>8. FillWritePipeline(r, q) = f
  BY DEF FillWritePipeline, marked, sent, filled, more
<1> HIDE DEF f
<1>9. InFlight(f, c, s)
  BY <1>6, <1>7, SameNetInFlight
<1>10. MayStart(r, f)
  BY <1>5, <1>7 DEF MayStart, AskNow
<1>11. RemoteFits(f, q, u, c, s)
  BY <1>1, <1>2, <1>4, <1>5, <1>7, <1>9 DEF RemoteFits
<1> QED  BY <1>5, <1>7, <1>8, <1>10, <1>11

(* Without a stream there is nothing under way. *)
LEMMA StoppedFits ==
    ASSUME NEW r \in Remotes, NEW q, NEW u, NEW c, NEW s,
           ~r.net.open, r.stream # "Open", ~r.idle, IsPrefix(r.pipeline, q)
    PROVE  RemoteFits(r, q, u, c, s)
  BY DEF RemoteFits, InFlight

(* The calls of GetToken as a stream is closed or started. *)
LEMMA CloseOneToken ==
    ASSUME NEW r \in Remotes, NEW tasks \in Seq(Tasks), OneToken(r, tasks),
           NEW f, f.closes = r.closes + 1, f.asks = r.asks
    PROVE  OneToken(f, tasks)
<1>1. r.closes \in Nat /\ r.asks \subseteq Asks
  BY DEF Remotes
<1>2. \A i \in 1 .. Len(tasks) : IsToken(tasks[i]) => tasks[i].close \in Nat
  <2> TAKE i \in 1 .. Len(tasks)
  <2>1. tasks[i] \in Tasks
    BY ElementOfSeq
  <2> QED  BY <2>1 DEF Tasks, IsToken
<1>3. \A a \in r.asks : a.close \in Nat /\ a.close <= r.closes
  BY <1>1 DEF Asks, OneToken
<1>4. \A i \in 1 .. Len(tasks) : IsToken(tasks[i]) => tasks[i].close <= r.closes
  BY DEF OneToken
<1>5. /\ \A a \in f.asks : a.close <= f.closes /\ a.close # f.closes
      /\ \A i \in 1 .. Len(tasks) : IsToken(tasks[i]) =>
            tasks[i].close <= f.closes /\ tasks[i].close # f.closes
  BY <1>1, <1>2, <1>3, <1>4
<1> QED  BY <1>5 DEF OneToken

LEMMA StartOneToken ==
    ASSUME NEW r \in Remotes, NEW tasks, OneToken(r, tasks), NEW f, MayStart(r, f)
    PROVE  OneToken(f, tasks)
<1>1. CASE f.stream = r.stream /\ f.asks = r.asks
  BY <1>1 DEF MayStart, OneToken
<1>2. CASE r.stream = "Error" /\ f.stream = "Backoff" /\ f.asks = r.asks
  BY <1>2 DEF MayStart, OneToken
<1>3. CASE r.stream = "Initial" /\ f.stream = "Starting" /\ f.asks = r.asks \cup {AskNow(r)}
  <2>1. /\ \A a \in r.asks : a.close <= r.closes /\ a.close # r.closes
        /\ \A i \in 1 .. Len(tasks) : IsToken(tasks[i]) =>
              tasks[i].close <= r.closes /\ tasks[i].close # r.closes
    BY <1>3 DEF OneToken
  <2>2. f.closes = r.closes /\ AskNow(r).close = f.closes /\ r.closes \in Nat
    BY DEF MayStart, AskNow, Remotes
  <2> QED  BY <1>3, <2>1, <2>2 DEF OneToken
<1> QED  BY <1>1, <1>2, <1>3 DEF MayStart

(* RemoteStore::OnWriteStreamClose *)
LEMMA ClosedTransientlyKeeps ==
    ASSUME NEW r \in Remotes, NEW q, IsPrefix(r.pipeline, q), NEW u, NEW c, NEW s,
           auth \in Users, counter \in 0 .. MaxChanges,
           NEW tasks \in Seq(Tasks), OneToken(r, tasks)
    PROVE  LET f == ClosedTransiently(r) IN
           /\ RemoteOK(f, q, u, c, s)
           /\ OneToken(f, tasks)
           /\ f.asks = r.asks /\ f.pipeline = r.pipeline
           /\ ~f.net.open /\ f.stream # "Open" /\ f.closes = r.closes + 1
<1> DEFINE closed == Closed(r, "Error")
           started == StartIfNeeded(closed)
           f == ForgetHandshake(started)
<1>1. /\ closed \in Remotes
      /\ closed.pipeline = r.pipeline /\ closed.handshake = r.handshake
      /\ closed.asks = r.asks /\ closed.closes = r.closes + 1
      /\ closed.idle = FALSE /\ closed.stream = "Error" /\ ~closed.net.open
  BY ClosedFields
<1>2. OneToken(closed, tasks)
  BY <1>1, CloseOneToken
<1> HIDE DEF closed
<1>3. /\ started \in Remotes /\ MayStart(closed, started)
      /\ started.pipeline = closed.pipeline /\ started.idle = closed.idle
      /\ started.net = closed.net
      /\ started.stream = "Open" <=> closed.stream = "Open"
  BY <1>1, StartIfNeededFields
<1>4. OneToken(started, tasks) /\ started.asks = r.asks /\ started.closes = r.closes + 1
  BY <1>1, <1>2, <1>3, StartOneToken DEF MayStart
<1> HIDE DEF started
<1>5. /\ f \in Remotes /\ f.pipeline = started.pipeline /\ f.handshake = FALSE
      /\ f.asks = started.asks /\ f.closes = started.closes
      /\ f.idle = started.idle /\ f.net = started.net /\ f.stream = started.stream
  BY <1>3, ForgetHandshakeFields
<1>6. ClosedTransiently(r) = f
  BY DEF ClosedTransiently, started, closed
<1> HIDE DEF f
<1>7. OneToken(f, tasks)
  BY <1>4, <1>5 DEF OneToken
<1>8. RemoteOK(f, q, u, c, s)
  BY <1>1, <1>3, <1>5, StoppedFits DEF RemoteOK
<1> QED  BY <1>1, <1>3, <1>4, <1>5, <1>6, <1>7, <1>8

(* RemoteStore::RestartNetwork, for whatever queue and user come next. *)
LEMMA RestartNetworkKeeps ==
    ASSUME NEW r \in Remotes, r.net.open <=> r.stream = "Open",
           r.handshake => r.stream = "Open", r.idle => r.stream = "Open",
           NEW q \in Seq(Batches), RowsInOrder(q), NEW u, NEW c, NEW s,
           auth \in Users, counter \in 0 .. MaxChanges,
           NEW tasks \in Seq(Tasks), OneToken(r, tasks)
    PROVE  LET f == RestartNetwork(r, q) IN
           /\ RemoteOK(f, q, u, c, s)
           /\ OneToken(f, tasks)
           /\ f.asks = r.asks \/ \E k : f.asks = r.asks \cup
                  {[close |-> k, counter |-> counter, by |-> auth]}
<1> DEFINE stopped == IF IsStarted(r) THEN ForgetHandshake(Closed(r, "Initial")) ELSE r
           empty == [stopped EXCEPT !.pipeline = <<>>, !.stream = "Initial"]
           f == FillWritePipeline(empty, q)
<1>1. /\ stopped \in Remotes /\ ~stopped.net.open /\ stopped.stream # "Open"
      /\ stopped.stream # "Starting"
      /\ ~stopped.handshake /\ ~stopped.idle /\ stopped.asks = r.asks
      /\ \/ stopped.closes = r.closes + 1
         \/ stopped.closes = r.closes /\ stopped.stream = r.stream /\ r.stream # "Starting"
  <2>1. CASE IsStarted(r)
    <3> DEFINE closed == Closed(r, "Initial")
    <3>1. /\ closed \in Remotes /\ closed.asks = r.asks /\ closed.closes = r.closes + 1
          /\ closed.idle = FALSE /\ closed.stream = "Initial" /\ ~closed.net.open
      BY ClosedFields
    <3> HIDE DEF closed
    <3>2. stopped = ForgetHandshake(closed)
      BY <2>1 DEF closed
    <3>3. /\ stopped \in Remotes /\ stopped.handshake = FALSE
          /\ stopped.asks = closed.asks /\ stopped.closes = closed.closes
          /\ stopped.idle = closed.idle /\ stopped.net = closed.net
          /\ stopped.stream = closed.stream
      <4> HIDE DEF stopped
      <4> QED  BY <3>1, <3>2, ForgetHandshakeFields
    <3> HIDE DEF stopped
    <3> QED  BY <3>1, <3>3
  <2>2. CASE ~IsStarted(r)
    <3>1. stopped = r
      BY <2>2
    <3>2. r.stream # "Open" /\ r.stream # "Starting"
      BY <2>2 DEF IsStarted
    <3> QED  BY <3>1, <3>2
  <2> QED  BY <2>1, <2>2
<1>2. OneToken(stopped, tasks)
  <2>1. CASE stopped.closes = r.closes + 1
    BY <2>1, <1>1, CloseOneToken
  <2>2. CASE stopped.closes = r.closes /\ stopped.stream = r.stream /\ r.stream # "Starting"
    BY <2>2, <1>1 DEF OneToken
  <2> QED  BY <2>1, <2>2, <1>1
<1> HIDE DEF stopped
<1>3. /\ empty \in Remotes /\ empty.pipeline = <<>> /\ empty.stream = "Initial"
      /\ ~empty.handshake /\ ~empty.idle /\ empty.closes = stopped.closes
      /\ empty.asks = r.asks /\ ~empty.net.open
  <2>1. <<>> \in Seq(Batches)
    BY EmptySeq
  <2> QED  BY <2>1, <1>1 DEF Remotes
<1>5. OneToken(empty, tasks)
  BY <1>1, <1>2, <1>3 DEF OneToken
<1> HIDE DEF empty
<1>6. IsPrefix(empty.pipeline, q)
  BY <1>3, LenProperties DEF IsPrefix
<1>7. RemoteFits(empty, q, u, c, s)
  BY <1>3, <1>6, StoppedFits
<1>8. /\ RemoteFits(f, q, u, c, s) /\ f.handshake = empty.handshake
      /\ f.stream = "Open" <=> empty.stream = "Open"
      /\ MayStart(empty, f)
  BY <1>3, <1>7, FillKeeps
<1>9. RestartNetwork(r, q) = f
  BY DEF RestartNetwork, empty, stopped
<1> HIDE DEF f
<1>10. OneToken(f, tasks)
  BY <1>3, <1>5, <1>8, StartOneToken
<1>11. f.asks = r.asks \/ f.asks = r.asks \cup {AskNow(empty)}
  BY <1>3, <1>8 DEF MayStart
<1> QED  BY <1>3, <1>8, <1>9, <1>10, <1>11 DEF RemoteOK, AskNow

-----------------------------------------------------------------------------
(* The two kinds of queues of FirestoreWrites, the tasks of the worker      *)
(* queue and the mutation batches of a user: in what order they are and     *)
(* how adding, running and removing leave them.                             *)

(* Who is signed in when a task is run: at[i] before the ith task, and     *)
(* at[Len(tasks) + 1] after the last.                                      *)
SignedIn(at, tasks, first, last) ==
    /\ at[1] = first
    /\ at[Len(tasks) + 1] = last
    /\ \A i \in 1 .. Len(tasks) :
          /\ tasks[i].task = "user" => at[i + 1] = tasks[i].u
          /\ tasks[i].task = "write" => at[i + 1] = at[i] /\ tasks[i].w.by = at[i]
          /\ tasks[i].task = "token" => at[i + 1] = at[i] /\ tasks[i].by = at[i]

InOrder(tasks, first, last) ==
    \E at \in [1 .. Len(tasks) + 1 -> Users] : SignedIn(at, tasks, first, last)

IsWriteOf(t, u) == t.task = "write" /\ t.w.by = u

(* The write tasks of u are in the order of their numbers, above those in  *)
(* seen and at most top.                                                   *)
Ascending(tasks, u, seen, top) ==
    /\ \A m \in seen : m <= top
    /\ \A i \in 1 .. Len(tasks) : IsWriteOf(tasks[i], u) =>
          /\ tasks[i].w.n <= top
          /\ \A m \in seen : m < tasks[i].w.n
          /\ \A j \in 1 .. i - 1 : IsWriteOf(tasks[j], u) => tasks[j].w.n < tasks[i].w.n

-----------------------------------------------------------------------------
(* The worker queue *)

LEMMA TasksEmpty ==
    ASSUME NEW u \in Users
    PROVE  InOrder(<<>>, u, u)
<1> DEFINE at == [i \in 1 .. 1 |-> u]
<1>1. at \in [1 .. Len(<<>>) + 1 -> Users] /\ SignedIn(at, <<>>, u, u)
  BY DEF SignedIn
<1> QED  BY <1>1 DEF InOrder

LEMMA TaskKinds ==
    ASSUME NEW t \in Tasks
    PROVE  /\ t.task \in {"write", "user", "token"}
           /\ t.task = "write" => t.w \in Writes
           /\ t.task = "user" => t.u \in Users
           /\ t.task = "token" => t.close \in Nat /\ t.by \in Users /\ t.ok \in BOOLEAN
  BY DEF Tasks

LEMMA TasksAppend ==
    ASSUME NEW tasks \in Seq(Tasks), NEW first, NEW last, InOrder(tasks, first, last),
           NEW t \in Tasks, NEW next \in Users,
           t.task = "user" => next = t.u,
           t.task = "write" => next = last /\ t.w.by = last,
           t.task = "token" => next = last /\ t.by = last
    PROVE  InOrder(Append(tasks, t), first, next)
<1> DEFINE n == Len(tasks)
           more == Append(tasks, t)
<1>1. n \in Nat /\ Len(more) = n + 1 /\ more[n + 1] = t
      /\ \A i \in 1 .. n : more[i] = tasks[i]
  BY LenProperties, AppendProperties
<1>2. PICK at \in [1 .. n + 1 -> Users] : SignedIn(at, tasks, first, last)
  BY DEF InOrder
<1> DEFINE new == [i \in 1 .. n + 2 |-> IF i = n + 2 THEN next ELSE at[i]]
<1>3. /\ new \in [1 .. n + 2 -> Users]
      /\ new[n + 2] = next
      /\ \A i \in 1 .. n + 1 : new[i] = at[i]
  BY <1>1, <1>2
<1> HIDE DEF new, more, n
<1>4. ASSUME NEW i \in 1 .. n + 1
      PROVE  /\ more[i].task = "user" => new[i + 1] = more[i].u
             /\ more[i].task = "write" => new[i + 1] = new[i] /\ more[i].w.by = new[i]
             /\ more[i].task = "token" => new[i + 1] = new[i] /\ more[i].by = new[i]
  <2>1. CASE i = n + 1
    <3>1. new[i] = last /\ new[i + 1] = next
      BY <2>1, <1>1, <1>2, <1>3 DEF SignedIn, n
    <3> QED  BY <2>1, <3>1, <1>1
  <2>2. CASE i \in 1 .. n
    BY <2>2, <1>1, <1>2, <1>3 DEF SignedIn, n
  <2> QED  BY <2>1, <2>2, <1>1
<1>5. new[1] = first /\ new[Len(more) + 1] = next
  BY <1>1, <1>2, <1>3 DEF SignedIn
<1>6. new \in [1 .. Len(more) + 1 -> Users]
  BY <1>1, <1>3
<1>7. SignedIn(new, more, first, next)
  BY <1>1, <1>4, <1>5 DEF SignedIn
<1> QED  BY <1>6, <1>7 DEF InOrder, more

LEMMA TasksTail ==
    ASSUME NEW tasks \in Seq(Tasks), tasks # <<>>, NEW first, NEW last,
           InOrder(tasks, first, last)
    PROVE  LET t == Head(tasks)
               next == IF t.task = "user" THEN t.u ELSE first IN
           /\ t \in Tasks /\ Tail(tasks) \in Seq(Tasks)
           /\ InOrder(Tail(tasks), next, last)
           /\ t.task = "write" => t.w.by = first
           /\ t.task = "token" => t.by = first
<1> DEFINE n == Len(tasks)
           t == Head(tasks)
           rest == Tail(tasks)
           next == IF t.task = "user" THEN t.u ELSE first
<1>1. /\ n \in Nat \ {0} /\ t = tasks[1] /\ t \in Tasks
      /\ rest \in Seq(Tasks) /\ Len(rest) = n - 1
      /\ \A i \in 1 .. n - 1 : rest[i] = tasks[i + 1]
  BY EmptySeq, HeadTailProperties
<1>2. PICK at \in [1 .. n + 1 -> Users] : SignedIn(at, tasks, first, last)
  BY DEF InOrder
<1> DEFINE new == [i \in 1 .. n |-> at[i + 1]]
<1>3. new \in [1 .. n -> Users] /\ \A i \in 1 .. n : new[i] = at[i + 1]
  BY <1>1, <1>2
<1> HIDE DEF new, rest, n, t
<1>4. t.task \in {"write", "user", "token"}
  BY <1>1, TaskKinds
<1>5. /\ t.task = "user" => at[2] = t.u
      /\ t.task = "write" => at[2] = first /\ t.w.by = first
      /\ t.task = "token" => at[2] = first /\ t.by = first
  BY <1>1, <1>2 DEF SignedIn, n
<1>6. new[1] = next /\ new[n] = last
  BY <1>1, <1>2, <1>3, <1>4, <1>5 DEF SignedIn, n
<1>7. \A i \in 1 .. n - 1 :
          /\ rest[i].task = "user" => new[i + 1] = rest[i].u
          /\ rest[i].task = "write" => new[i + 1] = new[i] /\ rest[i].w.by = new[i]
          /\ rest[i].task = "token" => new[i + 1] = new[i] /\ rest[i].by = new[i]
  <2> TAKE i \in 1 .. n - 1
  <2>1. i + 1 \in 1 .. Len(tasks) /\ i \in 1 .. n
    BY <1>1 DEF n
  <2>2. rest[i] = tasks[i + 1] /\ new[i] = at[i + 1] /\ new[i + 1] = at[(i + 1) + 1]
    BY <1>1, <1>3
  <2> QED  BY <2>1, <2>2, <1>2 DEF SignedIn
<1>8. new \in [1 .. Len(rest) + 1 -> Users] /\ SignedIn(new, rest, next, last)
  BY <1>1, <1>3, <1>6, <1>7 DEF SignedIn
<1>9. InOrder(rest, next, last)
  BY <1>8 DEF InOrder
<1> QED  BY <1>1, <1>5, <1>9 DEF rest, t

-----------------------------------------------------------------------------
(* The tokens in it *)

LEMMA TailOneToken ==
    ASSUME NEW tasks \in Seq(Tasks), tasks # <<>>, NEW r, OneToken(r, tasks)
    PROVE  /\ OneToken(r, Tail(tasks))
           /\ IsToken(Head(tasks)) /\ Head(tasks).close = r.closes =>
                 \A f : f.closes = r.closes /\ f.asks = r.asks => OneToken(f, Tail(tasks))
<1> DEFINE n == Len(tasks)
           rest == Tail(tasks)
<1>1. /\ n \in Nat \ {0} /\ Head(tasks) = tasks[1] /\ Len(rest) = n - 1
      /\ \A i \in 1 .. n - 1 : rest[i] = tasks[i + 1]
  BY EmptySeq, HeadTailProperties
<1> HIDE DEF rest
<1>2. \A i \in 1 .. n - 1 : i + 1 \in 1 .. n /\ i + 1 # 1
  BY <1>1
<1>3. OneToken(r, rest)
  <2>1. \A i, j \in 1 .. n - 1 :
            IsToken(rest[i]) /\ IsToken(rest[j])
               /\ rest[i].close = r.closes /\ rest[j].close = r.closes => i = j
    <3> TAKE i, j \in 1 .. n - 1
    <3>1. i + 1 = j + 1 => i = j
      BY <1>1
    <3> QED  BY <3>1, <1>1, <1>2 DEF OneToken
  <2>2. \A i \in 1 .. n - 1 : IsToken(rest[i]) =>
            rest[i].close <= r.closes /\ (rest[i].close = r.closes => r.stream = "Starting")
    BY <1>1, <1>2 DEF OneToken
  <2>3. \A a \in r.asks : \A i \in 1 .. n - 1 :
            ~(IsToken(rest[i]) /\ a.close = r.closes /\ rest[i].close = r.closes)
    BY <1>1, <1>2 DEF OneToken
  <2>4. /\ \A a \in r.asks : a.close <= r.closes /\ (a.close = r.closes => r.stream = "Starting")
        /\ \A a, b \in r.asks : a.close = r.closes /\ b.close = r.closes => a = b
    BY DEF OneToken
  <2> QED  BY <1>1, <2>1, <2>2, <2>3, <2>4 DEF OneToken
<1>4. ASSUME IsToken(Head(tasks)), Head(tasks).close = r.closes,
             NEW f, f.closes = r.closes, f.asks = r.asks
      PROVE  OneToken(f, rest)
  <2>1. \A a \in r.asks : a.close <= r.closes /\ a.close # r.closes
    BY <1>1, <1>4 DEF OneToken
  <2>2. \A i \in 1 .. n - 1 : IsToken(rest[i]) =>
            rest[i].close <= r.closes /\ rest[i].close # r.closes
    BY <1>1, <1>2, <1>4 DEF OneToken
  <2> QED  BY <2>1, <2>2, <1>1, <1>4 DEF OneToken
<1> QED  BY <1>3, <1>4 DEF rest

LEMMA AppendOneToken ==
    ASSUME NEW tasks \in Seq(Tasks), NEW r, OneToken(r, tasks), NEW t \in Tasks, ~IsToken(t)
    PROVE  OneToken(r, Append(tasks, t))
<1> DEFINE n == Len(tasks)
           more == Append(tasks, t)
<1>1. n \in Nat /\ Len(more) = n + 1 /\ more[n + 1] = t
      /\ \A i \in 1 .. n : more[i] = tasks[i]
  BY LenProperties, AppendProperties
<1> HIDE DEF more
<1>2. \A i \in 1 .. n + 1 : IsToken(more[i]) => i \in 1 .. n /\ more[i] = tasks[i]
  BY <1>1
<1> QED  BY <1>1, <1>2 DEF OneToken, more

LEMMA AnswerOneToken ==
    ASSUME NEW tasks \in Seq(Tasks), NEW r, OneToken(r, tasks),
           NEW a \in r.asks, NEW t \in Tasks, IsToken(t), t.close = a.close,
           NEW f, f.asks = r.asks \ {a}, f.closes = r.closes, f.stream = r.stream
    PROVE  OneToken(f, Append(tasks, t))
<1> DEFINE n == Len(tasks)
           more == Append(tasks, t)
<1>1. n \in Nat /\ Len(more) = n + 1 /\ more[n + 1] = t
      /\ \A i \in 1 .. n : more[i] = tasks[i]
  BY LenProperties, AppendProperties
<1> HIDE DEF more
<1>2. \A i \in 1 .. n + 1 : (i = n + 1 /\ more[i] = t) \/ (i \in 1 .. n /\ more[i] = tasks[i])
  BY <1>1
<1>3. \A i \in 1 .. n + 1 : IsToken(more[i]) =>
          more[i].close <= r.closes /\ (more[i].close = r.closes => r.stream = "Starting")
  BY <1>2 DEF OneToken
<1>4. \A i, j \in 1 .. n + 1 :
          IsToken(more[i]) /\ IsToken(more[j])
             /\ more[i].close = r.closes /\ more[j].close = r.closes => i = j
  BY <1>2 DEF OneToken
<1>5. \A b \in f.asks : \A i \in 1 .. n + 1 :
          ~(IsToken(more[i]) /\ b.close = r.closes /\ more[i].close = r.closes)
  BY <1>2 DEF OneToken
<1>6. \A b, d \in f.asks : b.close = r.closes /\ d.close = r.closes => b = d
  BY DEF OneToken
<1> QED  BY <1>1, <1>3, <1>4, <1>5, <1>6 DEF OneToken, more

-----------------------------------------------------------------------------
(* The writes in it *)

LEMMA AscendingEmpty ==
    ASSUME NEW tasks, NEW u, NEW seen, NEW top, Ascending(tasks, u, seen, top),
           NEW less \in SUBSET seen
    PROVE  Ascending(<<>>, u, less, top)
  BY DEF Ascending

LEMMA AscendingLess ==
    ASSUME NEW tasks, NEW u, NEW seen, NEW top, Ascending(tasks, u, seen, top),
           NEW less \in SUBSET seen
    PROVE  Ascending(tasks, u, less, top)
  BY DEF Ascending

LEMMA AscendingTail ==
    ASSUME NEW tasks \in Seq(Tasks), tasks # <<>>, NEW u,
           NEW seen, NEW top, Ascending(tasks, u, seen, top),
           NEW now, now \subseteq seen \cup (IF IsWriteOf(Head(tasks), u) THEN {Head(tasks).w.n} ELSE {})
    PROVE  Ascending(Tail(tasks), u, now, top)
<1> DEFINE n == Len(tasks)
           rest == Tail(tasks)
<1>1. /\ n \in Nat \ {0} /\ Head(tasks) = tasks[1] /\ Len(rest) = n - 1
      /\ \A i \in 1 .. n - 1 : rest[i] = tasks[i + 1]
  BY EmptySeq, HeadTailProperties
<1> HIDE DEF rest
<1>2. \A i \in 1 .. n - 1 : i + 1 \in 1 .. n /\ 1 \in 1 .. (i + 1) - 1
  BY <1>1
<1>3. \A m \in now : m <= top
  BY <1>1 DEF Ascending
<1>4. ASSUME NEW i \in 1 .. n - 1, IsWriteOf(rest[i], u)
      PROVE  /\ rest[i].w.n <= top
             /\ \A m \in now : m < rest[i].w.n
             /\ \A j \in 1 .. i - 1 : IsWriteOf(rest[j], u) => rest[j].w.n < rest[i].w.n
  <2>1. rest[i] = tasks[i + 1] /\ i + 1 \in 1 .. n /\ IsWriteOf(tasks[i + 1], u)
    BY <1>1, <1>2, <1>4
  <2>2. /\ rest[i].w.n <= top
        /\ \A m \in seen : m < rest[i].w.n
        /\ IsWriteOf(tasks[1], u) => tasks[1].w.n < rest[i].w.n
    BY <2>1, <1>2 DEF Ascending
  <2>3. \A j \in 1 .. i - 1 : IsWriteOf(rest[j], u) => rest[j].w.n < rest[i].w.n
    <3> TAKE j \in 1 .. i - 1
    <3>1. rest[j] = tasks[j + 1] /\ j + 1 \in 1 .. (i + 1) - 1
      BY <1>1
    <3> QED  BY <2>1, <3>1 DEF Ascending
  <2> QED  BY <2>2, <2>3, <1>1
<1> QED  BY <1>1, <1>3, <1>4 DEF Ascending, rest

LEMMA AscendingAppend ==
    ASSUME NEW tasks \in Seq(Tasks), NEW u, NEW seen \in SUBSET Nat,
           NEW top \in Nat, Ascending(tasks, u, seen, top),
           NEW t \in Tasks, NEW higher \in {top, top + 1},
           IsWriteOf(t, u) => t.w.n = top + 1 /\ higher = top + 1
    PROVE  Ascending(Append(tasks, t), u, seen, higher)
<1> DEFINE n == Len(tasks)
           more == Append(tasks, t)
<1>1. n \in Nat /\ Len(more) = n + 1 /\ more[n + 1] = t
      /\ \A i \in 1 .. n : more[i] = tasks[i]
  BY LenProperties, AppendProperties
<1> HIDE DEF more
<1>2. \A m \in seen : m \in Nat /\ m <= top
  BY DEF Ascending
<1>3. \A i \in 1 .. n : IsWriteOf(tasks[i], u) => tasks[i].w.n \in Nat /\ tasks[i].w.n <= top
  <2> TAKE i \in 1 .. n
  <2>1. tasks[i] \in Tasks
    BY ElementOfSeq
  <2> QED  BY <2>1, TaskKinds DEF Ascending, IsWriteOf, Writes
<1>4. ASSUME NEW i \in 1 .. n + 1, IsWriteOf(more[i], u)
      PROVE  /\ more[i].w.n <= higher
             /\ \A m \in seen : m < more[i].w.n
             /\ \A j \in 1 .. i - 1 : IsWriteOf(more[j], u) => more[j].w.n < more[i].w.n
  <2>1. CASE i \in 1 .. n
    BY <2>1, <1>1, <1>3, <1>4 DEF Ascending
  <2>2. CASE i = n + 1
    <3>1. more[i].w.n = top + 1 /\ higher = top + 1
      BY <2>2, <1>1, <1>4
    <3> QED  BY <2>2, <3>1, <1>1, <1>2, <1>3
  <2> QED  BY <2>1, <2>2, <1>1
<1>5. \A m \in seen : m <= higher
  BY <1>2
<1> QED  BY <1>1, <1>4, <1>5 DEF Ascending, more

-----------------------------------------------------------------------------
(* The mutation queues *)

LEMMA BatchFields ==
    ASSUME NEW b \in Batches
    PROVE  /\ b.id \in Nat \ {0} /\ b.w \in Writes /\ b.w.by \in Users
           /\ b.w.n \in 1 .. MaxWrites /\ b # Hello
           /\ b.w = [by |-> b.w.by, n |-> b.w.n]
  BY DEF Batches, Writes, Hello

(* A batch with a new id is added at the end. *)
LEMMA RowsAppend ==
    ASSUME NEW q \in Seq(Batches), RowsInOrder(q), NEW u, RowsOf(q, u),
           NEW b \in Batches, b.w.by = u,
           \A i \in 1 .. Len(q) : q[i].id < b.id /\ q[i].w.n < b.w.n
    PROVE  /\ AddMutationBatch(q, b) = Append(q, b)
           /\ Append(q, b) \in Seq(Batches)
           /\ RowsInOrder(Append(q, b)) /\ RowsOf(Append(q, b), u)
<1> DEFINE n == Len(q)
           more == Append(q, b)
<1>1. /\ n \in Nat /\ Len(more) = n + 1 /\ more[n + 1] = b /\ more \in Seq(Batches)
      /\ \A i \in 1 .. n : more[i] = q[i]
      /\ DOMAIN q = 1 .. n
  BY LenProperties, AppendProperties
<1> HIDE DEF more
<1>2. \A i \in 1 .. n : q[i].id \in Nat /\ q[i].id # b.id
  <2> TAKE i \in 1 .. n
  <2>1. q[i].id \in Nat /\ b.id \in Nat
    BY ElementOfSeq, BatchFields
  <2> QED  BY <2>1
<1>3. AddMutationBatch(q, b) = Append(q, b)
  BY <1>1, <1>2 DEF AddMutationBatch
<1>4. RowsInOrder(more)
  <2> SUFFICES ASSUME NEW i \in 1 .. n + 1, NEW j \in 1 .. n + 1, i < j
               PROVE  more[i].id < more[j].id /\ more[i].w.n < more[j].w.n
    BY <1>1 DEF RowsInOrder
  <2>1. n \in Nat
    BY <1>1
  <2>2. i \in 1 .. n /\ (j \in 1 .. n \/ j = n + 1)
    <3> HIDE DEF n
    <3> QED  BY <2>1
  <2>3. CASE j \in 1 .. n
    BY <2>2, <2>3, <1>1 DEF RowsInOrder
  <2>4. CASE j = n + 1
    BY <2>2, <2>4, <1>1
  <2> QED  BY <2>2, <2>3, <2>4
<1>5. RowsOf(more, u)
  BY <1>1 DEF RowsOf
<1> QED  BY <1>1, <1>3, <1>4, <1>5 DEF more

(* The first batch is removed from the front. *)
LEMMA RowsTail ==
    ASSUME NEW q \in Seq(Batches), RowsInOrder(q), NEW u, RowsOf(q, u), q # <<>>
    PROVE  /\ RemoveMutationBatch(q, Head(q).id) = Tail(q)
           /\ Head(q) = q[1] /\ Head(q) \in Batches /\ Head(q).w.by = u
           /\ Tail(q) \in Seq(Batches) /\ Len(q) \in Nat \ {0} /\ Len(Tail(q)) = Len(q) - 1
           /\ \A i \in 1 .. Len(q) - 1 : Tail(q)[i] = q[i + 1]
           /\ RowsInOrder(Tail(q)) /\ RowsOf(Tail(q), u)
           /\ \A i \in 1 .. Len(Tail(q)) : Head(q).w.n < Tail(q)[i].w.n
           /\ \A m : IdsUpTo(q, m) => IdsUpTo(Tail(q), m)
<1> DEFINE n == Len(q)
           rest == Tail(q)
           h == Head(q)
<1>1. /\ n \in Nat \ {0} /\ h = q[1] /\ h \in Batches /\ Len(rest) = n - 1
      /\ rest \in Seq(Batches) /\ DOMAIN q = 1 .. n
      /\ \A i \in 1 .. n - 1 : rest[i] = q[i + 1]
  BY EmptySeq, HeadTailProperties, LenProperties
<1>2. \A k \in 1 .. n : q[k].id \in Nat
  BY ElementOfSeq, BatchFields
<1>3. rest = SubSeq(q, 2, n)
  BY TailIsSubSeq
<1> HIDE DEF rest, h
<1>4. \A k \in 1 .. n : q[k].id = h.id => k = 1
  <2> TAKE k \in 1 .. n
  <2>1. k # 1 => q[1].id < q[k].id
    BY <1>1 DEF RowsInOrder
  <2> QED  BY <2>1, <1>1, <1>2
<1>5. RemoveMutationBatch(q, h.id) = rest
  <2> DEFINE k == CHOOSE j \in DOMAIN q : q[j].id = h.id
  <2>1. 1 \in DOMAIN q /\ q[1].id = h.id
    BY <1>1
  <2>2. k = 1
    BY <2>1, <1>1, <1>4
  <2>3. SubSeq(q, 1, 0) = <<>>
    BY SubSeqEmpty
  <2>4. SubSeq(q, 1, 0) \o SubSeq(q, 2, n) = rest
    BY <2>3, <1>1, <1>3, ConcatEmptySeq
  <2>5. RemoveMutationBatch(q, h.id) = SubSeq(q, 1, k - 1) \o SubSeq(q, k + 1, Len(q))
    BY <2>1 DEF RemoveMutationBatch
  <2> HIDE DEF k
  <2>6. k - 1 = 0 /\ k + 1 = 2
    BY <2>2
  <2> QED  BY <2>4, <2>5, <2>6
<1>6. RowsInOrder(rest)
  <2> SUFFICES ASSUME NEW i \in 1 .. n - 1, NEW j \in 1 .. n - 1, i < j
               PROVE  rest[i].id < rest[j].id /\ rest[i].w.n < rest[j].w.n
    BY <1>1 DEF RowsInOrder
  <2>1. i + 1 \in 1 .. n /\ j + 1 \in 1 .. n /\ i + 1 < j + 1
    BY <1>1
  <2> QED  BY <2>1, <1>1 DEF RowsInOrder
<1>7. RowsOf(rest, u) /\ h.w.by = u
  <2>1. \A i \in 1 .. n - 1 : i + 1 \in 1 .. n
    BY <1>1
  <2> QED  BY <2>1, <1>1 DEF RowsOf
<1>8. \A i \in 1 .. n - 1 : h.w.n < rest[i].w.n
  <2> TAKE i \in 1 .. n - 1
  <2>1. 1 \in 1 .. n /\ i + 1 \in 1 .. n /\ 1 < i + 1
    BY <1>1
  <2> QED  BY <2>1, <1>1 DEF RowsInOrder
<1>9. \A m : IdsUpTo(q, m) => IdsUpTo(rest, m)
  <2>1. \A i \in 1 .. n - 1 : i + 1 \in 1 .. n
    BY <1>1
  <2> QED  BY <2>1, <1>1 DEF IdsUpTo
<1> QED  BY <1>1, <1>5, <1>6, <1>7, <1>8, <1>9 DEF rest, h

(* A bounded set of numbers has a largest one. *)
LEMMA LargestOfBounded ==
    ASSUME NEW S \in SUBSET Nat, S # {}, NEW m \in Nat, \A x \in S : x <= m
    PROVE  \E x \in S : \A y \in S : y <= x
<1> DEFINE Upper == {k \in Nat : \A x \in S : x <= k}
           Less == {x \in Nat \X Nat : x[1] < x[2]}
<1>1. IsWellFoundedOn(Less, Nat)
  BY NatLessThanWellFounded DEF OpToRel
<1>2. Upper \subseteq Nat /\ Upper # {}
  OBVIOUS
<1> HIDE DEF Upper, Less
<1>3. PICK k \in Upper : \A j \in Upper : ~(<<j, k>> \in Less)
  BY <1>1, <1>2, WFMin
<1>4. k \in Nat /\ \A x \in S : x <= k
  BY <1>3 DEF Upper
<1>5. k \in S
  <2> SUFFICES ASSUME k \notin S
               PROVE  FALSE
    OBVIOUS
  <2>1. \A x \in S : x <= k - 1
    BY <1>4
  <2>2. k - 1 \in Nat
    <3> PICK x \in S : TRUE
      OBVIOUS
    <3>1. x \in Nat /\ x <= k - 1
      BY <2>1
    <3> QED  BY <3>1, <1>4
  <2>3. k - 1 \in Upper
    BY <2>1, <2>2 DEF Upper
  <2>4. <<k - 1, k>> \in Less
    BY <2>2, <1>4 DEF Less
  <2> QED  BY <2>3, <2>4, <1>3
<1> QED  BY <1>4, <1>5

(* LoadNextBatchIdFromDb gives an id above every one on the disk. *)
LEMMA NextIdIsFree ==
    ASSUME NEW queues \in [Users -> Seq(Batches)],
           NEW m \in Nat, \A u \in Users : IdsUpTo(queues[u], m)
    PROVE  /\ LoadNextBatchId(queues) \in Nat \ {0}
           /\ \A u \in Users : IdsUpTo(queues[u], LoadNextBatchId(queues) - 1)
<1> DEFINE ids == {0} \cup UNION {{queues[u][i].id : i \in DOMAIN queues[u]} : u \in Users}
           top == CHOOSE k \in ids : \A i \in ids : i <= k
<1>1. \A u \in Users : \A i \in 1 .. Len(queues[u]) :
          queues[u][i].id \in Nat /\ queues[u][i].id \in ids
  <2> TAKE u \in Users
  <2>1. queues[u] \in Seq(Batches) /\ DOMAIN queues[u] = 1 .. Len(queues[u])
    BY LenProperties
  <2>2. \A i \in 1 .. Len(queues[u]) : queues[u][i].id \in Nat
    BY <2>1, ElementOfSeq, BatchFields
  <2>3. \A i \in 1 .. Len(queues[u]) : queues[u][i].id \in ids
    BY <2>1
  <2> QED  BY <2>2, <2>3
<1>2. \A x \in ids : x = 0 \/ \E u \in Users : \E i \in 1 .. Len(queues[u]) : x = queues[u][i].id
  BY LenProperties
<1> HIDE DEF ids
<1>3. ids \in SUBSET Nat /\ 0 \in ids /\ \A x \in ids : x <= m
  <2>1. 0 \in ids
    BY DEF ids
  <2> QED  BY <1>1, <1>2, <2>1 DEF IdsUpTo
<1>4. \E x \in ids : \A y \in ids : y <= x
  BY <1>3, LargestOfBounded
<1>5. top \in ids /\ \A y \in ids : y <= top
  BY <1>4
<1>6. LoadNextBatchId(queues) = 1 + top
  BY DEF LoadNextBatchId, ids
<1> HIDE DEF top
<1>7. top \in Nat
  BY <1>3, <1>5
<1> QED  BY <1>1, <1>5, <1>6, <1>7 DEF IdsUpTo
-----------------------------------------------------------------------------
(* The invariant *)

TasksInOrder == InOrder(worker, user, auth)

AsksCurrent ==
    \A a \in remote.asks : a.counter <= counter /\ (a.counter = counter => a.by = auth)

TokensOK == OneToken(remote, worker)

QueuesOK ==
    /\ \A u \in Users : RowsInOrder(queue[u]) /\ RowsOf(queue[u], u)
    /\ IdsUpTo(queue[user], nextId - 1)
    /\ \E m \in Nat : \A u \in Users : IdsUpTo(queue[u], m)

(* The numbers of the writes of u that have left the worker queue. *)
Seen(u) == {queue[u][i].w.n : i \in 1 .. Len(queue[u])}
           \cup {w.n : w \in {x \in committed : x.by = u}}
           \cup {told[u][i].n : i \in 1 .. Len(told[u])}

WritesInOrder == \A u \in Users : Ascending(worker, u, Seen(u), issued[u])

StreamOK == RemoteOK(remote, queue[user], user, committed, stored[user])

AnsweredBefore ==
    \A c \in calls : \A i \in 1 .. Len(told[c.w.by]) : told[c.w.by][i].n < c.w.n

(* A write that was stored is still in the queue, or it is older than what *)
(* is there and no newer than what its document holds.                     *)
StoredIsSettled ==
    \A w \in committed :
        \/ \E i \in 1 .. Len(queue[w.by]) : queue[w.by][i].w = w
        \/ /\ w.n <= stored[w.by]
           /\ \A i \in 1 .. Len(queue[w.by]) : w.n < queue[w.by][i].w.n

NeverRefused == \A w \in committed : w \notin Refused

AnswersOK ==
    /\ HandlerHasBatch
    /\ AnsweredBefore
    /\ AnswersInOrder
    /\ StoredIsSettled
    /\ NeverRefused
    /\ RejectionHasCause

Inv ==
    /\ TypeOK
    /\ TasksInOrder
    /\ AsksCurrent
    /\ TokensOK
    /\ QueuesOK
    /\ WritesInOrder
    /\ StreamOK
    /\ AnswersOK

-----------------------------------------------------------------------------
(* Steps that change the remote store only *)

LEMMA RemoteOnly ==
    ASSUME Inv,
           UNCHANGED <<accountVars, worker, issued, localVars, backendVars, told, restarts>>,
           faults' \in 0 .. MaxFaults,
           StreamOK', TokensOK',
           \A a \in remote'.asks : a \in remote.asks \/ (a.counter = counter /\ a.by = auth)
    PROVE  Inv'
<1> USE DEF accountVars, localVars, backendVars
<1>1. remote' \in Remotes
  BY DEF StreamOK, RemoteOK, RemoteFits
<1>2. TypeOK'
  BY <1>1 DEF Inv, TypeOK
<1>3. TasksInOrder' /\ QueuesOK'
  BY DEF Inv, TasksInOrder, QueuesOK
<1>4. AsksCurrent'
  <2>1. counter \in Nat
    BY BoundsAssumption DEF Inv, TypeOK
  <2> QED  BY <2>1 DEF Inv, AsksCurrent
<1>5. WritesInOrder'
  <2>1. \A u \in Users : Seen(u)' = Seen(u)
    BY DEF Seen
  <2> QED  BY <2>1 DEF Inv, WritesInOrder
<1>6. AnswersOK'
  BY DEF Inv, AnswersOK, HandlerHasBatch, AnsweredBefore, AnswersInOrder,
         StoredIsSettled, NeverRefused, RejectionHasCause
<1> QED  BY <1>2, <1>3, <1>4, <1>5, <1>6 DEF Inv

LEMMA StepTokenAskedAgain ==
    ASSUME Inv, NEW a \in remote.asks, TokenAskedAgain(a)
    PROVE  Inv'
<1> DEFINE b == [a EXCEPT !.counter = counter, !.by = auth]
           asks == (remote.asks \ {a}) \cup {b}
<1>1. remote \in Remotes /\ a \in Asks /\ auth \in Users /\ counter \in 0 .. MaxChanges
  BY DEF Inv, TypeOK, Remotes
<1>2. b \in Asks /\ b.close = a.close /\ b.counter = counter /\ b.by = auth
  BY <1>1 DEF Asks
<1>3. asks \subseteq Asks /\ remote' = [remote EXCEPT !.asks = asks]
  BY <1>1, <1>2 DEF TokenAskedAgain, Remotes
<1>4. \A x \in asks : x \in remote.asks \/ x = b
  OBVIOUS
<1>5. a \notin remote.asks \ {a}
  OBVIOUS
<1> HIDE DEF asks, b
<1>6. /\ remote' \in Remotes /\ remote'.asks = asks
      /\ remote'.pipeline = remote.pipeline /\ remote'.stream = remote.stream
      /\ remote'.handshake = remote.handshake /\ remote'.idle = remote.idle
      /\ remote'.closes = remote.closes /\ remote'.net = remote.net
  BY <1>1, <1>3 DEF Remotes
<1>7. StreamOK'
  <2>1. InFlight(remote', committed, stored[user])
    BY <1>6, SameNetInFlight DEF Inv, StreamOK, RemoteOK, RemoteFits
  <2> QED  BY <1>6, <2>1 DEF Inv, StreamOK, RemoteOK, RemoteFits,
              TokenAskedAgain, localVars, backendVars
<1>8. TokensOK'
  <2>1. OneToken(remote, worker)
    BY DEF Inv, TokensOK
  <2>2. \A x \in asks : \E y \in remote.asks : y.close = x.close /\ (x = y \/ (x = b /\ y = a))
    BY <1>2, <1>4
  <2>3. \A x \in asks : x = b \/ (x \in remote.asks /\ x # a)
    BY <1>3 DEF asks
  <2>4. OneToken(remote', worker)
    BY <1>2, <1>6, <2>1, <2>2, <2>3 DEF OneToken
  <2> QED  BY <2>4 DEF TokensOK, TokenAskedAgain
<1>9. \A x \in remote'.asks : x \in remote.asks \/ (x.counter = counter /\ x.by = auth)
  BY <1>2, <1>4, <1>6
<1> QED  BY <1>7, <1>8, <1>9, RemoteOnly
            DEF TokenAskedAgain, boundVars, Inv, TypeOK

LEMMA StepBackoffElapsed ==
    ASSUME Inv, BackoffElapsed
    PROVE  Inv'
<1> DEFINE r == [remote EXCEPT !.stream = "Initial"]
           f == Start(r)
<1>1. /\ remote \in Remotes /\ auth \in Users /\ counter \in 0 .. MaxChanges
      /\ remote.stream = "Backoff" /\ remote' = f
      /\ RemoteOK(remote, queue[user], user, committed, stored[user])
      /\ OneToken(remote, worker)
  BY DEF Inv, TypeOK, BackoffElapsed, StreamOK, TokensOK
<1>2. /\ r \in Remotes /\ r.stream = "Initial" /\ r.asks = remote.asks
      /\ r.pipeline = remote.pipeline /\ r.handshake = remote.handshake
      /\ r.idle = remote.idle /\ r.closes = remote.closes /\ r.net = remote.net
  BY <1>1 DEF Remotes
<1> HIDE DEF r
<1>3. OneToken(r, worker)
  BY <1>1, <1>2 DEF OneToken
<1>4. /\ f \in Remotes /\ MayStart(r, f)
      /\ f.pipeline = r.pipeline /\ f.handshake = r.handshake
      /\ f.idle = r.idle /\ f.net = r.net
      /\ f.stream \in {"Starting", "Backoff"}
  BY <1>1, <1>2, StartFields
<1> HIDE DEF f
<1>5. OneToken(f, worker)
  BY <1>2, <1>3, <1>4, StartOneToken
<1>6. RemoteOK(f, queue[user], user, committed, stored[user])
  BY <1>1, <1>2, <1>4, StoppedFits DEF RemoteOK, RemoteFits
<1>7. f.asks = remote.asks \/ f.asks = remote.asks \cup {AskNow(r)}
  BY <1>2, <1>4 DEF MayStart
<1>8. \A a \in f.asks : a \in remote.asks \/ (a.counter = counter /\ a.by = auth)
  BY <1>7 DEF AskNow
<1>9. StreamOK' /\ TokensOK'
  BY <1>1, <1>5, <1>6 DEF StreamOK, TokensOK, BackoffElapsed, localVars, backendVars
<1> QED  BY <1>1, <1>8, <1>9, RemoteOnly DEF BackoffElapsed, boundVars, Inv, TypeOK

LEMMA StepIdleTimeout ==
    ASSUME Inv, IdleTimeout
    PROVE  Inv'
<1> DEFINE r == Closed(remote, "Initial")
           f == ForgetHandshake(r)
<1>1. /\ remote \in Remotes /\ remote' = f
      /\ RemoteOK(remote, queue[user], user, committed, stored[user])
      /\ OneToken(remote, worker) /\ worker \in Seq(Tasks)
  BY DEF Inv, TypeOK, IdleTimeout, StreamOK, TokensOK
<1>2. /\ r \in Remotes /\ r.pipeline = remote.pipeline
      /\ r.asks = remote.asks /\ r.closes = remote.closes + 1
      /\ r.idle = FALSE /\ r.stream = "Initial" /\ ~r.net.open
  BY <1>1, ClosedFields
<1> HIDE DEF r
<1>3. /\ f \in Remotes /\ f.pipeline = r.pipeline /\ f.handshake = FALSE
      /\ f.asks = r.asks /\ f.closes = r.closes
      /\ f.idle = r.idle /\ f.net = r.net /\ f.stream = r.stream
  BY <1>2, ForgetHandshakeFields
<1> HIDE DEF f
<1>4. OneToken(f, worker)
  BY <1>1, <1>2, <1>3, CloseOneToken
<1>5. RemoteOK(f, queue[user], user, committed, stored[user])
  BY <1>1, <1>2, <1>3, StoppedFits DEF RemoteOK, RemoteFits
<1>6. StreamOK' /\ TokensOK'
  BY <1>1, <1>4, <1>5 DEF StreamOK, TokensOK, IdleTimeout, localVars, backendVars
<1>7. remote'.asks = remote.asks
  BY <1>1, <1>2, <1>3
<1> QED  BY <1>6, <1>7, RemoteOnly DEF IdleTimeout, boundVars, Inv, TypeOK

LEMMA StepStreamCloses ==
    ASSUME Inv, StreamCloses
    PROVE  Inv'
<1>1. /\ remote \in Remotes /\ remote' = ClosedTransiently(remote)
      /\ auth \in Users /\ counter \in 0 .. MaxChanges
      /\ IsPrefix(remote.pipeline, queue[user])
      /\ OneToken(remote, worker) /\ worker \in Seq(Tasks)
  BY DEF Inv, TypeOK, StreamCloses, StreamOK, RemoteOK, RemoteFits, TokensOK
<1>2. /\ RemoteOK(remote', queue[user], user, committed, stored[user])
      /\ OneToken(remote', worker) /\ remote'.asks = remote.asks
  BY <1>1, ClosedTransientlyKeeps
<1>3. StreamOK' /\ TokensOK'
  BY <1>2 DEF StreamOK, TokensOK, StreamCloses, localVars, backendVars
<1> QED  BY <1>2, <1>3, RemoteOnly DEF StreamCloses, boundVars, Inv, TypeOK

LEMMA StepConnectivityChange ==
    ASSUME Inv, NEW available \in BOOLEAN, ConnectivityChange(available)
    PROVE  Inv'
<1> DEFINE ended == IF net.open THEN ClosedTransiently(remote) ELSE remote
           q == queue[user]
<1>1. /\ remote \in Remotes /\ auth \in Users /\ counter \in 0 .. MaxChanges
      /\ RemoteOK(remote, q, user, committed, stored[user])
      /\ OneToken(remote, worker) /\ worker \in Seq(Tasks)
      /\ q \in Seq(Batches) /\ RowsInOrder(q)
  BY DEF Inv, TypeOK, StreamOK, TokensOK, QueuesOK
<1>2. /\ RemoteOK(ended, q, user, committed, stored[user])
      /\ OneToken(ended, worker) /\ ended.asks = remote.asks
  <2>1. CASE net.open
    BY <2>1, <1>1, ClosedTransientlyKeeps DEF RemoteOK, RemoteFits
  <2>2. CASE ~net.open
    BY <2>2, <1>1
  <2> QED  BY <2>1, <2>2
<1>3. remote' = IF available THEN RestartNetwork(ended, q) ELSE ended
  BY DEF ConnectivityChange
<1> HIDE DEF ended, q
<1>4. /\ RemoteOK(remote', q, user, committed, stored[user])
      /\ OneToken(remote', worker)
      /\ remote'.asks = remote.asks \/ \E k : remote'.asks = remote.asks \cup
             {[close |-> k, counter |-> counter, by |-> auth]}
  <2>1. CASE available
    <3>1. /\ ended \in Remotes /\ (ended.net.open <=> ended.stream = "Open")
          /\ (ended.handshake => ended.stream = "Open")
          /\ (ended.idle => ended.stream = "Open")
      BY <1>2 DEF RemoteOK, RemoteFits
    <3> QED  BY <2>1, <3>1, <1>1, <1>2, <1>3, RestartNetworkKeeps
  <2>2. CASE ~available
    BY <2>2, <1>2, <1>3
  <2> QED  BY <2>1, <2>2
<1>5. \A a \in remote'.asks : a \in remote.asks \/ (a.counter = counter /\ a.by = auth)
  BY <1>4
<1>6. StreamOK' /\ TokensOK'
  BY <1>4 DEF StreamOK, TokensOK, ConnectivityChange, localVars, backendVars, q
<1>7. faults' \in 0 .. MaxFaults
  <2>1. faults \in 0 .. MaxFaults /\ faults < MaxFaults /\ faults' = faults + 1
    BY DEF ConnectivityChange, Inv, TypeOK
  <2> QED  BY <2>1, BoundsAssumption
<1> QED  BY <1>5, <1>6, <1>7, RemoteOnly DEF ConnectivityChange

(* A step that changes the messages of an open stream, and nothing else of *)
(* the remote store.                                                       *)
LEMMA NetOnly ==
    ASSUME Inv, NEW n \in Streams, remote' = [remote EXCEPT !.net = n],
           remote.net.open, n.open, n.token = remote.net.token
    PROVE  /\ remote' \in Remotes /\ remote'.net = n
           /\ remote'.pipeline = remote.pipeline /\ remote'.stream = remote.stream
           /\ remote'.handshake = remote.handshake /\ remote'.idle = remote.idle
           /\ remote'.closes = remote.closes /\ remote'.asks = remote.asks
           /\ OneToken(remote', worker)
           /\ \A c, s : InFlight(remote', c, s) =>
                 RemoteOK(remote', queue[user], user, c, s)
<1>1. remote \in Remotes /\ OneToken(remote, worker)
      /\ RemoteOK(remote, queue[user], user, committed, stored[user])
  BY DEF Inv, TypeOK, TokensOK, StreamOK
<1>2. /\ remote' \in Remotes /\ remote'.net = n
      /\ remote'.pipeline = remote.pipeline /\ remote'.stream = remote.stream
      /\ remote'.handshake = remote.handshake /\ remote'.idle = remote.idle
      /\ remote'.closes = remote.closes /\ remote'.asks = remote.asks
  BY <1>1 DEF Remotes
<1>3. OneToken(remote', worker)
  BY <1>1, <1>2 DEF OneToken
<1>4. \A c, s : InFlight(remote', c, s) => RemoteOK(remote', queue[user], user, c, s)
  BY <1>1, <1>2 DEF RemoteOK, RemoteFits
<1> QED  BY <1>2, <1>3, <1>4

LEMMA OpenStream ==
    ASSUME Inv, remote.net.open
    PROVE  /\ remote.net \in [open : {TRUE}, token : Users,
                              up : Seq(Batches \cup {Hello}),
                              down : Seq({"hello", "ok"}),
                              status : {"none", "refused", "broken"},
                              events : Seq({"hello", "ok", "failed"})]
           /\ Len(remote.net.down) \in Nat /\ Len(remote.pipeline) \in Nat
           /\ remote.handshake => Sending(remote, committed, stored[user])
           /\ ~remote.handshake => Greeting(remote)
<1>1. remote \in Remotes /\ InFlight(remote, committed, stored[user])
  BY DEF Inv, TypeOK, StreamOK, RemoteOK, RemoteFits
<1> QED  BY <1>1, RemoteFields, LenProperties DEF InFlight

LEMMA StepStreamBreaks ==
    ASSUME Inv, NEW status \in {"refused", "broken"}, StreamBreaks(status)
    PROVE  Inv'
<1> DEFINE n == [remote.net EXCEPT !.up = <<>>, !.down = <<>>, !.status = status]
<1>1. /\ remote.net.open /\ remote.net.status = "none"
      /\ status = "refused" => IsIn(Hello, remote.net.up)
  BY DEF StreamBreaks, Live, net
<1>2. /\ n \in Streams /\ n.open /\ n.token = remote.net.token
      /\ n.up = <<>> /\ n.down = <<>> /\ n.status = status /\ n.events = remote.net.events
  <2>1. <<>> \in Seq(Batches \cup {Hello}) /\ <<>> \in Seq({"hello", "ok"})
    BY EmptySeq
  <2> QED  BY <2>1, <1>1, OpenStream DEF Streams
<1>3. remote' = [remote EXCEPT !.net = n]
  BY DEF StreamBreaks, Inv, TypeOK, Remotes
<1> HIDE DEF n
<1>4. /\ remote' \in Remotes /\ remote'.net = n
      /\ remote'.pipeline = remote.pipeline /\ remote'.handshake = remote.handshake
      /\ remote'.asks = remote.asks /\ OneToken(remote', worker)
      /\ InFlight(remote', committed, stored[user]) =>
            RemoteOK(remote', queue[user], user, committed, stored[user])
  BY <1>1, <1>2, <1>3, NetOnly
<1>5. ASSUME remote.handshake
      PROVE  InFlight(remote', committed, stored[user])
  <2>1. /\ Sending(remote, committed, stored[user])
        /\ Len(remote.net.down) \in Nat /\ Len(remote.pipeline) \in Nat
        /\ remote.pipeline \in Seq(Batches)
    BY <1>1, <1>5, OpenStream, RemoteFields DEF Inv, TypeOK
  <2>2. Taken(remote) \in 0 .. Len(remote.pipeline)
    BY <2>1, TakenIs DEF Sending
  <2>3. status = "broken"
    <3>1. remote.net.up = SubSeq(remote.pipeline, Taken(remote) + 1, Len(remote.pipeline))
      BY <1>1, <2>1 DEF Sending
    <3>2. remote.net.up \in Seq(Batches)
      BY <2>1, <2>2, <3>1, SubSeqFrom
    <3>3. \A i \in DOMAIN remote.net.up : remote.net.up[i] # Hello
      <4>1. DOMAIN remote.net.up = 1 .. Len(remote.net.up)
        BY <3>2, LenProperties
      <4>2. ASSUME NEW i \in 1 .. Len(remote.net.up)
            PROVE  remote.net.up[i] # Hello
        <5>1. remote.net.up[i] \in Batches
          BY <3>2, ElementOfSeq
        <5> QED  BY <5>1, BatchFields
      <4> QED  BY <4>1, <4>2
    <3> QED  BY <1>1, <3>3 DEF IsIn
  <2>4. Taken(remote') = (IF IsIn("ok", remote.net.events) THEN 1 ELSE 0)
    BY <1>2, <1>4, TakenIs
  <2>5. Taken(remote') \in 0 .. Taken(remote)
    BY <2>1, <2>4, TakenIs
  <2>6. Sending(remote', committed, stored[user])
    <3>1. \A i \in 1 .. Len(remote'.net.down) : remote'.net.down[i] = "ok"
      BY <1>2, <1>4
    <3>2. \/ remote'.net.events = <<>> \/ remote'.net.events = <<"ok">>
      BY <1>1, <1>2, <1>4, <2>1 DEF Sending
    <3>3. Taken(remote') <= Len(remote'.pipeline)
      BY <2>1, <2>2, <2>5, <1>4
    <3>4. \A i \in 1 .. Taken(remote') :
              remote'.pipeline[i].w \in committed /\ remote'.pipeline[i].w.n <= stored[user]
      BY <2>1, <2>2, <2>5, <1>4 DEF Sending
    <3> QED  BY <3>1, <3>2, <3>3, <3>4, <1>2, <1>4, <2>3 DEF Sending
  <2> QED  BY <1>4, <1>5, <2>6 DEF InFlight
<1>6. ASSUME ~remote.handshake
      PROVE  InFlight(remote', committed, stored[user])
  <2>1. Greeting(remote)
    BY <1>1, <1>6, OpenStream
  <2>2. status = "refused" => remote.net.events = <<>>
    BY <1>1, <2>1, InShort DEF Greeting
  <2>3. Greeting(remote')
    BY <1>1, <1>2, <1>4, <2>1, <2>2 DEF Greeting
  <2> QED  BY <1>4, <1>6, <2>3 DEF InFlight
<1>7. StreamOK' /\ TokensOK'
  <2>1. InFlight(remote', committed, stored[user])
    BY <1>5, <1>6
  <2> QED  BY <1>4, <2>1 DEF StreamOK, TokensOK, StreamBreaks, localVars, backendVars
<1>8. faults' \in 0 .. MaxFaults
  <2>1. faults' = faults + 1 /\ faults < MaxFaults
    BY DEF StreamBreaks
  <2>2. faults \in 0 .. MaxFaults /\ MaxFaults \in Nat
    BY BoundsAssumption DEF Inv, TypeOK
  <2> QED  BY <2>1, <2>2
<1> QED  BY <1>4, <1>7, <1>8, RemoteOnly DEF StreamBreaks

(* The answers move from the network to the completions, or an error is    *)
(* added to these.                                                         *)
LEMMA SendingSame ==
    ASSUME NEW r, NEW c, NEW s, Sending(r, c, s),
           NEW f, f.pipeline = r.pipeline, Taken(f) = Taken(r),
           f.net.up = r.net.up, f.net.status = r.net.status,
           \A i \in 1 .. Len(f.net.down) : f.net.down[i] = "ok",
           \/ f.net.events = <<>> \/ f.net.events = <<"ok">>
           \/ /\ f.net.status # "none"
              /\ \/ f.net.events = <<"failed">>
                 \/ f.net.events = <<"ok", "failed">>
                 \/ f.net.events = <<"failed", "ok">>
    PROVE  Sending(f, c, s)
  BY DEF Sending

LEMMA ReadMessage ==
    ASSUME Inv, remote.net.open, remote.net.down # <<>>,
           \A i \in DOMAIN remote.net.events : remote.net.events[i] = "failed",
           NEW f, f.pipeline = remote.pipeline, f.handshake = remote.handshake,
           f.net.open, f.net.up = remote.net.up, f.net.status = remote.net.status,
           f.net.down = Tail(remote.net.down),
           f.net.events = Append(remote.net.events, Head(remote.net.down))
    PROVE  InFlight(f, committed, stored[user])
<1> DEFINE down == remote.net.down
           events == remote.net.events
<1>1. /\ Len(down) \in Nat \ {0} /\ Head(down) = down[1]
      /\ Len(Tail(down)) = Len(down) - 1
      /\ \A i \in 1 .. Len(down) - 1 : Tail(down)[i] = down[i + 1]
  <2>1. down \in Seq({"hello", "ok"})
    BY OpenStream
  <2> QED  BY <2>1, EmptySeq, HeadTailProperties
<1>2. events # <<"ok">> /\ events # <<"ok", "failed">> /\ events # <<"failed", "ok">>
      /\ events # <<"hello">>
  <2>1. ~IsIn("ok", events) /\ ~IsIn("hello", events)
    BY DEF IsIn
  <2>2. IsIn("hello", <<"hello">>)
    BY InShort
  <2> QED  BY <2>1, <2>2, EventsShort
<1>3. CASE remote.handshake
  <2>1. Sending(remote, committed, stored[user])
    BY <1>3, OpenStream
  <2>2. /\ events = <<>> \/ (events = <<"failed">> /\ remote.net.status # "none")
        /\ \A i \in 1 .. Len(down) : down[i] = "ok"
    BY <2>1, <1>2 DEF Sending
  <2>3. f.net.events = <<"ok">>
        \/ (f.net.events = <<"failed", "ok">> /\ f.net.status # "none")
    <3>1. Head(down) = "ok"
      BY <1>1, <2>2
    <3>2. f.net.events = Append(events, "ok")
      BY <3>1
    <3> QED  BY <2>2, <3>2, EventsShort
  <2>4. ~IsIn("ok", events) /\ IsIn("ok", f.net.events)
    BY <2>2, <2>3, EventsShort
  <2>5. Len(f.net.down) \in Nat /\ Len(f.net.down) = Len(down) - 1
    BY <1>1
  <2>6. Taken(f) = Len(f.net.down) + 1
    BY <2>4, <2>5, TakenIs
  <2>7. Taken(remote) = Len(down)
    BY <1>1, <2>4, TakenIs
  <2>8. \A i \in 1 .. Len(f.net.down) : f.net.down[i] = "ok"
    BY <1>1, <2>2, <2>5
  <2>9. Taken(f) = Taken(remote)
    BY <1>1, <2>5, <2>6, <2>7
  <2>10. Sending(f, committed, stored[user])
    BY <2>1, <2>3, <2>8, <2>9, SendingSame
  <2> QED  BY <1>3, <2>10 DEF InFlight
<1>4. CASE ~remote.handshake
  <2>1. Greeting(remote)
    BY <1>4, OpenStream
  <2>2. /\ down = <<"hello">> /\ events = <<>>
        /\ remote.net.status = "none" /\ remote.net.up = <<>>
    BY <2>1, <1>2 DEF Greeting
  <2>3. f.net.down = <<>> /\ f.net.events = <<"hello">>
    BY <2>2, TailShort, EventsShort
  <2> QED  BY <1>4, <2>2, <2>3 DEF InFlight, Greeting
<1>5. remote.handshake \in BOOLEAN
  BY RemoteFields DEF Inv, TypeOK
<1> QED  BY <1>3, <1>4, <1>5

LEMMA ReadError ==
    ASSUME Inv, remote.net.open, remote.net.down = <<>>,
           remote.net.status # "none", remote.net.events = <<>>,
           NEW f, f.pipeline = remote.pipeline, f.handshake = remote.handshake,
           f.net.open, f.net.up = remote.net.up, f.net.status = remote.net.status,
           f.net.down = remote.net.down, f.net.events = <<"failed">>
    PROVE  InFlight(f, committed, stored[user])
<1>1. CASE remote.handshake
  <2>1. Sending(remote, committed, stored[user])
    BY <1>1, OpenStream
  <2>2. Len(f.net.down) \in Nat /\ Len(remote.net.down) \in Nat
    BY OpenStream
  <2>3. Taken(f) = Taken(remote)
    <3>1. ~IsIn("ok", f.net.events) /\ ~IsIn("ok", remote.net.events)
      BY EventsShort
    <3> QED  BY <2>2, <3>1, TakenIs
  <2>4. Sending(f, committed, stored[user])
    <3>1. \A i \in 1 .. Len(f.net.down) : f.net.down[i] = "ok"
      BY <2>1 DEF Sending
    <3> QED  BY <2>1, <2>3, <3>1, SendingSame
  <2> QED  BY <1>1, <2>4 DEF InFlight
<1>2. CASE ~remote.handshake
  <2>1. Greeting(remote)
    BY <1>2, OpenStream
  <2>2. remote.net.up = <<>>
    BY <2>1 DEF Greeting
  <2> QED  BY <1>2, <2>2 DEF InFlight, Greeting
<1>3. remote.handshake \in BOOLEAN
  BY RemoteFields DEF Inv, TypeOK
<1> QED  BY <1>1, <1>2, <1>3

LEMMA StepReadCompletes ==
    ASSUME Inv, ReadCompletes
    PROVE  Inv'
<1>1. /\ remote.net.open /\ remote \in Remotes
      /\ \A i \in DOMAIN remote.net.events : remote.net.events[i] = "failed"
  BY DEF ReadCompletes, net, Inv, TypeOK
<1>2. PICK n \in Streams :
         /\ remote' = [remote EXCEPT !.net = n]
         /\ n.open /\ n.token = remote.net.token
         /\ n.up = remote.net.up /\ n.status = remote.net.status
         /\ \/ /\ remote.net.down # <<>> /\ n.down = Tail(remote.net.down)
               /\ n.events = Append(remote.net.events, Head(remote.net.down))
            \/ /\ remote.net.down = <<>> /\ remote.net.status # "none"
               /\ remote.net.events = <<>>
               /\ n.down = remote.net.down /\ n.events = <<"failed">>
  <2>1. remote.net \in [open : {TRUE}, token : Users, up : Seq(Batches \cup {Hello}),
                        down : Seq({"hello", "ok"}),
                        status : {"none", "refused", "broken"},
                        events : Seq({"hello", "ok", "failed"})]
    BY <1>1, OpenStream
  <2>2. CASE /\ remote.net.down # <<>>
             /\ remote' = [remote EXCEPT !.net.down = Tail(@),
                             !.net.events = Append(@, Head(remote.net.down))]
    <3> DEFINE n == [remote.net EXCEPT !.down = Tail(@),
                                       !.events = Append(@, Head(remote.net.down))]
    <3>1. /\ Tail(remote.net.down) \in Seq({"hello", "ok"})
          /\ Head(remote.net.down) \in {"hello", "ok", "failed"}
      <4>1. remote.net.down \in Seq({"hello", "ok"})
        BY <2>1
      <4>2. /\ Tail(remote.net.down) \in Seq({"hello", "ok"})
            /\ Head(remote.net.down) \in {"hello", "ok"}
        BY <4>1, <2>2, EmptySeq, HeadTailProperties
      <4> QED  BY <4>2
    <3>2. Append(remote.net.events, Head(remote.net.down)) \in Seq({"hello", "ok", "failed"})
      BY <2>1, <3>1, AppendProperties
    <3>3. /\ n \in Streams /\ n.open /\ n.token = remote.net.token
          /\ n.up = remote.net.up /\ n.status = remote.net.status
          /\ n.down = Tail(remote.net.down)
          /\ n.events = Append(remote.net.events, Head(remote.net.down))
      BY <2>1, <3>1, <3>2 DEF Streams
    <3>4. remote' = [remote EXCEPT !.net = n]
      BY <1>1, <2>1, <2>2 DEF Remotes
    <3> HIDE DEF n
    <3> QED  BY <2>2, <3>3, <3>4
  <2>3. CASE /\ remote.net.down = <<>> /\ remote.net.status # "none"
             /\ remote.net.events = <<>>
             /\ remote' = [remote EXCEPT !.net.events = <<"failed">>]
    <3> DEFINE n == [remote.net EXCEPT !.events = <<"failed">>]
    <3>1. /\ n \in Streams /\ n.open /\ n.token = remote.net.token
          /\ n.up = remote.net.up /\ n.status = remote.net.status
          /\ n.down = remote.net.down /\ n.events = <<"failed">>
      <4>1. <<"failed">> \in Seq({"hello", "ok", "failed"})
        OBVIOUS
      <4> QED  BY <2>1, <4>1 DEF Streams
    <3>2. remote' = [remote EXCEPT !.net = n]
      BY <1>1, <2>1, <2>3 DEF Remotes
    <3> HIDE DEF n
    <3> QED  BY <2>3, <3>1, <3>2
  <2> QED  BY <2>2, <2>3 DEF ReadCompletes, net
<1>3. /\ remote'.net = n /\ remote'.pipeline = remote.pipeline
      /\ remote'.handshake = remote.handshake /\ remote'.asks = remote.asks
      /\ OneToken(remote', worker)
      /\ InFlight(remote', committed, stored[user]) =>
            RemoteOK(remote', queue[user], user, committed, stored[user])
  BY <1>1, <1>2, NetOnly
<1>4. InFlight(remote', committed, stored[user])
  <2>1. CASE remote.net.down # <<>>
    BY <1>1, <1>2, <1>3, <2>1, ReadMessage
  <2>2. CASE remote.net.down = <<>>
    BY <1>1, <1>2, <1>3, <2>2, ReadError
  <2> QED  BY <2>1, <2>2
<1>5. StreamOK' /\ TokensOK'
  BY <1>3, <1>4 DEF StreamOK, TokensOK, ReadCompletes, localVars, backendVars
<1> QED  BY <1>3, <1>5, RemoteOnly DEF ReadCompletes, boundVars, Inv, TypeOK

LEMMA StepHandshakeComplete ==
    ASSUME Inv, HandshakeComplete
    PROVE  Inv'
<1> DEFINE n == [remote.net EXCEPT !.events = <<>>]
           r == [remote EXCEPT !.handshake = TRUE, !.net = n]
           f == IF r.pipeline = <<>> THEN r ELSE Write(r, r.pipeline)
           pipe == remote.pipeline
<1>1. /\ remote.net.open /\ remote.net.events # <<>> /\ Head(remote.net.events) = "hello"
      /\ remote \in Remotes /\ pipe \in Seq(Batches)
      /\ RemoteOK(remote, queue[user], user, committed, stored[user])
      /\ OneToken(remote, worker)
  BY RemoteFields DEF HandshakeComplete, NextEvent, net, Inv, TypeOK, StreamOK, TokensOK
<1>2. ~remote.handshake /\ Greeting(remote)
  <2>1. ~Sending(remote, committed, stored[user])
    BY <1>1, TailShort DEF Sending
  <2> QED  BY <1>1, <2>1, OpenStream
<1>3. /\ remote.net.events = <<"hello">> /\ remote.net.up = <<>> /\ remote.net.down = <<>>
      /\ remote.net.status \in {"none", "broken"}
  <2>1. remote.net.status \in {"none", "refused", "broken"}
    BY <1>1, OpenStream
  <2> QED  BY <1>1, <1>2, <2>1, TailShort DEF Greeting
<1>4. /\ n \in Streams /\ n.open /\ n.token = remote.net.token
      /\ n.up = <<>> /\ n.down = <<>> /\ n.events = <<>> /\ n.status = remote.net.status
  <2>1. <<>> \in Seq({"hello", "ok", "failed"})
    BY EmptySeq
  <2> QED  BY <1>1, <1>3, <2>1, OpenStream DEF Streams
<1>5. remote' = f
  <2>1. Tail(remote.net.events) = <<>>
    BY <1>3, TailShort
  <2> DEFINE a == [AfterEvent EXCEPT !.handshake = TRUE]
  <2>2. a = r
    BY <1>1, <2>1 DEF AfterEvent, Remotes
  <2>3. remote' = IF a.pipeline = <<>> THEN a ELSE Write(a, a.pipeline)
    BY DEF HandshakeComplete
  <2> HIDE DEF a, r
  <2> QED  BY <2>2, <2>3
<1> HIDE DEF n
<1>6. /\ r \in Remotes /\ r.net = n /\ r.pipeline = pipe /\ r.handshake = TRUE
      /\ r.stream = remote.stream /\ r.idle = remote.idle
      /\ r.closes = remote.closes /\ r.asks = remote.asks
  BY <1>1, <1>4 DEF Remotes
<1> HIDE DEF r
<1>7. /\ f \in Remotes /\ f.pipeline = pipe /\ f.stream = remote.stream
      /\ f.handshake /\ f.closes = remote.closes /\ f.asks = remote.asks
      /\ f.idle => remote.idle
      /\ f.net.open /\ f.net.token = remote.net.token /\ f.net.down = <<>>
      /\ f.net.status = remote.net.status
      /\ f.net.up = IF remote.net.status = "none" THEN pipe ELSE <<>>
      /\ f.net.events = <<>> \/ (f.net.events = <<"failed">> /\ f.net.status # "none")
  <2>1. CASE pipe = <<>>
    BY <2>1, <1>4, <1>6
  <2>2. CASE pipe # <<>>
    <3>1. pipe \in Seq(Batches \cup {Hello})
      BY <1>1, SeqMonotonic
    <3>2. <<>> \o pipe = pipe
      BY <1>1, ConcatEmptySeq
    <3>3. f = Write(r, pipe) /\ r.net.open
      BY <2>2, <1>4, <1>6
    <3> HIDE DEF f
    <3>4. /\ f \in Remotes
          /\ f.pipeline = r.pipeline /\ f.stream = r.stream
          /\ f.handshake = r.handshake /\ f.closes = r.closes /\ f.asks = r.asks
          /\ f.idle = FALSE
          /\ f.net.open /\ f.net.token = r.net.token
          /\ f.net.down = r.net.down /\ f.net.status = r.net.status
          /\ f.net.up = (IF r.net.status = "none" THEN r.net.up \o pipe ELSE r.net.up)
          /\ f.net.events = (IF r.net.status = "none" \/ IsIn("failed", r.net.events)
                             THEN r.net.events ELSE Append(r.net.events, "failed"))
      BY <1>6, <3>1, <3>3, WriteFields
    <3> QED  BY <1>4, <1>6, <3>2, <3>4, EventsShort
  <2> QED  BY <2>1, <2>2
<1> HIDE DEF f
<1>8. Sending(f, committed, stored[user])
  <2>1. Len(f.net.down) = 0 /\ Len(pipe) \in Nat
    BY <1>1, <1>7, EmptySeq, LenProperties
  <2>2. ~IsIn("ok", f.net.events)
    BY <1>7, EventsShort
  <2>3. Taken(f) = 0
    BY <2>1, <2>2, TakenIs
  <2>4. pipe = SubSeq(pipe, 1, Len(pipe))
    BY <1>1, SubSeqFull
  <2>5. f.net.status # "refused"
    BY <1>3, <1>7
  <2> QED  BY <1>7, <2>1, <2>3, <2>4, <2>5 DEF Sending
<1>9. RemoteOK(f, queue[user], user, committed, stored[user])
  BY <1>1, <1>2, <1>7, <1>8 DEF RemoteOK, RemoteFits, InFlight
<1>10. OneToken(f, worker)
  BY <1>1, <1>7 DEF OneToken
<1>11. StreamOK' /\ TokensOK'
  BY <1>5, <1>9, <1>10 DEF StreamOK, TokensOK, HandshakeComplete, localVars, backendVars
<1> QED  BY <1>5, <1>7, <1>11, RemoteOnly DEF HandshakeComplete, boundVars, Inv, TypeOK

-----------------------------------------------------------------------------
(* Steps that add a task to the worker queue *)

LEMMA SeenNumbers ==
    ASSUME Inv, NEW u \in Users
    PROVE  /\ Seen(u) \in SUBSET Nat
           /\ queue[u] \in Seq(Batches) /\ told[u] \in Seq(Answers)
           /\ issued[u] \in Nat /\ stored[u] \in Nat
<1>1. /\ queue[u] \in Seq(Batches) /\ told[u] \in Seq(Answers) /\ committed \subseteq Writes
      /\ issued[u] \in Nat /\ stored[u] \in Nat
  BY BoundsAssumption DEF Inv, TypeOK
<1>2. \A i \in 1 .. Len(queue[u]) : queue[u][i].w.n \in Nat
  <2>1. \A i \in 1 .. Len(queue[u]) : queue[u][i] \in Batches
    BY <1>1, ElementOfSeq
  <2>2. \A b \in Batches : b.w.n \in Nat
    BY DEF Batches, Writes
  <2> QED  BY <2>1, <2>2
<1>3. \A w \in committed : w.n \in Nat
  BY <1>1 DEF Writes
<1>4. \A i \in 1 .. Len(told[u]) : told[u][i].n \in Nat
  <2>1. \A i \in 1 .. Len(told[u]) : told[u][i] \in Answers
    BY <1>1, ElementOfSeq
  <2> QED  BY <2>1 DEF Answers
<1> QED  BY <1>1, <1>2, <1>3, <1>4 DEF Seen

LEMMA AnswersSame ==
    ASSUME AnswersOK, UNCHANGED <<queue, calls, committed, stored, told>>
    PROVE  AnswersOK'
  BY DEF AnswersOK, HandlerHasBatch, AnsweredBefore, AnswersInOrder,
         StoredIsSettled, NeverRefused, RejectionHasCause

LEMMA TaskAdded ==
    ASSUME Inv, UNCHANGED <<localVars, backendVars, told, restarts>>,
           NEW t \in Tasks, worker' = Append(worker, t), auth' \in Users,
           t.task = "user" => auth' = t.u,
           t.task = "write" => auth' = auth /\ t.w.by = auth,
           t.task = "token" => auth' = auth /\ t.by = auth,
           counter' \in 0 .. MaxChanges, faults' \in 0 .. MaxFaults,
           issued' \in [Users -> 0 .. MaxWrites],
           \A u \in Users : issued'[u] \in {issued[u], issued[u] + 1},
           \A u \in Users : IsWriteOf(t, u) =>
               t.w.n = issued[u] + 1 /\ issued'[u] = issued[u] + 1,
           AsksCurrent', TokensOK', StreamOK'
    PROVE  Inv'
<1>1. worker \in Seq(Tasks)
  BY DEF Inv, TypeOK
<1>2. TypeOK'
  <2>1. worker' \in Seq(Tasks)
    BY <1>1, AppendProperties
  <2>2. remote' \in Remotes
    BY DEF StreamOK, RemoteOK, RemoteFits
  <2> QED  BY <2>1, <2>2 DEF Inv, TypeOK, localVars, backendVars
<1>3. TasksInOrder'
  <2>1. InOrder(worker, user, auth)
    BY DEF Inv, TasksInOrder
  <2>2. InOrder(Append(worker, t), user, auth')
    BY <1>1, <2>1, TasksAppend
  <2> QED  BY <2>2 DEF TasksInOrder, localVars
<1>4. QueuesOK' /\ AnswersOK'
  BY AnswersSame DEF Inv, QueuesOK, localVars, backendVars
<1>5. WritesInOrder'
  <2> SUFFICES ASSUME NEW u \in Users
               PROVE  Ascending(worker', u, Seen(u)', issued'[u])
    BY DEF WritesInOrder
  <2>1. Seen(u)' = Seen(u)
    BY DEF Seen, localVars, backendVars
  <2>2. /\ Ascending(worker, u, Seen(u), issued[u])
        /\ Seen(u) \in SUBSET Nat /\ issued[u] \in Nat
    BY SeenNumbers DEF Inv, WritesInOrder
  <2>3. Ascending(Append(worker, t), u, Seen(u), issued'[u])
    BY <1>1, <2>2, AscendingAppend
  <2> QED  BY <2>1, <2>3
<1> QED  BY <1>2, <1>3, <1>4, <1>5 DEF Inv

(* A user with writes left to the bound has a number left. *)
LEMMA RoomForWrite ==
    ASSUME NEW count \in [Users -> 0 .. MaxWrites], NEW u \in Users,
           Cardinality({w \in Writes : w.n <= count[w.by]}) < MaxWrites
    PROVE  count[u] < MaxWrites
<1> DEFINE S == {w \in Writes : w.n <= count[w.by]}
           pairs == Users \X (1 .. MaxWrites)
           toPair == [w \in Writes |-> <<w.by, w.n>>]
           toWrite == [i \in 1 .. MaxWrites |-> [by |-> u, n |-> i]]
<1>1. MaxWrites \in Nat /\ IsFiniteSet(Users)
  BY BoundsAssumption, UsersAssumption
<1>2. IsFiniteSet(1 .. MaxWrites) /\ Cardinality(1 .. MaxWrites) = MaxWrites
  <2>1. 1 \in Int /\ MaxWrites \in Int
    BY <1>1
  <2> QED  BY <1>1, <2>1, FS_Interval
<1>3. IsFiniteSet(pairs)
  BY <1>1, <1>2, FS_Product
<1>4. toPair \in Injection(Writes, pairs)
  BY DEF Injection, IsInjective, Writes
<1> HIDE DEF pairs, toPair
<1>5. IsFiniteSet(Writes)
  BY <1>3, <1>4, FS_Injection
<1>6. IsFiniteSet(S) /\ Cardinality(S) \in Nat
  <2>1. S \in SUBSET Writes
    OBVIOUS
  <2> HIDE DEF S
  <2>2. IsFiniteSet(S)
    BY <1>5, <2>1, FS_Subset
  <2> QED  BY <2>2, FS_CardinalityType
<1> SUFFICES ASSUME ~(count[u] < MaxWrites)
             PROVE  FALSE
  OBVIOUS
<1>7. count[u] = MaxWrites
  BY <1>1
<1>8. toWrite \in Injection(1 .. MaxWrites, S)
  <2>1. \A i \in 1 .. MaxWrites : toWrite[i] \in S
    BY <1>1, <1>7 DEF Writes
  <2> HIDE DEF S
  <2> QED  BY <2>1 DEF Injection, IsInjective
<1>9. Cardinality(S) < MaxWrites
  OBVIOUS
<1> HIDE DEF S, toWrite
<1>10. Cardinality(1 .. MaxWrites) <= Cardinality(S)
  BY <1>6, <1>8, FS_Injection
<1> QED  BY <1>1, <1>2, <1>6, <1>9, <1>10

LEMMA StepIssueWrite ==
    ASSUME Inv, IssueWrite
    PROVE  Inv'
<1> DEFINE w == [by |-> auth, n |-> issued[auth] + 1]
           t == [task |-> "write", w |-> w]
<1>1. /\ auth \in Users /\ issued \in [Users -> 0 .. MaxWrites] /\ MaxWrites \in Nat
      /\ counter \in 0 .. MaxChanges /\ faults \in 0 .. MaxFaults
      /\ worker \in Seq(Tasks)
  BY BoundsAssumption DEF Inv, TypeOK
<1>2. issued[auth] < MaxWrites
  BY <1>1, RoomForWrite DEF IssueWrite
<1>3. issued[auth] + 1 \in 1 .. MaxWrites
  BY <1>1, <1>2
<1>4. w \in Writes /\ w.by = auth /\ w.n = issued[auth] + 1
  BY <1>1, <1>3 DEF Writes
<1> HIDE DEF w
<1>5. /\ t \in Tasks /\ t.task = "write" /\ t.w = w
      /\ worker' = Append(worker, t)
  BY <1>4 DEF Tasks, IssueWrite, w
<1> HIDE DEF t
<1>6. issued' = [issued EXCEPT ![auth] = issued[auth] + 1]
  BY DEF IssueWrite
<1>7. /\ issued' \in [Users -> 0 .. MaxWrites]
      /\ \A u \in Users : issued'[u] \in {issued[u], issued[u] + 1}
      /\ issued'[auth] = issued[auth] + 1
  BY <1>1, <1>3, <1>6
<1>8. \A u \in Users : IsWriteOf(t, u) =>
          t.w.n = issued[u] + 1 /\ issued'[u] = issued[u] + 1
  BY <1>4, <1>5, <1>7 DEF IsWriteOf
<1>9. UNCHANGED <<auth, counter, user, queue, nextId, calls, remote, committed, stored, told,
                  faults, restarts>>
  BY DEF IssueWrite, accountVars, localVars, backendVars, boundVars
<1>10. AsksCurrent' /\ StreamOK'
  BY <1>9 DEF Inv, AsksCurrent, StreamOK
<1>11. TokensOK'
  <2>1. OneToken(remote, Append(worker, t))
    BY <1>1, <1>5, AppendOneToken DEF Inv, TokensOK, IsToken
  <2> QED  BY <2>1, <1>5, <1>9 DEF TokensOK
<1> QED  BY <1>1, <1>4, <1>5, <1>7, <1>8, <1>9, <1>10, <1>11, TaskAdded
            DEF localVars, backendVars

LEMMA StepCredentialChange ==
    ASSUME Inv, NEW u \in Users, CredentialChange(u)
    PROVE  Inv'
<1> DEFINE t == [task |-> "user", u |-> u]
<1>1. /\ issued \in [Users -> 0 .. MaxWrites] /\ counter \in 0 .. MaxChanges
      /\ MaxChanges \in Nat /\ faults \in 0 .. MaxFaults /\ worker \in Seq(Tasks)
  BY BoundsAssumption DEF Inv, TypeOK
<1>2. t \in Tasks /\ t.task = "user" /\ t.u = u /\ worker' = Append(worker, t)
  BY DEF Tasks, CredentialChange
<1> HIDE DEF t
<1>3. auth' = u /\ counter' = counter + 1 /\ counter < MaxChanges
  BY DEF CredentialChange
<1>4. UNCHANGED <<issued, user, queue, nextId, calls, remote, committed, stored, told,
                  faults, restarts>>
  BY DEF CredentialChange, localVars, backendVars, boundVars
<1>5. counter' \in 0 .. MaxChanges
  BY <1>1, <1>3
<1>6. AsksCurrent'
  <2> SUFFICES ASSUME NEW a \in remote.asks
               PROVE  a.counter <= counter + 1 /\ a.counter # counter + 1
    BY <1>3, <1>4 DEF AsksCurrent
  <2>1. a.counter \in Nat /\ a.counter <= counter
    BY DEF Inv, AsksCurrent, TypeOK, Remotes, Asks
  <2> QED  BY <1>1, <2>1
<1>7. StreamOK'
  BY <1>4 DEF Inv, StreamOK
<1>8. TokensOK'
  <2>1. OneToken(remote, Append(worker, t))
    BY <1>1, <1>2, AppendOneToken DEF Inv, TokensOK, IsToken
  <2> QED  BY <2>1, <1>2, <1>4 DEF TokensOK
<1>9. \A v \in Users : issued'[v] \in {issued[v], issued[v] + 1} /\ ~IsWriteOf(t, v)
  BY <1>2, <1>4 DEF IsWriteOf
<1> QED  BY <1>1, <1>2, <1>3, <1>4, <1>5, <1>6, <1>7, <1>8, <1>9, TaskAdded
            DEF localVars, backendVars

LEMMA StepTokenAnswer ==
    ASSUME Inv, NEW a \in remote.asks, NEW ok \in BOOLEAN, TokenAnswer(a, ok)
    PROVE  Inv'
<1> DEFINE t == [task |-> "token", close |-> a.close, by |-> a.by, ok |-> ok]
<1>1. /\ issued \in [Users -> 0 .. MaxWrites] /\ counter \in 0 .. MaxChanges
      /\ faults \in 0 .. MaxFaults /\ MaxFaults \in Nat /\ worker \in Seq(Tasks)
      /\ remote \in Remotes /\ a \in Asks /\ auth \in Users
  BY BoundsAssumption DEF Inv, TypeOK, Remotes
<1>2. a.counter = counter /\ a.by = auth /\ a.close \in Nat
  BY <1>1 DEF TokenAnswer, Inv, AsksCurrent, Asks
<1>3. /\ t \in Tasks /\ t.task = "token" /\ t.close = a.close /\ t.by = auth
      /\ worker' = Append(worker, t)
  BY <1>1, <1>2 DEF Tasks, TokenAnswer
<1> HIDE DEF t
<1>4. remote' = [remote EXCEPT !.asks = remote.asks \ {a}]
  BY DEF TokenAnswer
<1>5. /\ remote' \in Remotes /\ remote'.asks = remote.asks \ {a}
      /\ remote'.pipeline = remote.pipeline /\ remote'.stream = remote.stream
      /\ remote'.handshake = remote.handshake /\ remote'.idle = remote.idle
      /\ remote'.closes = remote.closes /\ remote'.net = remote.net
  BY <1>1, <1>4 DEF Remotes
<1>6. UNCHANGED <<auth, counter, issued, user, queue, nextId, calls, committed, stored, told,
                  restarts>>
  BY DEF TokenAnswer, accountVars, localVars, backendVars
<1>7. faults' \in 0 .. MaxFaults
  <2>1. faults' = faults \/ (faults' = faults + 1 /\ faults < MaxFaults)
    BY DEF TokenAnswer
  <2> QED  BY <1>1, <2>1
<1>8. AsksCurrent'
  BY <1>5, <1>6 DEF Inv, AsksCurrent
<1>9. StreamOK'
  <2>1. InFlight(remote', committed, stored[user])
    BY <1>5, SameNetInFlight DEF Inv, StreamOK, RemoteOK, RemoteFits
  <2> QED  BY <1>5, <1>6, <2>1 DEF Inv, StreamOK, RemoteOK, RemoteFits
<1>10. TokensOK'
  <2>1. OneToken(remote', Append(worker, t))
    BY <1>1, <1>3, <1>5, AnswerOneToken DEF Inv, TokensOK, IsToken
  <2> QED  BY <1>3, <2>1 DEF TokensOK
<1>11. \A v \in Users : issued'[v] \in {issued[v], issued[v] + 1} /\ ~IsWriteOf(t, v)
  BY <1>3, <1>6 DEF IsWriteOf
<1> QED  BY <1>1, <1>3, <1>6, <1>7, <1>8, <1>9, <1>10, <1>11, TaskAdded
            DEF localVars, backendVars

-----------------------------------------------------------------------------
(* The tasks of the worker queue *)

LEMMA FirstTask ==
    ASSUME Inv, worker # <<>>
    PROVE  /\ worker \in Seq(Tasks)
           /\ Head(worker) \in Tasks /\ Tail(worker) \in Seq(Tasks)
           /\ InOrder(Tail(worker),
                 IF Head(worker).task = "user" THEN Head(worker).u ELSE user, auth)
           /\ Head(worker).task = "write" => Head(worker).w.by = user
           /\ Head(worker).task = "token" => Head(worker).by = user
           /\ OneToken(remote, Tail(worker))
<1>1. worker \in Seq(Tasks) /\ InOrder(worker, user, auth) /\ OneToken(remote, worker)
  BY DEF Inv, TypeOK, TasksInOrder, TokensOK
<1> QED  BY <1>1, TasksTail, TailOneToken

LEMMA TaskRun ==
    ASSUME Inv, worker # <<>>, worker' = Tail(worker), Head(worker).task # "write",
           UNCHANGED <<accountVars, issued, queue, calls, backendVars, told, boundVars>>,
           user' = IF Head(worker).task = "user" THEN Head(worker).u ELSE user,
           nextId' \in Nat \ {0}, IdsUpTo(queue[user'], nextId' - 1),
           AsksCurrent', TokensOK', StreamOK'
    PROVE  Inv'
<1> USE DEF accountVars, backendVars, boundVars
<1>1. /\ worker \in Seq(Tasks) /\ Head(worker) \in Tasks /\ Tail(worker) \in Seq(Tasks)
      /\ InOrder(Tail(worker), user', auth)
  BY FirstTask
<1>2. user' \in Users
  BY <1>1, TaskKinds DEF Inv, TypeOK
<1>3. remote' \in Remotes
  BY DEF StreamOK, RemoteOK, RemoteFits
<1>4. TypeOK'
  BY <1>1, <1>2, <1>3 DEF Inv, TypeOK
<1>5. TasksInOrder'
  BY <1>1 DEF TasksInOrder
<1>6. QueuesOK'
  BY DEF Inv, QueuesOK
<1>7. WritesInOrder'
  <2> SUFFICES ASSUME NEW u \in Users
               PROVE  Ascending(Tail(worker), u, Seen(u)', issued[u])
    BY DEF WritesInOrder
  <2>1. Seen(u)' = Seen(u)
    BY DEF Seen
  <2>2. Ascending(worker, u, Seen(u), issued[u])
    BY DEF Inv, WritesInOrder
  <2>3. Seen(u) \subseteq Seen(u) \cup
            (IF IsWriteOf(Head(worker), u) THEN {Head(worker).w.n} ELSE {})
    OBVIOUS
  <2>4. Ascending(Tail(worker), u, Seen(u), issued[u])
    BY <1>1, <2>2, <2>3, AscendingTail
  <2> QED  BY <2>1, <2>4
<1>8. AnswersOK'
  BY AnswersSame DEF Inv
<1> QED  BY <1>4, <1>5, <1>6, <1>7, <1>8 DEF Inv

LEMMA StepHandleCredentialChange ==
    ASSUME Inv, HandleCredentialChange
    PROVE  Inv'
<1> DEFINE u == Head(worker).u
           q == queue[u]
<1>1. /\ worker # <<>> /\ Head(worker).task = "user" /\ worker' = Tail(worker)
      /\ user' = u /\ nextId' = IF u = user THEN nextId ELSE LoadNextBatchId(queue)
      /\ remote' = RestartNetwork(remote, q)
  BY DEF HandleCredentialChange, NextTask
<1>2. /\ worker \in Seq(Tasks) /\ Tail(worker) \in Seq(Tasks) /\ u \in Users
      /\ OneToken(remote, Tail(worker))
  BY <1>1, FirstTask, TaskKinds
<1>3. /\ remote \in Remotes /\ auth \in Users /\ counter \in 0 .. MaxChanges
      /\ queue \in [Users -> Seq(Batches)] /\ nextId \in Nat \ {0}
      /\ RemoteOK(remote, queue[user], user, committed, stored[user])
      /\ AsksCurrent /\ QueuesOK
  BY DEF Inv, TypeOK, StreamOK
<1>4. UNCHANGED <<auth, counter, issued, queue, calls, committed, stored, told,
                  faults, restarts>>
  BY DEF HandleCredentialChange, accountVars, backendVars, boundVars
<1> HIDE DEF u
<1>5. /\ q \in Seq(Batches) /\ RowsInOrder(q)
      /\ remote.net.open <=> remote.stream = "Open"
      /\ remote.handshake => remote.stream = "Open"
      /\ remote.idle => remote.stream = "Open"
  BY <1>2, <1>3 DEF QueuesOK, RemoteOK, RemoteFits
<1>6. /\ RemoteOK(remote', q, u, committed, stored[u])
      /\ OneToken(remote', Tail(worker))
      /\ remote'.asks = remote.asks \/ \E k : remote'.asks = remote.asks \cup
             {[close |-> k, counter |-> counter, by |-> auth]}
  <2> HIDE DEF q
  <2> QED  BY <1>1, <1>2, <1>3, <1>5, RestartNetworkKeeps
<1>7. AsksCurrent'
  BY <1>3, <1>4, <1>6 DEF AsksCurrent
<1>8. TokensOK' /\ StreamOK'
  BY <1>1, <1>4, <1>6 DEF TokensOK, StreamOK
<1>9. nextId' \in Nat \ {0} /\ IdsUpTo(queue[u], nextId' - 1)
  <2>1. CASE u = user
    BY <1>1, <1>3, <2>1 DEF QueuesOK
  <2>2. CASE u # user
    <3>1. PICK m \in Nat : \A v \in Users : IdsUpTo(queue[v], m)
      BY <1>3 DEF QueuesOK
    <3>2. /\ LoadNextBatchId(queue) \in Nat \ {0}
          /\ \A v \in Users : IdsUpTo(queue[v], LoadNextBatchId(queue) - 1)
      BY <1>3, <3>1, NextIdIsFree
    <3> QED  BY <1>1, <1>2, <2>2, <3>2
  <2> QED  BY <2>1, <2>2
<1>10. Head(worker).task # "write"
  BY <1>1
<1> QED  BY <1>1, <1>4, <1>7, <1>8, <1>9, <1>10, TaskRun
            DEF accountVars, backendVars, boundVars, u

LEMMA OpensForUser ==
    ASSUME NEW r \in Remotes, NEW q, NEW u \in Users, NEW c, NEW s,
           RemoteOK(r, q, u, c, s), r.stream = "Starting"
    PROVE  LET f == Write([r EXCEPT !.stream = "Open", !.net = NewStream(u)], <<Hello>>) IN
           /\ RemoteOK(f, q, u, c, s)
           /\ f.closes = r.closes /\ f.asks = r.asks
<1> DEFINE n == NewStream(u)
           o == [r EXCEPT !.stream = "Open", !.net = n]
           m == <<Hello>>
           f == Write(o, m)
<1>1. /\ n \in Streams /\ n.open /\ n.token = u /\ n.up = <<>> /\ n.down = <<>>
      /\ n.events = <<>> /\ n.status = "none"
  <2>1. /\ <<>> \in Seq(Batches \cup {Hello}) /\ <<>> \in Seq({"hello", "ok"})
        /\ <<>> \in Seq({"hello", "ok", "failed"})
    BY EmptySeq
  <2> QED  BY <2>1 DEF NewStream, Streams
<1> HIDE DEF n
<1>2. /\ o \in Remotes /\ o.net = n /\ o.stream = "Open" /\ o.pipeline = r.pipeline
      /\ o.handshake = r.handshake /\ o.closes = r.closes /\ o.asks = r.asks
  BY <1>1 DEF Remotes
<1> HIDE DEF o
<1>3. m \in Seq(Batches \cup {Hello}) /\ <<>> \o m = m
  OBVIOUS
<1> HIDE DEF m
<1>4. /\ f \in Remotes
      /\ f.pipeline = o.pipeline /\ f.stream = o.stream
      /\ f.handshake = o.handshake /\ f.closes = o.closes /\ f.asks = o.asks
      /\ f.idle = FALSE
      /\ f.net.open /\ f.net.token = o.net.token
      /\ f.net.down = o.net.down /\ f.net.status = o.net.status
      /\ f.net.up = (IF o.net.status = "none" THEN o.net.up \o m ELSE o.net.up)
      /\ f.net.events = (IF o.net.status = "none" \/ IsIn("failed", o.net.events)
                         THEN o.net.events ELSE Append(o.net.events, "failed"))
  BY <1>1, <1>2, <1>3, WriteFields
<1> HIDE DEF f
<1>5. ~r.handshake
  BY DEF RemoteOK
<1>6. Greeting(f)
  BY <1>1, <1>2, <1>3, <1>4 DEF Greeting, m
<1>7. RemoteOK(f, q, u, c, s)
  BY <1>1, <1>2, <1>4, <1>5, <1>6 DEF RemoteOK, RemoteFits, InFlight
<1> QED  BY <1>2, <1>4, <1>7 DEF f, o, n, m

LEMMA StepResumeStart ==
    ASSUME Inv, ResumeStart
    PROVE  Inv'
<1> DEFINE t == Head(worker)
<1>1. /\ worker # <<>> /\ t.task = "token" /\ worker' = Tail(worker)
      /\ remote' = IF t.close # remote.closes THEN remote
                   ELSE IF ~t.ok THEN ClosedTransiently(remote)
                   ELSE Write([remote EXCEPT !.stream = "Open", !.net = NewStream(t.by)],
                              <<Hello>>)
  BY DEF ResumeStart, NextTask
<1>2. /\ worker \in Seq(Tasks) /\ Tail(worker) \in Seq(Tasks) /\ t.by = user
      /\ OneToken(remote, Tail(worker)) /\ t = worker[1] /\ 1 \in 1 .. Len(worker)
  <2>1. worker \in Seq(Tasks)
    BY DEF Inv, TypeOK
  <2>2. Len(worker) \in Nat \ {0} /\ t = worker[1]
    BY <1>1, <2>1, EmptySeq, HeadTailProperties
  <2> QED  BY <1>1, <2>2, FirstTask
<1>3. /\ remote \in Remotes /\ auth \in Users /\ counter \in 0 .. MaxChanges
      /\ user \in Users /\ nextId \in Nat \ {0} /\ IdsUpTo(queue[user], nextId - 1)
      /\ RemoteOK(remote, queue[user], user, committed, stored[user])
      /\ AsksCurrent /\ OneToken(remote, worker)
  BY DEF Inv, TypeOK, StreamOK, QueuesOK, TokensOK
<1>4. UNCHANGED <<auth, counter, issued, user, queue, nextId, calls, committed, stored, told,
                  faults, restarts>>
  BY DEF ResumeStart, accountVars, localVars, backendVars, boundVars
<1>5. /\ RemoteOK(remote', queue[user], user, committed, stored[user])
      /\ OneToken(remote', Tail(worker))
      /\ remote'.asks = remote.asks
  <2>1. CASE t.close # remote.closes
    BY <2>1, <1>1, <1>2, <1>3
  <2>2. CASE t.close = remote.closes /\ ~t.ok
    <3>1. remote' = ClosedTransiently(remote)
      BY <2>2, <1>1
    <3>2. IsPrefix(remote.pipeline, queue[user])
      BY <1>3 DEF RemoteOK, RemoteFits
    <3> QED  BY <3>1, <3>2, <1>2, <1>3, ClosedTransientlyKeeps
  <2>3. CASE t.close = remote.closes /\ t.ok
    <3>1. remote' = Write([remote EXCEPT !.stream = "Open", !.net = NewStream(user)],
                          <<Hello>>)
      BY <2>3, <1>1, <1>2
    <3>2. remote.stream = "Starting"
      BY <2>3, <1>1, <1>2, <1>3 DEF OneToken, IsToken
    <3>3. /\ RemoteOK(remote', queue[user], user, committed, stored[user])
          /\ remote'.closes = remote.closes /\ remote'.asks = remote.asks
      BY <3>1, <3>2, <1>3, OpensForUser
    <3>4. OneToken(remote', Tail(worker))
      BY <2>3, <3>3, <1>1, <1>2, <1>3, TailOneToken DEF IsToken
    <3> QED  BY <3>3, <3>4
  <2> QED  BY <2>1, <2>2, <2>3
<1>6. AsksCurrent' /\ TokensOK' /\ StreamOK'
  BY <1>1, <1>3, <1>4, <1>5 DEF AsksCurrent, TokensOK, StreamOK
<1>7. /\ t.task # "write"
      /\ user' = IF t.task = "user" THEN t.u ELSE user
      /\ IdsUpTo(queue[user'], nextId' - 1) /\ nextId' \in Nat \ {0}
  BY <1>1, <1>3, <1>4
<1> QED  BY <1>1, <1>4, <1>6, <1>7, TaskRun DEF accountVars, backendVars, boundVars

LEMMA FirstWrite ==
    ASSUME Inv, worker # <<>>, Head(worker).task = "write"
    PROVE  LET w == Head(worker).w IN
           /\ w \in Writes /\ w.by = user
           /\ \A m \in Seen(user) : m < w.n
           /\ \A i \in 1 .. Len(queue[user]) : queue[user][i].w.n < w.n
           /\ \A i \in 1 .. Len(told[user]) : told[user][i].n < w.n
           /\ \A x \in committed : x.by = user => x.n < w.n
<1> DEFINE w == Head(worker).w
<1>1. /\ worker \in Seq(Tasks) /\ user \in Users
      /\ Ascending(worker, user, Seen(user), issued[user])
  BY DEF Inv, TypeOK, WritesInOrder
<1>2. Head(worker) = worker[1] /\ 1 \in 1 .. Len(worker)
  <2>1. Len(worker) \in Nat \ {0} /\ Head(worker) = worker[1]
    BY <1>1, EmptySeq, HeadTailProperties
  <2> QED  BY <2>1
<1>3. w \in Writes /\ w.by = user
  BY FirstTask, TaskKinds
<1>4. \A m \in Seen(user) : m < w.n
  BY <1>1, <1>2, <1>3 DEF Ascending, IsWriteOf
<1> QED  BY <1>3, <1>4 DEF Seen

(* The state after a batch was added for the first write of the queue. *)
LEMMA AddedBatch ==
    ASSUME Inv, WriteMutations
    PROVE  LET b == [id |-> nextId, w |-> Head(worker).w]
               q == Append(queue[user], b) IN
           /\ worker # <<>> /\ Head(worker).task = "write" /\ worker' = Tail(worker)
           /\ b \in Batches /\ b.id = nextId /\ b.w.by = user
           /\ queue' = [queue EXCEPT ![user] = q] /\ nextId' = nextId + 1
           /\ q \in Seq(Batches) /\ RowsInOrder(q) /\ RowsOf(q, user)
           /\ calls' = calls \cup {[by |-> user, id |-> b.id, w |-> b.w]}
           /\ remote' = FillWritePipeline(remote, q)
           /\ UNCHANGED <<auth, counter, issued, user, committed, stored, told,
                          faults, restarts>>
<1> DEFINE b == [id |-> nextId, w |-> Head(worker).w]
           rows == queue[user]
           q == Append(rows, b)
<1>1. worker # <<>> /\ Head(worker).task = "write" /\ worker' = Tail(worker)
  BY DEF WriteMutations, NextTask
<1>2. /\ user \in Users /\ rows \in Seq(Batches) /\ nextId \in Nat \ {0}
      /\ RowsInOrder(rows) /\ RowsOf(rows, user) /\ IdsUpTo(rows, nextId - 1)
      /\ HandlerHasBatch
  BY DEF Inv, TypeOK, QueuesOK, AnswersOK
<1>3. /\ Head(worker).w \in Writes /\ Head(worker).w.by = user
      /\ \A i \in 1 .. Len(rows) : rows[i].w.n < Head(worker).w.n
  BY <1>1, FirstWrite
<1>4. b \in Batches /\ b.id = nextId /\ b.w = Head(worker).w
  BY <1>2, <1>3 DEF Batches
<1>5. /\ queue' = [queue EXCEPT ![user] = AddMutationBatch(rows, b)]
      /\ nextId' = nextId + 1 /\ Register(user, b)
      /\ remote' = FillWritePipeline(remote, AddMutationBatch(rows, b))
  BY DEF WriteMutations
<1> HIDE DEF b, rows
<1>6. \A i \in 1 .. Len(rows) : rows[i].id \in Nat /\ rows[i].id < b.id
  <2> SUFFICES ASSUME NEW i \in 1 .. Len(rows)
               PROVE  rows[i].id \in Nat /\ rows[i].id < b.id
    OBVIOUS
  <2>1. rows[i] \in Batches
    BY <1>2, ElementOfSeq
  <2>2. rows[i].id \in Nat /\ rows[i].id <= nextId - 1
    BY <1>2, <2>1, BatchFields DEF IdsUpTo
  <2> QED  BY <1>2, <1>4, <2>2
<1>7. /\ AddMutationBatch(rows, b) = q /\ q \in Seq(Batches)
      /\ RowsInOrder(q) /\ RowsOf(q, user)
  BY <1>2, <1>3, <1>4, <1>6, RowsAppend
<1>8. ~\E c \in calls : c.by = user /\ c.id = b.id
  <2> SUFFICES ASSUME NEW c \in calls, c.by = user, c.id = b.id
               PROVE  FALSE
    OBVIOUS
  <2>1. IsIn([id |-> c.id, w |-> c.w], rows)
    BY <1>2 DEF HandlerHasBatch, rows
  <2>2. PICK i \in DOMAIN rows : rows[i] = [id |-> c.id, w |-> c.w]
    BY <2>1 DEF IsIn
  <2>3. i \in 1 .. Len(rows) /\ rows[i].id = b.id
    BY <1>2, <2>2, LenProperties
  <2> QED  BY <1>2, <1>4, <1>6, <2>3
<1>9. calls' = calls \cup {[by |-> user, id |-> b.id, w |-> b.w]}
  BY <1>5, <1>8 DEF Register
<1>10. UNCHANGED <<auth, counter, issued, user, committed, stored, told, faults, restarts>>
  BY DEF WriteMutations, accountVars, backendVars, boundVars
<1> QED  BY <1>1, <1>3, <1>4, <1>5, <1>7, <1>9, <1>10 DEF b, rows

LEMMA StepWriteMutations ==
    ASSUME Inv, WriteMutations
    PROVE  Inv'
<1> DEFINE b == [id |-> nextId, w |-> Head(worker).w]
           rows == queue[user]
           q == Append(rows, b)
           new == [by |-> user, id |-> b.id, w |-> b.w]
<1>1. /\ worker # <<>> /\ Head(worker).task = "write" /\ worker' = Tail(worker)
      /\ b \in Batches /\ b.id = nextId /\ b.w.by = user
      /\ queue' = [queue EXCEPT ![user] = q] /\ nextId' = nextId + 1
      /\ q \in Seq(Batches) /\ RowsInOrder(q) /\ RowsOf(q, user)
      /\ calls' = calls \cup {new}
      /\ remote' = FillWritePipeline(remote, q)
      /\ UNCHANGED <<auth, counter, issued, user, committed, stored, told,
                     faults, restarts>>
  BY AddedBatch
<1>2. /\ user \in Users /\ rows \in Seq(Batches) /\ nextId \in Nat \ {0}
      /\ queue \in [Users -> Seq(Batches)]
      /\ remote \in Remotes /\ auth \in Users /\ counter \in 0 .. MaxChanges
      /\ RemoteOK(remote, rows, user, committed, stored[user])
      /\ OneToken(remote, Tail(worker)) /\ InOrder(Tail(worker), user, auth)
      /\ Tail(worker) \in Seq(Tasks) /\ worker \in Seq(Tasks)
  BY <1>1, FirstTask DEF Inv, TypeOK, StreamOK
<1>3. /\ \A i \in 1 .. Len(rows) : rows[i].w.n < b.w.n
      /\ \A i \in 1 .. Len(told[user]) : told[user][i].n < b.w.n
      /\ \A x \in committed : x.by = user => x.n < b.w.n
      /\ Head(worker).w = b.w
  BY <1>1, FirstWrite
<1>4. new.by = user /\ new.id = b.id /\ new.w = b.w
  OBVIOUS
<1> HIDE DEF b, rows, new
<1>5. /\ Len(rows) \in Nat /\ Len(q) = Len(rows) + 1 /\ q[Len(rows) + 1] = b
      /\ \A i \in 1 .. Len(rows) : q[i] = rows[i]
  BY <1>1, <1>2, LenProperties, AppendProperties
<1> HIDE DEF q
<1>6. /\ queue' \in [Users -> Seq(Batches)] /\ queue'[user] = q
      /\ \A u \in Users : u # user => queue'[u] = queue[u]
  BY <1>1, <1>2
<1>7. /\ RemoteOK(remote', q, user, committed, stored[user])
      /\ MayStart(remote, remote')
  <2>1. Len(remote.pipeline) \in Nat
    BY <1>2, RemoteFields, LenProperties
  <2>2. IsPrefix(remote.pipeline, q)
    <3>1. /\ Len(remote.pipeline) <= Len(rows)
          /\ \A i \in 1 .. Len(remote.pipeline) : remote.pipeline[i] = rows[i]
      BY <1>2 DEF RemoteOK, RemoteFits, IsPrefix
    <3> QED  BY <1>5, <2>1, <3>1 DEF IsPrefix
  <2>3. RemoteFits(remote, q, user, committed, stored[user])
    BY <1>2, <2>2 DEF RemoteOK, RemoteFits
  <2>4. q # <<>>
    BY <1>5
  <2>5. /\ RemoteFits(remote', q, user, committed, stored[user])
        /\ remote'.handshake = remote.handshake
        /\ remote'.stream = "Open" <=> remote.stream = "Open"
        /\ MayStart(remote, remote')
    BY <1>1, <1>2, <2>3, <2>4, FillKeeps
  <2> QED  BY <1>2, <2>5 DEF RemoteOK
<1>8. TypeOK'
  <2>1. new \in [by : Users, id : Nat \ {0}, w : Writes]
    BY <1>1, <1>2, BatchFields DEF new
  <2>2. calls' \subseteq [by : Users, id : Nat \ {0}, w : Writes]
    BY <1>1, <2>1 DEF Inv, TypeOK
  <2>3. remote' \in Remotes
    BY <1>7 DEF RemoteOK, RemoteFits
  <2>4. nextId' \in Nat \ {0}
    BY <1>1, <1>2
  <2>5. worker' \in Seq(Tasks)
    BY <1>1, <1>2
  <2>6. UNCHANGED <<auth, counter, issued, user, committed, stored, told, faults, restarts>>
    BY <1>1
  <2> QED  BY <1>6, <2>2, <2>3, <2>4, <2>5, <2>6 DEF Inv, TypeOK
<1>9. TasksInOrder' /\ StreamOK'
  BY <1>1, <1>2, <1>6, <1>7 DEF TasksInOrder, StreamOK
<1>10. TokensOK'
  <2>1. OneToken(remote', Tail(worker))
    BY <1>2, <1>7, StartOneToken
  <2> QED  BY <1>1, <2>1 DEF TokensOK
<1>11. AsksCurrent'
  <2>1. remote'.asks = remote.asks \/ remote'.asks = remote.asks \cup {AskNow(remote)}
    BY <1>7 DEF MayStart
  <2>2. counter \in Nat
    BY <1>2
  <2> QED  BY <1>1, <2>1, <2>2 DEF Inv, AsksCurrent, AskNow
<1>12. QueuesOK'
  <2>1. \A u \in Users : RowsInOrder(queue'[u]) /\ RowsOf(queue'[u], u)
    BY <1>1, <1>6 DEF Inv, QueuesOK
  <2>2. IdsUpTo(rows, nextId - 1)
    BY DEF Inv, QueuesOK, rows
  <2>3. \A i \in 1 .. Len(rows) : rows[i].id \in Nat
    BY <1>2, ElementOfSeq, BatchFields
  <2>4. IdsUpTo(q, nextId)
    <3> SUFFICES ASSUME NEW i \in 1 .. Len(q)
                 PROVE  q[i].id <= nextId
      BY DEF IdsUpTo
    <3>1. CASE i = Len(rows) + 1
      BY <1>1, <1>2, <1>5, <3>1
    <3>2. CASE i # Len(rows) + 1
      <4>1. i \in 1 .. Len(rows)
        BY <1>5, <3>2
      <4>2. q[i].id \in Nat /\ q[i].id <= nextId - 1
        BY <1>5, <2>2, <2>3, <4>1 DEF IdsUpTo
      <4> QED  BY <1>2, <4>2
    <3> QED  BY <3>1, <3>2
  <2>5. PICK m \in Nat : \A u \in Users : IdsUpTo(queue[u], m)
    BY DEF Inv, QueuesOK
  <2>6. \A u \in Users : IdsUpTo(queue'[u], m + nextId)
    <3> SUFFICES ASSUME NEW u \in Users, NEW i \in 1 .. Len(queue'[u])
                 PROVE  queue'[u][i].id <= m + nextId
      BY DEF IdsUpTo
    <3>1. queue'[u] \in Seq(Batches)
      BY <1>6
    <3>2. queue'[u][i].id \in Nat
      BY <3>1, ElementOfSeq, BatchFields
    <3>3. queue'[u][i].id <= nextId \/ queue'[u][i].id <= m
      <4>1. CASE u = user
        BY <1>6, <2>4, <4>1 DEF IdsUpTo
      <4>2. CASE u # user
        BY <1>6, <2>5, <4>2 DEF IdsUpTo
      <4> QED  BY <4>1, <4>2
    <3>4. nextId \in Nat /\ m \in Nat
      BY <1>2
    <3> QED  BY ONLY <3>2, <3>3, <3>4
  <2>7. nextId' - 1 = nextId /\ m + nextId \in Nat
    BY <1>1, <1>2
  <2> QED  BY <1>1, <1>6, <2>1, <2>4, <2>6, <2>7 DEF QueuesOK
<1>13. WritesInOrder'
  <2> SUFFICES ASSUME NEW u \in Users
               PROVE  Ascending(Tail(worker), u, Seen(u)', issued[u])
    BY <1>1 DEF WritesInOrder
  <2>1. Seen(u)' \subseteq Seen(u) \cup
            (IF IsWriteOf(Head(worker), u) THEN {Head(worker).w.n} ELSE {})
    <3>1. CASE u = user
      <4>1. IsWriteOf(Head(worker), u) /\ Head(worker).w.n = b.w.n
        BY <1>1, <1>3, <3>1 DEF IsWriteOf
      <4>2. \A i \in 1 .. Len(q) : q[i].w.n = b.w.n
               \/ \E j \in 1 .. Len(rows) : q[i].w.n = rows[j].w.n
        BY <1>5
      <4> DEFINE rowsN == {rows[i].w.n : i \in 1 .. Len(rows)}
                 qN == {q[i].w.n : i \in 1 .. Len(q)}
                 rest == {x.n : x \in {x \in committed : x.by = u}}
                         \cup {told[u][i].n : i \in 1 .. Len(told[u])}
      <4>3. qN \subseteq rowsN \cup {b.w.n}
        BY <4>2
      <4>4. Seen(u) = rowsN \cup rest
        BY <3>1 DEF Seen, rows
      <4>5. Seen(u)' = qN \cup rest
        BY <1>1, <1>6, <3>1 DEF Seen
      <4> HIDE DEF rowsN, qN, rest
      <4> QED  BY <4>1, <4>3, <4>4, <4>5
    <3>2. CASE u # user
      BY <1>1, <1>6, <3>2 DEF Seen
    <3> QED  BY <3>1, <3>2
  <2>2. Ascending(worker, u, Seen(u), issued[u])
    BY DEF Inv, WritesInOrder
  <2> QED  BY <1>1, <1>2, <2>1, <2>2, AscendingTail
<1>14. AnswersOK'
  <2>1. HandlerHasBatch'
    <3>1. ASSUME NEW c \in calls
          PROVE  c.w.by = c.by /\ IsIn([id |-> c.id, w |-> c.w], queue'[c.by])
      <4>1. c.w.by = c.by /\ IsIn([id |-> c.id, w |-> c.w], queue[c.by]) /\ c.by \in Users
        BY DEF Inv, AnswersOK, HandlerHasBatch, TypeOK
      <4>2. ASSUME IsIn([id |-> c.id, w |-> c.w], rows)
            PROVE  IsIn([id |-> c.id, w |-> c.w], q)
        <5>1. PICK i \in 1 .. Len(rows) : rows[i] = [id |-> c.id, w |-> c.w]
          BY <1>2, <4>2, LenProperties DEF IsIn
        <5>2. q[i] = [id |-> c.id, w |-> c.w] /\ i \in DOMAIN q
          BY <1>1, <1>5, <5>1, LenProperties
        <5> QED  BY <5>2 DEF IsIn
      <4> QED  BY <1>6, <4>1, <4>2 DEF rows
    <3>2. new.w.by = new.by /\ IsIn([id |-> new.id, w |-> new.w], q)
      <4>1. b = [id |-> new.id, w |-> new.w]
        BY <1>1, <1>4 DEF Batches
      <4>2. Len(rows) + 1 \in DOMAIN q
        BY <1>1, <1>5, LenProperties
      <4> QED  BY <1>1, <1>4, <1>5, <4>1, <4>2 DEF IsIn
    <3>3. IsIn([id |-> new.id, w |-> new.w], queue'[new.by])
      BY <1>4, <1>6, <3>2
    <3>4. calls' = calls \cup {new}
      BY <1>1
    <3> QED  BY <3>1, <3>2, <3>3, <3>4 DEF HandlerHasBatch, IsIn
  <2>2. AnsweredBefore'
    BY <1>1, <1>3, <1>4 DEF Inv, AnswersOK, AnsweredBefore
  <2>3. StoredIsSettled'
    <3> SUFFICES ASSUME NEW w \in committed
                 PROVE  \/ \E i \in 1 .. Len(queue'[w.by]) : queue'[w.by][i].w = w
                        \/ /\ w.n <= stored[w.by]
                           /\ \A i \in 1 .. Len(queue'[w.by]) : w.n < queue'[w.by][i].w.n
      BY <1>1 DEF StoredIsSettled
    <3>1. /\ w.by \in Users
          /\ \/ \E i \in 1 .. Len(queue[w.by]) : queue[w.by][i].w = w
             \/ /\ w.n <= stored[w.by]
                /\ \A i \in 1 .. Len(queue[w.by]) : w.n < queue[w.by][i].w.n
      BY DEF Inv, AnswersOK, StoredIsSettled, TypeOK, Writes
    <3>2. CASE w.by = user
      <4>1. w.n < b.w.n
        BY <1>3, <3>2
      <4>2. CASE \E i \in 1 .. Len(rows) : rows[i].w = w
        BY <1>5, <1>6, <3>2, <4>2
      <4>3. CASE w.n <= stored[user] /\ \A i \in 1 .. Len(rows) : w.n < rows[i].w.n
        <5>1. \A i \in 1 .. Len(q) : w.n < q[i].w.n
          BY <1>5, <4>1, <4>3
        <5> QED  BY <1>6, <3>2, <4>3, <5>1
      <4> QED  BY <3>1, <3>2, <4>2, <4>3 DEF rows
    <3>3. CASE w.by # user
      BY <1>6, <3>1, <3>3
    <3> QED  BY <3>2, <3>3
  <2>4. AnswersInOrder' /\ NeverRefused' /\ RejectionHasCause'
    BY <1>1 DEF Inv, AnswersOK, AnswersInOrder, NeverRefused, RejectionHasCause
  <2> QED  BY <2>1, <2>2, <2>3, <2>4 DEF AnswersOK
<1> QED  BY <1>8, <1>9, <1>10, <1>11, <1>12, <1>13, <1>14 DEF Inv

-----------------------------------------------------------------------------
(* The backend takes a message *)

LEMMA PipelineRows ==
    ASSUME Inv
    PROVE  /\ remote.pipeline \in Seq(Batches) /\ Len(remote.pipeline) \in Nat
           /\ queue[user] \in Seq(Batches) /\ Len(queue[user]) \in Nat
           /\ Len(remote.pipeline) <= Len(queue[user])
           /\ \A i \in 1 .. Len(remote.pipeline) :
                 /\ i \in 1 .. Len(queue[user]) /\ remote.pipeline[i] = queue[user][i]
                 /\ remote.pipeline[i] \in Batches
                 /\ remote.pipeline[i].w \in Writes /\ remote.pipeline[i].w.by = user
<1>1. /\ remote.pipeline \in Seq(Batches) /\ queue[user] \in Seq(Batches)
      /\ RowsOf(queue[user], user) /\ IsPrefix(remote.pipeline, queue[user])
  BY RemoteFields DEF Inv, TypeOK, QueuesOK, StreamOK, RemoteOK, RemoteFits
<1>2. Len(remote.pipeline) \in Nat /\ Len(queue[user]) \in Nat
  BY <1>1, LenProperties
<1>3. ASSUME NEW i \in 1 .. Len(remote.pipeline)
      PROVE  /\ i \in 1 .. Len(queue[user]) /\ remote.pipeline[i] = queue[user][i]
             /\ remote.pipeline[i] \in Batches
             /\ remote.pipeline[i].w \in Writes /\ remote.pipeline[i].w.by = user
  <2>1. i \in 1 .. Len(queue[user]) /\ remote.pipeline[i] = queue[user][i]
    BY <1>1, <1>2 DEF IsPrefix
  <2>2. remote.pipeline[i] \in Batches
    BY <1>1, ElementOfSeq
  <2> QED  BY <1>1, <2>1, <2>2, BatchFields DEF RowsOf
<1> QED  BY <1>1, <1>2, <1>3 DEF IsPrefix

LEMMA TakesHello ==
    ASSUME Inv, remote.net.open, remote.net.status = "none", remote.net.up # <<>>,
           Head(remote.net.up) = Hello
    PROVE  /\ ~remote.handshake
           /\ remote.net.up = <<Hello>> /\ remote.net.down = <<>> /\ remote.net.events = <<>>
<1>1. ASSUME remote.handshake
      PROVE  FALSE
  <2>1. Sending(remote, committed, stored[user]) /\ Len(remote.net.down) \in Nat
    BY <1>1, OpenStream
  <2>2. remote.pipeline \in Seq(Batches) /\ Len(remote.pipeline) \in Nat
    BY PipelineRows
  <2>3. Taken(remote) \in 0 .. Len(remote.pipeline)
    BY <2>1, <2>2, TakenIs DEF Sending
  <2>4. remote.net.up = SubSeq(remote.pipeline, Taken(remote) + 1, Len(remote.pipeline))
    BY <2>1 DEF Sending
  <2>5. remote.net.up \in Seq(Batches)
    BY <2>2, <2>3, <2>4, SubSeqFrom
  <2>6. Head(remote.net.up) \in Batches
    BY <2>5, HeadTailProperties
  <2> QED  BY <2>6, BatchFields
<1>2. Greeting(remote)
  BY <1>1, OpenStream
<1> QED  BY <1>1, <1>2 DEF Greeting

LEMMA TakesWrite ==
    ASSUME Inv, remote.net.open, remote.net.status = "none", remote.net.up # <<>>,
           Head(remote.net.up) # Hello
    PROVE  LET t == Taken(remote)
               pipe == remote.pipeline IN
           /\ remote.handshake /\ Sending(remote, committed, stored[user])
           /\ t \in Nat /\ t + 1 \in 1 .. Len(pipe)
           /\ Head(remote.net.up) = pipe[t + 1]
           /\ Tail(remote.net.up) = SubSeq(pipe, t + 2, Len(pipe))
           /\ Tail(remote.net.up) \in Seq(Batches \cup {Hello})
           /\ remote.net.events = <<>> \/ remote.net.events = <<"ok">>
<1> DEFINE t == Taken(remote)
           pipe == remote.pipeline
           up == remote.net.up
<1>1. up \in Seq(Batches \cup {Hello}) /\ Tail(up) \in Seq(Batches \cup {Hello})
  <2>1. up \in Seq(Batches \cup {Hello})
    BY OpenStream
  <2> QED  BY <2>1, HeadTailProperties
<1>2. remote.handshake
  <2>1. ~Greeting(remote)
    BY TailShort DEF Greeting
  <2>2. remote.handshake \in BOOLEAN
    BY RemoteFields DEF Inv, TypeOK
  <2> QED  BY <2>1, <2>2, OpenStream
<1>3. Sending(remote, committed, stored[user]) /\ Len(remote.net.down) \in Nat
  BY <1>2, OpenStream
<1>4. pipe \in Seq(Batches) /\ Len(pipe) \in Nat
  BY PipelineRows
<1>5. t \in Nat /\ t <= Len(pipe)
  BY <1>3, TakenIs DEF Sending
<1>6. up = SubSeq(pipe, t + 1, Len(pipe))
  BY <1>3 DEF Sending
<1> HIDE DEF t, pipe
<1>7. t < Len(pipe)
  <2> SUFFICES ASSUME t = Len(pipe)
               PROVE  FALSE
    BY <1>4, <1>5
  <2>1. t + 1 \in Int /\ Len(pipe) \in Int /\ Len(pipe) < t + 1
    BY <1>4, <1>5
  <2> QED  BY <1>6, <2>1, SubSeqEmpty
<1>8. t + 1 \in 1 .. Len(pipe) /\ Len(pipe) \in t + 1 .. Len(pipe) /\ (t + 1) + 1 = t + 2
  BY <1>4, <1>5, <1>7
<1>9. Head(up) = pipe[t + 1] /\ Tail(up) = SubSeq(pipe, t + 2, Len(pipe))
  <2>1. /\ Head(SubSeq(pipe, t + 1, Len(pipe))) = pipe[t + 1]
        /\ Tail(SubSeq(pipe, t + 1, Len(pipe))) = SubSeq(pipe, (t + 1) + 1, Len(pipe))
    BY <1>4, <1>8, HeadTailOfSubSeq
  <2> QED  BY <1>6, <1>8, <2>1
<1>10. remote.net.events = <<>> \/ remote.net.events = <<"ok">>
  BY <1>3 DEF Sending
<1> QED  BY <1>1, <1>2, <1>3, <1>5, <1>8, <1>9, <1>10 DEF t, pipe

LEMMA BackendGreets ==
    ASSUME Inv, BackendTakes, Head(remote.net.up) = Hello
    PROVE  Inv'
<1> DEFINE n == [remote.net EXCEPT !.up = Tail(@), !.down = Append(@, "hello")]
<1>1. /\ remote.net.open /\ remote.net.status = "none" /\ remote.net.up # <<>>
      /\ UNCHANGED <<accountVars, worker, issued, localVars, backendVars, told, boundVars>>
      /\ remote' = [remote EXCEPT !.net.up = Tail(@), !.net.down = Append(@, "hello")]
  BY DEF BackendTakes, Live, net
<1>2. /\ ~remote.handshake
      /\ remote.net.up = <<Hello>> /\ remote.net.down = <<>> /\ remote.net.events = <<>>
  BY <1>1, TakesHello
<1>3. Tail(remote.net.up) = <<>> /\ Append(remote.net.down, "hello") = <<"hello">>
  BY <1>2, TailShort, EventsShort
<1>4. /\ n \in Streams /\ n.open /\ n.token = remote.net.token
      /\ n.up = <<>> /\ n.down = <<"hello">> /\ n.status = "none" /\ n.events = <<>>
  <2>1. <<>> \in Seq(Batches \cup {Hello})
    BY EmptySeq
  <2>2. <<"hello">> \in Seq({"hello", "ok"})
    OBVIOUS
  <2> QED  BY <2>1, <2>2, <1>1, <1>2, <1>3, OpenStream DEF Streams
<1>5. remote' = [remote EXCEPT !.net = n]
  BY <1>1, OpenStream DEF Inv, TypeOK, Remotes
<1> HIDE DEF n
<1>6. /\ remote'.net = n /\ remote'.handshake = remote.handshake
      /\ remote'.asks = remote.asks /\ OneToken(remote', worker)
      /\ InFlight(remote', committed, stored[user]) =>
            RemoteOK(remote', queue[user], user, committed, stored[user])
  BY <1>1, <1>4, <1>5, NetOnly
<1>7. InFlight(remote', committed, stored[user])
  BY <1>2, <1>4, <1>6 DEF InFlight, Greeting
<1>8. StreamOK' /\ TokensOK'
  BY <1>1, <1>6, <1>7 DEF StreamOK, TokensOK, localVars, backendVars
<1> QED  BY <1>1, <1>6, <1>8, RemoteOnly DEF boundVars, Inv, TypeOK

LEMMA BackendRefuses ==
    ASSUME Inv, BackendTakes, Head(remote.net.up) # Hello, Head(remote.net.up).w \in Refused
    PROVE  Inv'
<1> DEFINE n == [remote.net EXCEPT !.up = <<>>, !.status = "refused"]
           t == Taken(remote)
<1>1. /\ remote.net.open /\ remote.net.status = "none" /\ remote.net.up # <<>>
      /\ UNCHANGED <<accountVars, worker, issued, localVars, backendVars, told, boundVars>>
      /\ remote' = [remote EXCEPT !.net.up = <<>>, !.net.status = "refused"]
  BY DEF BackendTakes, Live, net
<1>2. /\ remote.handshake /\ Sending(remote, committed, stored[user])
      /\ t \in Nat /\ t + 1 \in 1 .. Len(remote.pipeline)
      /\ Head(remote.net.up) = remote.pipeline[t + 1]
      /\ remote.net.events = <<>> \/ remote.net.events = <<"ok">>
  BY <1>1, TakesWrite
<1>3. /\ n \in Streams /\ n.open /\ n.token = remote.net.token
      /\ n.up = <<>> /\ n.down = remote.net.down /\ n.status = "refused"
      /\ n.events = remote.net.events
  <2>1. <<>> \in Seq(Batches \cup {Hello})
    BY EmptySeq
  <2> QED  BY <2>1, <1>1, OpenStream DEF Streams
<1>4. remote' = [remote EXCEPT !.net = n]
  BY <1>1, OpenStream DEF Inv, TypeOK, Remotes
<1> HIDE DEF n
<1>5. /\ remote'.net = n /\ remote'.handshake = remote.handshake
      /\ remote'.pipeline = remote.pipeline
      /\ remote'.asks = remote.asks /\ OneToken(remote', worker)
      /\ InFlight(remote', committed, stored[user]) =>
            RemoteOK(remote', queue[user], user, committed, stored[user])
  BY <1>1, <1>3, <1>4, NetOnly
<1>6. Taken(remote') = t
  BY <1>3, <1>5 DEF Taken
<1> HIDE DEF t
<1>7. t < Len(remote.pipeline)
  BY <1>2, PipelineRows
<1>8. Sending(remote', committed, stored[user])
  <2>1. /\ \A i \in 1 .. Len(remote.net.down) : remote.net.down[i] = "ok"
        /\ t <= Len(remote.pipeline)
        /\ \A i \in 1 .. t : remote.pipeline[i].w \in committed
                             /\ remote.pipeline[i].w.n <= stored[user]
    BY <1>2 DEF Sending, t
  <2> QED  BY <2>1, <1>2, <1>3, <1>5, <1>6, <1>7 DEF Sending
<1>9. StreamOK' /\ TokensOK'
  BY <1>1, <1>2, <1>5, <1>8 DEF StreamOK, TokensOK, localVars, backendVars, InFlight
<1> QED  BY <1>1, <1>5, <1>9, RemoteOnly DEF boundVars, Inv, TypeOK

LEMMA BackendStores ==
    ASSUME Inv, BackendTakes, Head(remote.net.up) # Hello, Head(remote.net.up).w \notin Refused
    PROVE  Inv'
<1> DEFINE n == [remote.net EXCEPT !.up = Tail(@), !.down = Append(@, "ok")]
           t == Taken(remote)
           pipe == remote.pipeline
           m == Head(remote.net.up)
<1>1. /\ remote.net.open /\ remote.net.status = "none" /\ remote.net.up # <<>>
      /\ UNCHANGED <<accountVars, worker, issued, localVars, told, boundVars>>
      /\ remote' = [remote EXCEPT !.net.up = Tail(@), !.net.down = Append(@, "ok")]
      /\ committed' = committed \cup {m.w}
      /\ stored' = [stored EXCEPT ![m.w.by] = m.w.n]
  BY DEF BackendTakes, Live, net
<1>2. /\ remote.handshake /\ Sending(remote, committed, stored[user])
      /\ t \in Nat /\ t + 1 \in 1 .. Len(pipe) /\ m = pipe[t + 1]
      /\ Tail(remote.net.up) = SubSeq(pipe, t + 2, Len(pipe))
      /\ Tail(remote.net.up) \in Seq(Batches \cup {Hello})
      /\ remote.net.events = <<>> \/ remote.net.events = <<"ok">>
  BY <1>1, TakesWrite
<1>3. /\ pipe \in Seq(Batches) /\ Len(pipe) \in Nat
      /\ queue[user] \in Seq(Batches) /\ t + 1 \in 1 .. Len(queue[user])
      /\ m = queue[user][t + 1] /\ m \in Batches /\ m.w \in Writes /\ m.w.by = user
      /\ m.w.n \in 1 .. MaxWrites
  <2>1. m \in Batches
    BY <1>2, PipelineRows
  <2> QED  BY <1>2, <2>1, PipelineRows, BatchFields
<1>4. /\ remote.net.down \in Seq({"hello", "ok"})
      /\ Append(remote.net.down, "ok") \in Seq({"hello", "ok"})
      /\ Len(remote.net.down) \in Nat
      /\ Len(Append(remote.net.down, "ok")) = Len(remote.net.down) + 1
      /\ \A i \in 1 .. Len(remote.net.down) :
            Append(remote.net.down, "ok")[i] = remote.net.down[i]
      /\ Append(remote.net.down, "ok")[Len(remote.net.down) + 1] = "ok"
  <2>1. remote.net.down \in Seq({"hello", "ok"}) /\ "ok" \in {"hello", "ok"}
    BY <1>1, OpenStream
  <2> QED  BY <2>1, AppendProperties, LenProperties
<1>5. /\ n \in Streams /\ n.open /\ n.token = remote.net.token
      /\ n.up = Tail(remote.net.up) /\ n.down = Append(remote.net.down, "ok")
      /\ n.status = "none" /\ n.events = remote.net.events
  BY <1>1, <1>2, <1>4, OpenStream DEF Streams
<1>6. remote' = [remote EXCEPT !.net = n]
  BY <1>1, OpenStream DEF Inv, TypeOK, Remotes
<1> HIDE DEF n, m
<1>7. /\ remote' \in Remotes /\ remote'.net = n /\ remote'.handshake = remote.handshake
      /\ remote'.pipeline = pipe
      /\ remote'.asks = remote.asks /\ OneToken(remote', worker)
      /\ \A c, s : InFlight(remote', c, s) => RemoteOK(remote', queue[user], user, c, s)
  BY <1>1, <1>5, <1>6, NetOnly
<1>8. Taken(remote') = t + 1
  <2>1. /\ IsIn("ok", remote.net.events) =>
              Taken(remote) = Len(remote.net.down) + 1
        /\ ~IsIn("ok", remote.net.events) => Taken(remote) = Len(remote.net.down)
    BY <1>4, TakenIs
  <2>2. Len(remote'.net.down) = Len(remote.net.down) + 1 /\ Len(remote'.net.down) \in Nat
    BY <1>4, <1>5, <1>7
  <2>3. /\ IsIn("ok", remote'.net.events) =>
              Taken(remote') = Len(remote'.net.down) + 1
        /\ ~IsIn("ok", remote'.net.events) => Taken(remote') = Len(remote'.net.down)
    BY <2>2, TakenIs
  <2> QED  BY <1>4, <1>5, <1>7, <2>1, <2>2, <2>3
<1>9. /\ stored' \in [Users -> 0 .. MaxWrites] /\ stored'[user] = m.w.n
      /\ \A u \in Users : u # user => stored'[u] = stored[u]
      /\ committed' \subseteq Writes
  <2>1. /\ stored \in [Users -> 0 .. MaxWrites] /\ committed \subseteq Writes
        /\ MaxWrites \in Nat /\ user \in Users
    BY BoundsAssumption DEF Inv, TypeOK
  <2>2. m.w.n \in 0 .. MaxWrites
    BY <1>3, <2>1
  <2> QED  BY <1>1, <1>3, <2>1, <2>2
<1> HIDE DEF t, pipe
<1>10. Sending(remote', committed', stored'[user])
  <2>1. \A i \in 1 .. Len(remote'.net.down) : remote'.net.down[i] = "ok"
    <3>1. \A i \in 1 .. Len(remote.net.down) : remote.net.down[i] = "ok"
      BY <1>2 DEF Sending
    <3>2. remote'.net.down = Append(remote.net.down, "ok")
      BY <1>5, <1>7
    <3>3. Len(remote'.net.down) = Len(remote.net.down) + 1
      BY <1>4, <3>2
    <3> QED  BY ONLY <1>4, <3>1, <3>2, <3>3
  <2>2. Taken(remote') <= Len(remote'.pipeline)
    BY <1>2, <1>3, <1>7, <1>8
  <2>3. ASSUME NEW i \in 1 .. t + 1
        PROVE  pipe[i].w \in committed' /\ pipe[i].w.n <= stored'[user]
    <3>1. CASE i = t + 1
      <4>1. m.w.n <= m.w.n
        BY <1>3
      <4> QED  BY <1>1, <1>2, <1>9, <3>1, <4>1
    <3>2. CASE i # t + 1
      <4>1. i \in 1 .. t /\ i < t + 1 /\ i \in 1 .. Len(pipe)
        <5>1. t \in Nat /\ t + 1 \in 1 .. Len(pipe) /\ Len(pipe) \in Nat
          BY <1>2, <1>3
        <5> QED  BY ONLY <3>2, <5>1, i \in 1 .. t + 1
      <4>2. pipe[i].w \in committed
        BY <1>2, <4>1 DEF Sending, t, pipe
      <4>3. pipe[i] = queue[user][i] /\ i \in 1 .. Len(queue[user]) /\ pipe[i] \in Batches
        BY <4>1, PipelineRows DEF pipe
      <4>4. RowsInOrder(queue[user])
        BY DEF Inv, TypeOK, QueuesOK
      <4>5. pipe[i].w.n < m.w.n
        BY <1>3, <4>1, <4>3, <4>4 DEF RowsInOrder
      <4>6. pipe[i].w.n \in 1 .. MaxWrites
        BY <4>3, BatchFields
      <4>7. pipe[i].w.n <= m.w.n
        BY <1>3, <4>5, <4>6
      <4> QED  BY <1>1, <1>9, <4>2, <4>7
    <3> QED  BY <3>1, <3>2
  <2>4. remote'.net.up = SubSeq(pipe, (t + 1) + 1, Len(pipe))
    <3>1. (t + 1) + 1 = t + 2
      BY <1>2
    <3> QED  BY <1>2, <1>5, <1>7, <3>1
  <2>5. remote'.net.events = <<>> \/ remote'.net.events = <<"ok">>
    BY <1>2, <1>5, <1>7
  <2>6. remote'.net.status = "none"
    BY <1>5, <1>7
  <2> QED  BY <1>7, <1>8, <2>1, <2>2, <2>3, <2>4, <2>5, <2>6 DEF Sending
<1>11. UNCHANGED <<auth, counter, worker, issued, user, queue, nextId, calls, told,
                   faults, restarts>>
  BY <1>1 DEF accountVars, localVars, boundVars
<1>12. TypeOK' /\ TasksInOrder' /\ AsksCurrent' /\ QueuesOK'
  BY <1>7, <1>9, <1>11 DEF Inv, TypeOK, TasksInOrder, AsksCurrent, QueuesOK
<1>13. StreamOK' /\ TokensOK'
  <2>1. InFlight(remote', committed', stored'[user])
    BY <1>2, <1>7, <1>10 DEF InFlight
  <2>2. RemoteOK(remote', queue[user], user, committed', stored'[user])
    BY <1>7, <2>1
  <2> QED  BY <1>7, <1>11, <2>2 DEF StreamOK, TokensOK
<1>14. WritesInOrder'
  <2> SUFFICES ASSUME NEW u \in Users
               PROVE  Ascending(worker, u, Seen(u)', issued[u])
    BY <1>11 DEF WritesInOrder
  <2>1. Seen(u)' \in SUBSET Seen(u)
    BY <1>1, <1>3, <1>11 DEF Seen
  <2>2. Ascending(worker, u, Seen(u), issued[u])
    BY DEF Inv, WritesInOrder
  <2> QED  BY <2>1, <2>2, AscendingLess
<1>15. AnswersOK'
  <2>1. HandlerHasBatch' /\ AnsweredBefore'
    BY <1>11 DEF Inv, AnswersOK, HandlerHasBatch, AnsweredBefore
  <2>2. AnswersInOrder' /\ RejectionHasCause'
    BY <1>1, <1>11 DEF Inv, AnswersOK, AnswersInOrder, RejectionHasCause
  <2>3. NeverRefused'
    BY <1>1 DEF Inv, AnswersOK, NeverRefused, m
  <2>4. StoredIsSettled'
    <3> SUFFICES ASSUME NEW w \in committed'
                 PROVE  \/ \E i \in 1 .. Len(queue[w.by]) : queue[w.by][i].w = w
                        \/ /\ w.n <= stored'[w.by]
                           /\ \A i \in 1 .. Len(queue[w.by]) : w.n < queue[w.by][i].w.n
      BY <1>11 DEF StoredIsSettled
    <3>1. CASE w = m.w
      BY <1>3, <3>1
    <3>2. CASE w \in committed
      <4>1. /\ w \in Writes
            /\ \/ \E i \in 1 .. Len(queue[w.by]) : queue[w.by][i].w = w
               \/ /\ w.n <= stored[w.by]
                  /\ \A i \in 1 .. Len(queue[w.by]) : w.n < queue[w.by][i].w.n
        BY <3>2 DEF Inv, TypeOK, AnswersOK, StoredIsSettled
      <4>2. CASE w.by # user
        BY <1>9, <4>1, <4>2 DEF Writes
      <4>3. ASSUME w.by = user, \A i \in 1 .. Len(queue[w.by]) : w.n < queue[w.by][i].w.n
            PROVE  w.n <= stored'[w.by]
        <5>1. w.n < m.w.n
          BY <1>3, <4>3
        <5>2. w.n \in 1 .. MaxWrites
          BY <4>1 DEF Writes
        <5>3. w.n <= m.w.n
          BY <1>3, <5>1, <5>2
        <5> QED  BY <1>9, <4>3, <5>3
      <4> QED  BY <4>1, <4>2, <4>3
    <3> QED  BY <1>1, <3>1, <3>2
  <2> QED  BY <2>1, <2>2, <2>3, <2>4 DEF AnswersOK
<1> QED  BY <1>12, <1>13, <1>14, <1>15 DEF Inv

LEMMA StepBackendTakes ==
    ASSUME Inv, BackendTakes
    PROVE  Inv'
  BY BackendGreets, BackendRefuses, BackendStores
=============================================================================
