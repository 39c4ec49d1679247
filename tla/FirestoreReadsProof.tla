------------------------- MODULE FirestoreReadsProof -------------------------
(***************************************************************************)
(* Proofs about FirestoreReads: what a step of the worker queue does to    *)
(* the client, and the invariants that give TypeOK, AnsweredOnce,          *)
(* FreshAnswer, ResponsesCounted and AssertionsHold.                       *)
(***************************************************************************)
EXTENDS FirestoreReads, DataLemmas

-----------------------------------------------------------------------------
(* The invariant, in parts: of the client alone first.                     *)

(* AssertionsHold, of any client.                                          *)
Targets(c) ==
    /\ c.targets = {d \in Docs : c.view[d].open}
    /\ c.targets = {d \in Docs : c.listeners[d] # {}}
Timers(c) ==
    /\ c.idle => c.targets = {} /\ c.stream = "Open"
    /\ c.timer => c.online = "Unknown" /\ IsStarted(c) /\ ~c.failed
    /\ c.online = "Online" => c.stream = "Open" /\ ~c.failed

(* A stream that is not open has nothing on its way; the responses are     *)
(* counted, and the backend says nothing of a target it denies.            *)
Zero == [d \in Docs |-> 0]
Silent(c) ==
    c.stream # "Open" => c.net = NoNet /\ c.states = NoStates /\ c.updates = Zero
RequestsFor(d) == [op : {"watch", "unwatch"}, doc : {d}]
ResponsesFor(d) == [kind : {"added", "removed"}, doc : {d}]
Counted(c) ==
    \A d \in Docs \ Denied :
        c.states[d].outstanding =
            HitsOf(c.net.up, RequestsFor(d)) + HitsOf(c.net.down, ResponsesFor(d))
AboutDenied(m) ==
    /\ m.kind = "denied" => m.doc \in Denied
    /\ m.kind \in {"document", "current"} => m.doc \in Docs \ Denied
Unknown(c) ==
    /\ \A d \in Denied : c.net.sent[d] = "none" /\ ~c.states[d].current
    /\ \A i \in 1 .. Len(c.net.down) : AboutDenied(c.net.down[i])

(* What the client takes for the present state of a document is not older  *)
(* than its view: shown as current, about to be, or on its way with no     *)
(* response to a request still to come.                                    *)
Fresh(c, d) == c.cache[d] >= c.view[d].since \/ c.updates[d] >= c.view[d].since
ViewsFresh(c) ==
    \A d \in Docs : /\ c.view[d].open => c.view[d].v = c.cache[d]
                    /\ c.view[d].current => c.view[d].v >= c.view[d].since
AboutToShow(s) == s.has /\ s.outstanding = 0 /\ s.changed /\ s.current
StatesFresh(c) ==
    \A d \in c.targets \ Denied : AboutToShow(c.states[d]) => Fresh(c, d)
Settled(n, d, i) ==
    /\ \A j \in 1 .. Len(n.up) : n.up[j].doc # d
    /\ \A j \in 1 .. Len(n.down) : j > i => n.down[j] \notin ResponsesFor(d)
DocumentFresh(c, m, i) ==
    m.kind = "document" /\ m.doc \in c.targets /\ Settled(c.net, m.doc, i)
        => m.v >= c.view[m.doc].since
DocumentsFresh(c) ==
    \A i \in 1 .. Len(c.net.down) : DocumentFresh(c, c.net.down[i], i)
CurrentFresh(c, m, i) ==
    m.kind = "current" =>
        \/ /\ i > 1 /\ c.net.down[i - 1].kind = "document"
           /\ c.net.down[i - 1].doc = m.doc
        \/ i = 1 /\ (IsActiveTarget(c, m.doc) => Fresh(c, m.doc))
CurrentsFresh(c) ==
    \A i \in 1 .. Len(c.net.down) : CurrentFresh(c, c.net.down[i], i)
NotAhead(c) == \A d \in Docs : c.view[d].since <= server[d]

(* The calls.                                                              *)
Listening(c) == ListenersOf(c, Docs)
Asked == 1 .. Len(asked)
Own(c) == \A d \in Docs : \A g \in c.listeners[d] : g \in Asked /\ asked[g] = d
TasksOnce ==
    /\ \A i \in 1 .. Len(worker) : worker[i].get \in Asked
    /\ \A i \in 1 .. Len(worker) : worker[i].task = "listen" =>
          /\ worker[i].get \notin Listening(client)
          /\ worker[i].get \notin muted /\ told[worker[i].get] = <<>>
          /\ \A j \in 1 .. Len(main) : main[j].get # worker[i].get
          /\ \A j \in 1 .. Len(worker) :
                worker[j].task = "listen" /\ worker[j].get = worker[i].get => j = i
EventsOnce ==
    /\ \A i \in 1 .. Len(main) : main[i].get \in Asked
    /\ \A i \in 1 .. Len(main) : main[i].from = "denied" =>
          /\ main[i].get \notin Listening(client)
          /\ \A j \in 1 .. Len(main) : j > i => main[j].get # main[i].get
AnsweredGets ==
    /\ muted \subseteq Asked
    /\ \A g \in Gets : told[g] # <<>> =>
          /\ g \in Asked /\ Len(told[g]) = 1
          /\ g \notin muted => /\ g \notin Listening(client)
                               /\ \A j \in 1 .. Len(main) : main[j].get # g
ListensSince(c, S) == \A d \in Docs : \A g \in c.listeners[d] : S[g] = c.view[d].since
EventsFresh ==
    \A i \in 1 .. Len(main) :
        main[i].from = "server" => main[i].v >= since[main[i].get]

StreamOK(c) ==
    /\ Silent(c) /\ Counted(c) /\ Unknown(c)
    /\ StatesFresh(c) /\ DocumentsFresh(c) /\ CurrentsFresh(c)
ClientOK(c) ==
    /\ Targets(c) /\ Timers(c) /\ StreamOK(c)
    /\ ViewsFresh(c) /\ NotAhead(c) /\ Own(c)
Inv ==
    /\ TypeOK /\ ClientOK(client) /\ ListensSince(client, since)
    /\ TasksOnce /\ EventsOnce /\ AnsweredGets /\ EventsFresh /\ FreshAnswer

-----------------------------------------------------------------------------
(* The types of a client.                                                  *)

Streams == {"Initial", "Starting", "Open", "Error", "Backoff"}
Views == [open : BOOLEAN, current : BOOLEAN, v : Versions, since : Versions]
TargetStates ==
    [has : BOOLEAN, outstanding : Int, current : BOOLEAN, changed : BOOLEAN]
WatchRequests == [op : {"watch", "unwatch"}, doc : Docs]
Nets ==
    [up : Seq(WatchRequests), down : Seq(Messages),
     sent : [Docs -> {"none", "added", "current"}],
     version : [Docs -> Versions], news : BOOLEAN]
AskedOK == asked \in Seq(Docs) /\ Len(asked) <= MaxGets

LEMMA ClientFields ==
    ASSUME NEW c \in Clients
    PROVE  /\ c.listeners \in [Docs -> SUBSET Gets] /\ c.raised \subseteq Gets
           /\ c.view \in [Docs -> Views] /\ c.cache \in [Docs -> Versions]
           /\ c.targets \subseteq Docs /\ c.states \in [Docs -> TargetStates]
           /\ c.updates \in [Docs -> Versions]
           /\ c.online \in {"Unknown", "Online", "Offline"}
           /\ c.failed \in BOOLEAN /\ c.timer \in BOOLEAN
           /\ c.stream \in Streams /\ c.idle \in BOOLEAN
           /\ c.net \in Nets /\ c.out \in Seq(Notices)
  BY DEF Clients, Views, TargetStates, WatchRequests, Nets, Streams

LEMMA NumbersOfVersions ==
    /\ Versions \subseteq Nat /\ 0 \in Versions /\ 1 \in Versions
    /\ MaxVersion \in Nat /\ MaxGets \in Nat /\ MaxFaults \in Nat
  BY BoundsAssumption DEF Versions

LEMMA ViewFields ==
    ASSUME NEW w \in Views
    PROVE  /\ w.open \in BOOLEAN /\ w.current \in BOOLEAN
           /\ w.v \in Versions /\ w.since \in Versions
           /\ w.v \in Nat /\ w.since \in Nat
           /\ [w EXCEPT !.current = FALSE] \in Views
  BY NumbersOfVersions DEF Views

LEMMA Listened ==
    ASSUME NEW c \in Clients
    PROVE  /\ \A g : g \in Listening(c) <=> \E d \in Docs : g \in c.listeners[d]
           /\ Listening(c) \subseteq Gets
  BY ClientFields DEF Listening, ListenersOf

-----------------------------------------------------------------------------
(* What a change of the online state does: views that are not current any  *)
(* more, and events for those that listen.                                 *)

LoweredView(v, w) == w = v \/ w = [v EXCEPT !.current = FALSE]
Lowered(c, r) ==
    /\ r \in Clients
    /\ r.listeners = c.listeners /\ r.cache = c.cache /\ r.targets = c.targets
    /\ \A d \in Docs : LoweredView(c.view[d], r.view[d])
SameStream(c, r) ==
    /\ r.states = c.states /\ r.updates = c.updates /\ r.net = c.net
    /\ r.stream = c.stream /\ r.idle = c.idle
SameTimers(c, r) == r.timer = c.timer /\ r.failed = c.failed
GoodEvent(e, c, S) ==
    /\ e.get \in Listening(c) /\ e.from # "denied"
    /\ e.from = "server" => e.v >= S[e.get]
Heard(c, S) ==
    /\ ViewsFresh(c) /\ Own(c) /\ ListensSince(c, S)
    /\ \A i \in 1 .. Len(c.out) : GoodEvent(c.out[i], c, S)

LEMMA LoweredTrans ==
    ASSUME NEW c, NEW r, NEW q, Lowered(c, r), Lowered(r, q)
    PROVE  Lowered(c, q)
  BY DEF Lowered, LoweredView

LEMMA SameStreamTrans ==
    ASSUME NEW c, NEW r, NEW q, SameStream(c, r), SameStream(r, q)
    PROVE  SameStream(c, q)
  BY DEF SameStream

LEMMA LoweredSelf ==
    ASSUME NEW c \in Clients
    PROVE  Lowered(c, c) /\ SameStream(c, c) /\ SameTimers(c, c)
  BY DEF Lowered, SameStream, SameTimers, LoweredView

(* The listeners that raise, in order.                                     *)
LEMMA InOrderProperties ==
    ASSUME NEW S \in SUBSET Gets
    PROVE  IsFiniteSet(S) /\ Cardinality(S) \in Nat /\ IsOrder(InOrder(S), S)
<1>1. MaxGets \in Nat /\ S \in SUBSET (1 .. MaxGets)
  BY NumbersOfVersions DEF Gets
<1>2. IsFiniteSet(S) /\ Cardinality(S) \in Nat /\ \E order : IsOrder(order, S)
  BY <1>1, OrderExists
<1>3. IsOrder(InOrder(S), S)
  BY <1>2 DEF InOrder, IsOrder
<1> QED  BY <1>2, <1>3

LEMMA SnapshotsFor ==
    ASSUME NEW c \in Clients, NEW S, NEW gets, Heard(c, S), AskedOK,
           gets \subseteq Listening(c)
    PROVE  /\ Lowered(c, OnViewSnapshots(c, gets))
           /\ SameStream(c, OnViewSnapshots(c, gets))
           /\ SameTimers(c, OnViewSnapshots(c, gets))
           /\ OnViewSnapshots(c, gets).online = c.online
           /\ Heard(OnViewSnapshots(c, gets), S)
<1> DEFINE R == Ready(c, gets)
           order == InOrder(R)
           n == Cardinality(R)
           more == [i \in DOMAIN order |-> Event(c, order[i])]
           r == OnViewSnapshots(c, gets)
<1>1. R \subseteq gets /\ R \subseteq Gets
  BY Listened DEF Ready
<1>2. n \in Nat /\ order \in [1 .. n -> R]
  BY <1>1, InOrderProperties DEF IsOrder
<1>3. r = [c EXCEPT !.raised = @ \cup R, !.out = @ \o more]
  BY DEF OnViewSnapshots
<1>4. ASSUME NEW g \in R
      PROVE  Event(c, g) \in Notices /\ GoodEvent(Event(c, g), c, S)
  <2>1. PICK d \in Docs : g \in c.listeners[d]
    BY <1>1, Listened
  <2>2. g \in Gets /\ asked[g] = d
    BY <1>1, <2>1 DEF Heard, Own
  <2>3. c.view[d] \in Views
    BY ClientFields
  <2>4. Event(c, g) \in Notices
    BY <2>2, <2>3, ViewFields DEF Event, Notices
  <2>5. /\ Event(c, g).get = g /\ Event(c, g).v = c.view[d].v
        /\ Event(c, g).from = IF c.view[d].current THEN "server" ELSE "cache"
    BY <2>2 DEF Event
  <2>6. S[g] = c.view[d].since /\ (c.view[d].current => c.view[d].v >= c.view[d].since)
    BY <2>1 DEF Heard, ListensSince, ViewsFresh
  <2>7. g \in Listening(c)
    BY <2>1, Listened
  <2> QED  BY <2>4, <2>5, <2>6, <2>7 DEF GoodEvent
<1> HIDE DEF R, order, n, r
<1>5. /\ more \in Seq(Notices) /\ Len(more) = n
      /\ \A i \in 1 .. n : GoodEvent(more[i], c, S)
  <2>1. DOMAIN order = 1 .. n /\ \A i \in 1 .. n : order[i] \in R
    BY <1>2
  <2>2. more \in [1 .. n -> Notices] /\ \A i \in 1 .. n : more[i] = Event(c, order[i])
    BY <1>4, <2>1
  <2> HIDE DEF more
  <2>3. more \in Seq(Notices) /\ Len(more) = n
    BY <1>2, <2>2, FunctionIsSeq
  <2> QED  BY <1>4, <2>1, <2>2, <2>3
<1> HIDE DEF more
<1>6. c.out \in Seq(Notices) /\ c.raised \subseteq Gets
  BY ClientFields
<1>7. /\ c.out \o more \in Seq(Notices) /\ Len(c.out) \in Nat
      /\ Len(c.out \o more) = Len(c.out) + n
      /\ \A i \in 1 .. Len(c.out) + n :
            (c.out \o more)[i] = IF i <= Len(c.out) THEN c.out[i] ELSE more[i - Len(c.out)]
  BY <1>5, <1>6, LenProperties, ConcatProperties
<1>8. /\ r \in Clients /\ r.out = c.out \o more /\ r.listeners = c.listeners
      /\ r.view = c.view /\ r.cache = c.cache /\ r.targets = c.targets
      /\ SameStream(c, r) /\ SameTimers(c, r) /\ r.online = c.online
  BY <1>1, <1>3, <1>6, <1>7 DEF Clients, SameStream, SameTimers
<1>9. Listening(r) = Listening(c)
  BY <1>8 DEF Listening, ListenersOf
<1>10. ASSUME NEW i \in 1 .. Len(r.out)
       PROVE  GoodEvent(r.out[i], r, S)
  <2>1. CASE i <= Len(c.out)
    <3>1. i \in 1 .. Len(c.out) /\ r.out[i] = c.out[i]
      BY <1>2, <1>7, <1>8, <2>1
    <3>2. GoodEvent(c.out[i], c, S)
      BY <3>1 DEF Heard
    <3> QED  BY <1>9, <3>1, <3>2 DEF GoodEvent
  <2>2. CASE ~(i <= Len(c.out))
    <3>1. i - Len(c.out) \in 1 .. n /\ r.out[i] = more[i - Len(c.out)]
      BY <1>2, <1>7, <1>8, <2>2
    <3>2. GoodEvent(more[i - Len(c.out)], c, S)
      BY <1>5, <3>1
    <3> QED  BY <1>9, <3>1, <3>2 DEF GoodEvent
  <2> QED  BY <2>1, <2>2
<1>11. Heard(r, S)
  BY <1>8, <1>10 DEF Heard, ViewsFresh, Own, ListensSince
<1> QED  BY <1>8, <1>11 DEF r, Lowered, LoweredView

LEMMA OnlineChange ==
    ASSUME NEW c \in Clients, NEW S, NEW state \in {"Unknown", "Online", "Offline"},
           Heard(c, S), AskedOK
    PROVE  /\ Lowered(c, HandleOnlineStateChange(c, state))
           /\ SameStream(c, HandleOnlineStateChange(c, state))
           /\ SameTimers(c, HandleOnlineStateChange(c, state))
           /\ HandleOnlineStateChange(c, state).online = state
           /\ Heard(HandleOnlineStateChange(c, state), S)
<1> DEFINE lost == {d \in Docs : state = "Offline" /\ c.view[d].current}
           down == [c EXCEPT !.view = [d \in Docs |->
                       IF d \in lost THEN [@[d] EXCEPT !.current = FALSE] ELSE @[d]]]
           first == OnViewSnapshots(down, ListenersOf(c, lost))
           told1 == [first EXCEPT !.online = state]
           r == HandleOnlineStateChange(c, state)
<1>1. r = OnViewSnapshots(told1, ListenersOf(c, Docs) \ told1.raised)
  BY DEF HandleOnlineStateChange
<1>2. lost \subseteq Docs
  OBVIOUS
<1> HIDE DEF r, lost
<1>3. /\ down \in Clients /\ SameStream(c, down) /\ SameTimers(c, down)
      /\ down.listeners = c.listeners /\ down.cache = c.cache
      /\ down.targets = c.targets /\ down.out = c.out
      /\ \A d \in Docs : LoweredView(c.view[d], down.view[d])
  <2> DEFINE view == [d \in Docs |-> IF d \in lost THEN [c.view[d] EXCEPT !.current = FALSE]
                                     ELSE c.view[d]]
  <2>1. \A d \in Docs : view[d] \in Views /\ LoweredView(c.view[d], view[d])
    BY ClientFields, ViewFields DEF LoweredView
  <2>2. view \in [Docs -> Views]
    BY <2>1
  <2>3. down = [c EXCEPT !.view = view]
    OBVIOUS
  <2> HIDE DEF view, down
  <2> QED  BY <2>1, <2>2, <2>3 DEF Clients, Views, SameStream, SameTimers
<1> HIDE DEF down
<1>4. Lowered(c, down)
  BY <1>3 DEF Lowered
<1>5. Heard(down, S)
  <2>1. \A d \in Docs : /\ down.view[d].open = c.view[d].open
                        /\ down.view[d].v = c.view[d].v
                        /\ down.view[d].since = c.view[d].since
                        /\ down.view[d].current => c.view[d].current
    <3> SUFFICES ASSUME NEW d \in Docs
                 PROVE  /\ down.view[d].open = c.view[d].open
                        /\ down.view[d].v = c.view[d].v
                        /\ down.view[d].since = c.view[d].since
                        /\ down.view[d].current => c.view[d].current
      OBVIOUS
    <3>1. c.view[d] \in Views /\ LoweredView(c.view[d], down.view[d])
      BY <1>3, ClientFields
    <3> QED  BY <3>1 DEF Views, LoweredView
  <2>2. Listening(down) = Listening(c)
    BY <1>3 DEF Listening, ListenersOf
  <2>3. ViewsFresh(down) /\ Own(down) /\ ListensSince(down, S)
    BY <1>3, <2>1 DEF Heard, ViewsFresh, Own, ListensSince
  <2>4. \A i \in 1 .. Len(down.out) : GoodEvent(down.out[i], down, S)
    BY <1>3, <2>2 DEF Heard, GoodEvent
  <2> QED  BY <2>3, <2>4 DEF Heard
<1>6. ListenersOf(c, lost) \subseteq Listening(down)
  BY <1>2, <1>3 DEF Listening, ListenersOf
<1>7. /\ Lowered(down, first) /\ SameStream(down, first) /\ SameTimers(down, first)
      /\ Heard(first, S)
  BY <1>3, <1>5, <1>6, SnapshotsFor
<1> HIDE DEF first
<1>8. /\ told1 \in Clients /\ told1.online = state
      /\ Lowered(first, told1) /\ SameStream(first, told1) /\ SameTimers(first, told1)
      /\ told1.view = first.view /\ told1.out = first.out
  <2>1. first \in Clients
    BY <1>7 DEF Lowered
  <2> QED  BY <2>1 DEF Clients, Lowered, LoweredView, SameStream, SameTimers
<1> HIDE DEF told1
<1>9. Heard(told1, S)
  <2>1. Listening(told1) = Listening(first)
    BY <1>8 DEF Listening, ListenersOf, Lowered
  <2>2. ViewsFresh(told1) /\ Own(told1) /\ ListensSince(told1, S)
    BY <1>7, <1>8 DEF Heard, ViewsFresh, Own, ListensSince, Lowered
  <2> QED  BY <1>7, <1>8, <2>1, <2>2 DEF Heard, GoodEvent
<1>10. Lowered(c, told1)
  BY <1>4, <1>7, <1>8, LoweredTrans
<1>11. ListenersOf(c, Docs) \ told1.raised \subseteq Listening(told1)
  BY <1>10 DEF Listening, ListenersOf, Lowered
<1>12. /\ Lowered(told1, r) /\ SameStream(told1, r) /\ SameTimers(told1, r)
       /\ r.online = state /\ Heard(r, S)
  BY <1>1, <1>8, <1>9, <1>11, SnapshotsFor
<1>13. Lowered(c, r)
  BY <1>10, <1>12, LoweredTrans
<1>14. SameStream(c, r)
  BY <1>3, <1>7, <1>8, <1>12, SameStreamTrans
<1>15. SameTimers(c, r)
  BY <1>3, <1>7, <1>8, <1>12 DEF SameTimers
<1> QED  BY <1>12, <1>13, <1>14, <1>15 DEF r

-----------------------------------------------------------------------------
(* The online state.                                                       *)

OnlineStates == {"Unknown", "Online", "Offline"}
Turned(c, r, S) == Lowered(c, r) /\ SameStream(c, r) /\ Heard(r, S)

LEMMA TurnedTrans ==
    ASSUME NEW c, NEW r, NEW q, NEW S, Turned(c, r, S), Turned(r, q, S)
    PROVE  Turned(c, q, S)
  BY LoweredTrans, SameStreamTrans DEF Turned

(* Heard says nothing of the timers, the stream and its states.            *)
LEMMA HeardSame ==
    ASSUME NEW c, NEW r, NEW S, Heard(c, S),
           r.view = c.view, r.cache = c.cache, r.listeners = c.listeners, r.out = c.out
    PROVE  Heard(r, S)
<1>1. Listening(r) = Listening(c)
  BY DEF Listening, ListenersOf
<1> QED  BY <1>1 DEF Heard, ViewsFresh, Own, ListensSince, GoodEvent

LEMMA SetTimers ==
    ASSUME NEW c \in Clients, NEW S, Heard(c, S), NEW r,
           \/ r = [c EXCEPT !.timer = FALSE]
           \/ r = [c EXCEPT !.timer = TRUE]
           \/ r = [c EXCEPT !.timer = FALSE, !.failed = FALSE]
           \/ r = [c EXCEPT !.failed = TRUE, !.timer = FALSE]
    PROVE  Turned(c, r, S) /\ r \in Clients /\ r.online = c.online
<1>1. /\ r.timer \in BOOLEAN /\ r.failed \in BOOLEAN
      /\ r = [c EXCEPT !.timer = r.timer, !.failed = r.failed]
  BY DEF Clients
<1>2. /\ r \in Clients /\ SameStream(c, r) /\ r.online = c.online
      /\ r.listeners = c.listeners /\ r.cache = c.cache /\ r.targets = c.targets
      /\ r.view = c.view /\ r.out = c.out
  BY <1>1 DEF Clients, SameStream
<1>3. Heard(r, S)
  BY <1>2, HeardSame
<1> QED  BY <1>2, <1>3 DEF Turned, Lowered, LoweredView

LEMMA Broadcast ==
    ASSUME NEW c \in Clients, NEW S, Heard(c, S), AskedOK, NEW state \in OnlineStates
    PROVE  /\ Turned(c, SetAndBroadcast(c, state), S)
           /\ SetAndBroadcast(c, state) \in Clients
           /\ SetAndBroadcast(c, state).online = state
           /\ SameTimers(c, SetAndBroadcast(c, state))
<1>1. CASE state = c.online
  BY <1>1, LoweredSelf DEF SetAndBroadcast, Turned
<1>2. CASE state # c.online
  <2>1. SetAndBroadcast(c, state) = HandleOnlineStateChange(c, state)
    BY <1>2 DEF SetAndBroadcast
  <2>2. state \in {"Unknown", "Online", "Offline"}
    BY DEF OnlineStates
  <2> QED  BY <2>1, <2>2, OnlineChange DEF Turned, Lowered
<1> QED  BY <1>1, <1>2

LEMMA UpdatedState ==
    ASSUME NEW c \in Clients, NEW S, Heard(c, S), AskedOK, NEW state \in OnlineStates
    PROVE  /\ Turned(c, UpdateState(c, state), S)
           /\ UpdateState(c, state) \in Clients
           /\ UpdateState(c, state).online = state
           /\ UpdateState(c, state).timer = FALSE /\ UpdateState(c, state).failed = FALSE
<1> DEFINE b == [c EXCEPT !.timer = FALSE, !.failed = FALSE]
           r == UpdateState(c, state)
<1>1. r = SetAndBroadcast(b, state)
  BY DEF UpdateState
<1>2. b.timer = FALSE /\ b.failed = FALSE
  BY DEF Clients
<1>3. Turned(c, b, S) /\ b \in Clients /\ Heard(b, S)
  BY SetTimers DEF Turned
<1> HIDE DEF b, r
<1>4. Turned(b, r, S) /\ r \in Clients /\ r.online = state /\ SameTimers(b, r)
  BY <1>1, <1>3, Broadcast
<1>5. Turned(c, r, S)
  BY <1>3, <1>4, TurnedTrans
<1> QED  BY <1>2, <1>4, <1>5 DEF r, SameTimers

LEMMA StreamStart ==
    ASSUME NEW c \in Clients, NEW S, Heard(c, S), AskedOK
    PROVE  /\ Turned(c, HandleWatchStreamStart(c), S)
           /\ HandleWatchStreamStart(c) \in Clients
           /\ c.failed => HandleWatchStreamStart(c) = c
           /\ ~c.failed => /\ HandleWatchStreamStart(c).online = "Unknown"
                           /\ HandleWatchStreamStart(c).timer
                           /\ ~HandleWatchStreamStart(c).failed
<1> DEFINE b == SetAndBroadcast(c, "Unknown")
           r == HandleWatchStreamStart(c)
<1>1. CASE c.failed
  BY <1>1, LoweredSelf DEF HandleWatchStreamStart, Turned
<1>2. CASE ~c.failed
  <2>1. r = [b EXCEPT !.timer = TRUE]
    BY <1>2 DEF HandleWatchStreamStart
  <2>2. /\ Turned(c, b, S) /\ b \in Clients /\ b.online = "Unknown" /\ SameTimers(c, b)
        /\ Heard(b, S)
    BY Broadcast DEF OnlineStates, Turned
  <2> HIDE DEF b, r
  <2>3. Turned(b, r, S) /\ r \in Clients /\ r.online = "Unknown"
    BY <2>1, <2>2, SetTimers
  <2>4. r.timer /\ r.failed = b.failed
    BY <2>1, <2>2 DEF Clients
  <2>5. Turned(c, r, S)
    BY <2>2, <2>3, TurnedTrans
  <2> QED  BY <1>2, <2>2, <2>3, <2>4, <2>5 DEF r, SameTimers
<1> QED  BY <1>1, <1>2

LEMMA StreamFailure ==
    ASSUME NEW c \in Clients, NEW S, Heard(c, S), AskedOK
    PROVE  /\ Turned(c, HandleWatchStreamFailure(c), S)
           /\ HandleWatchStreamFailure(c) \in Clients
           /\ c.online = "Online" => /\ HandleWatchStreamFailure(c).online = "Unknown"
                                     /\ SameTimers(c, HandleWatchStreamFailure(c))
           /\ c.online # "Online" => /\ HandleWatchStreamFailure(c).online = "Offline"
                                     /\ HandleWatchStreamFailure(c).failed
                                     /\ ~HandleWatchStreamFailure(c).timer
<1> DEFINE b == [c EXCEPT !.failed = TRUE, !.timer = FALSE]
           r == HandleWatchStreamFailure(c)
<1>1. CASE c.online = "Online"
  <2>1. r = SetAndBroadcast(c, "Unknown")
    BY <1>1 DEF HandleWatchStreamFailure
  <2> HIDE DEF r
  <2>2. Turned(c, r, S) /\ r \in Clients /\ r.online = "Unknown" /\ SameTimers(c, r)
    BY <2>1, Broadcast DEF OnlineStates
  <2> QED  BY <1>1, <2>2 DEF r
<1>2. CASE c.online # "Online"
  <2>1. r = SetAndBroadcast(b, "Offline")
    BY <1>2 DEF HandleWatchStreamFailure
  <2>2. b.failed /\ ~b.timer
    BY DEF Clients
  <2>3. Turned(c, b, S) /\ b \in Clients /\ Heard(b, S)
    BY SetTimers DEF Turned
  <2> HIDE DEF b, r
  <2>4. Turned(b, r, S) /\ r \in Clients /\ r.online = "Offline" /\ SameTimers(b, r)
    BY <2>1, <2>3, Broadcast DEF OnlineStates
  <2>5. Turned(c, r, S)
    BY <2>3, <2>4, TurnedTrans
  <2> QED  BY <1>2, <2>2, <2>4, <2>5 DEF r, SameTimers
<1> QED  BY <1>1, <1>2

-----------------------------------------------------------------------------
(* A stream that is closed, or starts.                                     *)

Cleared(c) == c.net = NoNet /\ c.states = NoStates /\ c.updates = Zero /\ ~c.idle
Disconnected(c, r, S) ==
    /\ Lowered(c, r) /\ Heard(r, S) /\ Cleared(r) /\ r.stream # "Open" /\ Timers(r)

LEMMA NothingTypes ==
    /\ NoStates \in [Docs -> TargetStates] /\ NoNet \in Nets
    /\ Zero \in [Docs -> Versions] /\ NoView \in Views
<1>1. NoState \in TargetStates
  BY DEF NoState, TargetStates
<1>2. <<>> \in Seq(WatchRequests) /\ <<>> \in Seq(Messages)
  BY EmptySeq
<1> QED  BY <1>1, <1>2, NumbersOfVersions DEF NoStates, NoNet, Nets, Zero, NoView, Views

LEMMA WhenClosed ==
    ASSUME NEW c \in Clients, NEW S, Heard(c, S), NEW state \in Streams
    PROVE  /\ Closed(c, state) \in Clients /\ Lowered(c, Closed(c, state))
           /\ Heard(Closed(c, state), S) /\ Cleared(Closed(c, state))
           /\ Closed(c, state).stream = state
           /\ SameTimers(c, Closed(c, state)) /\ Closed(c, state).online = c.online
<1> DEFINE r == Closed(c, state)
<1>1. r = [c EXCEPT !.stream = state, !.idle = FALSE, !.net = NoNet,
                    !.states = NoStates, !.updates = Zero]
  BY DEF Closed, Zero
<1> HIDE DEF r
<1>2. r \in Clients
  BY <1>1, NothingTypes DEF Clients, TargetStates, Nets, WatchRequests, Streams
<1>3. /\ Cleared(r) /\ r.stream = state /\ SameTimers(c, r) /\ r.online = c.online
      /\ r.listeners = c.listeners /\ r.cache = c.cache /\ r.targets = c.targets
      /\ r.view = c.view /\ r.out = c.out
  BY <1>1 DEF Clients, Cleared, SameTimers
<1>4. Heard(r, S)
  BY <1>3, HeardSame
<1> QED  BY <1>2, <1>3, <1>4 DEF r, Lowered, LoweredView

LEMMA WhenStarted ==
    ASSUME NEW c \in Clients, NEW S, Heard(c, S), AskedOK, ~c.idle, c.net = NoNet,
           c.online # "Online", c.failed => ~c.timer
    PROVE  /\ StartWatchStream(c) \in Clients
           /\ Disconnected(c, StartWatchStream(c), S)
<1> DEFINE state == IF c.stream = "Error" THEN "Backoff" ELSE "Starting"
           b == [c EXCEPT !.states = NoStates, !.updates = Zero, !.stream = state]
           r == StartWatchStream(c)
<1>1. r = HandleWatchStreamStart(b)
  BY DEF StartWatchStream, Zero
<1>2. state \in {"Starting", "Backoff"}
  OBVIOUS
<1> HIDE DEF state, r
<1>3. /\ b.states = NoStates /\ b.updates = Zero /\ b.stream = state
      /\ b.net = c.net /\ b.idle = c.idle /\ SameTimers(c, b) /\ b.online = c.online
      /\ b.listeners = c.listeners /\ b.cache = c.cache /\ b.targets = c.targets
      /\ b.view = c.view /\ b.out = c.out
  BY DEF Clients, SameTimers
<1>4. b \in Clients
  BY <1>2, NothingTypes DEF Clients, TargetStates
<1> HIDE DEF b
<1>5. Heard(b, S) /\ Lowered(c, b)
  BY <1>3, <1>4, HeardSame DEF Lowered, LoweredView
<1>6. /\ Turned(b, r, S) /\ r \in Clients
      /\ b.failed => r = b
      /\ ~b.failed => r.online = "Unknown" /\ r.timer /\ ~r.failed
  BY <1>1, <1>4, <1>5, StreamStart
<1>7. Lowered(c, r) /\ Heard(r, S)
  BY <1>5, <1>6, LoweredTrans DEF Turned
<1>8. Cleared(r) /\ r.stream = state
  BY <1>3, <1>6 DEF Cleared, Turned, SameStream
<1>9. r.failed => ~r.timer /\ r.online # "Online"
  BY <1>3, <1>6 DEF SameTimers
<1>10. ~r.failed => r.online = "Unknown"
  BY <1>3, <1>6 DEF SameTimers
<1>11. Timers(r)
  BY <1>2, <1>8, <1>9, <1>10 DEF Timers, Cleared, IsStarted
<1> QED  BY <1>2, <1>6, <1>7, <1>8, <1>11 DEF Disconnected, r

LEMMA DisconnectedTrans ==
    ASSUME NEW c, NEW r, NEW q, NEW S, Lowered(c, r), Disconnected(r, q, S)
    PROVE  Disconnected(c, q, S)
  BY LoweredTrans DEF Disconnected

LEMMA WhenFailed ==
    ASSUME NEW c \in Clients, NEW S, Heard(c, S), AskedOK, Timers(c)
    PROVE  StreamFails(c) \in Clients /\ Disconnected(c, StreamFails(c), S)
<1> DEFINE b == Closed(c, "Error")
           f == HandleWatchStreamFailure(b)
           r == StreamFails(c)
<1>1. "Error" \in Streams
  BY DEF Streams
<1>2. /\ b \in Clients /\ Lowered(c, b) /\ Heard(b, S) /\ Cleared(b)
      /\ b.stream = "Error" /\ SameTimers(c, b) /\ b.online = c.online
  BY <1>1, WhenClosed
<1> HIDE DEF b
<1>3. CASE ShouldStartWatchStream(b)
  <2>1. r = StartWatchStream(f)
    BY <1>3 DEF StreamFails, b
  <2>2. /\ Turned(b, f, S) /\ f \in Clients
        /\ b.online = "Online" => f.online = "Unknown" /\ SameTimers(b, f)
        /\ b.online # "Online" => f.online = "Offline" /\ f.failed /\ ~f.timer
    BY <1>2, StreamFailure
  <2> HIDE DEF f, r
  <2>3. f.online # "Online" /\ (f.failed => ~f.timer)
    BY <1>2, <2>2 DEF Timers, SameTimers
  <2>4. Heard(f, S) /\ ~f.idle /\ f.net = NoNet
    BY <1>2, <2>2 DEF Turned, SameStream, Cleared
  <2>5. r \in Clients /\ Disconnected(f, r, S)
    BY <2>1, <2>2, <2>3, <2>4, WhenStarted
  <2>6. Lowered(c, f)
    BY <1>2, <2>2, LoweredTrans DEF Turned
  <2> QED  BY <2>5, <2>6, DisconnectedTrans DEF r
<1>4. CASE ~ShouldStartWatchStream(b)
  <2>1. r = UpdateState(b, "Unknown")
    BY <1>4 DEF StreamFails, b
  <2> HIDE DEF r
  <2>2. /\ Turned(b, r, S) /\ r \in Clients
        /\ r.online = "Unknown" /\ r.timer = FALSE /\ r.failed = FALSE
    BY <1>2, <2>1, UpdatedState DEF OnlineStates
  <2>3. Cleared(r) /\ r.stream = "Error"
    BY <1>2, <2>2 DEF Turned, SameStream, Cleared
  <2>4. Timers(r)
    BY <2>2, <2>3 DEF Timers, Cleared
  <2>5. Disconnected(b, r, S)
    BY <2>2, <2>3, <2>4 DEF Disconnected, Turned
  <2> QED  BY <1>2, <2>2, <2>5, DisconnectedTrans DEF r
<1> QED  BY <1>3, <1>4

LEMMA WhenStopped ==
    ASSUME NEW c \in Clients, NEW S, Heard(c, S), AskedOK, Timers(c), Silent(c)
    PROVE  StreamStops(c) \in Clients /\ Disconnected(c, StreamStops(c), S)
<1> DEFINE b == Closed(c, "Initial")
           r == StreamStops(c)
<1>1. CASE IsStarted(c)
  <2>1. r = UpdateState(b, "Unknown")
    BY <1>1 DEF StreamStops
  <2>2. /\ b \in Clients /\ Lowered(c, b) /\ Heard(b, S) /\ Cleared(b)
        /\ b.stream = "Initial"
    BY WhenClosed DEF Streams
  <2> HIDE DEF b, r
  <2>3. /\ Turned(b, r, S) /\ r \in Clients
        /\ r.online = "Unknown" /\ r.timer = FALSE /\ r.failed = FALSE
    BY <2>1, <2>2, UpdatedState DEF OnlineStates
  <2>4. Cleared(r) /\ r.stream = "Initial"
    BY <2>2, <2>3 DEF Turned, SameStream, Cleared
  <2>5. Timers(r)
    BY <2>3, <2>4 DEF Timers, Cleared
  <2>6. Disconnected(b, r, S)
    BY <2>3, <2>4, <2>5 DEF Disconnected, Turned
  <2> QED  BY <2>2, <2>3, <2>6, DisconnectedTrans DEF r
<1>2. CASE ~IsStarted(c)
  <2>1. r = c
    BY <1>2 DEF StreamStops
  <2>2. c.stream # "Open"
    BY <1>2 DEF IsStarted
  <2>3. Cleared(c)
    BY <2>2 DEF Cleared, Silent, Timers
  <2> QED  BY <2>1, <2>2, <2>3, LoweredSelf DEF Disconnected
<1> QED  BY <1>1, <1>2

LEMMA WhenRestarted ==
    ASSUME NEW c \in Clients, NEW S, Heard(c, S), AskedOK, Timers(c), Silent(c)
    PROVE  RestartNetwork(c) \in Clients /\ Disconnected(c, RestartNetwork(c), S)
<1> DEFINE a == StreamStops(c)
           b == UpdateState(a, "Unknown")
           s == [b EXCEPT !.stream = "Initial"]
           r == RestartNetwork(c)
<1>1. r = IF ShouldStartWatchStream(s) THEN StartWatchStream(s) ELSE UpdateState(s, "Unknown")
  BY DEF RestartNetwork
<1>2. a \in Clients /\ Disconnected(c, a, S)
  BY WhenStopped
<1> HIDE DEF a, r
<1>3. /\ Turned(a, b, S) /\ b \in Clients
      /\ b.online = "Unknown" /\ b.timer = FALSE /\ b.failed = FALSE
  BY <1>2, UpdatedState DEF OnlineStates, Disconnected
<1>4. Lowered(c, b) /\ Heard(b, S) /\ Cleared(b)
  BY <1>2, <1>3, LoweredTrans DEF Turned, SameStream, Disconnected, Cleared
<1> HIDE DEF b
<1>5. /\ s \in Clients /\ s.stream = "Initial" /\ s.online = "Unknown"
      /\ s.timer = FALSE /\ s.failed = FALSE /\ Cleared(s)
      /\ s.listeners = b.listeners /\ s.cache = b.cache /\ s.targets = b.targets
      /\ s.view = b.view /\ s.out = b.out
  BY <1>3, <1>4 DEF Clients, Cleared
<1> HIDE DEF s
<1>6. Lowered(c, s) /\ Heard(s, S)
  <2>1. Lowered(b, s)
    BY <1>5 DEF Lowered, LoweredView
  <2>2. Heard(s, S)
    BY <1>4, <1>5, HeardSame
  <2> QED  BY <1>4, <2>1, <2>2, LoweredTrans
<1>7. CASE ShouldStartWatchStream(s)
  <2>1. r = StartWatchStream(s)
    BY <1>1, <1>7
  <2>2. ~s.idle /\ s.net = NoNet
    BY <1>5 DEF Cleared
  <2>3. r \in Clients /\ Disconnected(s, r, S)
    BY <1>5, <1>6, <2>1, <2>2, WhenStarted
  <2> QED  BY <1>6, <2>3, DisconnectedTrans DEF r
<1>8. CASE ~ShouldStartWatchStream(s)
  <2>1. r = UpdateState(s, "Unknown")
    BY <1>1, <1>8
  <2>2. /\ Turned(s, r, S) /\ r \in Clients
        /\ r.online = "Unknown" /\ r.timer = FALSE /\ r.failed = FALSE
    BY <1>5, <1>6, <2>1, UpdatedState DEF OnlineStates
  <2>3. Cleared(r) /\ r.stream = "Initial"
    BY <1>5, <2>2 DEF Turned, SameStream, Cleared
  <2>4. Timers(r)
    BY <2>2, <2>3 DEF Timers, Cleared
  <2>5. Disconnected(s, r, S)
    BY <2>2, <2>3, <2>4 DEF Disconnected, Turned
  <2> QED  BY <1>6, <2>2, <2>5, DisconnectedTrans DEF r
<1> QED  BY <1>7, <1>8

-----------------------------------------------------------------------------
(* What is on the stream stays in order.                                   *)

LEMMA LoweredViews ==
    ASSUME NEW c \in Clients, NEW r, Lowered(c, r), NEW d \in Docs
    PROVE  /\ r.view[d].open = c.view[d].open /\ r.view[d].v = c.view[d].v
           /\ r.view[d].since = c.view[d].since
           /\ r.view[d].current => c.view[d].current
<1>1. c.view[d] \in Views /\ LoweredView(c.view[d], r.view[d])
  BY ClientFields DEF Lowered
<1> QED  BY <1>1 DEF Views, LoweredView

LEMMA SameStreamOK ==
    ASSUME NEW c \in Clients, NEW r, StreamOK(c), r.states = c.states,
           r.updates = c.updates, r.net = c.net, r.stream = c.stream,
           r.targets \subseteq c.targets, r.cache = c.cache,
           \A d \in r.targets : r.view[d].since = c.view[d].since
    PROVE  StreamOK(r)
<1>0. c.targets \subseteq Docs
  BY ClientFields
<1>2. Silent(r) /\ Counted(r) /\ Unknown(r)
  BY DEF StreamOK, Silent, Counted, Unknown
<1>3. \A d \in r.targets : Fresh(r, d) <=> Fresh(c, d)
  BY DEF Fresh
<1>4. StatesFresh(r)
  BY <1>0, <1>3 DEF StreamOK, StatesFresh
<1>5. \A m, i : DocumentFresh(c, m, i) => DocumentFresh(r, m, i)
  BY <1>0 DEF DocumentFresh
<1>6. DocumentsFresh(r)
  BY <1>5 DEF StreamOK, DocumentsFresh
<1>7. \A m, i : CurrentFresh(c, m, i) => CurrentFresh(r, m, i)
  BY <1>0, <1>3 DEF CurrentFresh, IsActiveTarget, IsPending
<1>8. CurrentsFresh(r)
  BY <1>7 DEF StreamOK, CurrentsFresh
<1> QED  BY <1>2, <1>4, <1>6, <1>8 DEF StreamOK

LEMMA StreamOKLowered ==
    ASSUME NEW c \in Clients, NEW r, Lowered(c, r), SameStream(c, r), StreamOK(c)
    PROVE  StreamOK(r)
<1>1. \A d \in Docs : r.view[d].since = c.view[d].since
  BY LoweredViews
<1>2. c.targets \subseteq Docs
  BY ClientFields
<1> QED  BY <1>1, <1>2, SameStreamOK DEF Lowered, SameStream

LEMMA NothingOnStream ==
    ASSUME NEW c \in Clients, c.net = NoNet, c.states = NoStates, c.updates = Zero
    PROVE  StreamOK(c)
<1>1. /\ c.net.up = <<>> /\ c.net.down = <<>> /\ Len(c.net.down) = 0
      /\ \A d \in Docs : c.net.sent[d] = "none"
      /\ \A d \in Docs : /\ c.states[d].outstanding = 0 /\ c.states[d].has = FALSE
                         /\ c.states[d].current = FALSE
  BY DEF NoNet, NoStates, NoState
<1>2. Silent(c)
  BY DEF Silent
<1>3. Counted(c)
  BY <1>1, HitsOfEmpty DEF Counted
<1>4. Unknown(c)
  BY <1>1, DeniedAssumption DEF Unknown
<1>5. StatesFresh(c)
  <2> SUFFICES ASSUME NEW d \in c.targets \ Denied, AboutToShow(c.states[d])
               PROVE  FALSE
    BY DEF StatesFresh
  <2>1. d \in Docs
    BY ClientFields
  <2> QED  BY <1>1, <2>1 DEF AboutToShow
<1>6. DocumentsFresh(c) /\ CurrentsFresh(c)
  BY <1>1 DEF DocumentsFresh, CurrentsFresh
<1> QED  BY <1>2, <1>3, <1>4, <1>5, <1>6 DEF StreamOK

(* With fewer targets less is asked for.                                   *)
LEMMA FewerTargets ==
    ASSUME NEW c \in Clients, StreamOK(c), NEW T \in SUBSET c.targets
    PROVE  StreamOK([c EXCEPT !.targets = T])
<1> DEFINE r == [c EXCEPT !.targets = T]
<1>1. /\ r.states = c.states /\ r.updates = c.updates /\ r.net = c.net
      /\ r.stream = c.stream /\ r.targets = T /\ r.cache = c.cache /\ r.view = c.view
  BY DEF Clients
<1> HIDE DEF r
<1>2. StreamOK(r)
  BY <1>1, SameStreamOK
<1> QED  BY <1>2 DEF r

-----------------------------------------------------------------------------
(* Requests.                                                               *)

RequestSet(op, docs) == {[op |-> op, doc |-> d] : d \in docs}

LEMMA RequestSetFinite ==
    ASSUME NEW op, NEW docs \in SUBSET Docs
    PROVE  IsFiniteSet(RequestSet(op, docs))
<1> DEFINE f == [d \in docs |-> [op |-> op, doc |-> d]]
           T == RequestSet(op, docs)
<1>1. f \in [docs -> T] /\ \A x \in T : \E d \in docs : f[d] = x
  BY DEF RequestSet
<1> HIDE DEF T, f
<1>2. f \in Surjection(docs, T)
  BY <1>1 DEF Surjection
<1>3. IsFiniteSet(docs)
  BY DocsAssumption, FS_Subset
<1>4. IsFiniteSet(T)
  BY <1>2, <1>3, FS_Surjection
<1> QED  BY <1>4 DEF T

(* The requests new are those in up and one for each of docs.              *)
OneMoreEach(up, docs, new) ==
    /\ new \in Seq(WatchRequests)
    /\ \A d \in Docs : HitsOf(new, RequestsFor(d)) =
           HitsOf(up, RequestsFor(d)) + (IF d \in docs THEN 1 ELSE 0)
    /\ \A d : (\A j \in 1 .. Len(new) : new[j].doc # d)
              => d \notin docs /\ \A j \in 1 .. Len(up) : up[j].doc # d

LEMMA RequestsSent ==
    ASSUME NEW op \in {"watch", "unwatch"}, NEW docs \in SUBSET Docs,
           NEW up \in Seq(WatchRequests)
    PROVE  OneMoreEach(up, docs, up \o SetToSeq(RequestSet(op, docs)))
<1> DEFINE T == RequestSet(op, docs)
           s == SetToSeq(T)
<1>1. IsFiniteSet(T) /\ T \subseteq WatchRequests
  <2>1. IsFiniteSet(RequestSet(op, docs))
    BY RequestSetFinite
  <2>2. RequestSet(op, docs) \subseteq WatchRequests
    BY DEF RequestSet, WatchRequests
  <2> QED  BY <2>1, <2>2
<1>2. /\ s \in Seq(T) /\ Len(s) = Cardinality(T) /\ Cardinality(T) \in Nat
      /\ \A x \in T : \E i \in 1 .. Cardinality(T) : s[i] = x
  BY <1>1, SetToSeqProperties
<1>3. \A d \in docs : [op |-> op, doc |-> d] \in T
  BY DEF RequestSet
<1>4. ASSUME NEW d \in Docs
      PROVE  HitsOf(s, RequestsFor(d)) = IF d \in docs THEN 1 ELSE 0
  <2> DEFINE H == RequestsFor(d)
             x == [op |-> op, doc |-> d]
  <2>1. T \cap H \subseteq {x} /\ (x \in T \cap H <=> d \in docs)
    <3>1. \A y \in T : \E e \in docs : y = [op |-> op, doc |-> e]
      BY DEF RequestSet
    <3>2. \A e : [op |-> op, doc |-> e] \in H <=> e = d
      BY DEF RequestsFor
    <3>3. \A e, f : [op |-> op, doc |-> e] = [op |-> op, doc |-> f] => e = f
      OBVIOUS
    <3> HIDE DEF H
    <3>4. T \cap H \subseteq {x}
      BY <3>1, <3>2
    <3>5. x \in T <=> d \in docs
      BY <1>3, <3>1, <3>3
    <3> QED  BY <3>2, <3>4, <3>5
  <2> HIDE DEF T, H, x, s
  <2>2. HitsOf(SetToSeq(T), H) = IF x \in T \cap H THEN 1 ELSE 0
    BY <1>1, <2>1, HitsOfSet
  <2> QED  BY <2>1, <2>2 DEF H, s
<1> HIDE DEF T, s
<1>5. s \in Seq(WatchRequests)
  BY <1>1, <1>2
<1>6. \A d \in Docs : HitsOf(up \o s, RequestsFor(d)) =
                          HitsOf(up, RequestsFor(d)) + HitsOf(s, RequestsFor(d))
  BY <1>5, HitsOfConcat
<1>7. /\ up \o s \in Seq(WatchRequests) /\ Len(up) \in Nat /\ Len(s) \in Nat
      /\ Len(up \o s) = Len(up) + Len(s)
      /\ \A i \in 1 .. Len(up) + Len(s) :
            (up \o s)[i] = IF i <= Len(up) THEN up[i] ELSE s[i - Len(up)]
  BY <1>5, LenProperties, ConcatProperties
<1>8. ASSUME NEW d, \A j \in 1 .. Len(up \o s) : (up \o s)[j].doc # d
      PROVE  d \notin docs /\ \A j \in 1 .. Len(up) : up[j].doc # d
  <2>1. ASSUME d \in docs
        PROVE  FALSE
    <3>1. PICK i \in 1 .. Len(s) : s[i] = [op |-> op, doc |-> d]
      BY <1>2, <1>3, <2>1
    <3>2. /\ Len(up) + i \in 1 .. Len(up) + Len(s) /\ ~(Len(up) + i <= Len(up))
          /\ (Len(up) + i) - Len(up) = i
      BY <1>7
    <3>3. (up \o s)[Len(up) + i].doc = d
      BY <1>7, <3>1, <3>2
    <3> QED  BY <1>7, <1>8, <3>2, <3>3
  <2>2. ASSUME NEW j \in 1 .. Len(up)
        PROVE  up[j].doc # d
    <3>1. j \in 1 .. Len(up) + Len(s) /\ j <= Len(up)
      BY <1>7
    <3> QED  BY <1>7, <1>8, <3>1
  <2> QED  BY <2>1, <2>2
<1>9. OneMoreEach(up, docs, up \o s)
  BY <1>4, <1>6, <1>7, <1>8 DEF OneMoreEach
<1> QED  BY <1>9 DEF s, T

LEMMA CountsAreNumbers ==
    ASSUME NEW c \in Clients, Counted(c), NEW d \in Docs \ Denied
    PROVE  /\ HitsOf(c.net.up, RequestsFor(d)) \in Nat
           /\ HitsOf(c.net.down, ResponsesFor(d)) \in Nat
           /\ c.states[d].outstanding \in Nat
<1>1. c.net.up \in Seq(WatchRequests) /\ c.net.down \in Seq(Messages)
  BY ClientFields DEF Nets
<1>2. HitsOf(c.net.up, RequestsFor(d)) \in Nat /\ HitsOf(c.net.down, ResponsesFor(d)) \in Nat
  BY <1>1, HitsFinite
<1>3. c.states[d].outstanding =
          HitsOf(c.net.up, RequestsFor(d)) + HitsOf(c.net.down, ResponsesFor(d))
  BY DEF Counted
<1> QED  BY <1>2, <1>3

LEMMA OneMore ==
    ASSUME NEW x \in TargetStates
    PROVE  /\ RecordPendingTargetRequest(x) \in TargetStates
           /\ RecordPendingTargetRequest(x).current = x.current
           /\ RecordPendingTargetRequest(x).outstanding = x.outstanding + 1
<1>1. x.outstanding \in Int /\ x.outstanding + 1 \in Int
  BY DEF TargetStates
<1> QED  BY <1>1 DEF TargetStates, RecordPendingTargetRequest

(* A request for docs, of which some may be targets only now.              *)
Retargeted(c, docs, q) ==
    \E T \in SUBSET (c.targets \cup docs) : q = [c EXCEPT !.targets = T]
RequestOK(q, docs, r) ==
    /\ r \in Clients /\ StreamOK(r) /\ Lowered(q, r) /\ SameTimers(q, r)
    /\ r.out = q.out /\ r.view = q.view
    /\ r.stream = "Open" /\ r.online = q.online /\ (r.idle => q.idle /\ docs = {})

LEMMA Requested ==
    ASSUME NEW c \in Clients, StreamOK(c), c.stream = "Open",
           NEW docs, docs \subseteq Docs, NEW op \in {"watch", "unwatch"},
           NEW q, Retargeted(c, docs, q)
    PROVE  RequestOK(q, docs, Request(q, op, docs))
<1> PICK T \in SUBSET (c.targets \cup docs) : q = [c EXCEPT !.targets = T]
  BY DEF Retargeted
<1> DEFINE s == SetToSeq(RequestSet(op, docs))
           up == q.net.up \o s
           states == [d \in Docs |-> IF d \in docs
                        THEN RecordPendingTargetRequest(q.states[d]) ELSE q.states[d]]
           n == [q.net EXCEPT !.up = up]
           idle == (q.idle /\ docs = {})
           r == Request(q, op, docs)
<1>1. c.targets \subseteq Docs /\ c.net \in Nets /\ c.states \in [Docs -> TargetStates]
  BY ClientFields
<1>0. /\ q.listeners = c.listeners /\ q.cache = c.cache /\ q.targets = T
      /\ q.view = c.view /\ q.out = c.out /\ q.online = c.online
      /\ SameTimers(c, q) /\ q.idle = c.idle /\ q.states = c.states /\ q.net = c.net
  BY DEF Clients, SameTimers
<1>2. r = [c EXCEPT !.targets = T, !.states = states, !.net = n, !.idle = idle]
  <2>1. r = [q EXCEPT !.states = states, !.net = n, !.idle = idle]
    BY DEF Request, RequestSet
  <2> HIDE DEF states, up, idle, n, r
  <2> QED  BY <2>1 DEF Clients
<1> HIDE DEF r
<1>3. OneMoreEach(c.net.up, docs, up)
  <2>1. c.net.up \in Seq(WatchRequests)
    BY <1>1 DEF Nets
  <2>2. q.net.up = c.net.up
    BY <1>0
  <2> HIDE DEF s
  <2>3. OneMoreEach(c.net.up, docs, c.net.up \o s)
    BY <2>1, RequestsSent DEF s
  <2> QED  BY <2>2, <2>3
<1> HIDE DEF s, up
<1>4. /\ n \in Nets /\ n.up = up /\ n.down = c.net.down /\ n.sent = c.net.sent
  BY <1>0, <1>1, <1>3 DEF Nets, OneMoreEach
<1>5. ASSUME NEW d \in Docs
      PROVE  /\ states[d] \in TargetStates
             /\ states[d].current = c.states[d].current
             /\ d \in docs => states[d].outstanding = c.states[d].outstanding + 1
             /\ d \notin docs => states[d] = c.states[d]
  <2>1. c.states[d] \in TargetStates
    BY <1>1
  <2>2. CASE d \in docs
    <3>1. states[d] = RecordPendingTargetRequest(c.states[d])
      BY <1>0, <2>2
    <3> HIDE DEF states
    <3> QED  BY <2>1, <2>2, <3>1, OneMore
  <2>3. CASE d \notin docs
    <3>1. states[d] = c.states[d]
      BY <1>0, <2>3
    <3> QED  BY <2>1, <2>3, <3>1
  <2> QED  BY <2>2, <2>3
<1>6. states \in [Docs -> TargetStates]
  BY <1>5
<1>7. idle \in BOOLEAN
  OBVIOUS
<1> HIDE DEF n, states, idle
<1>8. /\ r.targets = T /\ r.states = states /\ r.net = n /\ r.idle = idle
      /\ r.stream = "Open" /\ r.cache = c.cache /\ r.updates = c.updates
      /\ r.view = c.view /\ r.listeners = c.listeners /\ r.out = c.out
      /\ r.online = c.online /\ SameTimers(c, r)
  BY <1>2 DEF Clients, SameTimers
<1>9. r \in Clients
  BY <1>1, <1>2, <1>4, <1>6, <1>7 DEF Clients, TargetStates, Nets, WatchRequests
<1>10. Counted(r)
  <2> SUFFICES ASSUME NEW d \in Docs \ Denied
               PROVE  states[d].outstanding =
                          HitsOf(up, RequestsFor(d)) + HitsOf(c.net.down, ResponsesFor(d))
    BY <1>4, <1>8 DEF Counted
  <2>1. /\ HitsOf(c.net.up, RequestsFor(d)) \in Nat
        /\ HitsOf(c.net.down, ResponsesFor(d)) \in Nat
        /\ c.states[d].outstanding =
              HitsOf(c.net.up, RequestsFor(d)) + HitsOf(c.net.down, ResponsesFor(d))
    BY CountsAreNumbers DEF StreamOK, Counted
  <2>2. HitsOf(up, RequestsFor(d)) =
              HitsOf(c.net.up, RequestsFor(d)) + (IF d \in docs THEN 1 ELSE 0)
    BY <1>3 DEF OneMoreEach
  <2>3. CASE d \in docs
    <3>1. states[d].outstanding = c.states[d].outstanding + 1
      BY <1>5, <2>3
    <3> QED  BY <2>1, <2>2, <2>3, <3>1
  <2>4. CASE d \notin docs
    <3>1. states[d].outstanding = c.states[d].outstanding
      BY <1>5, <2>4
    <3> QED  BY <2>1, <2>2, <2>4, <3>1
  <2> QED  BY <2>3, <2>4
<1>11. Silent(r) /\ Unknown(r)
  <2>1. Silent(r)
    BY <1>8 DEF Silent
  <2>2. \A d \in Denied : r.net.sent[d] = "none" /\ ~r.states[d].current
    BY <1>4, <1>5, <1>8, DeniedAssumption DEF StreamOK, Unknown
  <2>3. \A i \in 1 .. Len(r.net.down) : AboutDenied(r.net.down[i])
    BY <1>4, <1>8 DEF StreamOK, Unknown
  <2> QED  BY <2>1, <2>2, <2>3 DEF Unknown
<1>12. \A d \in docs \ Denied : r.states[d].outstanding # 0
  <2> SUFFICES ASSUME NEW d \in docs \ Denied
               PROVE  r.states[d].outstanding # 0
    OBVIOUS
  <2>1. c.states[d].outstanding \in Nat
    BY CountsAreNumbers DEF StreamOK
  <2>2. r.states[d].outstanding = c.states[d].outstanding + 1
    BY <1>5, <1>8
  <2> QED  BY <2>1, <2>2
<1>13. \A d : Fresh(r, d) <=> Fresh(c, d)
  BY <1>8 DEF Fresh
<1>14. StatesFresh(r)
  <2> SUFFICES ASSUME NEW d \in T \ Denied, AboutToShow(r.states[d])
               PROVE  Fresh(c, d)
    BY <1>8, <1>13 DEF StatesFresh
  <2>1. d \notin docs
    BY <1>12 DEF AboutToShow
  <2>2. d \in c.targets /\ d \in Docs /\ r.states[d] = c.states[d]
    BY <1>1, <1>5, <1>8, <2>1
  <2> QED  BY <2>2 DEF StreamOK, StatesFresh
<1>15. ASSUME NEW m, NEW i, DocumentFresh(c, m, i)
       PROVE  DocumentFresh(r, m, i)
  <2> SUFFICES ASSUME m.kind = "document", m.doc \in T, Settled(r.net, m.doc, i)
               PROVE  m.v >= c.view[m.doc].since
    BY <1>8 DEF DocumentFresh
  <2>1. m.doc \notin docs /\ \A j \in 1 .. Len(c.net.up) : c.net.up[j].doc # m.doc
    <3>1. \A j \in 1 .. Len(up) : up[j].doc # m.doc
      BY <1>4, <1>8 DEF Settled
    <3> QED  BY ONLY <1>3, <3>1 DEF OneMoreEach
  <2>2. m.doc \in c.targets
    BY <2>1
  <2>3. Settled(c.net, m.doc, i)
    BY <1>4, <1>8, <2>1 DEF Settled
  <2> QED  BY <1>15, <2>2, <2>3 DEF DocumentFresh
<1>16. DocumentsFresh(r)
  BY <1>4, <1>8, <1>15 DEF StreamOK, DocumentsFresh
<1>17. ASSUME NEW i \in 1 .. Len(c.net.down)
       PROVE  CurrentFresh(r, c.net.down[i], i)
  <2> DEFINE m == c.net.down[i]
  <2> HIDE DEF m
  <2>1. CurrentFresh(c, m, i) /\ AboutDenied(m)
    BY DEF StreamOK, CurrentsFresh, Unknown, m
  <2>2. ASSUME m.kind = "current", IsActiveTarget(r, m.doc)
        PROVE  IsActiveTarget(c, m.doc)
    <3>1. m.doc \in T /\ r.states[m.doc].outstanding = 0 /\ m.doc \in Docs \ Denied
      BY <1>8, <2>1, <2>2 DEF IsActiveTarget, IsPending, AboutDenied
    <3>2. m.doc \notin docs
      BY <1>12, <3>1
    <3>3. m.doc \in c.targets /\ r.states[m.doc] = c.states[m.doc]
      BY <1>5, <1>8, <3>1, <3>2
    <3> QED  BY <3>1, <3>3 DEF IsActiveTarget, IsPending
  <2>3. r.net.down = c.net.down
    BY <1>4, <1>8
  <2>4. CurrentFresh(r, m, i)
    BY <1>13, <2>1, <2>2, <2>3 DEF CurrentFresh
  <2> QED  BY <2>4 DEF m
<1>18. CurrentsFresh(r)
  BY <1>4, <1>8, <1>17 DEF CurrentsFresh
<1>19. StreamOK(r)
  BY <1>10, <1>11, <1>14, <1>16, <1>18 DEF StreamOK
<1>20. Lowered(q, r)
  BY <1>0, <1>8, <1>9 DEF Lowered, LoweredView
<1> QED  BY <1>0, <1>8, <1>9, <1>19, <1>20 DEF r, idle, SameTimers, RequestOK

LEMMA RequestedOfTargets ==
    ASSUME NEW q \in Clients, StreamOK(q), q.stream = "Open",
           NEW docs, docs \subseteq Docs, NEW op \in {"watch", "unwatch"}
    PROVE  RequestOK(q, docs, Request(q, op, docs))
<1>1. q = [q EXCEPT !.targets = q.targets] /\ q.targets \subseteq q.targets \cup docs
  BY DEF Clients
<1>2. Retargeted(q, docs, q)
  BY <1>1 DEF Retargeted
<1> QED  BY <1>2, Requested

-----------------------------------------------------------------------------
(* Targets come and go.                                                    *)

(* The result r of what was done to c when T are the targets.              *)
Result(c, T, r, S) ==
    /\ r \in Clients /\ Lowered([c EXCEPT !.targets = T], r)
    /\ Heard(r, S) /\ StreamOK(r) /\ Timers(r)

LEMMA OtherTargets ==
    ASSUME NEW c \in Clients, NEW S, Heard(c, S), NEW T \in SUBSET Docs,
           NEW q, q = [c EXCEPT !.targets = T]
    PROVE  /\ q \in Clients /\ Heard(q, S) /\ q.targets = T
           /\ q.listeners = c.listeners /\ q.cache = c.cache /\ q.view = c.view
           /\ q.online = c.online /\ SameTimers(c, q) /\ SameStream(c, q)
<1>1. /\ q \in Clients /\ q.targets = T
      /\ q.listeners = c.listeners /\ q.cache = c.cache /\ q.view = c.view
      /\ q.online = c.online /\ SameTimers(c, q) /\ SameStream(c, q) /\ q.out = c.out
  BY DEF Clients, SameTimers, SameStream
<1> QED  BY <1>1, HeardSame

LEMMA ClearedStreamOK ==
    ASSUME NEW c, NEW r \in Clients, NEW S, Disconnected(c, r, S)
    PROVE  StreamOK(r)
  BY NothingOnStream DEF Disconnected, Cleared

LEMMA ListenSent ==
    ASSUME NEW c \in Clients, NEW S, Heard(c, S), AskedOK, NEW d \in Docs,
           StreamOK(c), Timers(c)
    PROVE  Result(c, c.targets \cup {d}, Listen(c, d), S)
<1> DEFINE T == c.targets \cup {d}
           q == [c EXCEPT !.targets = T]
           r == Listen(c, d)
<1>1. T \in SUBSET Docs
  BY ClientFields
<1> HIDE DEF T
<1>2. /\ q \in Clients /\ Heard(q, S) /\ q.targets = T /\ q.view = c.view
      /\ q.online = c.online /\ SameTimers(c, q) /\ SameStream(c, q)
  BY <1>1, OtherTargets
<1>3. r = IF ShouldStartWatchStream(q) THEN StartWatchStream(q)
          ELSE IF c.stream = "Open" THEN SendWatchRequest(q, {d}) ELSE q
  BY DEF Listen, T
<1>4. c.stream # "Open" => Cleared(q)
  BY <1>2 DEF StreamOK, Silent, Timers, SameStream, Cleared
<1> HIDE DEF r
<1>5. CASE ShouldStartWatchStream(q)
  <2>1. r = StartWatchStream(q) /\ ~IsStarted(c)
    BY <1>2, <1>3, <1>5 DEF ShouldStartWatchStream, IsStarted, SameStream
  <2>2. Cleared(q)
    BY <1>4, <2>1 DEF IsStarted
  <2>3. q.online # "Online" /\ ~q.timer
    BY <1>2, <2>1 DEF Timers, IsStarted, SameTimers
  <2> HIDE DEF q
  <2>4. r \in Clients /\ Disconnected(q, r, S)
    BY <1>2, <2>1, <2>2, <2>3, WhenStarted DEF Cleared
  <2>5. StreamOK(r)
    BY <2>4, ClearedStreamOK
  <2> QED  BY <2>4, <2>5 DEF Result, Disconnected, q, T, r
<1>6. CASE ~ShouldStartWatchStream(q) /\ c.stream = "Open"
  <2>1. r = Request(q, "watch", {d})
    BY <1>3, <1>6 DEF SendWatchRequest
  <2>2. Retargeted(c, {d}, q) /\ {d} \subseteq Docs
    BY DEF Retargeted, T
  <2>3. q = [c EXCEPT !.targets = T]
    OBVIOUS
  <2> HIDE DEF q
  <2>4. RequestOK(q, {d}, r)
    BY <1>6, <2>1, <2>2, Requested
  <2>5. Heard(r, S)
    BY <1>2, <2>4, HeardSame DEF Lowered, RequestOK
  <2>6. ~r.idle
    BY <2>4 DEF RequestOK
  <2>7. Timers(r)
    BY <1>2, <1>6, <2>4, <2>6 DEF Timers, IsStarted, SameTimers, RequestOK
  <2> QED  BY <2>3, <2>4, <2>5, <2>7 DEF Result, T, r, RequestOK
<1>7. CASE ~ShouldStartWatchStream(q) /\ c.stream # "Open"
  <2>1. r = q /\ Cleared(q)
    BY <1>3, <1>4, <1>7
  <2>2. StreamOK(q)
    BY <1>2, <2>1, NothingOnStream DEF Cleared
  <2>3. Timers(q)
    BY <1>2, <2>1 DEF Timers, Cleared, IsStarted, SameTimers, SameStream
  <2>4. Lowered(q, q)
    BY <1>2, LoweredSelf
  <2> QED  BY <1>2, <2>1, <2>2, <2>3, <2>4 DEF Result, T, r
<1> QED  BY <1>5, <1>6, <1>7

LEMMA StoppedListening ==
    ASSUME NEW c \in Clients, NEW S, Heard(c, S), AskedOK, NEW d \in Docs,
           StreamOK([c EXCEPT !.targets = @ \ {d}]), Timers(c), ~c.idle
    PROVE  Result(c, c.targets \ {d}, StopListening(c, d), S)
<1> DEFINE T == c.targets \ {d}
           q == [c EXCEPT !.targets = T]
           s == IF c.stream = "Open" THEN SendUnwatchRequest(q, d) ELSE q
           r == StopListening(c, d)
<1>1. T \in SUBSET Docs /\ T \in SUBSET c.targets
  BY ClientFields
<1>2. r = IF s.targets # {} THEN s
          ELSE IF c.stream = "Open" THEN [s EXCEPT !.idle = TRUE]
          ELSE UpdateState(s, "Unknown")
  BY DEF StopListening
<1> HIDE DEF T, r
<1>3. /\ q \in Clients /\ Heard(q, S) /\ q.targets = T /\ q.view = c.view
      /\ q.online = c.online /\ SameTimers(c, q) /\ SameStream(c, q)
  BY <1>1, OtherTargets
<1>4. StreamOK(q)
  BY DEF T
<1>5. /\ s \in Clients /\ Heard(s, S) /\ StreamOK(s) /\ Lowered(q, s)
      /\ SameTimers(q, s) /\ s.online = q.online /\ ~s.idle /\ s.stream = c.stream
  <2>1. CASE c.stream = "Open"
    <3>1. s = Request(q, "unwatch", {d})
      BY <2>1 DEF SendUnwatchRequest
    <3> HIDE DEF q, s
    <3>2. RequestOK(q, {d}, s)
      BY <1>3, <1>4, <2>1, <3>1, RequestedOfTargets DEF SameStream
    <3>3. Heard(s, S)
      BY <1>3, <3>2, HeardSame DEF Lowered, RequestOK
    <3> QED  BY <2>1, <3>2, <3>3 DEF RequestOK
  <2>2. CASE c.stream # "Open"
    <3>1. s = q
      BY <2>2
    <3> HIDE DEF q, s
    <3>2. Lowered(q, q) /\ SameTimers(q, q)
      BY <1>3, LoweredSelf
    <3> QED  BY <1>3, <1>4, <3>1, <3>2 DEF SameStream
  <2> QED  BY <2>1, <2>2
<1> HIDE DEF q, s
<1>6. s.targets = T
  BY <1>3, <1>5 DEF Lowered
<1>7. CASE s.targets # {}
  <2>1. r = s
    BY <1>2, <1>7
  <2>2. Timers(s)
    BY <1>3, <1>5 DEF Timers, IsStarted, SameTimers, SameStream
  <2> QED  BY <1>5, <2>1, <2>2 DEF Result, T, q, r
<1>8. CASE s.targets = {} /\ c.stream = "Open"
  <2>1. r = [s EXCEPT !.idle = TRUE]
    BY <1>2, <1>8
  <2>2. /\ r \in Clients /\ r.targets = {} /\ r.stream = "Open"
        /\ SameTimers(s, r) /\ r.online = s.online
        /\ r.listeners = s.listeners /\ r.cache = s.cache /\ r.targets = s.targets
        /\ r.view = s.view /\ r.out = s.out /\ r.net = s.net /\ r.states = s.states
        /\ r.updates = s.updates
    BY <1>5, <1>8, <2>1 DEF Clients, SameTimers
  <2>3. Timers(r)
    BY <1>3, <1>5, <1>8, <2>2 DEF Timers, IsStarted, SameTimers, SameStream
  <2>4. Lowered(s, r) /\ Heard(r, S)
    BY <1>5, <2>2, HeardSame DEF Lowered, LoweredView
  <2>5. StreamOK(r)
    BY <1>5, <1>8, <2>2, SameStreamOK
  <2>6. Lowered(q, r)
    BY <1>5, <2>4, LoweredTrans
  <2> QED  BY <2>2, <2>3, <2>4, <2>5, <2>6 DEF Result, T, q, r
<1>9. CASE s.targets = {} /\ c.stream # "Open"
  <2>1. r = UpdateState(s, "Unknown")
    BY <1>2, <1>9
  <2>2. /\ Turned(s, r, S) /\ r \in Clients
        /\ r.online = "Unknown" /\ r.timer = FALSE /\ r.failed = FALSE
    BY <1>5, <2>1, UpdatedState DEF OnlineStates
  <2>3. Timers(r)
    BY <1>5, <2>2 DEF Timers, Turned, SameStream
  <2>4. StreamOK(r)
    BY <1>5, <2>2, StreamOKLowered DEF Turned
  <2>5. Lowered(q, r)
    BY <1>5, <2>2, LoweredTrans DEF Turned
  <2> QED  BY <2>2, <2>3, <2>4, <2>5 DEF Result, Turned, T, q, r
<1> QED  BY <1>7, <1>8, <1>9

-----------------------------------------------------------------------------
(* Listeners come and go.                                                  *)

(* What a step of the worker queue keeps of the client; what it raised is  *)
(* not older than S.                                                       *)
StepOK(r, S) ==
    /\ r \in Clients /\ Targets(r) /\ Timers(r) /\ StreamOK(r) /\ NotAhead(r)
    /\ Heard(r, S)

(* A result for the targets that belong to the views and listeners.        *)
TargetsOf(c, T) ==
    T = {d \in Docs : c.view[d].open} /\ T = {d \in Docs : c.listeners[d] # {}}
SameListens(c, r) ==
    r.listeners = c.listeners /\ \A d \in Docs : r.view[d].since = c.view[d].since

LEMMA ResultOK ==
    ASSUME NEW c \in Clients, NEW T, NEW r, NEW S, Result(c, T, r, S),
           TargetsOf(c, T), NotAhead(c)
    PROVE  StepOK(r, S) /\ SameListens(c, r)
<1> DEFINE q == [c EXCEPT !.targets = T]
<1>1. /\ q \in Clients /\ q.targets = T /\ q.listeners = c.listeners /\ q.view = c.view
  BY DEF Clients, TargetsOf
<1>2. Lowered(q, r)
  BY DEF Result
<1> HIDE DEF q
<1>3. \A d \in Docs : /\ r.view[d].open = c.view[d].open
                      /\ r.view[d].since = c.view[d].since
  BY <1>1, <1>2, LoweredViews
<1>4. r.targets = T /\ r.listeners = c.listeners
  BY <1>1, <1>2 DEF Lowered
<1>5. Targets(r) /\ NotAhead(r)
  BY <1>3, <1>4 DEF Targets, TargetsOf, NotAhead
<1> QED  BY <1>3, <1>4, <1>5 DEF Result, StepOK, SameListens

LEMMA AddedListener ==
    ASSUME NEW c \in Clients, ClientOK(c), c.out = <<>>, NEW S, ListensSince(c, S),
           AskedOK, server \in [Docs -> Versions],
           NEW g \in Asked, NEW d \in Docs, asked[g] = d, g \notin Listening(c),
           NEW S2, \A h \in Gets : h # g => S2[h] = S[h],
           S2[g] = IF c.listeners[d] # {} THEN c.view[d].since ELSE server[d]
    PROVE  /\ StepOK(AddQueryListener(c, g, d), S2)
           /\ AddQueryListener(c, g, d).view[d].since = S2[g]
           /\ AddQueryListener(c, g, d).listeners
                  = [c.listeners EXCEPT ![d] = @ \cup {g}]
<1> DEFINE r == AddQueryListener(c, g, d)
           L == [c.listeners EXCEPT ![d] = @ \cup {g}]
           added == [c EXCEPT !.listeners = L]
           w == [open |-> TRUE, current |-> FALSE, v |-> c.cache[d], since |-> server[d]]
           viewed == [added EXCEPT !.view[d] = w]
<1>1. r = IF c.listeners[d] # {} THEN OnViewSnapshots(added, {g})
          ELSE Listen(OnViewSnapshots(viewed, {g}), d)
  BY DEF AddQueryListener, Clients
<1>2. g \in Gets
  BY NumbersOfVersions DEF Asked, AskedOK, Gets
<1>3. c.listeners \in [Docs -> SUBSET Gets] /\ c.cache \in [Docs -> Versions]
      /\ c.view \in [Docs -> Views]
  BY ClientFields
<1>4. /\ L \in [Docs -> SUBSET Gets] /\ L[d] = c.listeners[d] \cup {g}
      /\ \A e \in Docs : e # d => L[e] = c.listeners[e]
  BY <1>2, <1>3
<1> HIDE DEF L, r
<1>5. /\ added \in Clients /\ added.listeners = L /\ added.view = c.view
      /\ added.cache = c.cache /\ added.targets = c.targets /\ added.out = <<>>
      /\ added.online = c.online /\ SameTimers(c, added) /\ SameStream(c, added)
  BY <1>4 DEF Clients, SameTimers, SameStream
<1> HIDE DEF added
<1>6. Len(<<>>) = 0 /\ \A i \in 1 .. 0 : FALSE
  OBVIOUS
<1>7. Own(added)
  BY <1>4, <1>5 DEF ClientOK, Own
<1>8. \A e \in Docs : \A h \in c.listeners[e] : S2[h] = c.view[e].since
  <2> SUFFICES ASSUME NEW e \in Docs, NEW h \in c.listeners[e]
               PROVE  S2[h] = c.view[e].since
    OBVIOUS
  <2>1. h \in Listening(c) /\ h \in Gets
    BY Listened
  <2> QED  BY <2>1 DEF ListensSince
<1>9. CASE c.listeners[d] # {}
  <2>1. r = OnViewSnapshots(added, {g})
    BY <1>1, <1>9
  <2>2. ListensSince(added, S2)
    BY <1>4, <1>5, <1>8, <1>9 DEF ListensSince
  <2>3. Heard(added, S2)
    BY <1>5, <1>6, <1>7, <2>2 DEF Heard, ClientOK, ViewsFresh
  <2>4. {g} \subseteq Listening(added)
    BY <1>4, <1>5, Listened
  <2>5. /\ Lowered(added, r) /\ SameStream(added, r) /\ SameTimers(added, r)
        /\ r.online = added.online /\ Heard(r, S2)
    BY <1>5, <2>1, <2>3, <2>4, SnapshotsFor
  <2>6. c.stream \in Streams
    BY ClientFields
  <2>7. StreamOK(added)
    BY <1>5, SameStreamOK DEF ClientOK, SameStream
  <2>8. StreamOK(r)
    BY <1>5, <2>5, <2>7, StreamOKLowered
  <2>9. Timers(r)
    BY <1>5, <2>5 DEF ClientOK, Timers, IsStarted, Lowered, SameTimers, SameStream
  <2>10. \A e \in Docs : /\ r.view[e].open = c.view[e].open
                         /\ r.view[e].since = c.view[e].since
    BY <1>5, <2>5, LoweredViews
  <2>11. r.listeners = L /\ r.targets = c.targets /\ r \in Clients
    BY <1>5, <2>5 DEF Lowered
  <2>12. Targets(r)
    BY <1>4, <1>9, <2>10, <2>11 DEF ClientOK, Targets
  <2>13. NotAhead(r)
    BY <2>10 DEF ClientOK, NotAhead
  <2>14. r.view[d].since = S2[g]
    BY <1>9, <2>10
  <2> QED  BY <2>5, <2>8, <2>9, <2>11, <2>12, <2>13, <2>14 DEF StepOK, r, L
<1>10. CASE c.listeners[d] = {}
  <2> DEFINE s == OnViewSnapshots(viewed, {g})
             V == [c.view EXCEPT ![d] = w]
  <2>1. r = Listen(s, d)
    BY <1>1, <1>10
  <2>2. w \in Views /\ w.open /\ ~w.current /\ w.v = c.cache[d] /\ w.since = server[d]
    BY <1>3 DEF Views
  <2> HIDE DEF w
  <2>3. /\ V \in [Docs -> Views] /\ V[d] = w
        /\ \A e \in Docs : e # d => V[e] = c.view[e]
    BY <1>3, <2>2
  <2>4. viewed = [added EXCEPT !.view = V]
    BY <1>5
  <2> HIDE DEF V, viewed, s
  <2>5. /\ viewed \in Clients /\ viewed.view = V /\ viewed.listeners = L
        /\ viewed.cache = c.cache /\ viewed.targets = c.targets /\ viewed.out = <<>>
        /\ viewed.online = c.online /\ SameTimers(c, viewed) /\ SameStream(c, viewed)
    BY <1>5, <2>3, <2>4 DEF Clients, Views, SameTimers, SameStream
  <2>6. ListensSince(viewed, S2)
    BY <1>4, <1>8, <1>10, <2>2, <2>3, <2>5 DEF ListensSince
  <2>7. ViewsFresh(viewed) /\ Own(viewed)
    BY <1>5, <1>7, <2>2, <2>3, <2>5 DEF ClientOK, ViewsFresh, Own
  <2>8. Heard(viewed, S2)
    BY <1>6, <2>5, <2>6, <2>7 DEF Heard
  <2>9. {g} \subseteq Listening(viewed)
    BY <1>4, <2>5, Listened
  <2>10. /\ Lowered(viewed, s) /\ SameStream(viewed, s) /\ SameTimers(viewed, s)
         /\ s.online = viewed.online /\ Heard(s, S2)
    BY <2>5, <2>8, <2>9, SnapshotsFor DEF s
  <2>11. d \notin c.targets
    BY <1>10 DEF ClientOK, Targets
  <2>12. c.targets \subseteq Docs
    BY ClientFields
  <2>13. StreamOK(viewed)
    BY <2>3, <2>5, <2>11, <2>12, SameStreamOK DEF ClientOK, SameStream
  <2>14. StreamOK(s) /\ s \in Clients
    BY <2>5, <2>10, <2>13, StreamOKLowered DEF Lowered
  <2>15. Timers(s)
    BY <2>5, <2>10 DEF ClientOK, Timers, IsStarted, Lowered, SameTimers, SameStream
  <2>16. Result(s, s.targets \cup {d}, r, S2)
    BY <2>1, <2>10, <2>14, <2>15, ListenSent
  <2>17. \A e \in Docs : /\ s.view[e].open = V[e].open
                         /\ s.view[e].since = V[e].since
    BY <2>5, <2>10, LoweredViews
  <2>18. s.listeners = L /\ s.targets = c.targets
    BY <2>5, <2>10 DEF Lowered
  <2>19. TargetsOf(s, s.targets \cup {d})
    <3>1. \A e \in Docs : e \in s.targets \cup {d} <=> s.view[e].open
      <4> SUFFICES ASSUME NEW e \in Docs
                   PROVE  e \in s.targets \cup {d} <=> s.view[e].open
        OBVIOUS
      <4>1. CASE e = d
        BY <2>2, <2>3, <2>17, <4>1
      <4>2. CASE e # d
        BY <2>3, <2>17, <2>18, <4>2 DEF ClientOK, Targets
      <4> QED  BY <4>1, <4>2
    <3>2. \A e \in Docs : e \in s.targets \cup {d} <=> s.listeners[e] # {}
      <4> SUFFICES ASSUME NEW e \in Docs
                   PROVE  e \in s.targets \cup {d} <=> s.listeners[e] # {}
        OBVIOUS
      <4>1. CASE e = d
        BY <1>4, <2>18, <4>1
      <4>2. CASE e # d
        BY <1>4, <2>18, <4>2 DEF ClientOK, Targets
      <4> QED  BY <4>1, <4>2
    <3>3. s.targets \cup {d} \subseteq Docs
      BY <2>12, <2>18
    <3> QED  BY ONLY <3>1, <3>2, <3>3 DEF TargetsOf
  <2>20. NotAhead(s)
    <3>1. server[d] \in Nat
      BY NumbersOfVersions
    <3> QED  BY <2>2, <2>3, <2>17, <3>1 DEF ClientOK, NotAhead
  <2>21. StepOK(r, S2) /\ SameListens(s, r)
    BY <2>14, <2>16, <2>19, <2>20, ResultOK
  <2>22. r.view[d].since = S2[g]
    BY <1>10, <2>2, <2>3, <2>17, <2>21 DEF SameListens
  <2> QED  BY <2>18, <2>21, <2>22 DEF r, L, SameListens
<1> QED  BY <1>9, <1>10

LEMMA RemovedListener ==
    ASSUME NEW c \in Clients, ClientOK(c), c.out = <<>>, NEW S, ListensSince(c, S),
           AskedOK, server \in [Docs -> Versions], NEW g, NEW d \in Docs
    PROVE  /\ StepOK(RemoveQueryListener(c, g, d), S)
           /\ Listening(RemoveQueryListener(c, g, d)) \subseteq Listening(c)
<1> DEFINE r == RemoveQueryListener(c, g, d)
           L == [c.listeners EXCEPT ![d] = @ \ {g}]
           removed == [c EXCEPT !.listeners = L, !.raised = @ \ {g}]
           V == [c.view EXCEPT ![d] = NoView]
           closed == [removed EXCEPT !.view = V]
<1>1. r = IF c.listeners[d] = {} \/ removed.listeners[d] # {} THEN removed
          ELSE StopListening(closed, d)
  BY DEF RemoveQueryListener, Clients
<1>2. /\ c.listeners \in [Docs -> SUBSET Gets] /\ c.view \in [Docs -> Views]
      /\ c.raised \subseteq Gets /\ c.targets \subseteq Docs
  BY ClientFields
<1>3. /\ L \in [Docs -> SUBSET Gets] /\ L[d] = c.listeners[d] \ {g}
      /\ \A e \in Docs : e # d => L[e] = c.listeners[e]
  BY <1>2
<1>4. /\ V \in [Docs -> Views] /\ V[d] = NoView
      /\ \A e \in Docs : e # d => V[e] = c.view[e]
  BY <1>2, NothingTypes
<1> HIDE DEF L, V, r
<1>5. /\ removed \in Clients /\ removed.listeners = L /\ removed.view = c.view
      /\ removed.cache = c.cache /\ removed.targets = c.targets /\ removed.out = <<>>
      /\ removed.online = c.online /\ SameTimers(c, removed) /\ SameStream(c, removed)
  BY <1>2, <1>3 DEF Clients, SameTimers, SameStream
<1> HIDE DEF removed
<1>6. Len(<<>>) = 0 /\ \A i \in 1 .. 0 : FALSE
  OBVIOUS
<1>7. \A e \in Docs : L[e] \subseteq c.listeners[e]
  BY <1>3
<1>8. CASE c.listeners[d] = {} \/ removed.listeners[d] # {}
  <2>1. r = removed
    BY <1>1, <1>8
  <2>2. Heard(removed, S)
    BY <1>5, <1>6, <1>7 DEF ClientOK, Heard, ViewsFresh, Own, ListensSince
  <2>3. StreamOK(removed)
    BY <1>5, SameStreamOK DEF ClientOK, SameStream
  <2>4. Timers(removed)
    BY <1>5 DEF ClientOK, Timers, IsStarted, SameTimers, SameStream
  <2>5. \A e \in Docs : L[e] # {} <=> c.listeners[e] # {}
    BY <1>3, <1>5, <1>8
  <2>6. Targets(removed) /\ NotAhead(removed)
    BY <1>5, <2>5 DEF ClientOK, Targets, NotAhead
  <2>7. Listening(removed) \subseteq Listening(c)
    BY <1>5, <1>7, Listened
  <2> QED  BY <1>5, <2>1, <2>2, <2>3, <2>4, <2>6, <2>7 DEF StepOK, r
<1>9. CASE c.listeners[d] # {} /\ removed.listeners[d] = {}
  <2> DEFINE T == c.targets \ {d}
  <2>1. r = StopListening(closed, d)
    BY <1>1, <1>9
  <2>2. /\ closed \in Clients /\ closed.view = V /\ closed.listeners = L
        /\ closed.cache = c.cache /\ closed.targets = c.targets /\ closed.out = <<>>
        /\ closed.online = c.online /\ SameTimers(c, closed) /\ SameStream(c, closed)
    BY <1>4, <1>5 DEF Clients, Views, SameTimers, SameStream
  <2> HIDE DEF closed
  <2>3. NoView.open = FALSE /\ NoView.current = FALSE /\ NoView.since = 0
    BY DEF NoView
  <2>4. ListensSince(closed, S)
    BY <1>3, <1>4, <1>5, <1>9, <2>2 DEF ListensSince
  <2>5. ViewsFresh(closed) /\ Own(closed)
    BY <1>4, <1>7, <2>2, <2>3 DEF ClientOK, ViewsFresh, Own
  <2>6. Heard(closed, S)
    BY <1>6, <2>2, <2>4, <2>5 DEF Heard
  <2>7. d \in c.targets
    BY <1>9 DEF ClientOK, Targets
  <2>8. Timers(closed) /\ ~closed.idle
    BY <2>2, <2>7 DEF ClientOK, Timers, IsStarted, SameTimers, SameStream
  <2>9. StreamOK([closed EXCEPT !.targets = @ \ {d}])
    <3> DEFINE q == [closed EXCEPT !.targets = @ \ {d}]
    <3>1. /\ q.view = V /\ q.cache = c.cache /\ q.targets = T /\ SameStream(c, q)
      BY <2>2 DEF Clients, SameStream
    <3> HIDE DEF q
    <3>2. StreamOK(q)
      BY <1>2, <1>4, <3>1, SameStreamOK DEF ClientOK, SameStream
    <3> QED  BY <3>2 DEF q
  <2>10. Result(closed, T, r, S)
    BY <2>1, <2>2, <2>6, <2>8, <2>9, StoppedListening
  <2>11. TargetsOf(closed, T)
    BY <1>2, <1>3, <1>4, <1>5, <1>9, <2>2, <2>3 DEF ClientOK, Targets, TargetsOf
  <2>12. NotAhead(closed)
    <3> SUFFICES ASSUME NEW e \in Docs
                 PROVE  closed.view[e].since <= server[e]
      BY DEF NotAhead
    <3>1. CASE e = d
      <4>1. server[d] \in Nat
        BY NumbersOfVersions
      <4>2. closed.view[e].since = 0
        BY <1>4, <2>2, <2>3, <3>1
      <4> QED  BY <3>1, <4>1, <4>2
    <3>2. CASE e # d
      BY <1>4, <2>2, <3>2 DEF ClientOK, NotAhead
    <3> QED  BY <3>1, <3>2
  <2> HIDE DEF T
  <2>13. StepOK(r, S) /\ SameListens(closed, r)
    BY <2>2, <2>10, <2>11, <2>12, ResultOK
  <2>14. Listening(r) \subseteq Listening(c)
    BY <1>7, <2>2, <2>13, Listened DEF StepOK, SameListens
  <2> QED  BY <2>13, <2>14 DEF r
<1> QED  BY <1>8, <1>9

-----------------------------------------------------------------------------
(* A step that changes the online state or the stream only.                *)

LEMMA LoweredKeeps ==
    ASSUME NEW c \in Clients, NEW r, Lowered(c, r), Targets(c), NotAhead(c)
    PROVE  Targets(r) /\ NotAhead(r) /\ SameListens(c, r)
<1>1. \A d \in Docs : /\ r.view[d].open = c.view[d].open
                      /\ r.view[d].since = c.view[d].since
  BY LoweredViews
<1>2. r.targets = c.targets /\ r.listeners = c.listeners
  BY DEF Lowered
<1> QED  BY <1>1, <1>2 DEF Targets, NotAhead, SameListens

LEMMA DisconnectedOK ==
    ASSUME NEW c \in Clients, NEW r \in Clients, NEW S, Disconnected(c, r, S),
           Targets(c), NotAhead(c)
    PROVE  StepOK(r, S) /\ SameListens(c, r)
<1>1. StreamOK(r)
  BY ClearedStreamOK
<1>2. Targets(r) /\ NotAhead(r) /\ SameListens(c, r)
  BY LoweredKeeps DEF Disconnected
<1> QED  BY <1>1, <1>2 DEF StepOK, Disconnected

LEMMA TurnedOK ==
    ASSUME NEW c \in Clients, NEW r, NEW S, Turned(c, r, S),
           Targets(c), NotAhead(c), StreamOK(c), Timers(r)
    PROVE  StepOK(r, S) /\ SameListens(c, r)
<1>1. r \in Clients /\ StreamOK(r)
  BY StreamOKLowered DEF Turned, Lowered
<1>2. Targets(r) /\ NotAhead(r) /\ SameListens(c, r)
  BY LoweredKeeps DEF Turned
<1> QED  BY <1>1, <1>2 DEF StepOK, Turned

LEMMA HeardClient ==
    ASSUME NEW c \in Clients, ClientOK(c), c.out = <<>>, NEW S, ListensSince(c, S)
    PROVE  Heard(c, S)
<1>1. Len(c.out) = 0 /\ 1 .. 0 = {}
  OBVIOUS
<1> QED  BY <1>1 DEF Heard, ClientOK

-----------------------------------------------------------------------------
(* A message is taken from the stream.                                     *)

(* What holds of the client b that has taken m and not looked at it.       *)
CountedBut(b, m) ==
    \A d \in Docs \ Denied :
        b.states[d].outstanding =
            HitsOf(b.net.up, RequestsFor(d)) + HitsOf(b.net.down, ResponsesFor(d))
            + (IF m \in ResponsesFor(d) THEN 1 ELSE 0)
FollowsDocument(b, m, i) ==
    b.net.down[i].kind = "current" =>
        LET before == IF i = 1 THEN m ELSE b.net.down[i - 1]
        IN  before.kind = "document" /\ before.doc = b.net.down[i].doc
Taken(b, m) ==
    /\ b.stream = "Open" /\ CountedBut(b, m) /\ Unknown(b) /\ AboutDenied(m)
    /\ StatesFresh(b) /\ DocumentsFresh(b) /\ DocumentFresh(b, m, 0)
    /\ \A i \in 1 .. Len(b.net.down) : FollowsDocument(b, m, i)
    /\ m.kind = "current" => (IsActiveTarget(b, m.doc) => Fresh(b, m.doc))

LEMMA TailOfMessages ==
    ASSUME NEW T, NEW s \in Seq(T), s # <<>>
    PROVE  /\ Len(s) \in Nat /\ Len(s) >= 1 /\ Head(s) = s[1] /\ Head(s) \in T
           /\ Tail(s) \in Seq(T) /\ Len(Tail(s)) = Len(s) - 1
           /\ \A i \in 1 .. Len(s) - 1 : Tail(s)[i] = s[i + 1]
<1>1. Len(s) \in Nat /\ Len(s) # 0
  BY EmptySeq, LenProperties
<1>2. Head(s) = s[1]
  OBVIOUS
<1>3. 1 \in 1 .. Len(s)
  BY <1>1
<1>4. Head(s) \in T
  BY <1>2, <1>3, ElementOfSeq
<1> QED  BY <1>1, <1>2, <1>4, HeadTailProperties

LEMMA MessageTaken ==
    ASSUME NEW c \in Clients, StreamOK(c), c.stream = "Open", c.net.down # <<>>,
           NEW b, b = [c EXCEPT !.net.down = Tail(@)]
    PROVE  b \in Clients /\ Taken(b, Head(c.net.down))
<1> DEFINE D == c.net.down
           m == Head(D)
           n == Len(D)
           rest == Tail(D)
           net2 == [c.net EXCEPT !.down = rest]
<1>1. c.net \in Nets /\ D \in Seq(Messages)
  BY ClientFields DEF Nets
<1>2. /\ n \in Nat /\ n >= 1 /\ m = D[1] /\ m \in Messages
      /\ rest \in Seq(Messages) /\ Len(rest) = n - 1
      /\ \A i \in 1 .. n - 1 : rest[i] = D[i + 1]
  BY <1>1, TailOfMessages
<1>3. b = [c EXCEPT !.net = net2]
  BY DEF Clients
<1> HIDE DEF m, rest, n
<1>4. /\ net2 \in Nets /\ net2.down = rest /\ net2.up = c.net.up
      /\ net2.sent = c.net.sent
  BY <1>1, <1>2 DEF Nets
<1> HIDE DEF net2
<1>5. /\ b \in Clients /\ b.net = net2 /\ b.stream = "Open" /\ b.states = c.states
      /\ b.updates = c.updates /\ b.targets = c.targets /\ b.view = c.view
      /\ b.cache = c.cache
  BY <1>3, <1>4 DEF Clients, Nets, WatchRequests
<1>6. \A d : Fresh(b, d) <=> Fresh(c, d)
  BY <1>5 DEF Fresh
<1>7. CountedBut(b, m)
  <2> SUFFICES ASSUME NEW d \in Docs \ Denied
               PROVE  c.states[d].outstanding =
                          HitsOf(c.net.up, RequestsFor(d)) + HitsOf(rest, ResponsesFor(d))
                          + (IF m \in ResponsesFor(d) THEN 1 ELSE 0)
    BY <1>4, <1>5 DEF CountedBut
  <2> DEFINE H == ResponsesFor(d)
             u == HitsOf(c.net.up, RequestsFor(d))
             x == HitsOf(D, H)
             y == HitsOf(rest, H)
  <2>1. u \in Nat /\ x \in Nat /\ c.states[d].outstanding = u + x
    BY CountsAreNumbers DEF StreamOK, Counted
  <2>2. y = x - (IF m \in H THEN 1 ELSE 0)
    BY <1>1, HitsOfTail DEF m, rest
  <2>3. y \in Nat
    BY <1>2, HitsFinite
  <2> HIDE DEF H, u, x, y
  <2>4. u + x = u + y + (IF m \in H THEN 1 ELSE 0)
    BY <2>1, <2>2, <2>3
  <2> QED  BY <2>1, <2>4 DEF H, u, y
<1>8. AboutDenied(m) /\ Unknown(b)
  <2>1. 1 \in 1 .. n /\ \A i \in 1 .. n - 1 : i + 1 \in 1 .. n
    BY <1>2
  <2>2. \A i \in 1 .. n : AboutDenied(D[i])
    BY DEF StreamOK, Unknown, n
  <2>3. \A i \in 1 .. n - 1 : AboutDenied(rest[i])
    BY <1>2, <2>1, <2>2
  <2> QED  BY <1>2, <1>4, <1>5, <2>1, <2>2, <2>3 DEF StreamOK, Unknown
<1>9. StatesFresh(b)
  BY <1>5, <1>6 DEF StreamOK, StatesFresh
<1>10. ASSUME NEW d, NEW i \in Nat, Settled(net2, d, i)
       PROVE  Settled(c.net, d, i + 1)
  <2>1. \A j \in 1 .. Len(c.net.up) : c.net.up[j].doc # d
    BY <1>4, <1>10 DEF Settled
  <2>2. ASSUME NEW j \in 1 .. n, j > i + 1
        PROVE  D[j] \notin ResponsesFor(d)
    <3>1. j - 1 \in 1 .. n - 1 /\ j - 1 > i /\ (j - 1) + 1 = j
      BY <1>2, <2>2
    <3>2. rest[j - 1] \notin ResponsesFor(d)
      BY <1>2, <1>4, <1>10, <3>1 DEF Settled
    <3> QED  BY <1>2, <3>1, <3>2
  <2> QED  BY <2>1, <2>2 DEF Settled, n
<1>11. ASSUME NEW i \in Nat, NEW x, DocumentFresh(c, x, i + 1)
       PROVE  DocumentFresh(b, x, i)
  BY <1>5, <1>10, <1>11 DEF DocumentFresh
<1>12. DocumentsFresh(b) /\ DocumentFresh(b, m, 0)
  <2>1. \A i \in 1 .. n : DocumentFresh(c, D[i], i)
    BY DEF StreamOK, DocumentsFresh, n
  <2>2. ASSUME NEW i \in 1 .. n - 1
        PROVE  DocumentFresh(b, rest[i], i)
    <3>1. i \in Nat /\ i + 1 \in 1 .. n /\ rest[i] = D[i + 1]
      BY <1>2
    <3>2. DocumentFresh(c, rest[i], i + 1)
      BY <2>1, <3>1
    <3> QED  BY <1>11, <3>1, <3>2
  <2>3. DocumentFresh(b, m, 0)
    <3>1. 1 \in 1 .. n /\ 0 \in Nat /\ 0 + 1 = 1
      BY <1>2
    <3>2. DocumentFresh(c, m, 0 + 1)
      BY <1>2, <2>1, <3>1
    <3> QED  BY <1>11, <3>1, <3>2
  <2> QED  BY <1>2, <1>4, <1>5, <2>2, <2>3 DEF DocumentsFresh
<1>13. \A i \in 1 .. n : CurrentFresh(c, D[i], i)
  BY DEF StreamOK, CurrentsFresh, n
<1>14. ASSUME NEW i \in 1 .. n - 1
       PROVE  FollowsDocument(b, m, i)
  <2> SUFFICES ASSUME rest[i].kind = "current"
               PROVE  LET before == IF i = 1 THEN m ELSE rest[i - 1]
                      IN  before.kind = "document" /\ before.doc = rest[i].doc
    BY <1>4, <1>5 DEF FollowsDocument
  <2>1. i + 1 \in 1 .. n /\ i + 1 > 1 /\ (i + 1) - 1 = i /\ i + 1 # 1
    BY <1>2
  <2>2. rest[i] = D[i + 1] /\ CurrentFresh(c, D[i + 1], i + 1)
    BY <1>2, <1>13, <2>1
  <2>3. D[i].kind = "document" /\ D[i].doc = rest[i].doc
    BY <2>1, <2>2 DEF CurrentFresh
  <2>4. CASE i = 1
    BY <1>2, <2>3, <2>4
  <2>5. CASE i # 1
    <3>1. i - 1 \in 1 .. n - 1 /\ (i - 1) + 1 = i
      BY <1>2, <2>5
    <3>2. rest[i - 1] = D[i]
      BY <1>2, <3>1
    <3> QED  BY <2>3, <2>5, <3>2
  <2> QED  BY <2>4, <2>5
<1>15. ASSUME m.kind = "current", IsActiveTarget(b, m.doc)
       PROVE  Fresh(b, m.doc)
  <2>1. 1 \in 1 .. n
    BY <1>2
  <2>2. CurrentFresh(c, m, 1)
    BY <1>2, <1>13, <2>1
  <2>3. IsActiveTarget(c, m.doc)
    BY <1>5, <1>15 DEF IsActiveTarget, IsPending
  <2>4. ~(1 > 1) /\ m.kind = "current"
    BY <1>15
  <2>5. Fresh(c, m.doc)
    BY <2>2, <2>3, <2>4 DEF CurrentFresh
  <2> QED  BY <1>6, <2>5
<1>16. Len(b.net.down) = n - 1
  BY <1>2, <1>4, <1>5
<1>17. Taken(b, m)
  BY <1>5, <1>7, <1>8, <1>9, <1>12, <1>14, <1>15, <1>16 DEF Taken
<1> QED  BY <1>5, <1>17 DEF m

LEMMA TakenLowered ==
    ASSUME NEW b \in Clients, NEW r, Lowered(b, r), SameStream(b, r), NEW m, Taken(b, m)
    PROVE  Taken(r, m)
<1>1. \A d \in Docs : r.view[d].since = b.view[d].since
  BY LoweredViews
<1>2. /\ r.states = b.states /\ r.updates = b.updates /\ r.net = b.net
      /\ r.stream = b.stream /\ r.targets = b.targets /\ r.cache = b.cache
      /\ b.targets \subseteq Docs
  BY ClientFields DEF Lowered, SameStream
<1>3. \A d \in b.targets : Fresh(r, d) <=> Fresh(b, d)
  BY <1>1, <1>2 DEF Fresh
<1>4. /\ r.stream = "Open" /\ CountedBut(r, m) /\ Unknown(r) /\ AboutDenied(m)
      /\ \A i \in 1 .. Len(r.net.down) : FollowsDocument(r, m, i)
  BY <1>2 DEF Taken, CountedBut, Unknown, FollowsDocument
<1>5. \A x, i : DocumentFresh(b, x, i) => DocumentFresh(r, x, i)
  BY <1>1, <1>2 DEF DocumentFresh
<1>6. StatesFresh(r)
  BY <1>2, <1>3 DEF Taken, StatesFresh
<1>7. DocumentsFresh(r) /\ DocumentFresh(r, m, 0)
  BY <1>2, <1>5 DEF Taken, DocumentsFresh
<1>8. m.kind = "current" => (IsActiveTarget(r, m.doc) => Fresh(r, m.doc))
  BY <1>2, <1>3 DEF Taken, IsActiveTarget, IsPending
<1> QED  BY <1>4, <1>6, <1>7, <1>8 DEF Taken

-----------------------------------------------------------------------------
(* What the messages do.                                                   *)

(* The client q has taken the message m and is online.                     *)
Seen(q, m, S) ==
    /\ q \in Clients /\ Taken(q, m) /\ Targets(q) /\ Timers(q) /\ NotAhead(q)
    /\ Heard(q, S)
NoResponse(m) == \A d \in Docs : m \notin ResponsesFor(d)

LEMMA MessageSeen ==
    ASSUME NEW c \in Clients, ClientOK(c), c.out = <<>>, NEW S, ListensSince(c, S),
           AskedOK, c.stream = "Open", c.net.down # <<>>,
           NEW b, b = [c EXCEPT !.net.down = Tail(@)]
    PROVE  /\ Seen(UpdateState(b, "Online"), Head(c.net.down), S)
           /\ SameListens(c, UpdateState(b, "Online"))
<1> DEFINE q == UpdateState(b, "Online")
           m == Head(c.net.down)
<1>1. b \in Clients /\ Taken(b, m)
  BY MessageTaken DEF ClientOK
<1>2. /\ b.listeners = c.listeners /\ b.targets = c.targets /\ b.view = c.view
      /\ b.cache = c.cache /\ b.out = c.out /\ b.idle = c.idle /\ b.stream = c.stream
  BY DEF Clients
<1>3. Heard(b, S)
  BY <1>2, HeardClient, HeardSame
<1>4. /\ Turned(b, q, S) /\ q \in Clients /\ q.online = "Online"
      /\ q.timer = FALSE /\ q.failed = FALSE
  BY <1>1, <1>3, UpdatedState DEF OnlineStates
<1> HIDE DEF q, m
<1>5. Taken(q, m)
  BY <1>1, <1>4, TakenLowered DEF Turned
<1>6. Targets(b) /\ NotAhead(b)
  BY <1>2 DEF ClientOK, Targets, NotAhead
<1>7. Targets(q) /\ NotAhead(q) /\ SameListens(b, q)
  BY <1>1, <1>4, <1>6, LoweredKeeps DEF Turned
<1>8. Timers(q)
  BY <1>2, <1>4 DEF ClientOK, Timers, Turned, Lowered, SameStream
<1>9. SameListens(c, q)
  BY <1>2, <1>7 DEF SameListens
<1> QED  BY <1>4, <1>5, <1>7, <1>8, <1>9 DEF Seen, Turned, q, m

LEMMA NotDocument ==
    ASSUME NEW q, NEW m, Taken(q, m), m.kind # "document", q \in Clients,
           NEW r, r.net = q.net
    PROVE  CurrentsFresh(r)
<1> SUFFICES ASSUME NEW i \in 1 .. Len(q.net.down), q.net.down[i].kind = "current"
             PROVE  /\ i > 1 /\ q.net.down[i - 1].kind = "document"
                    /\ q.net.down[i - 1].doc = q.net.down[i].doc
  BY DEF CurrentsFresh, CurrentFresh
<1>1. FollowsDocument(q, m, i)
  BY DEF Taken
<1>2. q.net.down \in Seq(Messages)
  BY ClientFields DEF Nets
<1>3. i # 1
  BY <1>1 DEF FollowsDocument
<1>4. i \in Nat /\ i >= 1
  BY <1>2, LenProperties
<1>5. i > 1
  BY <1>3, <1>4
<1> QED  BY <1>1, <1>3, <1>5 DEF FollowsDocument

LEMMA SameDocuments ==
    ASSUME NEW q \in Clients, NEW m, Taken(q, m), NEW r, r.net = q.net,
           r.targets \subseteq q.targets,
           \A d \in r.targets : r.view[d].since = q.view[d].since
    PROVE  DocumentsFresh(r)
<1>1. \A x, i : DocumentFresh(q, x, i) => DocumentFresh(r, x, i)
  BY DEF DocumentFresh
<1> QED  BY <1>1 DEF Taken, DocumentsFresh

LEMMA CountedAgain ==
    ASSUME NEW q \in Clients, NEW m, Taken(q, m), NoResponse(m),
           NEW r, r.net = q.net,
           \A d \in Docs \ Denied : r.states[d].outstanding = q.states[d].outstanding
    PROVE  Counted(r)
<1> SUFFICES ASSUME NEW d \in Docs \ Denied
             PROVE  r.states[d].outstanding =
                        HitsOf(q.net.up, RequestsFor(d)) + HitsOf(q.net.down, ResponsesFor(d))
  BY DEF Counted
<1> DEFINE u == HitsOf(q.net.up, RequestsFor(d))
           x == HitsOf(q.net.down, ResponsesFor(d))
<1>1. q.states[d].outstanding = u + x + (IF m \in ResponsesFor(d) THEN 1 ELSE 0)
  BY DEF Taken, CountedBut
<1>2. m \notin ResponsesFor(d)
  BY DEF NoResponse
<1>3. u \in Nat /\ x \in Nat
  <2>1. q.net.up \in Seq(WatchRequests) /\ q.net.down \in Seq(Messages)
    BY ClientFields DEF Nets
  <2> QED  BY <2>1, HitsFinite
<1> HIDE DEF u, x
<1>4. q.states[d].outstanding = u + x
  BY <1>1, <1>2, <1>3
<1> QED  BY <1>4 DEF u, x

(* The message changes nothing.                                            *)
LEMMA MessageIgnored ==
    ASSUME NEW q, NEW m, NEW S, Seen(q, m, S), NoResponse(m),
           m.kind = "document" => ~IsActiveTarget(q, m.doc)
    PROVE  StepOK(q, S)
<1>1. q \in Clients /\ Taken(q, m)
  BY DEF Seen
<1>2. Counted(q) /\ DocumentsFresh(q)
  BY <1>1, CountedAgain, SameDocuments
<1>3. CurrentsFresh(q)
  <2>1. CASE m.kind # "document"
    BY <1>1, <2>1, NotDocument
  <2>2. CASE m.kind = "document"
    <3> SUFFICES ASSUME NEW i \in 1 .. Len(q.net.down)
                 PROVE  CurrentFresh(q, q.net.down[i], i)
      BY DEF CurrentsFresh
    <3>1. FollowsDocument(q, m, i)
      BY <1>1 DEF Taken
    <3>2. q.net.down \in Seq(Messages)
      BY <1>1, ClientFields DEF Nets
    <3>3. i \in Nat /\ i >= 1
      BY <3>2, LenProperties
    <3>4. CASE i = 1
      BY <2>2, <3>1, <3>4 DEF FollowsDocument, CurrentFresh
    <3>5. CASE i # 1
      <4>1. i > 1
        BY <3>3, <3>5
      <4> QED  BY <3>1, <3>5, <4>1 DEF FollowsDocument, CurrentFresh
    <3> QED  BY <3>4, <3>5
  <2> QED  BY <2>1, <2>2
<1>4. Silent(q) /\ Unknown(q) /\ StatesFresh(q)
  BY <1>1 DEF Taken, Silent
<1> QED  BY <1>2, <1>3, <1>4 DEF Seen, StepOK, StreamOK

(* The message changes the state of a target.                              *)
StateOK(q, m, d, s) ==
    /\ s \in TargetStates
    /\ d \notin Denied =>
          s.outstanding = q.states[d].outstanding - (IF m \in ResponsesFor(d) THEN 1 ELSE 0)
    /\ d \in Denied => ~s.current
    /\ d \in q.targets \ Denied /\ AboutToShow(s) => Fresh(q, d)

LEMMA StateChanged ==
    ASSUME NEW q, NEW m, NEW S, Seen(q, m, S), m.kind # "document",
           NEW d \in Docs, \A e \in Docs : e # d => m \notin ResponsesFor(e),
           NEW s, StateOK(q, m, d, s), NEW r, r = [q EXCEPT !.states[d] = s]
    PROVE  StepOK(r, S) /\ SameListens(q, r)
<1>1. /\ q \in Clients /\ Taken(q, m) /\ q.states \in [Docs -> TargetStates]
      /\ q.targets \subseteq Docs
  BY ClientFields DEF Seen
<1> DEFINE states == [q.states EXCEPT ![d] = s]
<1>2. /\ states \in [Docs -> TargetStates] /\ states[d] = s
      /\ \A e \in Docs : e # d => states[e] = q.states[e]
  BY <1>1 DEF StateOK
<1>3. r = [q EXCEPT !.states = states]
  BY <1>1 DEF Clients
<1> HIDE DEF states
<1>4. /\ r \in Clients /\ r.states = states /\ r.net = q.net /\ r.stream = q.stream
      /\ r.updates = q.updates /\ r.targets = q.targets /\ r.view = q.view
      /\ r.cache = q.cache /\ r.listeners = q.listeners /\ r.out = q.out
      /\ r.idle = q.idle /\ r.online = q.online /\ SameTimers(q, r)
  BY <1>1, <1>2, <1>3 DEF Clients, TargetStates, SameTimers
<1>5. Counted(r)
  <2> SUFFICES ASSUME NEW e \in Docs \ Denied
               PROVE  states[e].outstanding =
                        HitsOf(q.net.up, RequestsFor(e)) + HitsOf(q.net.down, ResponsesFor(e))
    BY <1>4 DEF Counted
  <2> DEFINE u == HitsOf(q.net.up, RequestsFor(e))
             x == HitsOf(q.net.down, ResponsesFor(e))
             k == IF m \in ResponsesFor(e) THEN 1 ELSE 0
  <2>1. q.states[e].outstanding = u + x + k
    BY <1>1 DEF Taken, CountedBut
  <2>2. u \in Nat /\ x \in Nat /\ k \in Nat
    <3>1. q.net.up \in Seq(WatchRequests) /\ q.net.down \in Seq(Messages)
      BY <1>1, ClientFields DEF Nets
    <3> QED  BY <3>1, HitsFinite
  <2>3. states[e].outstanding = q.states[e].outstanding - k
    <3>1. CASE e = d
      BY <1>2, <3>1 DEF StateOK
    <3>2. CASE e # d
      <4>1. k = 0 /\ states[e] = q.states[e]
        BY <1>2, <3>2
      <4> HIDE DEF k, u, x
      <4>2. q.states[e].outstanding \in Int
        BY <2>1, <2>2
      <4> QED  BY <4>1, <4>2
    <3> QED  BY <3>1, <3>2
  <2> HIDE DEF u, x, k
  <2>4. states[e].outstanding = u + x
    BY <2>1, <2>2, <2>3
  <2> QED  BY <2>4 DEF u, x
<1>6. Silent(r) /\ Unknown(r)
  <2>1. \A e \in Denied : ~states[e].current
    BY <1>1, <1>2, DeniedAssumption DEF Taken, Unknown, StateOK
  <2> QED  BY <1>1, <1>4, <2>1 DEF Taken, Unknown, Silent
<1>7. StatesFresh(r)
  <2> SUFFICES ASSUME NEW e \in q.targets \ Denied, AboutToShow(states[e])
               PROVE  Fresh(r, e)
    BY <1>4 DEF StatesFresh
  <2>1. Fresh(r, e) <=> Fresh(q, e)
    BY <1>4 DEF Fresh
  <2>2. CASE e = d
    BY <1>2, <2>1, <2>2 DEF StateOK
  <2>3. CASE e # d
    BY <1>1, <1>2, <2>1, <2>3 DEF Taken, StatesFresh
  <2> QED  BY <2>2, <2>3
<1>8. DocumentsFresh(r)
  BY <1>1, <1>4, SameDocuments
<1>9. CurrentsFresh(r)
  BY <1>1, <1>4, NotDocument
<1>10. Heard(r, S)
  BY <1>4, HeardSame DEF Seen
<1>11. Targets(r) /\ Timers(r) /\ NotAhead(r)
  BY <1>4 DEF Seen, Targets, Timers, IsStarted, SameTimers, NotAhead
<1>12. StepOK(r, S)
  BY <1>4, <1>5, <1>6, <1>7, <1>8, <1>9, <1>10, <1>11 DEF StepOK, StreamOK
<1> QED  BY <1>4, <1>12 DEF SameListens

LEMMA ResponsesOf ==
    ASSUME NEW m \in Messages, NEW d
    PROVE  /\ m \in ResponsesFor(d) <=> m.kind \in {"added", "removed"} /\ m.doc = d
           /\ m.kind \in {"added", "removed", "denied", "document", "current", "snapshot"}
           /\ m.kind # "snapshot" => m.doc \in Docs
           /\ m.kind = "document" => m.v \in Versions
<1>1. CASE m.kind \in {"added", "removed", "denied", "current"}
  BY <1>1 DEF Messages, ResponsesFor
<1>2. CASE m.kind = "document"
  BY <1>2 DEF Messages, ResponsesFor
<1>3. CASE m.kind = "snapshot"
  BY <1>3 DEF Messages, ResponsesFor
<1> QED  BY <1>1, <1>2, <1>3 DEF Messages

LEMMA AddedSeen ==
    ASSUME NEW q, NEW m \in Messages, NEW S, Seen(q, m, S), m.kind = "added"
    PROVE  StepOK(TargetAdded(q, m.doc), S) /\ SameListens(q, TargetAdded(q, m.doc))
<1> DEFINE d == m.doc
           t == [q.states[d] EXCEPT !.has = TRUE, !.outstanding = @ - 1]
           s == IF t.outstanding = 0 THEN [t EXCEPT !.changed = FALSE] ELSE t
           r == TargetAdded(q, d)
<1>1. d \in Docs /\ m \in ResponsesFor(d) /\ \A e \in Docs : e # d => m \notin ResponsesFor(e)
  BY ResponsesOf
<1>2. q.states[d] \in TargetStates
  BY <1>1, ClientFields DEF Seen
<1>3. /\ s \in TargetStates /\ s.outstanding = q.states[d].outstanding - 1
      /\ s.current = q.states[d].current /\ ~AboutToShow(s)
  <2>0. q.states[d].outstanding - 1 \in Int
    BY <1>2 DEF TargetStates
  <2>1. /\ t \in TargetStates /\ t.outstanding = q.states[d].outstanding - 1
        /\ t.current = q.states[d].current
    BY <1>2, <2>0 DEF TargetStates
  <2> HIDE DEF t
  <2> QED  BY <2>1 DEF TargetStates, AboutToShow
<1>4. r = [q EXCEPT !.states[d] = s]
  BY DEF TargetAdded
<1> HIDE DEF s, r
<1>5. d \in Denied => ~q.states[d].current
  BY DEF Seen, Taken, Unknown
<1>6. StateOK(q, m, d, s)
  BY <1>1, <1>3, <1>5 DEF StateOK
<1>7. m.kind # "document"
  OBVIOUS
<1> HIDE DEF d
<1>8. StepOK(r, S) /\ SameListens(q, r)
  BY <1>1, <1>4, <1>6, <1>7, StateChanged
<1> QED  BY <1>8 DEF r, d

LEMMA RemovedSeen ==
    ASSUME NEW q, NEW m \in Messages, NEW S, Seen(q, m, S), m.kind = "removed"
    PROVE  StepOK(TargetRemoved(q, m.doc), S) /\ SameListens(q, TargetRemoved(q, m.doc))
<1> DEFINE d == m.doc
           t == [q.states[d] EXCEPT !.has = TRUE, !.outstanding = @ - 1]
           s == IF t.outstanding = 0 THEN NoState ELSE t
           r == TargetRemoved(q, d)
<1>1. d \in Docs /\ m \in ResponsesFor(d) /\ \A e \in Docs : e # d => m \notin ResponsesFor(e)
  BY ResponsesOf
<1>2. q.states[d] \in TargetStates
  BY <1>1, ClientFields DEF Seen
<1>3. /\ s \in TargetStates /\ s.outstanding = q.states[d].outstanding - 1
      /\ (s.current => q.states[d].current) /\ ~AboutToShow(s)
  <2>0. q.states[d].outstanding - 1 \in Int
    BY <1>2 DEF TargetStates
  <2>1. /\ t \in TargetStates /\ t.outstanding = q.states[d].outstanding - 1
        /\ t.current = q.states[d].current
    BY <1>2, <2>0 DEF TargetStates
  <2>2. /\ NoState \in TargetStates /\ NoState.outstanding = 0 /\ ~NoState.current
        /\ ~NoState.has
    BY DEF NoState, TargetStates
  <2> HIDE DEF t
  <2> QED  BY <2>1, <2>2 DEF AboutToShow
<1>4. r = [q EXCEPT !.states[d] = s]
  BY DEF TargetRemoved
<1> HIDE DEF s, r
<1>5. d \in Denied => ~q.states[d].current
  BY DEF Seen, Taken, Unknown
<1>6. StateOK(q, m, d, s)
  BY <1>1, <1>3, <1>5 DEF StateOK
<1>7. m.kind # "document"
  OBVIOUS
<1> HIDE DEF d
<1>8. StepOK(r, S) /\ SameListens(q, r)
  BY <1>1, <1>4, <1>6, <1>7, StateChanged
<1> QED  BY <1>8 DEF r, d

LEMMA CurrentSeen ==
    ASSUME NEW q, NEW m \in Messages, NEW S, Seen(q, m, S), m.kind = "current"
    PROVE  StepOK(TargetCurrent(q, m.doc), S) /\ SameListens(q, TargetCurrent(q, m.doc))
<1> DEFINE d == m.doc
           t == q.states[d]
           s == IF IsActiveTarget(q, d)
                THEN [t EXCEPT !.has = TRUE, !.current = TRUE, !.changed = TRUE]
                ELSE [t EXCEPT !.has = TRUE]
           r == TargetCurrent(q, d)
<1>1. d \in Docs /\ \A e \in Docs : m \notin ResponsesFor(e)
  BY ResponsesOf
<1>2. q.states[d] \in TargetStates
  BY <1>1, ClientFields DEF Seen
<1>3. d \notin Denied
  BY DEF Seen, Taken, AboutDenied
<1>4. s \in TargetStates /\ s.outstanding = t.outstanding
  BY <1>2 DEF TargetStates
<1>5. s.outstanding = q.states[d].outstanding - 0
  BY <1>2, <1>4 DEF TargetStates
<1>6. ASSUME d \in q.targets, AboutToShow(s)
      PROVE  Fresh(q, d)
  <2>1. IsActiveTarget(q, d)
    BY <1>4, <1>6 DEF AboutToShow, IsActiveTarget, IsPending
  <2> QED  BY <2>1 DEF Seen, Taken
<1>7. r = [q EXCEPT !.states[d] = s]
  BY DEF TargetCurrent
<1> HIDE DEF s, r
<1>8. StateOK(q, m, d, s)
  BY <1>1, <1>3, <1>4, <1>5, <1>6 DEF StateOK
<1>9. m.kind # "document"
  OBVIOUS
<1> HIDE DEF d
<1>10. StepOK(r, S) /\ SameListens(q, r)
  BY <1>1, <1>7, <1>8, <1>9, StateChanged
<1> QED  BY <1>10 DEF r, d

(* The document of an active target is the one that was asked for.         *)
LEMMA ActiveSettled ==
    ASSUME NEW q, NEW m, NEW S, Seen(q, m, S), NoResponse(m),
           NEW d \in Docs \ Denied, IsActiveTarget(q, d)
    PROVE  Settled(q.net, d, 0)
<1> DEFINE up == q.net.up
           D == q.net.down
           u == HitsOf(up, RequestsFor(d))
           x == HitsOf(D, ResponsesFor(d))
<1>1. up \in Seq(WatchRequests) /\ D \in Seq(Messages) /\ Len(D) \in Nat
  <2>1. q.net \in Nets
    BY ClientFields DEF Seen
  <2> QED  BY <2>1, LenProperties DEF Nets
<1>2. /\ u \in Nat /\ (u = 0 <=> Hits(up, RequestsFor(d)) = {})
      /\ x \in Nat /\ (x = 0 <=> Hits(D, ResponsesFor(d)) = {})
  BY <1>1, HitsFinite
<1>3. q.states[d].outstanding = u + x /\ q.states[d].outstanding = 0
  <2>1. Counted(q)
    BY CountedAgain DEF Seen
  <2> QED  BY <2>1 DEF Counted, IsActiveTarget, IsPending
<1>4. Hits(up, RequestsFor(d)) = {} /\ Hits(D, ResponsesFor(d)) = {}
  <2> HIDE DEF u, x
  <2> DEFINE k == q.states[d].outstanding
  <2>1. u \in Nat /\ x \in Nat
    BY <1>2
  <2>2. k = u + x /\ k = 0
    BY <1>3
  <2> HIDE DEF k
  <2>3. u = 0 /\ x = 0
    BY ONLY <2>1, <2>2
  <2> QED  BY <1>2, <2>3
<1>5. ASSUME NEW j \in 1 .. Len(up)
      PROVE  up[j].doc # d
  <2>1. up[j] \in WatchRequests
    BY <1>1, ElementOfSeq
  <2>2. up[j] \notin RequestsFor(d)
    BY <1>4 DEF Hits
  <2> QED  BY <2>1, <2>2 DEF WatchRequests, RequestsFor
<1>6. \A j \in 1 .. Len(D) : D[j] \notin ResponsesFor(d)
  BY <1>4 DEF Hits
<1> QED  BY <1>5, <1>6 DEF Settled

LEMMA DocumentSeen ==
    ASSUME NEW q, NEW m \in Messages, NEW S, Seen(q, m, S), m.kind = "document"
    PROVE  /\ StepOK(HandleDocumentChange(q, m.doc, m.v), S)
           /\ SameListens(q, HandleDocumentChange(q, m.doc, m.v))
<1> DEFINE d == m.doc
           r == HandleDocumentChange(q, d, m.v)
           t == [q.states[d] EXCEPT !.has = TRUE, !.changed = TRUE]
           states == [q.states EXCEPT ![d] = t]
           updates == [q.updates EXCEPT ![d] = m.v]
<1>1. d \in Docs /\ m.v \in Versions /\ NoResponse(m) /\ d \notin Denied
  BY ResponsesOf DEF NoResponse, Seen, Taken, AboutDenied
<1>2. CASE ~IsActiveTarget(q, d)
  <2>1. r = q
    BY <1>2 DEF HandleDocumentChange
  <2>2. StepOK(q, S)
    BY <1>1, <1>2, MessageIgnored
  <2> QED  BY <2>1, <2>2 DEF SameListens
<1>3. CASE IsActiveTarget(q, d)
  <2>1. /\ q \in Clients /\ Taken(q, m) /\ q.states \in [Docs -> TargetStates]
        /\ q.updates \in [Docs -> Versions] /\ q.targets \subseteq Docs
    BY ClientFields DEF Seen
  <2>2. r = [q EXCEPT !.states = states, !.updates = updates]
    <3>1. r = [q EXCEPT !.states[d] = t, !.updates[d] = m.v]
      BY <1>3 DEF HandleDocumentChange
    <3> HIDE DEF r, t
    <3> QED  BY <3>1, <2>1 DEF Clients
  <2>3. t \in TargetStates /\ t.outstanding = q.states[d].outstanding
        /\ t.current = q.states[d].current
    <3>1. q.states[d] \in TargetStates
      BY <1>1, <2>1
    <3> QED  BY <3>1 DEF TargetStates
  <2> HIDE DEF t, r
  <2>4. /\ states \in [Docs -> TargetStates] /\ states[d] = t
        /\ \A e \in Docs : e # d => states[e] = q.states[e]
        /\ updates \in [Docs -> Versions] /\ updates[d] = m.v
        /\ \A e \in Docs : e # d => updates[e] = q.updates[e]
    BY <1>1, <2>1, <2>3
  <2> HIDE DEF states, updates
  <2>5. /\ r \in Clients /\ r.states = states /\ r.net = q.net /\ r.stream = q.stream
        /\ r.updates = updates /\ r.targets = q.targets /\ r.view = q.view
        /\ r.cache = q.cache /\ r.listeners = q.listeners /\ r.out = q.out
        /\ r.idle = q.idle /\ r.online = q.online /\ SameTimers(q, r)
    BY <2>1, <2>2, <2>4 DEF Clients, TargetStates, SameTimers
  <2>6. Counted(r)
    <3>1. \A e \in Docs \ Denied : r.states[e].outstanding = q.states[e].outstanding
      BY <2>3, <2>4, <2>5
    <3> QED  BY <1>1, <2>1, <2>5, <3>1, CountedAgain
  <2>7. Silent(r) /\ Unknown(r)
    <3>1. \A e \in Denied : ~states[e].current
      BY <1>1, <2>1, <2>4, DeniedAssumption DEF Taken, Unknown
    <3> QED  BY <2>1, <2>5, <3>1 DEF Taken, Unknown, Silent
  <2>8. Fresh(r, d)
    <3>1. Settled(q.net, d, 0)
      BY <1>1, <1>3, ActiveSettled
    <3>2. m.v >= q.view[d].since
      BY <1>3, <2>1, <3>1 DEF Taken, DocumentFresh, IsActiveTarget
    <3> QED  BY <2>4, <2>5, <3>2 DEF Fresh
  <2>9. \A e \in Docs : e # d => (Fresh(r, e) <=> Fresh(q, e))
    BY <2>4, <2>5 DEF Fresh
  <2>10. StatesFresh(r)
    <3> SUFFICES ASSUME NEW e \in q.targets \ Denied, AboutToShow(states[e]), e # d
                 PROVE  Fresh(q, e)
      BY <2>1, <2>5, <2>8, <2>9 DEF StatesFresh
    <3> QED  BY <2>1, <2>4 DEF Taken, StatesFresh
  <2>11. DocumentsFresh(r)
    BY <2>1, <2>5, SameDocuments
  <2>12. CurrentsFresh(r)
    <3> SUFFICES ASSUME NEW i \in 1 .. Len(q.net.down)
                 PROVE  CurrentFresh(r, q.net.down[i], i)
      BY <2>5 DEF CurrentsFresh
    <3>1. FollowsDocument(q, m, i)
      BY <2>1 DEF Taken
    <3>2. q.net.down \in Seq(Messages)
      BY <2>1, ClientFields DEF Nets
    <3>3. i \in Nat /\ i >= 1
      BY <3>2, LenProperties
    <3>4. CASE i = 1
      BY <2>8, <3>1, <3>4 DEF FollowsDocument, CurrentFresh
    <3>5. CASE i # 1
      <4>1. i > 1
        BY <3>3, <3>5
      <4> QED  BY <2>5, <3>1, <3>5, <4>1 DEF FollowsDocument, CurrentFresh
    <3> QED  BY <3>4, <3>5
  <2>13. Heard(r, S)
    BY <2>5, HeardSame DEF Seen
  <2>14. Targets(r) /\ Timers(r) /\ NotAhead(r)
    BY <2>5 DEF Seen, Targets, Timers, IsStarted, SameTimers, NotAhead
  <2>15. StepOK(r, S)
    BY <2>5, <2>6, <2>7, <2>10, <2>11, <2>12, <2>13, <2>14 DEF StepOK, StreamOK
  <2> QED  BY <2>5, <2>15 DEF r, SameListens
<1> QED  BY <1>2, <1>3

(* What was raised in a step, for gets in L: an error comes last.          *)
Raised(L, r, S) ==
    \A i \in 1 .. Len(r.out) :
        /\ r.out[i].get \in L
        /\ r.out[i].from = "server" => r.out[i].v >= S[r.out[i].get]
        /\ r.out[i].from = "denied" =>
              /\ r.out[i].get \notin Listening(r)
              /\ \A j \in 1 .. Len(r.out) : j > i => r.out[j].get # r.out[i].get
Stepped(L, r, S) ==
    /\ r \in Clients /\ ClientOK(r) /\ ListensSince(r, S) /\ Raised(L, r, S)
    /\ Listening(r) \subseteq L

LEMMA StepStepped ==
    ASSUME NEW r, NEW S, StepOK(r, S), NEW L, Listening(r) \subseteq L
    PROVE  Stepped(L, r, S)
<1>1. ClientOK(r) /\ ListensSince(r, S)
  BY DEF StepOK, Heard, ClientOK
<1>2. \A i \in 1 .. Len(r.out) : GoodEvent(r.out[i], r, S)
  BY DEF StepOK, Heard
<1>3. Raised(L, r, S)
  BY <1>2 DEF GoodEvent, Raised
<1> QED  BY <1>1, <1>3 DEF Stepped, StepOK

LEMMA SnapshotSeen ==
    ASSUME NEW q, NEW m \in Messages, NEW S, Seen(q, m, S), m.kind = "snapshot", AskedOK
    PROVE  StepOK(RaiseWatchSnapshot(q), S) /\ SameListens(q, RaiseWatchSnapshot(q))
<1> DEFINE changed == {d \in Docs : q.states[d].has /\ IsActiveTarget(q, d)
                                      /\ q.states[d].changed}
           cache == [d \in Docs |-> IF q.updates[d] > q.cache[d] THEN q.updates[d]
                                    ELSE q.cache[d]]
           view == [d \in Docs |->
                      IF ~q.view[d].open THEN q.view[d]
                      ELSE [q.view[d] EXCEPT
                              !.v = cache[d],
                              !.current = IF d \in changed THEN q.states[d].current
                                          ELSE @]]
           states == [d \in Docs |-> IF d \in changed
                        THEN [q.states[d] EXCEPT !.changed = FALSE] ELSE q.states[d]]
           b == [q EXCEPT !.cache = cache, !.view = view, !.updates = Zero,
                          !.states = states]
           told1 == ListenersOf(q, {d \in Docs : view[d] # q.view[d]})
           r == RaiseWatchSnapshot(q)
<1>1. r = OnViewSnapshots(b, told1)
  BY DEF RaiseWatchSnapshot, Zero
<1>2. /\ q \in Clients /\ q.states \in [Docs -> TargetStates]
      /\ q.view \in [Docs -> Views] /\ q.cache \in [Docs -> Versions]
      /\ q.updates \in [Docs -> Versions] /\ q.targets \subseteq Docs /\ Taken(q, m)
  BY ClientFields DEF Seen
<1>3. told1 \subseteq Listening(q)
  BY DEF ListenersOf, Listening
<1>4. \A d : d \in changed <=> /\ d \in Docs /\ q.states[d].has
                               /\ IsActiveTarget(q, d) /\ q.states[d].changed
  OBVIOUS
<1>5. ASSUME NEW d \in Docs
      PROVE  /\ cache[d] \in Versions /\ cache[d] >= q.cache[d]
             /\ cache[d] >= q.updates[d] /\ cache[d] \in Nat
             /\ q.cache[d] \in Nat /\ q.updates[d] \in Nat
  <2>1. /\ q.cache[d] \in Nat /\ q.updates[d] \in Nat
        /\ q.cache[d] \in Versions /\ q.updates[d] \in Versions
    BY <1>2, NumbersOfVersions
  <2> QED  BY <2>1
<1>6. cache \in [Docs -> Versions]
  BY <1>5
<1> HIDE DEF cache, changed, r, told1
<1>7. ASSUME NEW d \in Docs
      PROVE  /\ view[d] \in Views /\ view[d].open = q.view[d].open
             /\ view[d].since = q.view[d].since
             /\ q.view[d].open => view[d].v = cache[d]
             /\ q.view[d].open /\ d \in changed => view[d].current = q.states[d].current
             /\ q.view[d].open /\ d \notin changed => view[d].current = q.view[d].current
             /\ ~q.view[d].open => view[d] = q.view[d]
  <2>1. q.view[d] \in Views /\ q.states[d].current \in BOOLEAN /\ cache[d] \in Versions
    BY <1>2, <1>5 DEF TargetStates
  <2>2. CASE ~q.view[d].open
    BY <2>1, <2>2
  <2>3. CASE q.view[d].open
    <3> DEFINE w == q.view[d]
               x == IF d \in changed THEN q.states[d].current ELSE w.current
    <3>1. view[d] = [w EXCEPT !.v = cache[d], !.current = x]
      BY <2>3
    <3>2. x \in BOOLEAN
      BY <2>1 DEF Views
    <3>3. (d \in changed => x = q.states[d].current) /\ (d \notin changed => x = w.current)
      OBVIOUS
    <3> HIDE DEF x, view
    <3> QED  BY <2>1, <2>3, <3>1, <3>2, <3>3 DEF Views
  <2> QED  BY <2>2, <2>3
<1>8. ASSUME NEW d \in Docs
      PROVE  /\ states[d] \in TargetStates
             /\ states[d].outstanding = q.states[d].outstanding
             /\ states[d].current = q.states[d].current
             /\ d \in changed => ~states[d].changed
             /\ d \notin changed => states[d] = q.states[d]
  <2>1. q.states[d] \in TargetStates
    BY <1>2
  <2> QED  BY <2>1 DEF TargetStates
<1>9. view \in [Docs -> Views] /\ states \in [Docs -> TargetStates]
  BY <1>7, <1>8
<1> HIDE DEF view, states
<1>10. /\ b \in Clients /\ b.cache = cache /\ b.view = view /\ b.states = states
       /\ b.net = q.net /\ b.stream = q.stream /\ b.updates = Zero
       /\ b.targets = q.targets /\ b.listeners = q.listeners /\ b.out = q.out
       /\ b.idle = q.idle /\ b.online = q.online /\ SameTimers(q, b)
  BY <1>2, <1>6, <1>9, NothingTypes DEF Clients, Views, TargetStates, SameTimers
<1> HIDE DEF b
<1>11. ViewsFresh(b)
  <2> SUFFICES ASSUME NEW d \in Docs
               PROVE  /\ view[d].open => view[d].v = cache[d]
                      /\ view[d].current => view[d].v >= view[d].since
    BY <1>10 DEF ViewsFresh
  <2>1. /\ q.view[d].open => q.view[d].v = q.cache[d]
        /\ q.view[d].current => q.view[d].v >= q.view[d].since
    BY DEF Seen, Heard, ViewsFresh
  <2>2. q.view[d].since \in Nat /\ q.view[d].v \in Nat
    BY <1>2, ViewFields
  <2>3. CASE ~q.view[d].open
    BY <1>7, <2>1, <2>3
  <2>4. CASE q.view[d].open /\ d \notin changed
    <3>1. q.view[d].current => cache[d] >= q.view[d].since
      BY <1>5, <2>1, <2>2, <2>4
    <3> QED  BY <1>7, <2>4, <3>1
  <2>5. CASE q.view[d].open /\ d \in changed
    <3>1. ASSUME q.states[d].current
          PROVE  cache[d] >= q.view[d].since
      <4>1. AboutToShow(q.states[d]) /\ d \in q.targets
        BY <1>4, <2>5, <3>1 DEF AboutToShow, IsActiveTarget, IsPending
      <4>2. d \notin Denied
        BY <1>2, <3>1 DEF Taken, Unknown
      <4>3. Fresh(q, d)
        BY <1>2, <4>1, <4>2 DEF Taken, StatesFresh
      <4> QED  BY <1>5, <2>2, <4>3 DEF Fresh
    <3> QED  BY <1>7, <2>5, <3>1
  <2> QED  BY <2>3, <2>4, <2>5
<1>12. Heard(b, S)
  <2>1. Listening(b) = Listening(q)
    BY <1>10 DEF Listening, ListenersOf
  <2>2. Own(b) /\ ListensSince(b, S)
    BY <1>7, <1>10 DEF Seen, Heard, Own, ListensSince
  <2>3. \A i \in 1 .. Len(b.out) : GoodEvent(b.out[i], b, S)
    BY <1>10, <2>1 DEF Seen, Heard, GoodEvent
  <2> QED  BY <1>11, <2>2, <2>3 DEF Heard
<1>13. told1 \subseteq Listening(b)
  BY <1>3, <1>10 DEF Listening, ListenersOf
<1>14. /\ Lowered(b, r) /\ SameStream(b, r) /\ SameTimers(b, r)
       /\ r.online = b.online /\ Heard(r, S)
  BY <1>1, <1>10, <1>12, <1>13, SnapshotsFor
<1>15. Targets(b) /\ NotAhead(b) /\ SameListens(q, b)
  <2>1. {d \in Docs : view[d].open} = {d \in Docs : q.view[d].open}
    BY <1>7
  <2> QED  BY <1>7, <1>10, <2>1 DEF Seen, Targets, NotAhead, SameListens
<1>16. StreamOK(b)
  <2>1. Counted(b)
    <3>1. NoResponse(m)
      BY ResponsesOf DEF NoResponse
    <3>2. \A d \in Docs \ Denied : b.states[d].outstanding = q.states[d].outstanding
      BY <1>8, <1>10
    <3> QED  BY <1>2, <1>10, <3>1, <3>2, CountedAgain
  <2>2. Silent(b) /\ Unknown(b)
    <3>1. \A d \in Denied : ~states[d].current
      BY <1>2, <1>8, DeniedAssumption DEF Taken, Unknown
    <3> QED  BY <1>2, <1>10, <3>1 DEF Taken, Unknown, Silent
  <2>3. StatesFresh(b)
    <3> SUFFICES ASSUME NEW d \in q.targets \ Denied, AboutToShow(states[d])
                 PROVE  FALSE
      BY <1>10 DEF StatesFresh
    <3>1. d \in Docs /\ d \notin changed
      BY <1>2, <1>8 DEF AboutToShow
    <3>2. AboutToShow(q.states[d])
      BY <1>8, <3>1
    <3> QED  BY <1>4, <3>1, <3>2 DEF AboutToShow, IsActiveTarget, IsPending
  <2>4. DocumentsFresh(b)
    <3>1. \A d \in b.targets : b.view[d].since = q.view[d].since
      BY <1>2, <1>7, <1>10
    <3> QED  BY <1>2, <1>10, <3>1, SameDocuments
  <2>5. CurrentsFresh(b)
    BY <1>2, <1>10, NotDocument
  <2> QED  BY <2>1, <2>2, <2>3, <2>4, <2>5 DEF StreamOK
<1>17. Timers(r)
  BY <1>10, <1>14 DEF Seen, Timers, IsStarted, Lowered, SameStream, SameTimers
<1>18. Turned(b, r, S)
  BY <1>14 DEF Turned
<1>19. StepOK(r, S) /\ SameListens(b, r)
  BY <1>10, <1>15, <1>16, <1>17, <1>18, TurnedOK
<1>20. SameListens(q, r)
  BY <1>15, <1>19 DEF SameListens
<1> QED  BY <1>19, <1>20 DEF r

LEMMA DeniedSeen ==
    ASSUME NEW q, NEW m \in Messages, NEW S, Seen(q, m, S), m.kind = "denied",
           server \in [Docs -> Versions]
    PROVE  Stepped(Listening(q), ProcessTargetError(q, m.doc), S)
<1> DEFINE d == m.doc
           T == q.targets \ {d}
           states == [q.states EXCEPT ![d] = NoState]
           view == [q.view EXCEPT ![d] = NoView]
           L == [q.listeners EXCEPT ![d] = {}]
           order == InOrder(q.listeners[d])
           n == Cardinality(q.listeners[d])
           more == [i \in DOMAIN order |-> [get |-> order[i], from |-> "denied", v |-> 0]]
           r == ProcessTargetError(q, d)
<1>1. /\ q \in Clients /\ Taken(q, m) /\ q.states \in [Docs -> TargetStates]
      /\ q.view \in [Docs -> Views] /\ q.targets \subseteq Docs
      /\ q.listeners \in [Docs -> SUBSET Gets] /\ q.raised \subseteq Gets
      /\ q.out \in Seq(Notices)
  BY ClientFields DEF Seen
<1>2. d \in Docs /\ NoResponse(m) /\ d \in Denied
  BY <1>1, ResponsesOf DEF NoResponse, Taken, AboutDenied
<1>3. CASE d \notin q.targets
  <2>1. r = q
    BY <1>3 DEF ProcessTargetError
  <2>2. StepOK(q, S)
    BY <1>2, MessageIgnored
  <2> QED  BY <2>1, <2>2, StepStepped
<1>4. CASE d \in q.targets
  <2>1. r = [q EXCEPT !.targets = T, !.states = states, !.view = view, !.listeners = L,
                      !.raised = @ \ q.listeners[d], !.out = @ \o more]
    <3> DEFINE b == [q EXCEPT !.targets = @ \ {d}, !.states[d] = NoState, !.view[d] = NoView]
    <3>1. r = OnError(b, d)
      BY <1>4 DEF ProcessTargetError
    <3>2. b = [q EXCEPT !.targets = T, !.states = states, !.view = view]
      BY <1>1 DEF Clients
    <3> HIDE DEF r, b, T, states, view
    <3>3. b.listeners = q.listeners /\ b.raised = q.raised /\ b.out = q.out
      BY <1>1, <3>2 DEF Clients
    <3>4. r = [b EXCEPT !.listeners = L, !.raised = @ \ q.listeners[d], !.out = @ \o more]
      BY <3>1, <3>3 DEF OnError
    <3> HIDE DEF L, more
    <3> QED  BY <1>1, <3>2, <3>4 DEF Clients
  <2> HIDE DEF r
  <2>2. /\ n \in Nat /\ DOMAIN order = 1 .. n /\ \A i \in 1 .. n : order[i] \in q.listeners[d]
        /\ \A i, j \in 1 .. n : i < j => order[i] < order[j]
        /\ q.listeners[d] \subseteq Gets
    <3>1. q.listeners[d] \in SUBSET Gets
      BY <1>1, <1>2
    <3> QED  BY <3>1, InOrderProperties DEF IsOrder
  <2> HIDE DEF n, order
  <2>3. /\ \A i \in 1 .. n : /\ more[i] \in Notices /\ more[i].get = order[i]
                             /\ more[i].from = "denied"
        /\ more \in [1 .. n -> Notices]
    <3>1. \A i \in 1 .. n : order[i] \in Gets /\ 0 \in Versions
      BY <2>2, NumbersOfVersions
    <3> QED  BY <2>2, <3>1 DEF Notices
  <2> HIDE DEF more
  <2>4. more \in Seq(Notices) /\ Len(more) = n
    BY <2>2, <2>3, FunctionIsSeq
  <2>5. /\ q.out \o more \in Seq(Notices) /\ Len(q.out) \in Nat
        /\ Len(q.out \o more) = Len(q.out) + n
        /\ \A i \in 1 .. Len(q.out) + n :
              (q.out \o more)[i] = IF i <= Len(q.out) THEN q.out[i] ELSE more[i - Len(q.out)]
    BY <1>1, <2>4, LenProperties, ConcatProperties
  <2>6. /\ states \in [Docs -> TargetStates] /\ states[d] = NoState
        /\ \A e \in Docs : e # d => states[e] = q.states[e]
        /\ view \in [Docs -> Views] /\ view[d] = NoView
        /\ \A e \in Docs : e # d => view[e] = q.view[e]
        /\ L \in [Docs -> SUBSET Gets] /\ L[d] = {}
        /\ \A e \in Docs : e # d => L[e] = q.listeners[e]
        /\ T \subseteq Docs
    <3>1. NoState \in TargetStates /\ NoView \in Views
      BY NothingTypes DEF NoState, TargetStates
    <3> HIDE DEF d
    <3> QED  BY <1>1, <1>2, <3>1
  <2>7. /\ \A e : e \in T <=> e \in q.targets /\ e # d
        /\ NoState.current = FALSE /\ NoView.open = FALSE /\ NoView.current = FALSE
        /\ NoView.since = 0
    BY DEF NoState, NoView
  <2> HIDE DEF states, view, L, T
  <2>8. /\ r \in Clients /\ r.states = states /\ r.net = q.net /\ r.stream = q.stream
        /\ r.updates = q.updates /\ r.targets = T /\ r.view = view
        /\ r.cache = q.cache /\ r.listeners = L /\ r.out = q.out \o more
        /\ r.idle = q.idle /\ r.online = q.online /\ SameTimers(q, r)
    BY <1>1, <2>1, <2>5, <2>6 DEF Clients, Views, TargetStates, SameTimers
  <2>9. StreamOK(r)
    <3>1. \A e \in T : r.view[e].since = q.view[e].since /\ (Fresh(r, e) <=> Fresh(q, e))
      BY <1>1, <2>6, <2>7, <2>8 DEF Fresh
    <3>2. Counted(r)
      <4>1. \A e \in Docs \ Denied : r.states[e].outstanding = q.states[e].outstanding
        BY <1>2, <2>6, <2>8
      <4> QED  BY <1>1, <1>2, <2>8, <4>1, CountedAgain
    <3>3. Silent(r) /\ Unknown(r)
      <4>1. \A e \in Denied : ~states[e].current
        BY <1>1, <2>6, <2>7, DeniedAssumption DEF Taken, Unknown
      <4> QED  BY <1>1, <2>8, <4>1 DEF Taken, Unknown, Silent
    <3>4. StatesFresh(r)
      <4> SUFFICES ASSUME NEW e \in T \ Denied, AboutToShow(states[e])
                   PROVE  Fresh(q, e)
        BY <2>8, <3>1 DEF StatesFresh
      <4> QED  BY <1>1, <2>6, <2>7 DEF Taken, StatesFresh
    <3>5. DocumentsFresh(r)
      <4>1. r.net = q.net /\ r.targets \subseteq q.targets
        BY <2>7, <2>8
      <4>2. \A e \in r.targets : r.view[e].since = q.view[e].since
        BY <2>8, <3>1
      <4> QED  BY <1>1, <4>1, <4>2, SameDocuments
    <3>6. CurrentsFresh(r)
      BY <1>1, <2>8, NotDocument
    <3> QED  BY <3>2, <3>3, <3>4, <3>5, <3>6 DEF StreamOK
  <2>10. Targets(r) /\ NotAhead(r)
    <3>1. /\ q.targets = {e \in Docs : q.view[e].open}
          /\ q.targets = {e \in Docs : q.listeners[e] # {}}
          /\ \A e \in Docs : q.view[e].since <= server[e]
      BY DEF Seen, Targets, NotAhead
    <3>2. \A e \in Docs : (e \in T <=> view[e].open) /\ (e \in T <=> L[e] # {})
      BY <2>6, <2>7, <3>1
    <3>3. T \subseteq Docs
      BY <2>6
    <3>4. Targets(r)
      BY <2>8, <3>2, <3>3 DEF Targets
    <3>5. view[d].since <= server[d]
      <4>1. server[d] \in Nat
        BY <1>2, NumbersOfVersions
      <4>2. view[d].since = 0
        BY <2>6, <2>7
      <4> QED  BY <4>1, <4>2
    <3>6. NotAhead(r)
      BY <2>6, <2>8, <3>1, <3>5 DEF NotAhead
    <3> QED  BY <3>4, <3>6
  <2>11. Timers(r)
    BY <2>7, <2>8 DEF Seen, Timers, IsStarted, SameTimers
  <2>12. ViewsFresh(r) /\ Own(r) /\ ListensSince(r, S)
    <3>1. ViewsFresh(q) /\ Own(q) /\ ListensSince(q, S)
      BY DEF Seen, Heard
    <3>2. ViewsFresh(r)
      BY <2>6, <2>7, <2>8, <3>1 DEF ViewsFresh
    <3> QED  BY <2>6, <2>8, <3>1, <3>2 DEF Own, ListensSince
  <2>13. /\ Listening(r) \subseteq Listening(q)
         /\ \A g \in q.listeners[d] : g \in Listening(q) /\ g \notin Listening(r)
    <3>1. \A g : g \in Listening(r) <=> \E e \in Docs : g \in L[e]
      BY <2>8, Listened
    <3>2. \A g : g \in Listening(q) <=> \E e \in Docs : g \in q.listeners[e]
      BY <1>1, Listened
    <3>3. ASSUME NEW g \in q.listeners[d], NEW e \in Docs, g \in L[e]
          PROVE  FALSE
      <4>1. e # d /\ g \in q.listeners[e]
        BY <2>6, <3>3
      <4>2. asked[g] = d /\ asked[g] = e
        BY <1>2, <3>3, <4>1 DEF Seen, Heard, Own
      <4> QED  BY <4>1, <4>2
    <3>4. Listening(r) \subseteq Listening(q)
      BY <2>6, <3>1, <3>2
    <3> QED  BY <1>2, <3>1, <3>2, <3>3, <3>4
  <2>14. Raised(Listening(q), r, S)
    <3> SUFFICES ASSUME NEW i \in 1 .. Len(q.out) + n
                 PROVE  LET e == (q.out \o more)[i]
                        IN  /\ e.get \in Listening(q)
                            /\ e.from = "server" => e.v >= S[e.get]
                            /\ e.from = "denied" =>
                                  /\ e.get \notin Listening(r)
                                  /\ \A j \in 1 .. Len(q.out) + n :
                                        j > i => (q.out \o more)[j].get # e.get
      BY <2>5, <2>8 DEF Raised
    <3>1. CASE i <= Len(q.out)
      <4>1. i \in 1 .. Len(q.out) /\ (q.out \o more)[i] = q.out[i]
        BY <2>2, <2>5, <3>1
      <4>2. GoodEvent(q.out[i], q, S)
        BY <4>1 DEF Seen, Heard
      <4> QED  BY <4>1, <4>2 DEF GoodEvent
    <3>2. CASE ~(i <= Len(q.out))
      <4>1. i - Len(q.out) \in 1 .. n /\ (q.out \o more)[i] = more[i - Len(q.out)]
        BY <2>2, <2>5, <3>2
      <4>2. /\ (q.out \o more)[i].get = order[i - Len(q.out)]
            /\ (q.out \o more)[i].from = "denied"
            /\ order[i - Len(q.out)] \in q.listeners[d]
        BY <2>2, <2>3, <4>1
      <4>3. ASSUME NEW j \in 1 .. Len(q.out) + n, j > i
            PROVE  (q.out \o more)[j].get # order[i - Len(q.out)]
        <5>1. /\ j - Len(q.out) \in 1 .. n /\ ~(j <= Len(q.out))
              /\ i - Len(q.out) < j - Len(q.out)
          BY <2>2, <2>5, <3>2, <4>3
        <5>2. (q.out \o more)[j].get = order[j - Len(q.out)]
          BY <2>3, <2>5, <5>1
        <5>3. order[i - Len(q.out)] < order[j - Len(q.out)]
          BY <2>2, <4>1, <5>1
        <5>4. order[i - Len(q.out)] \in Nat /\ order[j - Len(q.out)] \in Nat
          <6>1. order[i - Len(q.out)] \in Gets /\ order[j - Len(q.out)] \in Gets
            BY <2>2, <4>1, <5>1
          <6> QED  BY <6>1, BoundsAssumption DEF Gets
        <5> QED  BY <5>2, <5>3, <5>4
      <4> QED  BY <2>13, <4>2, <4>3
    <3> QED  BY <3>1, <3>2
  <2>15. ClientOK(r)
    BY <2>9, <2>10, <2>11, <2>12 DEF ClientOK
  <2> QED  BY <2>8, <2>12, <2>13, <2>14, <2>15 DEF Stepped, r
<1> QED  BY <1>3, <1>4

(* A message of the stream.                                                *)
LEMMA MessageRead ==
    ASSUME NEW c \in Clients, ClientOK(c), c.out = <<>>, NEW S, ListensSince(c, S),
           AskedOK, server \in [Docs -> Versions], c.stream = "Open", c.net.down # <<>>
    PROVE  Stepped(Listening(c),
                   OnWatchStreamChange([c EXCEPT !.net.down = Tail(@)],
                                       Head(c.net.down)), S)
<1> DEFINE b == [c EXCEPT !.net.down = Tail(@)]
           m == Head(c.net.down)
           q == UpdateState(b, "Online")
           r == OnWatchStreamChange(b, m)
<1>1. Seen(q, m, S) /\ SameListens(c, q)
  BY MessageSeen
<1>2. m \in Messages
  <2>1. c.net.down \in Seq(Messages)
    BY ClientFields DEF Nets
  <2> QED  BY <2>1, TailOfMessages
<1>3. r = CASE m.kind = "added"    -> TargetAdded(q, m.doc)
            [] m.kind = "removed"  -> TargetRemoved(q, m.doc)
            [] m.kind = "denied"   -> ProcessTargetError(q, m.doc)
            [] m.kind = "document" -> HandleDocumentChange(q, m.doc, m.v)
            [] m.kind = "current"  -> TargetCurrent(q, m.doc)
            [] m.kind = "snapshot" -> RaiseWatchSnapshot(q)
  BY DEF OnWatchStreamChange
<1> HIDE DEF b, m, q, r
<1>4. Listening(q) = Listening(c)
  BY <1>1 DEF SameListens, Listening, ListenersOf
<1>5. ASSUME StepOK(r, S), SameListens(q, r)
      PROVE  Stepped(Listening(c), r, S)
  <2>1. Listening(r) = Listening(c)
    BY <1>4, <1>5 DEF SameListens, Listening, ListenersOf
  <2> QED  BY <1>5, <2>1, StepStepped
<1>6. CASE m.kind = "added"
  <2>1. r = TargetAdded(q, m.doc)
    BY <1>3, <1>6
  <2> QED  BY <1>1, <1>2, <1>5, <1>6, <2>1, AddedSeen DEF b, m, r
<1>7. CASE m.kind = "removed"
  <2>1. r = TargetRemoved(q, m.doc)
    BY <1>3, <1>7
  <2> QED  BY <1>1, <1>2, <1>5, <1>7, <2>1, RemovedSeen DEF b, m, r
<1>8. CASE m.kind = "denied"
  <2>1. r = ProcessTargetError(q, m.doc)
    BY <1>3, <1>8
  <2> QED  BY <1>1, <1>2, <1>4, <1>8, <2>1, DeniedSeen DEF b, m, r
<1>9. CASE m.kind = "document"
  <2>1. r = HandleDocumentChange(q, m.doc, m.v)
    BY <1>3, <1>9
  <2> QED  BY <1>1, <1>2, <1>5, <1>9, <2>1, DocumentSeen DEF b, m, r
<1>10. CASE m.kind = "current"
  <2>1. r = TargetCurrent(q, m.doc)
    BY <1>3, <1>10
  <2> QED  BY <1>1, <1>2, <1>5, <1>10, <2>1, CurrentSeen DEF b, m, r
<1>11. CASE m.kind = "snapshot"
  <2>1. r = RaiseWatchSnapshot(q)
    BY <1>3, <1>11
  <2> QED  BY <1>1, <1>2, <1>5, <1>11, <2>1, SnapshotSeen DEF b, m, r
<1>12. m.kind \in {"added", "removed", "denied", "document", "current", "snapshot"}
  BY <1>2, ResponsesOf
<1> QED  BY <1>6, <1>7, <1>8, <1>9, <1>10, <1>11, <1>12

-----------------------------------------------------------------------------
(* Timers, and the stream as it comes and goes.                            *)

(* The client between two steps.                                           *)
Resting(c, S) == c \in Clients /\ ClientOK(c) /\ c.out = <<>> /\ ListensSince(c, S)

LEMMA RestingHeard ==
    ASSUME NEW c, NEW S, Resting(c, S)
    PROVE  /\ c \in Clients /\ Heard(c, S) /\ Targets(c) /\ Timers(c) /\ StreamOK(c)
           /\ Silent(c) /\ NotAhead(c)
  BY HeardClient DEF Resting, ClientOK, StreamOK

LEMMA SameListened ==
    ASSUME NEW c, NEW r, NEW S, StepOK(r, S), SameListens(c, r)
    PROVE  Stepped(Listening(c), r, S)
<1>1. Listening(r) = Listening(c)
  BY DEF SameListens, Listening, ListenersOf
<1> QED  BY <1>1, StepStepped

LEMMA OnlineTimedOut ==
    ASSUME NEW c, NEW S, Resting(c, S), AskedOK
    PROVE  Stepped(Listening(c),
                   SetAndBroadcast([c EXCEPT !.timer = FALSE], "Offline"), S)
<1> DEFINE b == [c EXCEPT !.timer = FALSE]
           r == SetAndBroadcast(b, "Offline")
<1>1. /\ c \in Clients /\ Heard(c, S) /\ Targets(c) /\ Timers(c) /\ StreamOK(c)
      /\ NotAhead(c)
  BY RestingHeard
<1>2. b.timer = FALSE
  BY <1>1 DEF Clients
<1>3. Turned(c, b, S) /\ b \in Clients /\ Heard(b, S)
  BY <1>1, SetTimers DEF Turned
<1> HIDE DEF b
<1>4. Turned(b, r, S) /\ r \in Clients /\ r.online = "Offline" /\ SameTimers(b, r)
  BY <1>3, Broadcast DEF OnlineStates
<1> HIDE DEF r
<1>5. Turned(c, r, S)
  BY <1>3, <1>4, TurnedTrans
<1>6. Timers(r)
  BY <1>1, <1>2, <1>4, <1>5 DEF Timers, Turned, Lowered, SameStream, SameTimers
<1>7. StepOK(r, S) /\ SameListens(c, r)
  BY <1>1, <1>5, <1>6, TurnedOK
<1>8. Stepped(Listening(c), r, S)
  BY <1>7, SameListened
<1> QED  BY <1>8 DEF r, b

LEMMA BackedOff ==
    ASSUME NEW c, NEW S, Resting(c, S), c.stream = "Backoff"
    PROVE  Stepped(Listening(c), [c EXCEPT !.stream = "Starting"], S)
<1> DEFINE r == [c EXCEPT !.stream = "Starting"]
<1>1. /\ c \in Clients /\ Heard(c, S) /\ Targets(c) /\ Timers(c) /\ Silent(c)
      /\ NotAhead(c)
  BY RestingHeard
<1>2. /\ r \in Clients /\ r.stream = "Starting" /\ r.states = c.states /\ r.net = c.net
      /\ r.updates = c.updates /\ r.targets = c.targets /\ r.view = c.view
      /\ r.cache = c.cache /\ r.listeners = c.listeners /\ r.out = c.out
      /\ r.idle = c.idle /\ r.online = c.online /\ SameTimers(c, r)
  BY <1>1 DEF Clients, SameTimers
<1> HIDE DEF r
<1>3. StreamOK(r)
  BY <1>1, <1>2, NothingOnStream DEF Silent
<1>4. Timers(r) /\ Targets(r) /\ NotAhead(r)
  BY <1>1, <1>2 DEF Timers, IsStarted, SameTimers, Targets, NotAhead
<1>5. Heard(r, S)
  BY <1>1, <1>2, HeardSame
<1>6. StepOK(r, S) /\ SameListens(c, r)
  BY <1>2, <1>3, <1>4, <1>5 DEF StepOK, SameListens
<1>7. Stepped(Listening(c), r, S)
  BY <1>6, SameListened
<1> QED  BY <1>7 DEF r

LEMMA WhenDisconnected ==
    ASSUME NEW c, NEW S, Resting(c, S), NEW r \in Clients, Disconnected(c, r, S)
    PROVE  Stepped(Listening(c), r, S)
<1>1. c \in Clients /\ Targets(c) /\ NotAhead(c)
  BY RestingHeard
<1>2. StepOK(r, S) /\ SameListens(c, r)
  BY <1>1, DisconnectedOK
<1> QED  BY <1>2, SameListened

LEMMA Idled ==
    ASSUME NEW c, NEW S, Resting(c, S), AskedOK
    PROVE  Stepped(Listening(c), StreamStops(c), S)
<1>1. c \in Clients /\ Heard(c, S) /\ Timers(c) /\ Silent(c)
  BY RestingHeard
<1>2. StreamStops(c) \in Clients /\ Disconnected(c, StreamStops(c), S)
  BY <1>1, WhenStopped
<1> QED  BY <1>2, WhenDisconnected

LEMMA Broken ==
    ASSUME NEW c, NEW S, Resting(c, S), AskedOK
    PROVE  Stepped(Listening(c), StreamFails(c), S)
<1>1. c \in Clients /\ Heard(c, S) /\ Timers(c)
  BY RestingHeard
<1>2. StreamFails(c) \in Clients /\ Disconnected(c, StreamFails(c), S)
  BY <1>1, WhenFailed
<1> QED  BY <1>2, WhenDisconnected

LEMMA Restarted ==
    ASSUME NEW c, NEW S, Resting(c, S), AskedOK, NEW b, b = c \/ b = StreamFails(c)
    PROVE  Stepped(Listening(c), RestartNetwork(b), S)
<1> DEFINE r == RestartNetwork(b)
<1>1. c \in Clients /\ Heard(c, S) /\ Timers(c) /\ Silent(c)
  BY RestingHeard
<1>2. b \in Clients /\ Lowered(c, b) /\ Heard(b, S) /\ Timers(b) /\ Silent(b)
  <2>1. CASE b = c
    BY <1>1, <2>1, LoweredSelf
  <2>2. CASE b = StreamFails(c)
    <3>1. b \in Clients /\ Disconnected(c, b, S)
      BY <1>1, <2>2, WhenFailed
    <3> QED  BY <3>1 DEF Disconnected, Cleared, Silent
  <2> QED  BY <2>1, <2>2
<1>3. r \in Clients /\ Disconnected(b, r, S)
  BY <1>2, WhenRestarted
<1>4. Disconnected(c, r, S)
  BY <1>2, <1>3, DisconnectedTrans
<1> QED  BY <1>3, <1>4, WhenDisconnected

LEMMA Opened ==
    ASSUME NEW c, NEW S, Resting(c, S), c.stream = "Starting"
    PROVE  Stepped(Listening(c),
                   SendWatchRequest([c EXCEPT !.stream = "Open"], c.targets), S)
<1> DEFINE b == [c EXCEPT !.stream = "Open"]
           r == SendWatchRequest(b, c.targets)
<1>1. /\ c \in Clients /\ Heard(c, S) /\ Targets(c) /\ Timers(c) /\ Silent(c)
      /\ NotAhead(c) /\ c.targets \subseteq Docs
  BY RestingHeard, ClientFields
<1>2. /\ b \in Clients /\ b.stream = "Open" /\ b.states = c.states /\ b.net = c.net
      /\ b.updates = c.updates /\ b.targets = c.targets /\ b.view = c.view
      /\ b.cache = c.cache /\ b.listeners = c.listeners /\ b.out = c.out
      /\ b.idle = c.idle /\ b.online = c.online /\ SameTimers(c, b)
  BY <1>1 DEF Clients, SameTimers
<1> HIDE DEF b
<1>3. StreamOK(b)
  BY <1>1, <1>2, NothingOnStream DEF Silent
<1>4. r = Request(b, "watch", c.targets)
  BY DEF SendWatchRequest
<1> HIDE DEF r
<1>5. RequestOK(b, c.targets, r)
  BY <1>1, <1>2, <1>3, <1>4, RequestedOfTargets
<1>6. Heard(r, S)
  <2>1. Heard(b, S)
    BY <1>1, <1>2, HeardSame
  <2> QED  BY <1>5, <2>1, HeardSame DEF RequestOK, Lowered
<1>7. Targets(b) /\ NotAhead(b)
  BY <1>1, <1>2 DEF Targets, NotAhead
<1>8. Targets(r) /\ NotAhead(r) /\ SameListens(b, r)
  BY <1>2, <1>5, <1>7, LoweredKeeps DEF RequestOK
<1>9. Timers(r)
  BY <1>1, <1>2, <1>5 DEF Timers, IsStarted, SameTimers, RequestOK
<1>10. StepOK(r, S) /\ SameListens(c, r)
  BY <1>2, <1>5, <1>6, <1>8, <1>9 DEF StepOK, RequestOK, SameListens
<1>11. Stepped(Listening(c), r, S)
  BY <1>10, SameListened
<1> QED  BY <1>11 DEF r, b

-----------------------------------------------------------------------------
(* The backend.                                                            *)

(* It answers requests and adds messages to those on their way.            *)
NewMessage(c, n, i) ==
    /\ AboutDenied(n.down[i])
    /\ n.down[i].kind = "document" => n.down[i].v >= c.view[n.down[i].doc].since
    /\ n.down[i].kind = "current" => /\ i > 1 /\ n.down[i - 1].kind = "document"
                                     /\ n.down[i - 1].doc = n.down[i].doc
Responded(c, n) ==
    /\ n \in Nets /\ c.stream = "Open" /\ Len(c.net.down) <= Len(n.down)
    /\ \A d \in Docs \ Denied :
          HitsOf(n.up, RequestsFor(d)) + HitsOf(n.down, ResponsesFor(d)) =
              HitsOf(c.net.up, RequestsFor(d)) + HitsOf(c.net.down, ResponsesFor(d))
    /\ \A d \in Denied : n.sent[d] = "none"
    /\ \A i \in 1 .. Len(c.net.down) :
          /\ n.down[i] = c.net.down[i]
          /\ \A d \in Docs \ Denied : Settled(n, d, i) => Settled(c.net, d, i)
    /\ \A i \in 1 .. Len(n.down) : i > Len(c.net.down) => NewMessage(c, n, i)

LEMMA WhenResponded ==
    ASSUME NEW c, NEW S, Resting(c, S), NEW n, Responded(c, n),
           NEW r, r = [c EXCEPT !.net = n]
    PROVE  Resting(r, S) /\ Listening(r) = Listening(c)
<1>1. /\ c \in Clients /\ Targets(c) /\ Timers(c) /\ StreamOK(c) /\ NotAhead(c)
      /\ ViewsFresh(c) /\ Own(c) /\ ListensSince(c, S) /\ c.out = <<>>
      /\ c.net \in Nets
  BY ClientFields DEF Resting, ClientOK
<1>2. /\ r \in Clients /\ r.net = n /\ r.stream = c.stream /\ r.states = c.states
      /\ r.updates = c.updates /\ r.targets = c.targets /\ r.view = c.view
      /\ r.cache = c.cache /\ r.listeners = c.listeners /\ r.out = c.out
      /\ r.idle = c.idle /\ r.online = c.online /\ SameTimers(c, r)
  BY <1>1 DEF Clients, Nets, WatchRequests, Responded, SameTimers
<1>3. Targets(r) /\ Timers(r) /\ NotAhead(r) /\ ViewsFresh(r) /\ Own(r) /\ ListensSince(r, S)
  BY <1>1, <1>2 DEF Targets, Timers, IsStarted, SameTimers, NotAhead, ViewsFresh, Own,
                    ListensSince
<1>4. Counted(r)
  BY <1>1, <1>2 DEF StreamOK, Counted, Responded
<1>5. Silent(r) /\ StatesFresh(r)
  BY <1>1, <1>2 DEF StreamOK, Silent, StatesFresh, Fresh, Responded
<1>6. /\ Len(c.net.down) \in Nat
      /\ \A i \in 1 .. Len(n.down) : i <= Len(c.net.down) => i \in 1 .. Len(c.net.down)
      /\ \A i \in 1 .. Len(n.down) : ~(i <= Len(c.net.down)) => i > Len(c.net.down)
  <2>1. c.net.down \in Seq(Messages) /\ n.down \in Seq(Messages)
    BY <1>1 DEF Nets, Responded
  <2>2. Len(c.net.down) \in Nat /\ Len(n.down) \in Nat
    BY <2>1, LenProperties
  <2> QED  BY <2>2
<1>7. Unknown(r)
  <2> SUFFICES ASSUME NEW i \in 1 .. Len(n.down)
               PROVE  AboutDenied(n.down[i])
    BY <1>1, <1>2 DEF StreamOK, Unknown, Responded
  <2>1. CASE i <= Len(c.net.down)
    BY <1>1, <1>6, <2>1 DEF StreamOK, Unknown, Responded
  <2>2. CASE ~(i <= Len(c.net.down))
    BY <1>6, <2>2 DEF Responded, NewMessage
  <2> QED  BY <2>1, <2>2
<1>8. DocumentsFresh(r)
  <2> SUFFICES ASSUME NEW i \in 1 .. Len(n.down), n.down[i].kind = "document",
                      n.down[i].doc \in c.targets, Settled(n, n.down[i].doc, i)
               PROVE  n.down[i].v >= c.view[n.down[i].doc].since
    BY <1>2 DEF DocumentsFresh, DocumentFresh
  <2>1. CASE i <= Len(c.net.down)
    <3>1. i \in 1 .. Len(c.net.down) /\ n.down[i] = c.net.down[i]
      BY <1>6, <2>1 DEF Responded
    <3>2. n.down[i].doc \in Docs \ Denied
      BY <1>2, <1>7 DEF Unknown, AboutDenied
    <3>3. Settled(c.net, n.down[i].doc, i)
      BY <3>1, <3>2 DEF Responded
    <3>4. DocumentFresh(c, c.net.down[i], i)
      BY <1>1, <3>1 DEF StreamOK, DocumentsFresh
    <3> QED  BY <3>1, <3>3, <3>4 DEF DocumentFresh
  <2>2. CASE ~(i <= Len(c.net.down))
    BY <1>6, <2>2 DEF Responded, NewMessage
  <2> QED  BY <2>1, <2>2
<1>9. CurrentsFresh(r)
  <2> SUFFICES ASSUME NEW i \in 1 .. Len(n.down)
               PROVE  CurrentFresh(r, n.down[i], i)
    BY <1>2 DEF CurrentsFresh
  <2>1. CASE i <= Len(c.net.down)
    <3>1. i \in 1 .. Len(c.net.down) /\ n.down[i] = c.net.down[i]
      BY <1>6, <2>1 DEF Responded
    <3>2. CurrentFresh(c, c.net.down[i], i)
      BY <1>1, <3>1 DEF StreamOK, CurrentsFresh
    <3>3. i > 1 => n.down[i - 1] = c.net.down[i - 1]
      <4>1. i > 1 => i - 1 \in 1 .. Len(c.net.down)
        BY <1>6, <3>1
      <4> QED  BY <4>1 DEF Responded
    <3>4. \A d : (IsActiveTarget(r, d) <=> IsActiveTarget(c, d)) /\ (Fresh(r, d) <=> Fresh(c, d))
      BY <1>2 DEF IsActiveTarget, IsPending, Fresh
    <3> QED  BY <1>2, <3>1, <3>2, <3>3, <3>4 DEF CurrentFresh
  <2>2. CASE ~(i <= Len(c.net.down))
    BY <1>2, <1>6, <2>2 DEF Responded, NewMessage, CurrentFresh
  <2> QED  BY <2>1, <2>2
<1>10. Listening(r) = Listening(c)
  BY <1>2 DEF Listening, ListenersOf
<1> QED  BY <1>1, <1>2, <1>3, <1>4, <1>5, <1>7, <1>8, <1>9, <1>10
         DEF Resting, ClientOK, StreamOK

LEMMA OpenStream ==
    ASSUME NEW c, NEW S, Resting(c, S), c.net # NoNet
    PROVE  c.stream = "Open"
  BY DEF Resting, ClientOK, StreamOK, Silent

(* What is appended to what is on its way.                                 *)
LEMMA Appended ==
    ASSUME NEW D \in Seq(Messages), NEW m \in Messages
    PROVE  /\ Append(D, m) \in Seq(Messages) /\ Len(D) \in Nat
           /\ Len(Append(D, m)) = Len(D) + 1 /\ Append(D, m)[Len(D) + 1] = m
           /\ \A i \in 1 .. Len(D) : Append(D, m)[i] = D[i]
           /\ \A i \in 1 .. Len(D) + 1 : i > Len(D) => i = Len(D) + 1
<1>1. Len(D) \in Nat
  BY LenProperties
<1> QED  BY <1>1, AppendProperties

OnlyMore(k, n) ==
    /\ n.up = k.up /\ Len(k.down) \in Nat /\ Len(n.down) \in Nat
    /\ Len(k.down) <= Len(n.down) /\ \A j \in 1 .. Len(k.down) : n.down[j] = k.down[j]

LEMMA StillSettled ==
    ASSUME NEW n, NEW k, OnlyMore(k, n)
    PROVE  \A d, i : Settled(n, d, i) => Settled(k, d, i)
<1>1. \A j \in 1 .. Len(k.down) : j \in 1 .. Len(n.down)
  BY DEF OnlyMore
<1> QED  BY <1>1 DEF Settled, OnlyMore

LEMMA SaysNothing ==
    ASSUME NEW D \in Seq(Messages), NEW m \in Messages, NoResponse(m)
    PROVE  \A d \in Docs :
               HitsOf(Append(D, m), ResponsesFor(d)) = HitsOf(D, ResponsesFor(d))
<1> SUFFICES ASSUME NEW d \in Docs
             PROVE  HitsOf(Append(D, m), ResponsesFor(d)) = HitsOf(D, ResponsesFor(d))
  OBVIOUS
<1> DEFINE H == ResponsesFor(d)
<1>1. m \notin H
  BY DEF NoResponse
<1> HIDE DEF H
<1>2. HitsOf(Append(D, m), H) = HitsOf(D, H) + (IF m \in H THEN 1 ELSE 0)
  BY HitsOfAppend
<1>3. HitsOf(D, H) \in Nat
  BY HitsFinite
<1>4. HitsOf(Append(D, m), H) = HitsOf(D, H)
  BY <1>1, <1>2, <1>3
<1> QED  BY <1>4 DEF H

LEMMA SnapshotSent ==
    ASSUME NEW c, NEW S, Resting(c, S), c.net.news,
           NEW n, n = [c.net EXCEPT !.down = Append(@, [kind |-> "snapshot"]),
                                    !.news = FALSE]
    PROVE  Responded(c, n)
<1> DEFINE D == c.net.down
           m == [kind |-> "snapshot"]
<1>1. c \in Clients /\ c.net \in Nets /\ D \in Seq(Messages) /\ StreamOK(c)
      /\ c.net.up \in Seq(WatchRequests)
  BY ClientFields DEF Resting, ClientOK, Nets
<1>2. c.stream = "Open"
  <2>1. c.net # NoNet
    BY DEF NoNet
  <2> QED  BY <2>1, OpenStream
<1>3. m \in Messages /\ m.kind = "snapshot"
  BY DEF Messages
<1>4. \A d : m \notin ResponsesFor(d)
  BY DEF ResponsesFor
<1> HIDE DEF m
<1>5. /\ Append(D, m) \in Seq(Messages) /\ Len(D) \in Nat
      /\ Len(Append(D, m)) = Len(D) + 1 /\ Append(D, m)[Len(D) + 1] = m
      /\ \A i \in 1 .. Len(D) : Append(D, m)[i] = D[i]
      /\ \A i \in 1 .. Len(D) + 1 : i > Len(D) => i = Len(D) + 1
  BY <1>1, <1>3, Appended
<1>6. n = [c.net EXCEPT !.down = Append(D, m), !.news = FALSE]
  BY <1>1 DEF Nets, m
<1>7. /\ n \in Nets /\ n.up = c.net.up /\ n.down = Append(D, m) /\ n.sent = c.net.sent
  BY <1>1, <1>5, <1>6 DEF Nets
<1>8. \A d \in Docs : HitsOf(n.down, ResponsesFor(d)) = HitsOf(D, ResponsesFor(d))
  BY <1>1, <1>3, <1>4, <1>7, SaysNothing DEF NoResponse
<1>9. Len(D) <= Len(n.down) /\ Len(n.down) \in Nat
  BY <1>5, <1>7
<1>10. OnlyMore(c.net, n)
  BY <1>5, <1>7, <1>9 DEF OnlyMore
<1>11. \A i \in 1 .. Len(n.down) : i > Len(D) => NewMessage(c, n, i)
  BY <1>3, <1>5, <1>7 DEF NewMessage, AboutDenied
<1>12. \A d \in Denied : n.sent[d] = "none"
  BY <1>1, <1>7 DEF StreamOK, Unknown
<1> QED  BY <1>2, <1>5, <1>7, <1>8, <1>9, <1>10, <1>11, <1>12, StillSettled DEF Responded

LEMMA DocumentSent ==
    ASSUME NEW c, NEW S, Resting(c, S), server \in [Docs -> Versions], NEW d \in Docs,
           c.net.sent[d] \in {"added", "current"},
           NEW more, more = IF c.net.sent[d] = "added"
                            THEN <<[kind |-> "current", doc |-> d]>> ELSE <<>>,
           NEW n, n = [c.net EXCEPT
                         !.down = @ \o <<[kind |-> "document", doc |-> d,
                                          v |-> server[d]]>> \o more,
                         !.sent[d] = "current", !.version[d] = server[d], !.news = TRUE]
    PROVE  Responded(c, n)
<1> DEFINE D == c.net.down
           m1 == [kind |-> "document", doc |-> d, v |-> server[d]]
           m2 == [kind |-> "current", doc |-> d]
           D1 == Append(D, m1)
           D2 == Append(D1, m2)
           sent == [c.net.sent EXCEPT ![d] = "current"]
           version == [c.net.version EXCEPT ![d] = server[d]]
<1>1. /\ c \in Clients /\ c.net \in Nets /\ D \in Seq(Messages) /\ StreamOK(c)
      /\ c.net.up \in Seq(WatchRequests) /\ NotAhead(c) /\ c.view \in [Docs -> Views]
      /\ c.net.sent \in [Docs -> {"none", "added", "current"}]
      /\ c.net.version \in [Docs -> Versions]
  BY ClientFields DEF Resting, ClientOK, Nets
<1>2. c.stream = "Open"
  <2>1. c.net # NoNet
    BY DEF NoNet
  <2> QED  BY <2>1, OpenStream
<1>3. d \notin Denied
  BY <1>1 DEF StreamOK, Unknown
<1>4. /\ m1 \in Messages /\ m1.kind = "document" /\ m1.doc = d /\ m1.v = server[d]
      /\ m2 \in Messages /\ m2.kind = "current" /\ m2.doc = d
  BY DEF Messages
<1>5. NoResponse(m1) /\ NoResponse(m2)
  BY DEF NoResponse, ResponsesFor
<1> HIDE DEF m1, m2
<1>6. /\ D1 \in Seq(Messages) /\ Len(D) \in Nat /\ Len(D1) = Len(D) + 1
      /\ D1[Len(D) + 1] = m1 /\ \A i \in 1 .. Len(D) : D1[i] = D[i]
      /\ \A i \in 1 .. Len(D) + 1 : i > Len(D) => i = Len(D) + 1
  BY <1>1, <1>4, Appended
<1>7. \A e \in Docs : HitsOf(D1, ResponsesFor(e)) = HitsOf(D, ResponsesFor(e))
  BY <1>1, <1>4, <1>5, SaysNothing
<1>8. D1 = D \o <<m1>>
  BY <1>1, <1>4, AppendIsConcat
<1> HIDE DEF D, D1
<1>9. /\ D2 \in Seq(Messages) /\ Len(D2) = Len(D1) + 1
      /\ D2[Len(D1) + 1] = m2 /\ \A i \in 1 .. Len(D1) : D2[i] = D1[i]
  BY <1>4, <1>6, Appended
<1>10. \A e \in Docs : HitsOf(D2, ResponsesFor(e)) = HitsOf(D1, ResponsesFor(e))
  BY <1>4, <1>5, <1>6, SaysNothing
<1>11. D2 = D1 \o <<m2>>
  BY <1>4, <1>6, AppendIsConcat
<1> HIDE DEF D2
<1>12. n = [c.net EXCEPT !.down = D1 \o more, !.sent = sent, !.version = version,
                         !.news = TRUE]
  BY <1>1, <1>8 DEF Nets, D, m1
<1>13. sent \in [Docs -> {"none", "added", "current"}] /\ version \in [Docs -> Versions]
       /\ \A e \in Denied : sent[e] = "none"
  BY <1>1, <1>3, DeniedAssumption DEF StreamOK, Unknown
<1> HIDE DEF sent, version
<1>14. D1 \o more = D2 \/ D1 \o more = D1
  <2>1. CASE c.net.sent[d] = "added"
    BY <1>11, <2>1 DEF m2
  <2>2. CASE c.net.sent[d] # "added"
    BY <1>6, <2>2, ConcatEmptySeq
  <2> QED  BY <2>1, <2>2
<1>15. /\ n.up = c.net.up /\ n.down = D1 \o more /\ n.sent = sent
  BY <1>1, <1>12 DEF Nets
<1>16. n \in Nets
  <2>1. D1 \o more \in Seq(Messages)
    BY <1>6, <1>9, <1>14
  <2> QED  BY <1>1, <1>12, <1>13, <2>1 DEF Nets
<1>17. m1.v >= c.view[d].since
  <2>1. c.view[d].since \in Nat /\ server[d] \in Nat /\ c.view[d].since <= server[d]
    BY <1>1, ViewFields, NumbersOfVersions DEF NotAhead
  <2> QED  BY <1>4, <2>1
<1>18. ASSUME NEW i, i = Len(D) + 1, n.down[i] = m1
       PROVE  NewMessage(c, n, i)
  BY <1>3, <1>4, <1>17, <1>18 DEF NewMessage, AboutDenied
<1>19. CASE D1 \o more = D1
  <2>1. n.down = D1
    BY <1>15, <1>19
  <2>6. Len(D1) \in Nat /\ Len(D) <= Len(D1)
    BY ONLY <1>6
  <2>2. Len(D) <= Len(n.down) /\ Len(n.down) \in Nat
    BY <2>1, <2>6
  <2>3. \A i \in 1 .. Len(n.down) : i > Len(D) => NewMessage(c, n, i)
    BY <1>6, <1>18, <2>1
  <2>4. \A e \in Docs : HitsOf(n.down, ResponsesFor(e)) = HitsOf(D, ResponsesFor(e))
    BY <1>7, <2>1
  <2>5. \A i \in 1 .. Len(D) : n.down[i] = D[i]
    BY <1>6, <2>1
  <2>7. OnlyMore(c.net, n)
    BY <1>6, <1>15, <2>2, <2>5 DEF OnlyMore, D
  <2>8. \A i \in 1 .. Len(D) : \A e \in Docs \ Denied :
            Settled(n, e, i) => Settled(c.net, e, i)
    BY ONLY <2>7, StillSettled
  <2>9. \A e \in Docs \ Denied :
            HitsOf(n.up, RequestsFor(e)) + HitsOf(n.down, ResponsesFor(e)) =
                HitsOf(c.net.up, RequestsFor(e)) + HitsOf(D, ResponsesFor(e))
    BY ONLY <1>15, <2>4
  <2>10. \A e \in Denied : n.sent[e] = "none"
    BY <1>13, <1>15
  <2> QED  BY <1>2, <1>16, <2>2, <2>3, <2>5, <2>8, <2>9, <2>10 DEF Responded, D
<1>20. CASE D1 \o more = D2
  <2>7. n.down = D2
    BY <1>15, <1>20
  <2>8. Len(D2) = Len(D) + 2 /\ Len(D2) \in Nat /\ Len(D) <= Len(D2)
    <3>1. Len(D) \in Nat /\ Len(D1) = Len(D) + 1 /\ Len(D2) = Len(D1) + 1
      BY <1>6, <1>9
    <3> QED  BY ONLY <3>1
  <2>1. n.down = D2 /\ Len(D2) = Len(D) + 2
    BY <2>7, <2>8
  <2>2. \A i \in 1 .. Len(D) : n.down[i] = D[i]
    <3>1. \A i \in 1 .. Len(D) : i \in 1 .. Len(D1)
      BY <1>6
    <3> QED  BY <1>6, <1>9, <2>1, <3>1
  <2>3. n.down[Len(D) + 1] = m1 /\ n.down[Len(D) + 2] = m2
    <3>1. Len(D) + 1 \in 1 .. Len(D1) /\ Len(D1) + 1 = Len(D) + 2
      BY <1>6
    <3> QED  BY <1>6, <1>9, <2>1, <3>1
  <2>4. Len(D) <= Len(n.down) /\ Len(n.down) \in Nat
    BY <2>7, <2>8
  <2>9. OnlyMore(c.net, n)
    BY <1>6, <1>15, <2>2, <2>4 DEF OnlyMore, D
  <2>5. ASSUME NEW i \in 1 .. Len(n.down), i > Len(D)
        PROVE  NewMessage(c, n, i)
    <3>1. i = Len(D) + 1 \/ i = Len(D) + 2
      <4>1. Len(D) \in Nat /\ i \in 1 .. Len(D) + 2 /\ i > Len(D)
        BY <1>6, <2>1, <2>5
      <4> QED  BY ONLY <4>1
    <3>2. CASE i = Len(D) + 1
      BY <1>18, <2>3, <3>2
    <3>3. CASE i = Len(D) + 2
      <4>1. i > 1 /\ i - 1 = Len(D) + 1
        BY <1>6, <3>3
      <4> QED  BY <1>3, <1>4, <2>3, <3>3, <4>1 DEF NewMessage, AboutDenied
    <3> QED  BY <3>1, <3>2, <3>3
  <2>6. \A e \in Docs : HitsOf(n.down, ResponsesFor(e)) = HitsOf(D, ResponsesFor(e))
    BY <1>7, <1>10, <2>1
  <2>10. \A i \in 1 .. Len(D) : \A e \in Docs \ Denied :
            Settled(n, e, i) => Settled(c.net, e, i)
    BY ONLY <2>9, StillSettled
  <2>11. \A e \in Docs \ Denied :
            HitsOf(n.up, RequestsFor(e)) + HitsOf(n.down, ResponsesFor(e)) =
                HitsOf(c.net.up, RequestsFor(e)) + HitsOf(D, ResponsesFor(e))
    BY ONLY <1>15, <2>6
  <2>12. \A e \in Denied : n.sent[e] = "none"
    BY <1>13, <1>15
  <2> QED  BY <1>2, <1>16, <2>2, <2>4, <2>5, <2>10, <2>11, <2>12 DEF Responded, D
<1> QED  BY <1>14, <1>19, <1>20

LEMMA RequestTaken ==
    ASSUME NEW c, NEW S, Resting(c, S), c.net.up # <<>>,
           NEW d, d = Head(c.net.up).doc, NEW kind, NEW state,
           \/ Head(c.net.up).op = "unwatch" /\ kind = "removed" /\ state = "none"
           \/ Head(c.net.up).op # "unwatch" /\ d \in Denied /\ kind = "denied" /\ state = "none"
           \/ Head(c.net.up).op # "unwatch" /\ d \notin Denied /\ kind = "added"
              /\ state = "added",
           NEW n, n = [c.net EXCEPT !.up = Tail(@), !.sent[d] = state,
                                    !.down = Append(@, [kind |-> kind, doc |-> d])]
    PROVE  Responded(c, n)
<1> DEFINE D == c.net.down
           U == c.net.up
           rest == Tail(U)
           m == [kind |-> kind, doc |-> d]
           sent == [c.net.sent EXCEPT ![d] = state]
<1>1. /\ c \in Clients /\ c.net \in Nets /\ D \in Seq(Messages) /\ StreamOK(c)
      /\ U \in Seq(WatchRequests)
      /\ c.net.sent \in [Docs -> {"none", "added", "current"}]
  BY ClientFields DEF Resting, ClientOK, Nets
<1>2. c.stream = "Open"
  <2>1. c.net # NoNet
    BY DEF NoNet
  <2> QED  BY <2>1, OpenStream
<1>3. /\ Len(U) \in Nat /\ Len(U) >= 1 /\ Head(U) = U[1] /\ Head(U) \in WatchRequests
      /\ rest \in Seq(WatchRequests) /\ Len(rest) = Len(U) - 1
      /\ \A i \in 1 .. Len(U) - 1 : rest[i] = U[i + 1]
  BY <1>1, TailOfMessages
<1>4. /\ d \in Docs /\ kind \in {"added", "removed", "denied"}
      /\ state \in {"none", "added"} /\ (d \in Denied => state = "none")
      /\ (kind = "denied" <=> kind \notin {"added", "removed"})
      /\ (kind = "denied" => d \in Denied)
  BY <1>3 DEF WatchRequests
<1>5. m \in Messages /\ m.kind = kind /\ m.doc = d
  BY <1>4 DEF Messages
<1>6. \A e : m \in ResponsesFor(e) <=> kind \in {"added", "removed"} /\ e = d
  BY <1>4 DEF ResponsesFor
<1>7. \A e : Head(U) \in RequestsFor(e) <=> e = d
  BY <1>3 DEF WatchRequests, RequestsFor
<1> HIDE DEF m
<1>8. /\ Append(D, m) \in Seq(Messages) /\ Len(D) \in Nat
      /\ Len(Append(D, m)) = Len(D) + 1 /\ Append(D, m)[Len(D) + 1] = m
      /\ \A i \in 1 .. Len(D) : Append(D, m)[i] = D[i]
      /\ \A i \in 1 .. Len(D) + 1 : i > Len(D) => i = Len(D) + 1
  BY <1>1, <1>5, Appended
<1>9. n = [c.net EXCEPT !.up = rest, !.sent = sent, !.down = Append(D, m)]
  BY <1>1 DEF Nets, m
<1>10. /\ sent \in [Docs -> {"none", "added", "current"}]
       /\ \A e \in Denied : sent[e] = "none"
  BY <1>1, <1>4, DeniedAssumption DEF StreamOK, Unknown
<1> HIDE DEF sent, rest
<1> DEFINE more == Append(D, m)
<1>18. more \in Seq(Messages) /\ rest \in Seq(WatchRequests)
  BY <1>3, <1>8 DEF rest
<1> HIDE DEF more, D, U
<1>19. n = [c.net EXCEPT !.up = rest, !.sent = sent, !.down = more]
  BY <1>9 DEF more
<1>20. n \in Nets /\ n.up = rest /\ n.down = more /\ n.sent = sent
  <2>1. c.net \in Nets
    BY <1>1
  <2>2. /\ n.up = rest /\ n.down = more /\ n.sent = sent
        /\ n = [up |-> rest, down |-> more, sent |-> sent,
                version |-> c.net.version, news |-> c.net.news]
    BY ONLY <1>19, <2>1 DEF Nets
  <2> QED  BY ONLY <1>10, <1>18, <2>1, <2>2 DEF Nets
<1>11. /\ n \in Nets /\ n.up = rest /\ n.down = Append(D, m) /\ n.sent = sent
  BY <1>20 DEF more
<1> USE DEF D, U
<1>12. Len(D) <= Len(n.down) /\ Len(n.down) \in Nat /\ Len(n.down) = Len(D) + 1
       /\ n.down[Len(D) + 1] = m
  BY <1>8, <1>11
<1>13. ASSUME NEW e \in Docs \ Denied
       PROVE  HitsOf(n.up, RequestsFor(e)) + HitsOf(n.down, ResponsesFor(e)) =
                  HitsOf(U, RequestsFor(e)) + HitsOf(D, ResponsesFor(e))
  <2> DEFINE G == RequestsFor(e)
             H == ResponsesFor(e)
             k == IF e = d THEN 1 ELSE 0
  <2>1. Head(U) \in G <=> e = d
    BY <1>7
  <2>2. m \in H <=> e = d
    BY <1>4, <1>6
  <2> HIDE DEF G, H, D, U
  <2>3. HitsOf(Tail(U), G) = HitsOf(U, G) - (IF Head(U) \in G THEN 1 ELSE 0)
    BY <1>1, HitsOfTail DEF U
  <2>4. HitsOf(Append(D, m), H) = HitsOf(D, H) + (IF m \in H THEN 1 ELSE 0)
    BY <1>1, <1>5, HitsOfAppend
  <2>5. HitsOf(U, G) \in Nat /\ HitsOf(D, H) \in Nat /\ k \in Nat
    BY <1>1, HitsFinite
  <2>6. HitsOf(n.up, G) = HitsOf(U, G) - k
    BY <1>11, <2>1, <2>3 DEF rest
  <2>7. HitsOf(n.down, H) = HitsOf(D, H) + k
    BY <1>11, <2>2, <2>4
  <2> HIDE DEF k
  <2>8. HitsOf(n.up, G) + HitsOf(n.down, H) = HitsOf(U, G) + HitsOf(D, H)
    BY <2>5, <2>6, <2>7
  <2> QED  BY <2>8 DEF G, H
<1>14. ASSUME NEW i \in 1 .. Len(D), NEW e \in Docs \ Denied, Settled(n, e, i)
       PROVE  Settled(c.net, e, i)
  <2>1. e # d
    <3> SUFFICES ASSUME e = d
                 PROVE  FALSE
      OBVIOUS
    <3>1. m \in ResponsesFor(e)
      BY <1>4, <1>6
    <3>2. Len(D) + 1 \in 1 .. Len(n.down) /\ Len(D) + 1 > i
      BY <1>8, <1>12
    <3> QED  BY <1>12, <1>14, <3>1, <3>2 DEF Settled
  <2>2. ASSUME NEW j \in 1 .. Len(U)
        PROVE  U[j].doc # e
    <3>1. CASE j = 1
      BY <1>3, <2>1, <3>1
    <3>2. CASE j # 1
      <4>1. j - 1 \in 1 .. Len(U) - 1 /\ (j - 1) + 1 = j
        BY <1>3, <3>2
      <4>2. rest[j - 1] = U[j] /\ rest[j - 1].doc # e
        BY <1>3, <1>11, <1>14, <4>1 DEF Settled
      <4> QED  BY <4>2
    <3> QED  BY <3>1, <3>2
  <2>3. ASSUME NEW j \in 1 .. Len(D), j > i
        PROVE  D[j] \notin ResponsesFor(e)
    <3>1. j \in 1 .. Len(n.down) /\ n.down[j] = D[j]
      BY <1>8, <1>11, <1>12
    <3> QED  BY <1>14, <2>3, <3>1 DEF Settled
  <2> QED  BY <2>2, <2>3 DEF Settled
<1>15. \A i \in 1 .. Len(D) : n.down[i] = D[i]
  BY <1>8, <1>11
<1>16. \A i \in 1 .. Len(n.down) : i > Len(D) => NewMessage(c, n, i)
  <2>1. NewMessage(c, n, Len(D) + 1)
    BY <1>4, <1>5, <1>12 DEF NewMessage, AboutDenied
  <2> QED  BY <1>8, <1>12, <2>1
<1>17. \A e \in Denied : n.sent[e] = "none"
  BY <1>10, <1>11
<1> QED  BY <1>2, <1>11, <1>12, <1>13, <1>14, <1>15, <1>16, <1>17 DEF Responded

-----------------------------------------------------------------------------
(* The calls: what a step of the worker queue does to those on their way.  *)

LEMMA ConcatEvents ==
    ASSUME NEW X, NEW s \in Seq(X), NEW t \in Seq(X), NEW i \in 1 .. Len(s \o t)
    PROVE  \/ i \in 1 .. Len(s) /\ (s \o t)[i] = s[i]
           \/ /\ i > Len(s) /\ i - Len(s) \in 1 .. Len(t)
              /\ (s \o t)[i] = t[i - Len(s)]
<1> DEFINE n == Len(s)
           m == Len(t)
<1>1. /\ n \in Nat /\ m \in Nat /\ Len(s \o t) = n + m
      /\ \A k \in 1 .. n + m : (s \o t)[k] = IF k <= n THEN s[k] ELSE t[k - n]
  BY LenProperties, ConcatProperties
<1> HIDE DEF n, m
<1>2. i \in 1 .. n + m
  BY <1>1
<1>3. CASE i <= n
  BY <1>1, <1>2, <1>3 DEF n
<1>4. CASE ~(i <= n)
  <2>1. i > n /\ i - n \in 1 .. m
    BY ONLY <1>1, <1>2, <1>4
  <2> QED  BY <1>1, <1>2, <1>4, <2>1 DEF n, m
<1> QED  BY <1>3, <1>4

(* The worker queue takes a task or none; it begins to listen for N.       *)
Tasks == [task : {"listen", "remove"}, get : Gets]
Takes(N) ==
    \/ worker' = worker /\ N = {}
    \/ /\ worker # <<>> /\ worker' = Tail(worker)
       /\ N = IF Head(worker).task = "listen" THEN {Head(worker).get} ELSE {}
ToListen(s, i) ==
    /\ s[i].get \in Asked
    /\ s[i].task = "listen" =>
          /\ s[i].get \notin Listening(client)
          /\ s[i].get \notin muted /\ told[s[i].get] = <<>>
          /\ \A j \in 1 .. Len(main) : main[j].get # s[i].get
          /\ \A j \in 1 .. Len(s) : s[j].task = "listen" /\ s[j].get = s[i].get => j = i
NotYet(N) ==
    \A g \in N : /\ g \notin muted /\ told[g] = <<>> /\ g \in Asked
                 /\ g \notin Listening(client)
                 /\ \A j \in 1 .. Len(main) : main[j].get # g

LEMMA TaskTaken ==
    ASSUME worker \in Seq(Tasks), TasksOnce, NEW N, Takes(N)
    PROVE  /\ worker' \in Seq(Tasks) /\ NotYet(N) /\ N \subseteq Gets
           /\ \A i \in 1 .. Len(worker') :
                 /\ ToListen(worker', i)
                 /\ worker'[i].task = "listen" => worker'[i].get \notin N
<1>1. \A i \in 1 .. Len(worker) : ToListen(worker, i)
  BY DEF TasksOnce, ToListen
<1>2. CASE worker' = worker /\ N = {}
  BY <1>1, <1>2 DEF NotYet
<1>3. CASE /\ worker # <<>> /\ worker' = Tail(worker)
           /\ N = IF Head(worker).task = "listen" THEN {Head(worker).get} ELSE {}
  <2> DEFINE n == Len(worker)
             rest == Tail(worker)
  <2>1. /\ n \in Nat /\ n >= 1 /\ Head(worker) = worker[1] /\ Head(worker) \in Tasks
        /\ rest \in Seq(Tasks) /\ Len(rest) = n - 1
        /\ \A i \in 1 .. n - 1 : rest[i] = worker[i + 1]
    BY <1>3, TailOfMessages
  <2>2. ToListen(worker, 1)
    BY <1>1, <2>1
  <2>3. NotYet(N) /\ N \subseteq Gets
    BY <1>3, <2>1, <2>2 DEF NotYet, ToListen, Tasks
  <2>4. ASSUME NEW i \in 1 .. n - 1
        PROVE  /\ ToListen(rest, i)
               /\ rest[i].task = "listen" => rest[i].get \notin N
    <3>1. i + 1 \in 1 .. n /\ i + 1 # 1 /\ 1 \in 1 .. n
      BY ONLY <2>1, <2>4
    <3>2. ToListen(worker, i + 1) /\ rest[i] = worker[i + 1]
      BY <1>1, <2>1, <3>1
    <3>3. ASSUME rest[i].task = "listen", NEW j \in 1 .. n - 1,
                 rest[j].task = "listen", rest[j].get = rest[i].get
          PROVE  j = i
      <4>1. j + 1 \in 1 .. n /\ rest[j] = worker[j + 1]
        BY <2>1, <3>3
      <4>2. j + 1 = i + 1
        BY <3>2, <3>3, <4>1 DEF ToListen
      <4>3. i \in Int /\ j \in Int
        BY <2>1
      <4> QED  BY ONLY <4>2, <4>3
    <3>4. rest[i].task = "listen" => rest[i].get \notin N
      BY <1>3, <2>1, <3>1, <3>2 DEF ToListen
    <3> QED  BY <2>1, <3>2, <3>3, <3>4 DEF ToListen
  <2> QED  BY <1>3, <2>1, <2>3, <2>4
<1> QED  BY <1>2, <1>3 DEF Takes

(* The state of a client does not depend on what it has raised.            *)
LEMMA RaisedTaken ==
    ASSUME NEW r \in Clients, ClientOK(r), NEW S, ListensSince(r, S),
           NEW c, c = [r EXCEPT !.out = <<>>]
    PROVE  /\ c \in Clients /\ ClientOK(c) /\ ListensSince(c, S) /\ c.out = <<>>
           /\ Listening(c) = Listening(r)
<1> DEFINE none == <<>>
<1>5. none \in Seq(Notices)
  BY EmptySeq
<1> HIDE DEF none
<1>6. c = [r EXCEPT !.out = none]
  BY DEF none
<1>7. c \in Clients /\ c.out = none
  BY <1>5, <1>6 DEF Clients
<1>1. c \in Clients /\ c.out = <<>>
  BY <1>7 DEF none
<1>2. /\ c.listeners = r.listeners /\ c.view = r.view /\ c.cache = r.cache
      /\ c.targets = r.targets /\ c.online = r.online /\ SameTimers(r, c)
      /\ c.stream = r.stream /\ c.idle = r.idle /\ c.net = r.net
      /\ c.states = r.states /\ c.updates = r.updates
  BY DEF Clients, SameTimers
<1>3. StreamOK(c)
  BY <1>2, ClientFields, SameStreamOK DEF ClientOK
<1>4. Targets(c) /\ Timers(c) /\ ViewsFresh(c) /\ NotAhead(c) /\ Own(c)
      /\ ListensSince(c, S) /\ Listening(c) = Listening(r)
  BY <1>2 DEF ClientOK, Targets, Timers, IsStarted, SameTimers, ViewsFresh, NotAhead,
              Own, ListensSince, Listening, ListenersOf
<1> QED  BY <1>1, <1>3, <1>4 DEF ClientOK

(* A step of the worker queue that takes the client to r.                  *)
LEMMA CallsStep ==
    ASSUME TypeOK, ClientOK(client), TasksOnce, EventsOnce, AnsweredGets, EventsFresh, FreshAnswer,
           NEW N, Takes(N), NEW L, L = Listening(client) \cup N,
           NEW r, Stepped(L, r, since'), Becomes(r), UNCHANGED <<asked, muted, told>>,
           \A g \in Gets : g \notin N => since'[g] = since[g]
    PROVE  /\ TasksOnce' /\ EventsOnce' /\ AnsweredGets' /\ EventsFresh' /\ FreshAnswer'
           /\ worker' \in Seq(Tasks) /\ main' \in Seq(Notices)
           /\ client' \in Clients /\ client'.out = <<>> /\ ClientOK(client')
           /\ ListensSince(client', since')
<1> DEFINE out == r.out
           n == Len(main)
<1>1. /\ worker \in Seq(Tasks) /\ main \in Seq(Notices) /\ muted \subseteq Gets
      /\ told \in [Gets -> Seq([v : Versions,
                              from : {"server", "cache", "unavailable", "denied"}])]
  BY DEF TypeOK, Tasks
<1>2. r \in Clients /\ ClientOK(r) /\ ListensSince(r, since') /\ Raised(L, r, since')
      /\ Listening(r) \subseteq L
  BY DEF Stepped
<1>3. client' = [r EXCEPT !.out = <<>>] /\ main' = main \o out
  BY DEF Becomes
<1>4. /\ client' \in Clients /\ ClientOK(client') /\ ListensSince(client', since')
      /\ client'.out = <<>> /\ Listening(client') = Listening(r)
  BY <1>2, <1>3, RaisedTaken
<1>5. /\ worker' \in Seq(Tasks) /\ NotYet(N) /\ N \subseteq Gets
      /\ \A i \in 1 .. Len(worker') :
            /\ ToListen(worker', i)
            /\ worker'[i].task = "listen" => worker'[i].get \notin N
  BY <1>1, TaskTaken
<1>6. out \in Seq(Notices)
  BY <1>2, ClientFields
<1>7. \A i \in 1 .. Len(out) : /\ out[i].get \in L
                               /\ out[i].from = "server" => out[i].v >= since'[out[i].get]
                               /\ out[i].from = "denied" =>
                                     /\ out[i].get \notin Listening(client')
                                     /\ \A j \in 1 .. Len(out) :
                                           j > i => out[j].get # out[i].get
  BY <1>2, <1>4 DEF Raised
<1>8. n \in Nat /\ Len(out) \in Nat /\ Len(main') = n + Len(out) /\ main' \in Seq(Notices)
  BY <1>1, <1>3, <1>6, LenProperties, ConcatProperties
<1> HIDE DEF out, n
<1>9. \A i \in 1 .. Len(main') :
          \/ i \in 1 .. n /\ main'[i] = main[i]
          \/ i > n /\ i - n \in 1 .. Len(out) /\ main'[i] = out[i - n]
  BY <1>1, <1>3, <1>6, ConcatEvents DEF n
<1>10. \A g \in L : g \in Listening(client) \/ g \in N
  OBVIOUS
<1>11. Listening(client') \subseteq L
  BY <1>2, <1>4
(* A get that neither listened nor begins to is not heard of.              *)
<1>12. ASSUME NEW g, g \notin L, \A j \in 1 .. n : main[j].get # g
       PROVE  \A j \in 1 .. Len(main') : main'[j].get # g
  BY <1>7, <1>9, <1>12
<1>13. Asked' = Asked
  BY DEF Asked
<1>14. L \subseteq Asked
  <2>1. Listening(client) \subseteq Asked
    <3>1. client \in Clients /\ Own(client)
      BY DEF TypeOK, ClientOK
    <3> QED  BY <3>1, Listened DEF Own
  <2> QED  BY <1>5, <2>1 DEF NotYet
<1>15. TasksOnce'
  <2> SUFFICES ASSUME NEW i \in 1 .. Len(worker')
               PROVE  /\ worker'[i].get \in Asked'
                      /\ worker'[i].task = "listen" =>
                          /\ worker'[i].get \notin Listening(client')
                          /\ worker'[i].get \notin muted' /\ told'[worker'[i].get] = <<>>
                          /\ \A j \in 1 .. Len(main') : main'[j].get # worker'[i].get
                          /\ \A j \in 1 .. Len(worker') :
                                worker'[j].task = "listen"
                                /\ worker'[j].get = worker'[i].get => j = i
    BY DEF TasksOnce, Listening, ListenersOf
  <2>1. /\ ToListen(worker', i)
        /\ worker'[i].task = "listen" => worker'[i].get \notin N
    BY <1>5
  <2>2. worker'[i].task = "listen" => worker'[i].get \notin L
    BY <1>10, <2>1 DEF ToListen
  <2> QED  BY <1>11, <1>12, <1>13, <2>1, <2>2 DEF ToListen, n
<1>16. EventsOnce'
  <2> SUFFICES ASSUME NEW i \in 1 .. Len(main')
               PROVE  /\ main'[i].get \in Asked'
                      /\ main'[i].from = "denied" =>
                            /\ main'[i].get \notin Listening(client')
                            /\ \A j \in 1 .. Len(main') :
                                  j > i => main'[j].get # main'[i].get
    BY DEF EventsOnce, Listening, ListenersOf
  <2>1. CASE i \in 1 .. n /\ main'[i] = main[i]
    <3>1. main[i].get \in Asked /\ (main[i].from = "denied" =>
              /\ main[i].get \notin Listening(client)
              /\ \A j \in 1 .. n : j > i => main[j].get # main[i].get)
      BY <2>1 DEF EventsOnce, n
    <3>2. main[i].get \notin N
      BY <1>5, <2>1 DEF NotYet, n
    <3>3. ASSUME main[i].from = "denied", NEW j \in 1 .. Len(main'), j > i
          PROVE  main'[j].get # main[i].get
      BY <1>7, <1>9, <1>10, <3>1, <3>2, <3>3
    <3> QED  BY <1>10, <1>11, <1>13, <2>1, <3>1, <3>2, <3>3
  <2>2. CASE i > n /\ i - n \in 1 .. Len(out) /\ main'[i] = out[i - n]
    <3>1. ASSUME main'[i].from = "denied", NEW j \in 1 .. Len(main'), j > i
          PROVE  main'[j].get # main'[i].get
      <4>1. i \in Int /\ j \in Int /\ ~(j \in 1 .. n) /\ j - n > i - n
        BY ONLY <1>8, <2>2, <3>1
      <4>2. j - n \in 1 .. Len(out) /\ main'[j] = out[j - n]
        BY <1>9, <4>1
      <4> QED  BY <1>7, <2>2, <3>1, <4>1, <4>2
    <3> QED  BY <1>7, <1>13, <1>14, <2>2, <3>1
  <2> QED  BY <1>9, <2>1, <2>2
<1>17. AnsweredGets'
  <2>1. muted' \subseteq Asked'
    BY <1>13 DEF AnsweredGets
  <2> SUFFICES ASSUME NEW g \in Gets, told[g] # <<>>
               PROVE  /\ g \in Asked /\ Len(told[g]) = 1
                      /\ g \notin muted =>
                            /\ g \notin Listening(client')
                            /\ \A j \in 1 .. Len(main') : main'[j].get # g
    BY <1>13, <2>1 DEF AnsweredGets, Listening, ListenersOf
  <2>2. /\ g \in Asked /\ Len(told[g]) = 1
        /\ g \notin muted => /\ g \notin Listening(client)
                             /\ \A j \in 1 .. n : main[j].get # g
    BY DEF AnsweredGets, n
  <2>3. g \notin N
    BY <1>5 DEF NotYet
  <2> QED  BY <1>10, <1>11, <1>12, <2>2, <2>3
<1>18. EventsFresh'
  <2> SUFFICES ASSUME NEW i \in 1 .. Len(main'), main'[i].from = "server"
               PROVE  main'[i].v >= since'[main'[i].get]
    BY DEF EventsFresh
  <2>1. CASE i \in 1 .. n /\ main'[i] = main[i]
    <3>1. main[i] \in Notices /\ main[i].get \in Gets /\ main[i].get \notin N
      <4>1. main[i] \in Notices
        BY <1>1, <2>1, ElementOfSeq DEF n
      <4> QED  BY <1>5, <2>1, <4>1 DEF NotYet, Notices, n
    <3> QED  BY <2>1, <3>1 DEF EventsFresh, n
  <2>2. CASE i > n /\ i - n \in 1 .. Len(out) /\ main'[i] = out[i - n]
    BY <1>7, <2>2
  <2> QED  BY <1>9, <2>1, <2>2
<1>19. FreshAnswer'
  <2> SUFFICES ASSUME NEW g \in Gets, NEW i \in DOMAIN told[g], told[g][i].from = "server"
               PROVE  told[g][i].v >= since'[g]
    BY DEF FreshAnswer
  <2>1. told[g] # <<>>
    OBVIOUS
  <2>2. g \notin N
    BY <1>5, <2>1 DEF NotYet
  <2> QED  BY <2>2 DEF FreshAnswer
<1> QED  BY <1>4, <1>5, <1>8, <1>15, <1>16, <1>17, <1>18, <1>19

(* ClientOK of the next state, where the backend and the calls are as they *)
(* were.                                                                   *)
LEMMA ClientNext ==
    ASSUME ClientOK(client'), UNCHANGED <<asked, server>>
    PROVE  ClientOK(client)'
<1>1. Targets(client') /\ Timers(client') /\ StreamOK(client') /\ ViewsFresh(client')
  BY DEF ClientOK
<1>2. Targets(client)' /\ Timers(client)' /\ StreamOK(client)' /\ ViewsFresh(client)'
  BY <1>1
<1>3. NotAhead(client)' /\ Own(client)'
  BY DEF ClientOK, NotAhead, Own, Asked
<1> QED  BY <1>2, <1>3 DEF ClientOK

LEMMA WorkerInv ==
    ASSUME Inv, NEW N, Takes(N), NEW r, Stepped(Listening(client) \cup N, r, since'),
           Becomes(r), UNCHANGED <<asked, muted, told, server>>,
           since' \in [Gets -> Versions], \A g \in Gets : g \notin N => since'[g] = since[g],
           reachable' \in BOOLEAN, faults' \in 0 .. MaxFaults
    PROVE  Inv'
<1>1. /\ TasksOnce' /\ EventsOnce' /\ AnsweredGets' /\ EventsFresh' /\ FreshAnswer'
      /\ worker' \in Seq(Tasks) /\ main' \in Seq(Notices)
      /\ client' \in Clients /\ client'.out = <<>> /\ ClientOK(client')
      /\ ListensSince(client', since')
  BY CallsStep DEF Inv
<1>2. ClientOK(client)' /\ ListensSince(client, since)'
  BY <1>1, ClientNext
<1>3. \A d \in Docs \ Denied : client'.states[d].outstanding \in Nat
  BY <1>1, CountsAreNumbers DEF ClientOK, StreamOK
<1>4. TypeOK'
  BY <1>1, <1>3 DEF Inv, TypeOK, Tasks
<1> QED  BY <1>1, <1>2, <1>4 DEF Inv

(* A step of the worker queue that takes no task.                          *)
LEMMA IdleInv ==
    ASSUME Inv, NEW r, Stepped(Listening(client), r, since), Becomes(r),
           UNCHANGED <<asked, muted, told, server, worker, since>>,
           reachable' \in BOOLEAN, faults' \in 0 .. MaxFaults
    PROVE  Inv'
<1>1. Takes({}) /\ Listening(client) \cup {} = Listening(client)
  BY DEF Takes
<1>2. since' \in [Gets -> Versions] /\ \A g \in Gets : since'[g] = since[g]
  BY DEF Inv, TypeOK
<1>3. Stepped(Listening(client) \cup {}, r, since')
  BY <1>1
<1> QED  BY <1>1, <1>2, <1>3, WorkerInv

LEMMA InvFacts ==
    ASSUME Inv
    PROVE  /\ client \in Clients /\ ClientOK(client) /\ client.out = <<>>
           /\ ListensSince(client, since) /\ Resting(client, since)
           /\ AskedOK /\ server \in [Docs -> Versions] /\ since \in [Gets -> Versions]
           /\ reachable \in BOOLEAN /\ faults \in 0 .. MaxFaults
           /\ worker \in Seq(Tasks)
  BY DEF Inv, TypeOK, Resting, AskedOK, Tasks

LEMMA FirstTask ==
    ASSUME Inv, worker # <<>>
    PROVE  /\ Head(worker) \in Tasks /\ Head(worker).get \in Asked
           /\ Head(worker).get \in Gets /\ asked[Head(worker).get] \in Docs
           /\ Head(worker).task = "listen" => Head(worker).get \notin Listening(client)
<1>1. /\ Len(worker) \in Nat /\ Len(worker) >= 1 /\ Head(worker) = worker[1]
      /\ Head(worker) \in Tasks
  BY InvFacts, TailOfMessages
<1>2. 1 \in 1 .. Len(worker)
  BY <1>1
<1>3. worker[1].get \in Asked
      /\ (worker[1].task = "listen" => worker[1].get \notin Listening(client))
  BY <1>2 DEF Inv, TasksOnce
<1>4. \A g \in Asked : asked[g] \in Docs
  BY InvFacts, ElementOfSeq DEF AskedOK, Asked
<1> QED  BY <1>1, <1>3, <1>4 DEF Tasks

LEMMA ListenInv == Inv /\ ListenToQuery => Inv'
<1> SUFFICES ASSUME Inv, ListenToQuery
             PROVE  Inv'
  OBVIOUS
<1> DEFINE g == Head(worker).get
           d == asked[g]
           c == client
           r == AddQueryListener(c, g, d)
           begun == IF c.listeners[d] # {} THEN c.view[d].since ELSE server[d]
           S2 == [since EXCEPT ![g] = begun]
<1>1. /\ worker # <<>> /\ Head(worker).task = "listen" /\ worker' = Tail(worker)
      /\ Becomes(r) /\ since' = [since EXCEPT ![g] = client'.view[d].since]
      /\ UNCHANGED <<asked, muted, told, server, reachable, faults>>
  BY DEF ListenToQuery, callVars, worldVars
<1>2. g \in Asked /\ g \in Gets /\ d \in Docs /\ g \notin Listening(c)
  BY <1>1, FirstTask
<1> HIDE DEF g, d, r
<1>3. begun \in Versions
  BY <1>2, InvFacts, ClientFields, ViewFields
<1>4. /\ S2 \in [Gets -> Versions] /\ S2[g] = begun
      /\ \A h \in Gets : h # g => S2[h] = since[h]
  BY <1>2, <1>3, InvFacts
<1> HIDE DEF S2
<1>5. /\ StepOK(r, S2) /\ r.view[d].since = S2[g]
      /\ r.listeners = [c.listeners EXCEPT ![d] = @ \cup {g}]
  <2>1. asked[g] = d
    BY DEF d
  <2>2. /\ client \in Clients /\ ClientOK(client) /\ client.out = <<>>
        /\ ListensSince(client, since) /\ AskedOK /\ server \in [Docs -> Versions]
    BY InvFacts
  <2>3. S2[g] = IF client.listeners[d] # {} THEN client.view[d].since ELSE server[d]
    BY <1>4
  <2>4. \A h \in Gets : h # g => S2[h] = since[h]
    BY <1>4
  <2>5. /\ StepOK(AddQueryListener(client, g, d), S2)
        /\ AddQueryListener(client, g, d).view[d].since = S2[g]
        /\ AddQueryListener(client, g, d).listeners
               = [client.listeners EXCEPT ![d] = @ \cup {g}]
    BY ONLY <1>2, <2>1, <2>2, <2>3, <2>4, AddedListener
  <2> QED  BY <2>5 DEF r
<1>6. r \in Clients
  BY <1>5 DEF StepOK
<1>7. client' = [r EXCEPT !.out = <<>>]
  BY <1>1 DEF Becomes
<1>8. client'.view = r.view
  BY <1>6, <1>7 DEF Clients
<1>9. since' = S2
  BY <1>1, <1>4, <1>5, <1>8 DEF S2
<1>10. Listening(r) \subseteq Listening(c) \cup {g}
  <2>1. c \in Clients /\ c.listeners \in [Docs -> SUBSET Gets]
    BY InvFacts, ClientFields
  <2>2. \A e \in Docs : r.listeners[e] \subseteq c.listeners[e] \cup {g}
    BY <1>5, <2>1
  <2> QED  BY <1>6, <2>1, <2>2, Listened
<1>11. Stepped(Listening(c) \cup {g}, r, since')
  BY <1>5, <1>9, <1>10, StepStepped
<1>12. Takes({g})
  BY <1>1 DEF Takes, g
<1>13. reachable' \in BOOLEAN /\ faults' \in 0 .. MaxFaults
  BY <1>1, InvFacts
<1>14. since' \in [Gets -> Versions] /\ \A h \in Gets : h \notin {g} => since'[h] = since[h]
  BY <1>4, <1>9
<1>15. Becomes(r) /\ UNCHANGED <<asked, muted, told, server>>
  BY <1>1
<1> QED  BY <1>11, <1>12, <1>13, <1>14, <1>15, WorkerInv

LEMMA RemoveInv == Inv /\ RemoveListener => Inv'
<1> SUFFICES ASSUME Inv, RemoveListener
             PROVE  Inv'
  OBVIOUS
<1> DEFINE g == Head(worker).get
           d == asked[g]
           c == client
           r == RemoveQueryListener(c, g, d)
<1>1. /\ worker # <<>> /\ Head(worker).task = "remove" /\ worker' = Tail(worker)
      /\ Becomes(r)
      /\ UNCHANGED <<asked, muted, told, server, since, reachable, faults>>
  BY DEF RemoveListener, callVars, worldVars
<1>2. d \in Docs
  BY <1>1, FirstTask
<1> HIDE DEF g, d
<1>3. StepOK(r, since) /\ Listening(r) \subseteq Listening(c)
  BY <1>2, InvFacts, RemovedListener
<1> HIDE DEF r
<1>4. Takes({}) /\ Listening(c) \cup {} = Listening(c)
  BY <1>1 DEF Takes
<1>5. Stepped(Listening(c) \cup {}, r, since')
  BY <1>1, <1>3, <1>4, StepStepped
<1>6. /\ reachable' \in BOOLEAN /\ faults' \in 0 .. MaxFaults
      /\ since' \in [Gets -> Versions] /\ \A h \in Gets : since'[h] = since[h]
  BY <1>1, InvFacts
<1>7. Becomes(r) /\ UNCHANGED <<asked, muted, told, server>>
  BY <1>1
<1> QED  BY <1>4, <1>5, <1>6, <1>7, WorkerInv

LEMMA TimerInv ==
    Inv /\ (OnlineStateTimeout \/ BackoffElapsed \/ IdleTimeout \/ ResumeStart) => Inv'
<1> SUFFICES ASSUME Inv, OnlineStateTimeout \/ BackoffElapsed \/ IdleTimeout \/ ResumeStart
             PROVE  Inv'
  OBVIOUS
<1>1. Resting(client, since) /\ AskedOK
  BY InvFacts
<1>2. /\ UNCHANGED <<asked, muted, told, server, worker, since>>
      /\ reachable' \in BOOLEAN /\ faults' \in 0 .. MaxFaults
  BY InvFacts DEF OnlineStateTimeout, BackoffElapsed, IdleTimeout, ResumeStart, callVars,
                  worldVars
<1>3. CASE OnlineStateTimeout
  <2> DEFINE r == SetAndBroadcast([client EXCEPT !.timer = FALSE], "Offline")
  <2>1. Becomes(r) /\ Stepped(Listening(client), r, since)
    BY <1>1, <1>3, OnlineTimedOut DEF OnlineStateTimeout
  <2> HIDE DEF r
  <2> QED  BY <1>2, <2>1, IdleInv
<1>4. CASE BackoffElapsed
  <2> DEFINE r == [client EXCEPT !.stream = "Starting"]
  <2>1. Becomes(r) /\ Stepped(Listening(client), r, since)
    BY <1>1, <1>4, BackedOff DEF BackoffElapsed
  <2> HIDE DEF r
  <2> QED  BY <1>2, <2>1, IdleInv
<1>5. CASE IdleTimeout
  <2>1. Becomes(StreamStops(client)) /\ Stepped(Listening(client), StreamStops(client), since)
    BY <1>1, <1>5, Idled DEF IdleTimeout
  <2> QED  BY <1>2, <2>1, IdleInv
<1>6. CASE ResumeStart
  <2> DEFINE r == SendWatchRequest([client EXCEPT !.stream = "Open"], client.targets)
  <2>1. Becomes(r) /\ Stepped(Listening(client), r, since)
    BY <1>1, <1>6, Opened DEF ResumeStart
  <2> HIDE DEF r
  <2> QED  BY <1>2, <2>1, IdleInv
<1> QED  BY <1>3, <1>4, <1>5, <1>6

LEMMA ReadInv == Inv /\ OnStreamRead => Inv'
<1> SUFFICES ASSUME Inv, OnStreamRead
             PROVE  Inv'
  OBVIOUS
<1> DEFINE r == OnWatchStreamChange([client EXCEPT !.net.down = Tail(@)],
                                    Head(client.net.down))
<1>1. /\ client \in Clients /\ ClientOK(client) /\ client.out = <<>>
      /\ ListensSince(client, since) /\ AskedOK /\ server \in [Docs -> Versions]
      /\ reachable \in BOOLEAN /\ faults \in 0 .. MaxFaults
  BY InvFacts
<1>2. /\ client.stream = "Open" /\ client.net.down # <<>> /\ Becomes(r)
      /\ UNCHANGED <<asked, muted, told, server, worker, since, reachable, faults>>
  BY DEF OnStreamRead, callVars, worldVars
<1>3. Stepped(Listening(client), r, since)
  BY <1>1, <1>2, MessageRead
<1> HIDE DEF r
<1>4. reachable' \in BOOLEAN /\ faults' \in 0 .. MaxFaults
  BY <1>1, <1>2
<1>5. Becomes(r) /\ UNCHANGED <<asked, muted, told, server, worker, since>>
  BY <1>2
<1> QED  BY <1>3, <1>4, <1>5, IdleInv

LEMMA OneMoreFault ==
    ASSUME faults \in 0 .. MaxFaults, faults < MaxFaults, faults' = faults + 1
    PROVE  faults' \in 0 .. MaxFaults
<1>1. MaxFaults \in Nat
  BY NumbersOfVersions
<1> QED  BY <1>1

LEMMA FaultInv ==
    Inv /\ (TokenFails \/ StreamBreaks \/ KeepaliveFails) => Inv'
<1> SUFFICES ASSUME Inv, TokenFails \/ StreamBreaks \/ KeepaliveFails
             PROVE  Inv'
  OBVIOUS
<1>1. /\ Becomes(StreamFails(client))
      /\ UNCHANGED <<asked, muted, told, server, worker, since, reachable>>
      /\ (faults' = faults \/ (faults < MaxFaults /\ faults' = faults + 1))
  <2>1. CASE TokenFails
    BY <2>1 DEF TokenFails, callVars
  <2>2. CASE StreamBreaks
    BY <2>2 DEF StreamBreaks, callVars
  <2>3. CASE KeepaliveFails
    <3>1. Becomes(StreamFails(client)) /\ UNCHANGED <<callVars, worker, since, worldVars>>
      BY <2>3 DEF KeepaliveFails
    <3>2. UNCHANGED <<asked, muted, told, server, worker, since, reachable>>
      BY <3>1 DEF callVars, worldVars
    <3>3. faults' = faults
      BY <3>1 DEF worldVars
    <3> QED  BY <3>1, <3>2, <3>3
  <2> QED  BY <2>1, <2>2, <2>3
<1>2. Stepped(Listening(client), StreamFails(client), since)
  BY InvFacts, Broken
<1>3. reachable' \in BOOLEAN /\ faults' \in 0 .. MaxFaults
  BY <1>1, InvFacts, OneMoreFault
<1>4. UNCHANGED <<asked, muted, told, server, worker, since>>
  BY <1>1
<1> QED  BY <1>1, <1>2, <1>3, <1>4, IdleInv

LEMMA RestartInv == ASSUME Inv, NEW network \in BOOLEAN, NetworkRestarts(network) PROVE Inv'
<1> DEFINE b == IF network /\ client.stream = "Open" THEN StreamFails(client) ELSE client
<1>1. /\ Becomes(RestartNetwork(b))
      /\ UNCHANGED <<asked, muted, told, server, worker, since, reachable>>
      /\ faults < MaxFaults /\ faults' = faults + 1
  BY DEF NetworkRestarts, callVars
<1>2. b = client \/ b = StreamFails(client)
  OBVIOUS
<1> HIDE DEF b
<1>3. Stepped(Listening(client), RestartNetwork(b), since)
  BY <1>2, InvFacts, Restarted
<1>4. reachable' \in BOOLEAN /\ faults' \in 0 .. MaxFaults
  BY <1>1, InvFacts, OneMoreFault
<1>5. UNCHANGED <<asked, muted, told, server, worker, since>>
  BY <1>1
<1> QED  BY <1>1, <1>3, <1>4, <1>5, IdleInv

-----------------------------------------------------------------------------
(* The backend.                                                            *)

LEMMA RespondedInv ==
    ASSUME Inv, NEW n, Responded(client, n), Responds(n)
    PROVE  Inv'
<1>1. /\ client' = [client EXCEPT !.net = n]
      /\ UNCHANGED <<asked, muted, told, worker, main, since, server, reachable, faults>>
  BY DEF Responds, callVars, worldVars
<1>2. Resting(client', since) /\ Listening(client') = Listening(client)
  BY <1>1, InvFacts, WhenResponded
<1>3. Listening(client)' = Listening(client) /\ Asked' = Asked
  BY <1>1, <1>2 DEF Listening, ListenersOf, Asked
<1>4. /\ client' \in Clients /\ client'.out = <<>> /\ ClientOK(client)'
      /\ ListensSince(client, since)'
  BY <1>1, <1>2, ClientNext DEF Resting
<1>5. \A d \in Docs \ Denied : client'.states[d].outstanding \in Nat
  BY <1>2, <1>4, CountsAreNumbers DEF ClientOK, StreamOK, Resting
<1>6. TypeOK'
  BY <1>1, <1>4, <1>5 DEF Inv, TypeOK
<1>7. TasksOnce' /\ EventsOnce'
  BY <1>1, <1>3 DEF Inv, TasksOnce, EventsOnce
<1>8. AnsweredGets'
  BY <1>1, <1>3 DEF Inv, AnsweredGets
<1>9. EventsFresh' /\ FreshAnswer'
  BY <1>1 DEF Inv, EventsFresh, FreshAnswer
<1> QED  BY <1>4, <1>6, <1>7, <1>8, <1>9 DEF Inv

LEMMA BackendInv == Inv /\ Backend => Inv'
<1> SUFFICES ASSUME Inv, Backend
             PROVE  Inv'
  OBVIOUS
<1>1. Resting(client, since) /\ server \in [Docs -> Versions]
  BY InvFacts
<1>2. CASE BackendTakes
  <2> DEFINE d == Head(client.net.up).doc
             Reply(kind, state) ==
                 [client.net EXCEPT !.up = Tail(@), !.sent[d] = state,
                                    !.down = Append(@, [kind |-> kind, doc |-> d])]
  <2>1. client.net.up # <<>>
    BY <1>2 DEF BackendTakes, net
  <2>2. PICK kind, state :
            /\ Responds(Reply(kind, state))
            /\ \/ Head(client.net.up).op = "unwatch" /\ kind = "removed" /\ state = "none"
               \/ Head(client.net.up).op # "unwatch" /\ d \in Denied /\ kind = "denied"
                  /\ state = "none"
               \/ Head(client.net.up).op # "unwatch" /\ d \notin Denied /\ kind = "added"
                  /\ state = "added"
    BY <1>2 DEF BackendTakes, net
  <2> DEFINE n == Reply(kind, state)
  <2>3. Responded(client, n)
    BY <1>1, <2>1, <2>2, RequestTaken
  <2> HIDE DEF n
  <2>4. Responds(n)
    BY <2>2 DEF n
  <2> QED  BY <2>3, <2>4, RespondedInv
<1>3. CASE BackendSnapshots
  <2> DEFINE n == [client.net EXCEPT !.down = Append(@, [kind |-> "snapshot"]),
                                     !.news = FALSE]
  <2>1. client.net.news /\ Responds(n)
    BY <1>3 DEF BackendSnapshots, net
  <2>2. Responded(client, n)
    BY <1>1, <2>1, SnapshotSent
  <2> HIDE DEF n
  <2> QED  BY <2>1, <2>2, RespondedInv
<1>4. CASE \E d \in Docs : BackendSends(d)
  <2>1. PICK d \in Docs : BackendSends(d)
    BY <1>4
  <2> DEFINE document == [kind |-> "document", doc |-> d, v |-> server[d]]
             more == IF client.net.sent[d] = "added"
                     THEN <<[kind |-> "current", doc |-> d]>> ELSE <<>>
             n == [client.net EXCEPT !.down = @ \o <<document>> \o more,
                                     !.sent[d] = "current", !.version[d] = server[d],
                                     !.news = TRUE]
  <2>2. client.net.sent[d] \in {"added", "current"} /\ Responds(n)
    BY <2>1 DEF BackendSends, net
  <2>3. Responded(client, n)
    BY <1>1, <2>2, DocumentSent
  <2> HIDE DEF n
  <2> QED  BY <2>2, <2>3, RespondedInv
<1> QED  BY <1>2, <1>3, <1>4 DEF Backend

-----------------------------------------------------------------------------
(* The main queue.                                                         *)

LEMMA GetInv == ASSUME Inv, NEW d \in Docs, GetDocument(d) PROVE Inv'
<1> DEFINE g == Len(asked) + 1
           n == Len(worker)
           task == [task |-> "listen", get |-> g]
<1>1. /\ Len(asked) < MaxGets /\ asked' = Append(asked, d)
      /\ worker' = Append(worker, task)
      /\ UNCHANGED <<main, muted, told, client, since, server, reachable, faults>>
  BY DEF GetDocument, worldVars
<1>2. /\ asked \in Seq(Docs) /\ Len(asked) \in Nat /\ Asked = 1 .. Len(asked)
      /\ asked' \in Seq(Docs) /\ Len(asked') = g /\ g <= MaxGets /\ g \in Gets
      /\ \A h \in Asked : asked'[h] = asked[h]
  <2>1. asked \in Seq(Docs) /\ Len(asked) \in Nat /\ MaxGets \in Nat
    BY InvFacts, LenProperties, NumbersOfVersions DEF AskedOK
  <2>2. /\ asked' \in Seq(Docs) /\ Len(asked') = g
        /\ \A h \in 1 .. Len(asked) : asked'[h] = asked[h]
    BY <1>1, <2>1, AppendProperties
  <2>3. g <= MaxGets /\ g \in Gets
    BY <1>1, <2>1 DEF Gets
  <2> QED  BY <2>1, <2>2, <2>3 DEF Asked
<1>3. g \notin Asked /\ g \in Asked' /\ Asked \subseteq Asked'
  BY <1>2 DEF Asked
<1>4. task \in Tasks /\ task.task = "listen" /\ task.get = g
  BY <1>2 DEF Tasks
<1> HIDE DEF g, task
<1>5. /\ n \in Nat /\ worker' \in Seq(Tasks) /\ Len(worker') = n + 1
      /\ worker'[n + 1] = task /\ \A i \in 1 .. n : worker'[i] = worker[i]
      /\ \A i \in 1 .. n + 1 : i \in 1 .. n \/ i = n + 1
  <2>1. worker \in Seq(Tasks) /\ n \in Nat
    BY InvFacts, LenProperties
  <2>2. /\ worker' \in Seq(Tasks) /\ Len(worker') = n + 1
        /\ worker'[n + 1] = task /\ \A i \in 1 .. n : worker'[i] = worker[i]
    BY <1>1, <1>4, <2>1, AppendProperties
  <2> QED  BY <2>1, <2>2
<1> HIDE DEF n
<1>6. Listening(client)' = Listening(client)
  BY <1>1 DEF Listening, ListenersOf
<1>7. Own(client)
  BY InvFacts DEF ClientOK
<1>8. g \notin Listening(client)
  BY <1>3, <1>7, InvFacts, Listened DEF Own
<1>9. \A i \in 1 .. n : worker[i].get \in Asked
  BY DEF Inv, TasksOnce, n
<1>10. \A i \in 1 .. Len(main) : main[i].get \in Asked
  BY DEF Inv, EventsOnce
<1>11. g \notin muted /\ told[g] = <<>>
  BY <1>2, <1>3 DEF Inv, AnsweredGets
<1>12. TasksOnce'
  <2> SUFFICES ASSUME NEW i \in 1 .. n + 1
               PROVE  /\ worker'[i].get \in Asked'
                      /\ worker'[i].task = "listen" =>
                          /\ worker'[i].get \notin Listening(client)
                          /\ worker'[i].get \notin muted /\ told[worker'[i].get] = <<>>
                          /\ \A j \in 1 .. Len(main) : main[j].get # worker'[i].get
                          /\ \A j \in 1 .. n + 1 :
                                worker'[j].task = "listen"
                                /\ worker'[j].get = worker'[i].get => j = i
    BY <1>1, <1>5, <1>6 DEF TasksOnce
  <2>1. CASE i \in 1 .. n
    <3>1. \A j \in 1 .. n + 1 : worker'[j].task = "listen"
                               /\ worker'[j].get = worker[i].get => j \in 1 .. n
      BY <1>3, <1>4, <1>5, <1>9, <2>1
    <3>2. /\ worker[i].get \in Asked
          /\ worker[i].task = "listen" =>
                /\ worker[i].get \notin Listening(client)
                /\ worker[i].get \notin muted /\ told[worker[i].get] = <<>>
                /\ \A j \in 1 .. Len(main) : main[j].get # worker[i].get
                /\ \A j \in 1 .. n : worker[j].task = "listen"
                                     /\ worker[j].get = worker[i].get => j = i
      BY <2>1 DEF Inv, TasksOnce, n
    <3> QED  BY <1>3, <1>5, <2>1, <3>1, <3>2
  <2>2. CASE i = n + 1
    <3>1. \A j \in 1 .. n : worker'[j].get # g
      BY <1>3, <1>5, <1>9
    <3>2. worker'[i] = task
      BY <1>5, <2>2
    <3> QED  BY <1>3, <1>4, <1>5, <1>8, <1>10, <1>11, <2>2, <3>1, <3>2
  <2> QED  BY <1>5, <2>1, <2>2
<1>13. EventsOnce'
  BY <1>1, <1>3, <1>6 DEF Inv, EventsOnce
<1>14. AnsweredGets'
  BY <1>1, <1>3, <1>6 DEF Inv, AnsweredGets
<1>15. EventsFresh' /\ FreshAnswer'
  BY <1>1 DEF Inv, EventsFresh, FreshAnswer
<1>16. Own(client)'
  BY <1>1, <1>2, <1>3, <1>7 DEF Own
<1>17. ClientOK(client)' /\ ListensSince(client, since)'
  <2>1. NotAhead(client)' /\ ListensSince(client, since)'
    BY <1>1 DEF Inv, ClientOK, NotAhead, ListensSince
  <2>2. Targets(client') /\ Timers(client') /\ StreamOK(client') /\ ViewsFresh(client')
    BY <1>1 DEF Inv, ClientOK
  <2> QED  BY <1>16, <2>1, <2>2 DEF ClientOK
<1>18. TypeOK'
  BY <1>1, <1>2, <1>5 DEF Inv, TypeOK, Tasks
<1> QED  BY <1>12, <1>13, <1>14, <1>15, <1>17, <1>18 DEF Inv

LEMMA EventInv == Inv /\ OnEvent => Inv'
<1> SUFFICES ASSUME Inv, OnEvent
             PROVE  Inv'
  OBVIOUS
<1> DEFINE e == Head(main)
           g == e.get
           n == Len(main)
           rest == Tail(main)
           Answers == [v : Versions, from : {"server", "cache", "unavailable", "denied"}]
           answer == [v |-> e.v, from |-> IF e.from = "cache" /\ e.v = 0
                                          THEN "unavailable" ELSE e.from]
           remove == [task |-> "remove", get |-> g]
<1>1. /\ main # <<>> /\ main' = rest
      /\ UNCHANGED <<asked, client, since, server, reachable, faults>>
      /\ \/ g \in muted /\ UNCHANGED <<worker, muted, told>>
         \/ /\ g \notin muted /\ told' = [told EXCEPT ![g] = Append(@, answer)]
            /\ \/ e.from = "denied" /\ UNCHANGED <<worker, muted>>
               \/ /\ e.from # "denied" /\ muted' = muted \cup {g}
                  /\ worker' = Append(worker, remove)
  BY DEF OnEvent, worldVars
<1>2. main \in Seq(Notices) /\ told \in [Gets -> Seq(Answers)] /\ muted \subseteq Gets
  BY DEF Inv, TypeOK
<1>3. /\ n \in Nat /\ n >= 1 /\ e = main[1] /\ e \in Notices
      /\ rest \in Seq(Notices) /\ Len(rest) = n - 1
      /\ \A i \in 1 .. n - 1 : rest[i] = main[i + 1]
  BY <1>1, <1>2, TailOfMessages
<1>4. g \in Gets /\ e.v \in Versions /\ e.from \in {"server", "cache", "denied"}
  BY <1>3 DEF Notices
<1>5. answer \in Answers /\ answer.v = e.v /\ (answer.from = "server" => e.from = "server")
  BY <1>4
<1>6. remove \in Tasks /\ remove.task # "listen" /\ remove.get = g
  BY <1>4 DEF Tasks
<1>7. /\ \A i \in 1 .. n - 1 : i + 1 \in 1 .. n /\ i + 1 > 1
      /\ 1 \in 1 .. n /\ \A i, j \in 1 .. n - 1 : j > i => j + 1 > i + 1
  BY <1>3
<1> HIDE DEF Answers, answer, remove, g, e, rest, n
<1>8. Listening(client)' = Listening(client) /\ Asked' = Asked
  BY <1>1 DEF Listening, ListenersOf, Asked
<1>9. g \in Asked
  BY <1>3, <1>7 DEF Inv, EventsOnce, g, n
<1>10. g \notin muted => told[g] = <<>>
  BY <1>3, <1>4, <1>7 DEF Inv, AnsweredGets, g, n
<1>11. /\ told' \in [Gets -> Seq(Answers)]
       /\ \A h \in Gets : h # g => told'[h] = told[h]
       /\ g \in muted => told'[g] = told[g]
       /\ g \notin muted => told'[g] = <<answer>>
  <2>1. CASE g \in muted
    BY <1>1, <1>2, <2>1
  <2>2. CASE g \notin muted
    <3>1. told' = [told EXCEPT ![g] = Append(@, answer)]
      BY <1>1, <2>2
    <3>2. Append(<<>>, answer) = <<answer>> /\ <<answer>> \in Seq(Answers)
      BY <1>5
    <3> QED  BY <1>2, <1>4, <1>10, <2>2, <3>1, <3>2
  <2> QED  BY <2>1, <2>2
<1>12. /\ muted' \subseteq Gets /\ muted' \subseteq muted \cup {g} /\ muted \subseteq muted'
       /\ g \notin muted /\ e.from # "denied" => g \in muted'
       /\ g \notin muted /\ e.from = "denied" => g \notin muted'
  BY <1>1, <1>2, <1>4
<1>13. \A i \in 1 .. n - 1 : main'[i] = main[i + 1] /\ Len(main') = n - 1
  BY <1>1, <1>3
<1>14. /\ worker' \in Seq(Tasks)
       /\ \/ worker' = worker
          \/ /\ Len(worker') = Len(worker) + 1 /\ worker'[Len(worker) + 1] = remove
             /\ \A i \in 1 .. Len(worker) : worker'[i] = worker[i]
  <2>1. worker \in Seq(Tasks)
    BY InvFacts
  <2>2. CASE worker' = worker
    BY <2>1, <2>2
  <2>3. CASE worker' = Append(worker, remove)
    BY <1>6, <2>1, <2>3, AppendProperties
  <2> QED  BY <1>1, <2>2, <2>3
<1>15. \A i \in 1 .. Len(worker') :
           \/ i \in 1 .. Len(worker) /\ worker'[i] = worker[i]
           \/ worker'[i] = remove
  <2>1. Len(worker) \in Nat
    BY InvFacts, LenProperties
  <2> QED  BY <1>14, <2>1
<1>16. TasksOnce'
  <2> SUFFICES ASSUME NEW i \in 1 .. Len(worker')
               PROVE  /\ worker'[i].get \in Asked
                      /\ worker'[i].task = "listen" =>
                          /\ worker'[i].get \notin Listening(client)
                          /\ worker'[i].get \notin muted' /\ told'[worker'[i].get] = <<>>
                          /\ \A j \in 1 .. n - 1 : main'[j].get # worker'[i].get
                          /\ \A j \in 1 .. Len(worker') :
                                worker'[j].task = "listen"
                                /\ worker'[j].get = worker'[i].get => j = i
    BY <1>1, <1>3, <1>8 DEF TasksOnce
  <2>1. CASE i \in 1 .. Len(worker) /\ worker'[i] = worker[i]
    <3>1. /\ worker[i].get \in Asked
          /\ worker[i].task = "listen" =>
                /\ worker[i].get \notin Listening(client)
                /\ worker[i].get \notin muted /\ told[worker[i].get] = <<>>
                /\ \A j \in 1 .. n : main[j].get # worker[i].get
                /\ \A j \in 1 .. Len(worker) :
                       worker[j].task = "listen" /\ worker[j].get = worker[i].get => j = i
      BY <2>1 DEF Inv, TasksOnce, n
    <3>2. worker[i].task = "listen" => worker[i].get # g
      BY <1>3, <1>7, <3>1 DEF g
    <3>3. worker[i] \in Tasks /\ worker[i].get \in Gets
      <4>1. worker[i] \in Tasks
        BY <2>1, InvFacts, ElementOfSeq
      <4> QED  BY <4>1 DEF Tasks
    <3>4. ASSUME worker[i].task = "listen"
          PROVE  /\ worker[i].get \notin muted' /\ told'[worker[i].get] = <<>>
                 /\ \A j \in 1 .. n - 1 : main'[j].get # worker[i].get
      BY <1>7, <1>11, <1>12, <1>13, <3>1, <3>2, <3>3, <3>4
    <3>5. ASSUME worker[i].task = "listen", NEW j \in 1 .. Len(worker'),
                 worker'[j].task = "listen", worker'[j].get = worker[i].get
          PROVE  j = i
      BY <1>6, <1>15, <3>1, <3>5
    <3> QED  BY <2>1, <3>1, <3>4, <3>5
  <2>2. CASE worker'[i] = remove
    BY <1>6, <1>9, <2>2
  <2> QED  BY <1>15, <2>1, <2>2
<1>17. EventsOnce'
  <2> SUFFICES ASSUME NEW i \in 1 .. n - 1
               PROVE  /\ main'[i].get \in Asked
                      /\ main'[i].from = "denied" =>
                            /\ main'[i].get \notin Listening(client)
                            /\ \A j \in 1 .. n - 1 : j > i => main'[j].get # main'[i].get
    BY <1>1, <1>3, <1>8 DEF EventsOnce
  <2>1. /\ main[i + 1].get \in Asked
        /\ main[i + 1].from = "denied" =>
              /\ main[i + 1].get \notin Listening(client)
              /\ \A j \in 1 .. n : j > i + 1 => main[j].get # main[i + 1].get
    BY <1>7 DEF Inv, EventsOnce, n
  <2> QED  BY <1>7, <1>13, <2>1
<1>18. AnsweredGets'
  <2>1. muted' \subseteq Asked
    BY <1>9, <1>12 DEF Inv, AnsweredGets
  <2> SUFFICES ASSUME NEW h \in Gets, told'[h] # <<>>
               PROVE  /\ h \in Asked /\ Len(told'[h]) = 1
                      /\ h \notin muted' => /\ h \notin Listening(client)
                                           /\ \A j \in 1 .. n - 1 : main'[j].get # h
    BY <1>1, <1>3, <1>8, <2>1 DEF AnsweredGets
  <2>2. CASE told'[h] = told[h]
    <3>1. /\ h \in Asked /\ Len(told[h]) = 1
          /\ h \notin muted => /\ h \notin Listening(client)
                               /\ \A j \in 1 .. n : main[j].get # h
      BY <2>2 DEF Inv, AnsweredGets, n
    <3> QED  BY <1>7, <1>12, <1>13, <2>2, <3>1
  <2>3. CASE h = g /\ g \notin muted /\ told'[g] = <<answer>>
    <3>1. ASSUME e.from = "denied"
          PROVE  g \notin Listening(client) /\ \A j \in 1 .. n : j > 1 => main[j].get # g
      BY <1>3, <1>7, <3>1 DEF Inv, EventsOnce, n, g
    <3>2. Len(<<answer>>) = 1
      OBVIOUS
    <3> QED  BY <1>7, <1>9, <1>12, <1>13, <2>3, <3>1, <3>2
  <2> QED  BY <1>11, <2>2, <2>3
<1>19. EventsFresh'
  <2> SUFFICES ASSUME NEW i \in 1 .. n - 1, main'[i].from = "server"
               PROVE  main'[i].v >= since[main'[i].get]
    BY <1>1, <1>3 DEF EventsFresh
  <2> QED  BY <1>7, <1>13 DEF Inv, EventsFresh, n
<1>20. FreshAnswer'
  <2> SUFFICES ASSUME NEW h \in Gets, NEW i \in DOMAIN told'[h], told'[h][i].from = "server"
               PROVE  told'[h][i].v >= since[h]
    BY <1>1 DEF FreshAnswer
  <2>1. CASE told'[h] = told[h]
    BY <2>1 DEF Inv, FreshAnswer
  <2>2. CASE h = g /\ told'[g] = <<answer>>
    <3>1. i = 1 /\ told'[h][i] = answer
      BY <2>2
    <3>2. e.from = "server"
      BY <1>5, <3>1
    <3>3. e.v >= since[g]
      BY <1>3, <1>7, <3>2 DEF Inv, EventsFresh, n, g
    <3> QED  BY <1>5, <2>2, <3>1, <3>3
  <2> QED  BY <1>11, <2>1, <2>2
<1>21. ClientOK(client)' /\ ListensSince(client, since)'
  <2>1. ClientOK(client')
    BY <1>1, InvFacts
  <2> QED  BY <1>1, <2>1, InvFacts, ClientNext DEF ListensSince
<1>22. TypeOK'
  BY <1>1, <1>3, <1>11, <1>12, <1>14 DEF Inv, TypeOK, Tasks, Answers
<1> QED  BY <1>16, <1>17, <1>18, <1>19, <1>20, <1>21, <1>22 DEF Inv

-----------------------------------------------------------------------------
(* Writes of other clients, the network, and the beginning.                *)

LEMMA ServerInv == ASSUME Inv, NEW d \in Docs, ServerWrite(d) PROVE Inv'
<1>1. /\ server[d] < MaxVersion /\ server' = [server EXCEPT ![d] = @ + 1]
      /\ UNCHANGED <<asked, worker, main, muted, told, since, client, reachable, faults>>
  BY DEF ServerWrite, callVars
<1>2. server \in [Docs -> Versions] /\ client \in Clients
  BY InvFacts
<1>3. server[d] \in Nat /\ MaxVersion \in Nat /\ server[d] + 1 \in Versions
  BY <1>1, <1>2, NumbersOfVersions DEF Versions
<1>4. server' \in [Docs -> Versions]
  BY <1>1, <1>2, <1>3
<1>5. \A e \in Docs : server'[e] \in Nat /\ server[e] \in Nat /\ server[e] <= server'[e]
  <2> SUFFICES ASSUME NEW e \in Docs
               PROVE  server'[e] \in Nat /\ server[e] \in Nat /\ server[e] <= server'[e]
    OBVIOUS
  <2>1. server'[e] \in Nat /\ server[e] \in Nat
    BY <1>2, <1>4, NumbersOfVersions
  <2>2. CASE e = d
    <3>1. server'[e] = server[e] + 1
      BY <1>1, <1>2, <2>2
    <3> QED  BY ONLY <2>1, <3>1
  <2>3. CASE e # d
    <3>1. server'[e] = server[e]
      BY <1>1, <1>2, <2>3
    <3> QED  BY ONLY <2>1, <3>1
  <2> QED  BY <2>1, <2>2, <2>3
<1>6. NotAhead(client)'
  <2>1. \A e \in Docs : client.view[e].since \in Nat
    BY <1>2, ClientFields, ViewFields
  <2>2. \A e \in Docs : client.view[e].since <= server[e]
    BY DEF Inv, ClientOK, NotAhead
  <2>3. \A e \in Docs : client.view[e].since <= server'[e]
    BY <1>5, <2>1, <2>2
  <2> QED  BY <1>1, <2>3 DEF NotAhead
<1>7. /\ Targets(client') /\ Timers(client') /\ StreamOK(client') /\ ViewsFresh(client')
      /\ Own(client)'
  BY <1>1 DEF Inv, ClientOK, Own, Asked
<1>8. ClientOK(client)' /\ ListensSince(client, since)'
  BY <1>1, <1>6, <1>7 DEF Inv, ClientOK, ListensSince
<1>9. Listening(client)' = Listening(client) /\ Asked' = Asked
  BY <1>1 DEF Listening, ListenersOf, Asked
<1>10. TasksOnce' /\ EventsOnce' /\ AnsweredGets' /\ EventsFresh' /\ FreshAnswer'
  BY <1>1, <1>9 DEF Inv, TasksOnce, EventsOnce, AnsweredGets, EventsFresh, FreshAnswer
<1>11. TypeOK'
  BY <1>1, <1>4 DEF Inv, TypeOK
<1> QED  BY <1>8, <1>10, <1>11 DEF Inv

LEMMA NetworkInv == Inv /\ (NetworkChange \/ UNCHANGED vars) => Inv'
<1> SUFFICES ASSUME Inv, NetworkChange \/ UNCHANGED vars
             PROVE  Inv'
  OBVIOUS
<1>1. /\ UNCHANGED <<asked, worker, main, muted, told, since, client, server>>
      /\ reachable' \in BOOLEAN /\ faults' \in 0 .. MaxFaults
  <2>1. CASE NetworkChange
    BY <2>1, InvFacts, OneMoreFault DEF NetworkChange, callVars
  <2>2. CASE UNCHANGED vars
    BY <2>2, InvFacts DEF vars
  <2> QED  BY <2>1, <2>2
<1>2. ClientOK(client)' /\ ListensSince(client, since)'
  <2>1. ClientOK(client')
    BY <1>1, InvFacts
  <2> QED  BY <1>1, <2>1, InvFacts, ClientNext DEF ListensSince
<1>3. Listening(client)' = Listening(client) /\ Asked' = Asked
  BY <1>1 DEF Listening, ListenersOf, Asked
<1>4. TasksOnce' /\ EventsOnce' /\ AnsweredGets' /\ EventsFresh' /\ FreshAnswer'
  BY <1>1, <1>3 DEF Inv, TasksOnce, EventsOnce, AnsweredGets, EventsFresh, FreshAnswer
<1>5. TypeOK'
  BY <1>1 DEF Inv, TypeOK
<1> QED  BY <1>2, <1>4, <1>5 DEF Inv

LEMMA NextInv == Inv /\ [Next]_vars => Inv'
<1> SUFFICES ASSUME Inv, [Next]_vars
             PROVE  Inv'
  OBVIOUS
<1>1. CASE \E d \in Docs : GetDocument(d) \/ ServerWrite(d)
  BY <1>1, GetInv, ServerInv
<1>2. CASE OnEvent
  BY <1>2, EventInv
<1>3. CASE Worker
  BY <1>3, ListenInv, RemoveInv DEF Worker
<1>4. CASE OnlineStateTimeout \/ BackoffElapsed \/ IdleTimeout \/ ResumeStart
  BY <1>4, TimerInv
<1>5. CASE TokenFails \/ StreamBreaks \/ KeepaliveFails
  BY <1>5, FaultInv
<1>6. CASE OnStreamRead
  BY <1>6, ReadInv
<1>7. CASE \E network \in BOOLEAN : NetworkRestarts(network)
  BY <1>7, RestartInv
<1>8. CASE Backend
  BY <1>8, BackendInv
<1>9. CASE NetworkChange \/ UNCHANGED vars
  BY <1>9, NetworkInv
<1> QED  BY <1>1, <1>2, <1>3, <1>4, <1>5, <1>6, <1>7, <1>8, <1>9 DEF Next

LEMMA InitInv == Init => Inv
<1> SUFFICES ASSUME Init
             PROVE  Inv
  OBVIOUS
<1> USE DEF Init
<1> DEFINE none == <<>>
           c == client
<1>1. /\ none \in Seq(Docs) /\ none \in Seq(Tasks) /\ none \in Seq(Notices)
      /\ none \in Seq(WatchRequests) /\ none \in Seq(Messages) /\ Len(none) = 0
      /\ none \in Seq([v : Versions, from : {"server", "cache", "unavailable", "denied"}])
      /\ \A i \in 1 .. 0 : FALSE
  OBVIOUS
<1>2. /\ 0 \in Versions /\ 1 \in Versions /\ 0 \in Nat /\ MaxGets \in Nat /\ 0 <= MaxGets
      /\ 0 \in 0 .. MaxFaults /\ Cached \in [Docs -> Versions]
  <2>1. 0 \in Versions /\ 1 \in Versions /\ MaxGets \in Nat /\ MaxFaults \in Nat
    BY NumbersOfVersions
  <2>2. Cached \in [Docs -> Versions]
    BY <2>1, CachedAssumption
  <2> QED  BY <2>1, <2>2
<1>3. NoView \in Views /\ NoState \in TargetStates
  BY <1>2 DEF NoView, NoState, Views, TargetStates
<1>4. /\ NoNet \in Nets /\ NoNet.up = none /\ NoNet.down = none
      /\ NoNet.sent = [d \in Docs |-> "none"] /\ ~NoNet.news
  BY <1>1, <1>2 DEF NoNet, Nets
<1>5. NoStates \in [Docs -> TargetStates] /\ \A d \in Docs : NoStates[d] = NoState
  BY <1>3 DEF NoStates
<1>6. /\ c.listeners = [d \in Docs |-> {}] /\ c.view = [d \in Docs |-> NoView]
      /\ c.cache = Cached /\ c.targets = {} /\ c.states = NoStates /\ c.updates = Zero
      /\ c.online = "Unknown" /\ ~c.failed /\ ~c.timer /\ c.stream = "Initial"
      /\ ~c.idle /\ c.net = NoNet /\ c.out = none
  BY DEF Zero
<1>7. c \in Clients
  <2> HIDE DEF none
  <2>1. client = [listeners |-> [d \in Docs |-> {}], raised |-> {},
                  view |-> [d \in Docs |-> NoView], cache |-> Cached,
                  targets |-> {}, states |-> NoStates, updates |-> Zero,
                  online |-> "Unknown", failed |-> FALSE, timer |-> FALSE,
                  stream |-> "Initial", idle |-> FALSE, net |-> NoNet, out |-> none]
    BY DEF none, Zero
  <2>2. Zero \in [Docs -> Versions] /\ [d \in Docs |-> NoView] \in [Docs -> Views]
        /\ [d \in Docs |-> {}] \in [Docs -> SUBSET Gets]
    BY <1>2, <1>3 DEF Zero
  <2>3. Clients =
          [listeners : [Docs -> SUBSET Gets], raised : SUBSET Gets, view : [Docs -> Views],
           cache : [Docs -> Versions], targets : SUBSET Docs,
           states : [Docs -> TargetStates], updates : [Docs -> Versions],
           online : {"Unknown", "Online", "Offline"}, failed : BOOLEAN, timer : BOOLEAN,
           stream : Streams, idle : BOOLEAN, net : Nets, out : Seq(Notices)]
    BY DEF Clients, Views, TargetStates, Streams, Nets, WatchRequests
  <2> HIDE DEF Init, c
  <2> QED  BY <1>1, <1>2, <1>4, <1>5, <2>1, <2>2, <2>3 DEF Streams, c
<1> HIDE DEF none, Init, c
<1>8. Targets(c) /\ Timers(c)
  BY <1>6 DEF Targets, Timers, NoView
<1>9. Silent(c)
  BY <1>6 DEF Silent
<1>10. Counted(c)
  BY <1>4, <1>5, <1>6, HitsOfEmpty DEF Counted, NoState, none
<1>11. Unknown(c)
  BY <1>1, <1>4, <1>5, <1>6, DeniedAssumption DEF Unknown, NoState
<1>12. StatesFresh(c) /\ DocumentsFresh(c) /\ CurrentsFresh(c)
  BY <1>1, <1>4, <1>6 DEF StatesFresh, DocumentsFresh, CurrentsFresh
<1>13. ViewsFresh(c)
  BY <1>6 DEF ViewsFresh, NoView
<1>14. NotAhead(c) /\ server \in [Docs -> Versions]
  BY <1>2, <1>6 DEF NotAhead, NoView, Init
<1>15. Own(c) /\ ListensSince(c, since)
  BY <1>6 DEF Own, ListensSince
<1>16. ClientOK(client) /\ ListensSince(client, since)
  BY <1>8, <1>9, <1>10, <1>11, <1>12, <1>13, <1>14, <1>15 DEF ClientOK, StreamOK, c
<1>17. /\ asked = none /\ worker = none /\ main = none /\ muted = {}
       /\ told = [g \in Gets |-> none] /\ since = [g \in Gets |-> 0]
       /\ reachable = TRUE /\ faults = 0
  BY DEF Init, none
<1>18. TasksOnce /\ EventsOnce /\ EventsFresh
  BY <1>1, <1>17 DEF TasksOnce, EventsOnce, EventsFresh
<1>19. AnsweredGets /\ FreshAnswer
  <2>1. \A g \in Gets : told[g] = none /\ told[g] = <<>>
    BY <1>17 DEF none
  <2>2. DOMAIN none = {}
    BY DEF none
  <2> QED  BY <1>17, <2>1, <2>2 DEF AnsweredGets, FreshAnswer
<1>20. \A d \in Docs \ Denied : client.states[d].outstanding \in Nat
  BY <1>2, <1>5, <1>6 DEF NoState, c
<1>21. TypeOK
  <2>1. client.out = <<>>
    BY <1>6 DEF none, c
  <2> QED  BY <1>1, <1>2, <1>7, <1>14, <1>17, <1>20, <2>1 DEF TypeOK, c, Tasks
<1> QED  BY <1>16, <1>18, <1>19, <1>21 DEF Inv

-----------------------------------------------------------------------------
(* The theorems.                                                           *)

LEMMA SpecInv == Spec => []Inv
<1>1. Init => Inv
  BY InitInv
<1>2. Inv /\ [Next]_vars => Inv'
  BY NextInv
<1> QED  BY <1>1, <1>2, PTL DEF Spec

(* The types of the read path; no target that can be read waits for fewer  *)
(* than no responses.                                                      *)
THEOREM ReadsTypes == Spec => []TypeOK
<1>1. Inv => TypeOK
  BY DEF Inv
<1> QED  BY <1>1, SpecInv, PTL

(* getDocument answers its caller once, whatever else its listener raises  *)
(* before the worker queue removes it.                                     *)
THEOREM ReadsAnsweredOnce == Spec => []AnsweredOnce
<1>1. Inv => AnsweredOnce
  <2> SUFFICES ASSUME Inv, NEW g \in Gets
               PROVE  Len(told[g]) <= 1
    BY DEF AnsweredOnce
  <2>1. CASE told[g] = <<>>
    <3>1. Len(<<>>) = 0
      OBVIOUS
    <3> QED  BY <2>1, <3>1
  <2>2. CASE told[g] # <<>>
    <3>1. Len(told[g]) = 1
      BY <2>2 DEF Inv, AnsweredGets
    <3> QED  BY <3>1
  <2> QED  BY <2>1, <2>2
<1> QED  BY <1>1, SpecInv, PTL

(* An answer that is said to come from the server is not older than what   *)
(* the server had when the client began to listen.                         *)
THEOREM ReadsFreshAnswer == Spec => []FreshAnswer
<1>1. Inv => FreshAnswer
  BY DEF Inv
<1> QED  BY <1>1, SpecInv, PTL

(* The client waits for exactly the responses that are still to come for a *)
(* target that can be read.                                                *)
THEOREM ReadsResponsesCounted == Spec => []ResponsesCounted
<1>1. Inv => ResponsesCounted
  <2> SUFFICES ASSUME Inv, NEW d \in Docs \ Denied
               PROVE  client.states[d].outstanding =
                          Cardinality({i \in DOMAIN net.up : net.up[i].doc = d})
                          + Cardinality({i \in DOMAIN net.down :
                                net.down[i].kind \in {"added", "removed"}
                                /\ net.down[i].doc = d})
    BY DEF ResponsesCounted
  <2> DEFINE up == client.net.up
             down == client.net.down
  <2>1. up \in Seq(WatchRequests) /\ down \in Seq(Messages)
    BY InvFacts, ClientFields DEF Nets
  <2>2. client.states[d].outstanding =
            HitsOf(up, RequestsFor(d)) + HitsOf(down, ResponsesFor(d))
    BY DEF Inv, ClientOK, StreamOK, Counted
  <2> HIDE DEF up, down
  <2>3. {i \in DOMAIN up : up[i].doc = d} = Hits(up, RequestsFor(d))
    <3>1. DOMAIN up = 1 .. Len(up) /\ \A i \in 1 .. Len(up) : up[i] \in WatchRequests
      BY <2>1, LenProperties, ElementOfSeq
    <3>2. \A i \in 1 .. Len(up) : up[i].doc = d <=> up[i] \in RequestsFor(d)
      BY <3>1 DEF WatchRequests, RequestsFor
    <3> QED  BY <3>1, <3>2 DEF Hits
  <2>4. {i \in DOMAIN down : down[i].kind \in {"added", "removed"} /\ down[i].doc = d}
            = Hits(down, ResponsesFor(d))
    <3>1. DOMAIN down = 1 .. Len(down) /\ \A i \in 1 .. Len(down) : down[i] \in Messages
      BY <2>1, LenProperties, ElementOfSeq
    <3>2. \A i \in 1 .. Len(down) :
              down[i] \in ResponsesFor(d)
                  <=> down[i].kind \in {"added", "removed"} /\ down[i].doc = d
      BY <3>1, ResponsesOf
    <3> QED  BY <3>1, <3>2 DEF Hits
  <2> QED  BY <2>2, <2>3, <2>4 DEF HitsOf, up, down, net
<1> QED  BY <1>1, SpecInv, PTL

(* The assertions of EventManager, SyncEngine, RemoteStore and             *)
(* OnlineStateTracker hold: a target for every view, an idle timer that    *)
(* stops no stream that is needed, a timer for the state Unknown only.     *)
THEOREM ReadsAssertions == Spec => []AssertionsHold
<1>1. Inv => AssertionsHold
  BY DEF Inv, ClientOK, Targets, Timers, AssertionsHold
<1> QED  BY <1>1, SpecInv, PTL
=============================================================================
