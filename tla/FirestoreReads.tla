--------------------------- MODULE FirestoreReads ---------------------------
(***************************************************************************)
(* The read path of the Firestore client the app is built on: getDocument  *)
(* listens to a document on the watch stream until the first event, which  *)
(* is the answer (DocumentReference, EventManager, QueryListener,          *)
(* SyncEngine, View, RemoteStore, OnlineStateTracker,                      *)
(* WatchChangeAggregator, LocalStore).                                     *)
(*                                                                         *)
(* Two serial queues run it.  Listeners, views and the stream belong to    *)
(* the worker queue: a task of it, a timer or a message of the stream is   *)
(* one step here.  Events go to the main queue, where the caller is        *)
(* answered and the listener removed.  The backend and the network are     *)
(* the other actors.                                                       *)
(*                                                                         *)
(* A document is its version, which local writes leave alone, and a cached *)
(* version of 0 stands for a document that is not in the cache.  External, *)
(* and assumed: the backend answers the requests of a stream in order,     *)
(* denies a document always or never, and sends a global snapshot only     *)
(* when each of its targets is current; the versions of its snapshots do   *)
(* not go back.  Existence filters and resets, which it sends for queries, *)
(* and resume tokens are left out.  A token that comes for a stream that   *)
(* was closed is ignored (AssertionsHold of FirestoreWrites, which has the *)
(* same base class), so a stream that starts has one token to wait for.    *)
(***************************************************************************)
EXTENDS Integers, SequencesExt

CONSTANTS
    Docs,           \* the documents that are read
    Denied,         \* those the backend's rules deny
    Cached,         \* document -> its version in the cache at the start
    MaxGets,        \* bound: calls of getDocument
    MaxVersion,     \* bound: the versions of a document
    MaxFaults       \* bound: streams that break, tokens that fail, changes of
                    \* the user, of the network and of reachable

ASSUME DocsAssumption == IsFiniteSet(Docs)
ASSUME DeniedAssumption == Denied \subseteq Docs
ASSUME CachedAssumption == Cached \in [Docs -> {0, 1}]
ASSUME BoundsAssumption ==
    MaxGets \in Nat /\ MaxVersion \in Nat \ {0} /\ MaxFaults \in Nat

Gets == 1 .. MaxGets

VARIABLES
    asked,      \* the documents of the calls of getDocument so far, in order
    worker,     \* the tasks of the worker queue
    main,       \* the events on their way to the callers, on the main queue
    muted,      \* the gets whose AsyncEventListener is muted
    told,       \* get -> the answers its caller was given
    client,     \* what belongs to the worker queue, see below
    server,     \* document -> its version at the backend
    since,      \* get -> the version at the backend when its listen began
    reachable,  \* does the network lead to the backend?
    faults      \* the faults so far

vars == <<asked, worker, main, muted, told, client, server, since, reachable,
          faults>>
callVars  == <<asked, muted, told>>
worldVars == <<server, reachable, faults>>

(* client is a record:                                                     *)
(*   listeners  EventManager's queries_: document -> the gets that listen  *)
(*   raised     the listening gets whose raised_initial_event_ is set      *)
(*   view       SyncEngine's query_views_by_query_: is there a view, is it *)
(*              current_, which version does it show, and (history) which  *)
(*              version had the backend when the view was made             *)
(*   cache      LocalStore's remote documents                              *)
(*   targets    RemoteStore's listen_targets_                              *)
(*   states     WatchChangeAggregator's target_states_                     *)
(*   updates    its pending_document_updates_                              *)
(*   online, failed, timer    OnlineStateTracker's state_, whether         *)
(*              watch_stream_failures_ > 0, online_state_timer_            *)
(*   stream, idle    the watch stream's state_ and idle timer              *)
(*   net        the gRPC stream: the requests and the responses on their   *)
(*              way, and what the backend has sent of each target          *)
(*   out        the events raised in this step                             *)

NoView == [open |-> FALSE, current |-> FALSE, v |-> 0, since |-> 0]
NoState == [has |-> FALSE, outstanding |-> 0, current |-> FALSE, changed |-> TRUE]
NoStates == [d \in Docs |-> NoState]
NoNet == [up |-> <<>>, down |-> <<>>, sent |-> [d \in Docs |-> "none"],
          version |-> [d \in Docs |-> 0], news |-> FALSE]

-----------------------------------------------------------------------------
(* EventManager and QueryListener *)

(* The listeners in gets, in the order in which they were added.           *)
InOrder(gets) ==
    CHOOSE order \in [1 .. Cardinality(gets) -> gets] :
        \A i, j \in 1 .. Cardinality(gets) : i < j => order[i] < order[j]

ListenersOf(c, docs) == UNION {c.listeners[d] : d \in docs}

(* A listener raises its first event when the view is in sync or the       *)
(* client offline, and every event after it.                               *)
Ready(c, gets) ==
    {g \in gets : g \in c.raised \/ c.view[asked[g]].current \/ c.online = "Offline"}

Event(c, g) ==
    LET view == c.view[asked[g]]
    IN  [get |-> g, from |-> IF view.current THEN "server" ELSE "cache", v |-> view.v]

(* Snapshots of their views for the listeners in gets.                     *)
OnViewSnapshots(c, gets) ==
    LET order == InOrder(Ready(c, gets))
    IN  [c EXCEPT !.raised = @ \cup Ready(c, gets),
                  !.out = @ \o [i \in DOMAIN order |-> Event(c, order[i])]]

OnError(c, d) ==
    LET order == InOrder(c.listeners[d])
    IN  [c EXCEPT !.listeners[d] = {}, !.raised = @ \ c.listeners[d],
                  !.out = @ \o [i \in DOMAIN order |->
                                   [get |-> order[i], from |-> "denied", v |-> 0]]]

(* Views that were current are not when the client is offline; then the    *)
(* listeners that still wait are told of the new state                     *)
(* (SyncEngine::HandleOnlineStateChange).                                  *)
HandleOnlineStateChange(c, state) ==
    LET lost == {d \in Docs : state = "Offline" /\ c.view[d].current}
        down == [c EXCEPT !.view = [d \in Docs |->
                    IF d \in lost THEN [@[d] EXCEPT !.current = FALSE] ELSE @[d]]]
        told1 == [OnViewSnapshots(down, ListenersOf(c, lost)) EXCEPT !.online = state]
    IN  OnViewSnapshots(told1, ListenersOf(c, Docs) \ told1.raised)

-----------------------------------------------------------------------------
(* OnlineStateTracker *)

SetAndBroadcast(c, state) ==
    IF state = c.online THEN c ELSE HandleOnlineStateChange(c, state)

UpdateState(c, state) ==
    SetAndBroadcast([c EXCEPT !.timer = FALSE, !.failed = FALSE], state)

HandleWatchStreamStart(c) ==
    IF c.failed THEN c
    ELSE [SetAndBroadcast(c, "Unknown") EXCEPT !.timer = TRUE]

(* Mutant: a failure never leads offline. *)
FailureKeepsUnknown(c) == SetAndBroadcast([c EXCEPT !.timer = FALSE], "Unknown")

(* One failure is enough (kMaxWatchStreamFailures). *)
HandleWatchStreamFailure(c) ==
    IF c.online = "Online" THEN SetAndBroadcast(c, "Unknown")
    ELSE SetAndBroadcast([c EXCEPT !.failed = TRUE, !.timer = FALSE], "Offline")

-----------------------------------------------------------------------------
(* RemoteStore and the watch stream *)

IsStarted(c) == c.stream \in {"Starting", "Backoff", "Open"}
ShouldStartWatchStream(c) == ~IsStarted(c) /\ c.targets # {}

StartWatchStream(c) ==
    HandleWatchStreamStart(
        [c EXCEPT !.states = NoStates, !.updates = [d \in Docs |-> 0],
                  !.stream = IF @ = "Error" THEN "Backoff" ELSE "Starting"])

RecordPendingTargetRequest(s) == [s EXCEPT !.has = TRUE, !.outstanding = @ + 1]

(* Mutant: writing does not cancel the idle timer. *)
RequestKeepsIdle(c, op, docs) ==
    [c EXCEPT !.states = [d \in Docs |->
                  IF d \in docs THEN RecordPendingTargetRequest(@[d]) ELSE @[d]],
              !.net.up = @ \o SetToSeq({[op |-> op, doc |-> d] : d \in docs})]

(* A request waits for its response in outstanding_responses_. *)
Request(c, op, docs) ==
    [c EXCEPT !.states = [d \in Docs |->
                  IF d \in docs THEN RecordPendingTargetRequest(@[d]) ELSE @[d]],
              !.net.up = @ \o SetToSeq({[op |-> op, doc |-> d] : d \in docs}),
              !.idle = @ /\ docs = {}]

SendWatchRequest(c, docs) == Request(c, "watch", docs)

(* Mutant: the response to an unwatch request is not waited for. *)
SendUnwatchUncounted(c, d) ==
    [c EXCEPT !.net.up = Append(@, [op |-> "unwatch", doc |-> d]), !.idle = FALSE]

SendUnwatchRequest(c, d) == Request(c, "unwatch", {d})

Closed(c, state) ==
    [c EXCEPT !.stream = state, !.idle = FALSE, !.net = NoNet, !.states = NoStates,
              !.updates = [d \in Docs |-> 0]]

(* OnWatchStreamClose for an error. *)
StreamFails(c) ==
    LET closed == Closed(c, "Error")
    IN  IF ShouldStartWatchStream(closed)
        THEN StartWatchStream(HandleWatchStreamFailure(closed))
        ELSE UpdateState(closed, "Unknown")

(* Stop, and OnWatchStreamClose for a stream that is not needed. *)
StreamStops(c) ==
    IF IsStarted(c) THEN UpdateState(Closed(c, "Initial"), "Unknown") ELSE c

RestartNetwork(c) ==
    LET stopped == [UpdateState(StreamStops(c), "Unknown") EXCEPT !.stream = "Initial"]
    IN  IF ShouldStartWatchStream(stopped) THEN StartWatchStream(stopped)
        ELSE UpdateState(stopped, "Unknown")

Listen(c, d) ==
    LET added == [c EXCEPT !.targets = @ \cup {d}]
    IN  IF ShouldStartWatchStream(added) THEN StartWatchStream(added)
        ELSE IF c.stream = "Open" THEN SendWatchRequest(added, {d})
        ELSE added

StopListening(c, d) ==
    LET left == [c EXCEPT !.targets = @ \ {d}]
        sent == IF c.stream = "Open" THEN SendUnwatchRequest(left, d) ELSE left
    IN  IF sent.targets # {} THEN sent
        ELSE IF c.stream = "Open" THEN [sent EXCEPT !.idle = TRUE]
        ELSE UpdateState(sent, "Unknown")

-----------------------------------------------------------------------------
(* The tasks of the worker queue *)

(* AddQueryListener and SyncEngine::Listen: the first listener of a        *)
(* document makes a view of what is cached and asks the backend for it.    *)
AddQueryListener(c, g, d) ==
    LET added == [c EXCEPT !.listeners[d] = @ \cup {g}]
        viewed == [added EXCEPT !.view[d] =
                      [open |-> TRUE, current |-> FALSE, v |-> c.cache[d],
                       since |-> server[d]]]
    IN  IF c.listeners[d] # {} THEN OnViewSnapshots(added, {g})
        ELSE Listen(OnViewSnapshots(viewed, {g}), d)

(* RemoveQueryListener and SyncEngine::StopListening. *)
RemoveQueryListener(c, g, d) ==
    LET removed == [c EXCEPT !.listeners[d] = @ \ {g}, !.raised = @ \ {g}]
    IN  IF c.listeners[d] = {} \/ removed.listeners[d] # {} THEN removed
        ELSE StopListening([removed EXCEPT !.view[d] = NoView], d)

-----------------------------------------------------------------------------
(* WatchChangeAggregator *)

IsPending(c, d) == c.states[d].outstanding # 0
IsActiveTarget(c, d) == d \in c.targets /\ ~IsPending(c, d)

(* Mutant: the response is not recorded. *)
TargetAddedUncounted(c, d) ==
    [c EXCEPT !.states[d] = [@ EXCEPT !.has = TRUE,
                                      !.changed = @ /\ c.states[d].outstanding # 0]]

(* RecordTargetResponse of an added and of a removed target. *)
TargetAdded(c, d) ==
    LET s == [c.states[d] EXCEPT !.has = TRUE, !.outstanding = @ - 1]
    IN  [c EXCEPT !.states[d] =
            IF s.outstanding = 0 THEN [s EXCEPT !.changed = FALSE] ELSE s]

TargetRemoved(c, d) ==
    LET s == [c.states[d] EXCEPT !.has = TRUE, !.outstanding = @ - 1]
    IN  [c EXCEPT !.states[d] = IF s.outstanding = 0 THEN NoState ELSE s]

TargetCurrent(c, d) ==
    [c EXCEPT !.states[d] =
        IF IsActiveTarget(c, d)
        THEN [@ EXCEPT !.has = TRUE, !.current = TRUE, !.changed = TRUE]
        ELSE [@ EXCEPT !.has = TRUE]]

HandleDocumentChange(c, d, v) ==
    IF ~IsActiveTarget(c, d) THEN c
    ELSE [c EXCEPT !.states[d] = [@ EXCEPT !.has = TRUE, !.changed = TRUE],
                   !.updates[d] = v]

(* ProcessTargetError and HandleRejectedListen. *)
ProcessTargetError(c, d) ==
    IF d \notin c.targets THEN c
    ELSE OnError([c EXCEPT !.targets = @ \ {d}, !.states[d] = NoState,
                           !.view[d] = NoView], d)

(* RaiseWatchSnapshot, CreateRemoteEvent, LocalStore::ApplyRemoteEvent and *)
(* SyncEngine::EmitNewSnapshotsAndNotifyLocalStore.                        *)
RaiseWatchSnapshot(c) ==
    LET changed == {d \in Docs : c.states[d].has /\ IsActiveTarget(c, d)
                                    /\ c.states[d].changed}
        cache == [d \in Docs |-> IF c.updates[d] > c.cache[d] THEN c.updates[d]
                                 ELSE c.cache[d]]
        view == [d \in Docs |->
                    IF ~c.view[d].open THEN c.view[d]
                    ELSE [c.view[d] EXCEPT
                            !.v = cache[d],
                            !.current = IF d \in changed THEN c.states[d].current ELSE @]]
        applied == [c EXCEPT
                      !.cache = cache, !.view = view,
                      !.updates = [d \in Docs |-> 0],
                      !.states = [d \in Docs |-> IF d \in changed
                                    THEN [@[d] EXCEPT !.changed = FALSE] ELSE @[d]]]
    IN  OnViewSnapshots(applied, ListenersOf(c, {d \in Docs : view[d] # c.view[d]}))

OnWatchStreamChange(c, m) ==
    LET on == UpdateState(c, "Online")
    IN  CASE m.kind = "added"    -> TargetAdded(on, m.doc)
          [] m.kind = "removed"  -> TargetRemoved(on, m.doc)
          [] m.kind = "denied"   -> ProcessTargetError(on, m.doc)
          [] m.kind = "document" -> HandleDocumentChange(on, m.doc, m.v)
          [] m.kind = "current"  -> TargetCurrent(on, m.doc)
          [] m.kind = "snapshot" -> RaiseWatchSnapshot(on)
-----------------------------------------------------------------------------
Init ==
    /\ asked = <<>>
    /\ worker = <<>>
    /\ main = <<>>
    /\ muted = {}
    /\ told = [g \in Gets |-> <<>>]
    /\ server = [d \in Docs |-> 1]
    /\ since = [g \in Gets |-> 0]
    /\ client = [listeners |-> [d \in Docs |-> {}], raised |-> {},
                   view |-> [d \in Docs |-> NoView], cache |-> Cached,
                   targets |-> {}, states |-> NoStates,
                   updates |-> [d \in Docs |-> 0],
                   online |-> "Unknown", failed |-> FALSE, timer |-> FALSE,
                   stream |-> "Initial", idle |-> FALSE, net |-> NoNet, out |-> <<>>]
    /\ reachable = TRUE
    /\ faults = 0

(* A step of the worker queue leads to c: what it raised goes to the main  *)
(* queue (AsyncEventListener::OnEvent).                                    *)
Becomes(c) ==
    /\ client' = [c EXCEPT !.out = <<>>]
    /\ main' = main \o c.out

-----------------------------------------------------------------------------
(* The main queue *)

GetDocument(d) ==
    /\ Len(asked) < MaxGets
    /\ asked' = Append(asked, d)
    /\ worker' = Append(worker, [task |-> "listen", get |-> Len(asked) + 1])
    /\ UNCHANGED <<main, muted, told, client, since, worldVars>>

(* Mutant: the listener is removed and not muted. *)
OnEventUnmuted ==
    /\ main # <<>>
    /\ main' = Tail(main)
    /\ LET e == Head(main) IN
       /\ told' = [told EXCEPT ![e.get] = Append(@, [v |-> e.v, from |-> e.from])]
       /\ worker' = Append(worker, [task |-> "remove", get |-> e.get])
    /\ UNCHANGED <<asked, muted, client, since, worldVars>>

(* AsyncEventListener and ListenOnce::OnEvent: unless it is muted, the     *)
(* listener is removed and the caller answered; an error has removed it    *)
(* already.                                                                *)
OnEvent ==
    /\ main # <<>>
    /\ main' = Tail(main)
    /\ LET e == Head(main)
           answer == [v |-> e.v, from |-> IF e.from = "cache" /\ e.v = 0
                                          THEN "unavailable" ELSE e.from] IN
       \/ /\ e.get \in muted
          /\ UNCHANGED <<worker, muted, told>>
       \/ /\ e.get \notin muted
          /\ told' = [told EXCEPT ![e.get] = Append(@, answer)]
          /\ IF e.from = "denied" THEN UNCHANGED <<worker, muted>>
             ELSE /\ muted' = muted \cup {e.get}
                  /\ worker' = Append(worker, [task |-> "remove", get |-> e.get])
    /\ UNCHANGED <<asked, client, since, worldVars>>

-----------------------------------------------------------------------------
(* The worker queue: tasks, timers and callbacks of the stream *)

ListenToQuery ==
    /\ worker # <<>> /\ Head(worker).task = "listen"
    /\ worker' = Tail(worker)
    /\ LET g == Head(worker).get IN
       /\ Becomes(AddQueryListener(client, g, asked[g]))
       /\ since' = [since EXCEPT ![g] = client'.view[asked[g]].since]
    /\ UNCHANGED <<callVars, worldVars>>

RemoveListener ==
    /\ worker # <<>> /\ Head(worker).task = "remove"
    /\ worker' = Tail(worker)
    /\ LET g == Head(worker).get IN
       Becomes(RemoveQueryListener(client, g, asked[g]))
    /\ UNCHANGED <<callVars, since, worldVars>>

OnlineStateTimeout ==
    /\ client.timer
    /\ Becomes(SetAndBroadcast([client EXCEPT !.timer = FALSE], "Offline"))
    /\ UNCHANGED <<callVars, worker, since, worldVars>>

BackoffElapsed ==
    /\ client.stream = "Backoff"
    /\ Becomes([client EXCEPT !.stream = "Starting"])
    /\ UNCHANGED <<callVars, worker, since, worldVars>>

IdleTimeout ==
    /\ client.idle
    /\ Becomes(StreamStops(client))
    /\ UNCHANGED <<callVars, worker, since, worldVars>>

(* The token comes: the stream opens and asks for the targets. *)
ResumeStart ==
    /\ client.stream = "Starting"
    /\ Becomes(SendWatchRequest([client EXCEPT !.stream = "Open"], client.targets))
    /\ UNCHANGED <<callVars, worker, since, worldVars>>

TokenFails ==
    /\ client.stream = "Starting"
    /\ faults < MaxFaults
    /\ faults' = faults + 1
    /\ Becomes(StreamFails(client))
    /\ UNCHANGED <<callVars, worker, since, server, reachable>>

OnStreamRead ==
    /\ client.stream = "Open" /\ client.net.down # <<>> /\ reachable
    /\ Becomes(OnWatchStreamChange([client EXCEPT !.net.down = Tail(@)],
                                   Head(client.net.down)))
    /\ UNCHANGED <<callVars, worker, since, worldVars>>

(* The stream breaks although the backend can be reached, or because it    *)
(* cannot.                                                                 *)
StreamBreaks ==
    /\ client.stream = "Open" /\ reachable /\ faults < MaxFaults
    /\ faults' = faults + 1
    /\ Becomes(StreamFails(client))
    /\ UNCHANGED <<callVars, worker, since, server, reachable>>

KeepaliveFails ==
    /\ client.stream = "Open" /\ ~reachable
    /\ Becomes(StreamFails(client))
    /\ UNCHANGED <<callVars, worker, since, worldVars>>

(* The user changes, or the network: in that case the open streams have    *)
(* been ended before.                                                      *)
NetworkRestarts(network) ==
    /\ faults < MaxFaults
    /\ faults' = faults + 1
    /\ Becomes(RestartNetwork(IF network /\ client.stream = "Open"
                              THEN StreamFails(client) ELSE client))
    /\ UNCHANGED <<callVars, worker, since, server, reachable>>

-----------------------------------------------------------------------------
(* The backend and the network *)

net == client.net
Responds(n) == /\ client' = [client EXCEPT !.net = n]
               /\ UNCHANGED <<callVars, worker, main, since, worldVars>>

(* The next request: a target that the backend denied is unknown to it.    *)
BackendTakes ==
    /\ reachable /\ net.up # <<>>
    /\ LET d == Head(net.up).doc
           reply(kind, state) ==
               [net EXCEPT !.up = Tail(@), !.sent[d] = state,
                           !.down = Append(@, [kind |-> kind, doc |-> d])] IN
       IF Head(net.up).op = "unwatch" THEN Responds(reply("removed", "none"))
       ELSE IF d \in Denied THEN Responds(reply("denied", "none"))
       ELSE Responds(reply("added", "added"))

(* The document and, the first time, that the target is current. *)
BackendSends(d) ==
    /\ reachable
    /\ \/ net.sent[d] = "added"
       \/ net.sent[d] = "current" /\ net.version[d] # server[d]
    /\ LET document == [kind |-> "document", doc |-> d, v |-> server[d]]
           more == IF net.sent[d] = "added" THEN <<[kind |-> "current", doc |-> d]>>
                   ELSE <<>>
       IN  Responds([net EXCEPT !.down = @ \o <<document>> \o more,
                                !.sent[d] = "current", !.version[d] = server[d],
                                !.news = TRUE])

BackendSnapshots ==
    /\ reachable /\ net.news
    /\ \A d \in Docs : net.sent[d] # "added"
                       /\ (net.sent[d] = "current" => net.version[d] = server[d])
    /\ Responds([net EXCEPT !.down = Append(@, [kind |-> "snapshot"]), !.news = FALSE])

(* Another client changes a document, one that can be read. *)
ServerWrite(d) ==
    /\ d \notin Denied /\ server[d] < MaxVersion
    /\ server' = [server EXCEPT ![d] = @ + 1]
    /\ UNCHANGED <<callVars, worker, main, since, client, reachable, faults>>

NetworkChange ==
    /\ faults < MaxFaults
    /\ faults' = faults + 1
    /\ reachable' = ~reachable
    /\ UNCHANGED <<callVars, worker, main, since, client, server>>

-----------------------------------------------------------------------------
Worker == ListenToQuery \/ RemoveListener
Backend == BackendTakes \/ BackendSnapshots \/ \E d \in Docs : BackendSends(d)

Next ==
    \/ \E d \in Docs : GetDocument(d) \/ ServerWrite(d)
    \/ OnEvent
    \/ Worker
    \/ OnlineStateTimeout \/ BackoffElapsed \/ IdleTimeout
    \/ ResumeStart \/ TokenFails
    \/ OnStreamRead \/ StreamBreaks \/ KeepaliveFails
    \/ \E network \in BOOLEAN : NetworkRestarts(network)
    \/ Backend
    \/ NetworkChange

(* The two queues run; and the stream goes on: tokens come, a backoff ends, *)
(* a backend that can be reached answers, and the keepalive of gRPC finds   *)
(* out when it cannot.                                                      *)
Queues == OnEvent \/ Worker
Stream == BackoffElapsed \/ Backend \/ ResumeStart \/ OnStreamRead \/ KeepaliveFails

Spec == Init /\ [][Next]_vars /\ WF_vars(Queues) /\ WF_vars(Stream)

-----------------------------------------------------------------------------
Versions == 0 .. MaxVersion
Messages == [kind : {"added", "removed", "denied", "current"}, doc : Docs]
            \cup [kind : {"document"}, doc : Docs, v : Versions]
            \cup [kind : {"snapshot"}]
Notices == [get : Gets, from : {"server", "cache", "denied"}, v : Versions]
Clients ==
    [listeners : [Docs -> SUBSET Gets], raised : SUBSET Gets,
     view : [Docs -> [open : BOOLEAN, current : BOOLEAN, v : Versions, since : Versions]],
     cache : [Docs -> Versions], targets : SUBSET Docs,
     states : [Docs -> [has : BOOLEAN, outstanding : Int, current : BOOLEAN,
                        changed : BOOLEAN]],
     updates : [Docs -> Versions], online : {"Unknown", "Online", "Offline"},
     failed : BOOLEAN, timer : BOOLEAN,
     stream : {"Initial", "Starting", "Open", "Error", "Backoff"}, idle : BOOLEAN,
     net : [up : Seq([op : {"watch", "unwatch"}, doc : Docs]), down : Seq(Messages),
            sent : [Docs -> {"none", "added", "current"}],
            version : [Docs -> Versions], news : BOOLEAN],
     out : Seq(Notices)]

(* The types of the read path; a target that is not denied never waits for *)
(* fewer than no responses (TargetState::RecordTargetResponse).            *)
TypeOK ==
    /\ asked \in Seq(Docs) /\ Len(asked) <= MaxGets
    /\ worker \in Seq([task : {"listen", "remove"}, get : Gets])
    /\ main \in Seq(Notices)
    /\ muted \subseteq Gets
    /\ told \in [Gets -> Seq([v : Versions,
                              from : {"server", "cache", "unavailable", "denied"}])]
    /\ client \in Clients /\ client.out = <<>>
    /\ \A d \in Docs \ Denied : client.states[d].outstanding \in Nat
    /\ server \in [Docs -> Versions]
    /\ since \in [Gets -> Versions]
    /\ reachable \in BOOLEAN
    /\ faults \in 0 .. MaxFaults

(* A caller is answered once, although a listener that has raised its first *)
(* event goes on raising them until the worker queue removes it             *)
(* (event_listener.h, Mute; document_reference.cc, ListenOnce).             *)
AnsweredOnce == \A g \in Gets : Len(told[g]) <= 1

(* An answer that is said to come from the server is not older than what    *)
(* the server had when the client began to listen: what is still on its way *)
(* for an earlier listen to the same document is not taken for it           *)
(* (remote_event.cc, outstanding_responses_).                               *)
FreshAnswer ==
    \A g \in Gets : \A i \in DOMAIN told[g] :
        told[g][i].from = "server" => told[g][i].v >= since[g]

(* The client waits for as many responses for a target as it sent requests  *)
(* that are not answered, so a target is active when the last request was   *)
(* answered and not before (RecordPendingTargetRequest,                     *)
(* RecordTargetResponse).  A denied target is forgotten together with its   *)
(* count (ProcessTargetError), which later responses make negative.         *)
ResponsesCounted ==
    client.stream = "Open" => \A d \in Docs \ Denied :
        client.states[d].outstanding =
            Cardinality({i \in DOMAIN net.up : net.up[i].doc = d})
            + Cardinality({i \in DOMAIN net.down :
                  net.down[i].kind \in {"added", "removed"} /\ net.down[i].doc = d})

(* The assertions of the code, and what they rest on: there is a target to  *)
(* stop for every view and no other (StopListening), the idle timer stops   *)
(* no stream that is needed (OnWatchStreamClose), and the timer of the      *)
(* online state is not running when the stream is started and fires in the  *)
(* state Unknown only (HandleWatchStreamStart).                             *)
AssertionsHold ==
    /\ client.targets = {d \in Docs : client.view[d].open}
    /\ client.targets = {d \in Docs : client.listeners[d] # {}}
    /\ client.idle => client.targets = {} /\ client.stream = "Open"
    /\ client.timer => client.online = "Unknown" /\ IsStarted(client) /\ ~client.failed
    /\ client.online = "Online" => client.stream = "Open" /\ ~client.failed

(* Every call of getDocument is answered, also when the backend cannot be   *)
(* reached any more, from the cache or with an error                        *)
(* (OnlineStateTracker, QueryListener::ShouldRaiseInitialEvent), and also   *)
(* when the count of a denied target's responses has gone wrong             *)
(* (RemoteStore::ProcessTargetError).                                       *)
EveryGetAnswered ==
    \A g \in Gets : Len(asked) >= g ~> told[g] # <<>>
=============================================================================
