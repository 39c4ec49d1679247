--------------------------- MODULE FirestoreWrites ---------------------------
(***************************************************************************)
(* The write path of the Firestore client the app is built on: a call of   *)
(* setData, update, delete or commit is saved in a queue of its user on    *)
(* the device, sent on a gRPC stream, and answered by calling its          *)
(* completion handler (RemoteStore, Stream, WriteStream, SyncEngine,       *)
(* LocalStore, LevelDbMutationQueue, FirebaseCredentialsProvider).         *)
(*                                                                         *)
(* All of it runs on one serial worker queue, so a task of that queue, or  *)
(* the callback of a timer or of gRPC, is one step here.  The app, the     *)
(* notification that the user changed, the answers of Auth, the backend    *)
(* and the network are the other actors.                                   *)
(*                                                                         *)
(* External, and assumed: the backend takes the messages of a stream in    *)
(* order, answers each write it stores, and ends the stream with an error  *)
(* status at a write it refuses; it refuses a write always or never; it    *)
(* takes no message of a stream after the client has closed it.  gRPC      *)
(* promises no order between the completion of a read and of a write.      *)
(***************************************************************************)
EXTENDS Integers, Sequences, FiniteSets

CONSTANTS
    Users,              \* the accounts used on this device
    Refused,            \* the writes the backend refuses
    kMaxPendingWrites,  \* the most writes sent and not answered
    MaxWrites,          \* bound: writes of all users together
    MaxTasks,           \* bound: tasks in the worker queue when one is added
    MaxChanges,         \* bound: notifications that the user changed
    MaxFaults,          \* bound: broken streams, network changes, lost tokens
    MaxRestarts         \* bound: the app ends and starts again

Writes == [by : Users, n : 1 .. MaxWrites]

ASSUME UsersAssumption == Users # {} /\ IsFiniteSet(Users)
ASSUME RefusedAssumption == Refused \subseteq [by : Users, n : Nat]
ASSUME BoundsAssumption ==
    /\ kMaxPendingWrites \in Nat \ {0}
    /\ {MaxWrites, MaxTasks, MaxChanges, MaxFaults, MaxRestarts} \subseteq Nat

VARIABLES
    auth,       \* the credentials provider's current_user
    counter,    \* its token_counter
    worker,     \* the tasks of the worker queue, in order
    issued,     \* user -> the number of writes the app has asked for
    user,       \* SyncEngine's current_user_, whose mutation queue is used
    queue,      \* user -> the mutation batches on the device, in order
    nextId,     \* next_batch_id_ of the mutation queue
    calls,      \* mutation_callbacks_: the handlers by user and batch id
    remote,     \* RemoteStore and its write stream
    committed,  \* the writes the backend has stored at least once
    stored,     \* user -> the write its document holds at the backend
    told,       \* user -> the answers the handlers were given, in order
    faults,     \* the faults so far
    restarts    \* the restarts so far

vars == <<auth, counter, worker, issued, user, queue, nextId, calls, remote,
          committed, stored, told, faults, restarts>>
accountVars == <<auth, counter>>
backendVars == <<committed, stored>>
boundVars   == <<faults, restarts>>
localVars   == <<user, queue, nextId, calls>>

-----------------------------------------------------------------------------
(* Stream and GrpcStream.  remote is a record:                            *)
(*   pipeline   write_pipeline_                                           *)
(*   stream     state_ of the write stream                                *)
(*   handshake  handshake_complete_                                       *)
(*   idle       is the idle timer set?                                    *)
(*   closes     close_count_                                              *)
(*   asks       the calls of GetToken that are not answered               *)
(*   net        the gRPC stream: whose token it was opened with, the      *)
(*              messages on their way to the backend, its responses, the  *)
(*              status it ended with, and the completions that wait in    *)
(*              the worker queue.                                         *)

Hello == [id |-> 0]     \* the message of the handshake
NoStream == [open |-> FALSE]
NewStream(u) == [open |-> TRUE, token |-> u, up |-> <<>>, down |-> <<>>,
                 status |-> "none", events |-> <<>>]

IsStarted(r) == r.stream \in {"Starting", "Backoff", "Open"}

IsIn(x, s) == \E i \in DOMAIN s : s[i] = x

(* Once the status of the backend is there, writing fails. *)
GrpcWrite(n, messages) ==
    IF n.status = "none" THEN [n EXCEPT !.up = @ \o messages]
    ELSE IF IsIn("failed", n.events) THEN n
    ELSE [n EXCEPT !.events = Append(@, "failed")]

(* Mutant: writing does not cancel the idle timer. *)
WriteKeepsIdle(r, messages) == [r EXCEPT !.net = GrpcWrite(@, messages)]

(* Stream::Write *)
Write(r, messages) == [r EXCEPT !.idle = FALSE, !.net = GrpcWrite(@, messages)]

RequestCredentials(r) ==
    [r EXCEPT !.asks = @ \cup {[close |-> r.closes, counter |-> counter, by |-> auth]}]

Start(r) ==
    IF r.stream = "Error" THEN [r EXCEPT !.stream = "Backoff"]
    ELSE RequestCredentials([r EXCEPT !.stream = "Starting"])

(* Steps 2 to 7 of Stream::Close. *)
Closed(r, state) ==
    [r EXCEPT !.idle = FALSE, !.closes = @ + 1, !.net = NoStream, !.stream = state]

ForgetHandshake(r) == [r EXCEPT !.handshake = FALSE]

-----------------------------------------------------------------------------
(* RemoteStore *)

StartIfNeeded(r) == IF ~IsStarted(r) /\ r.pipeline # <<>> THEN Start(r) ELSE r

(* Mutant: writes go out before the handshake is answered. *)
CanSendWhenOpen(r) == r.stream = "Open"

CanSend(r) == r.stream = "Open" /\ r.handshake

(* The batches of queue q, which is in the order of the ids, that come     *)
(* after the last one of the pipeline.                                     *)
Unsent(r, q) ==
    LET last == IF r.pipeline = <<>> THEN -1 ELSE r.pipeline[Len(r.pipeline)].id
        sent == {i \in DOMAIN q : q[i].id <= last}
    IN  SubSeq(q, Cardinality(sent) + 1, Len(q))

FillWritePipeline(r, q) ==
    LET room   == kMaxPendingWrites - Len(r.pipeline)
        unsent == Unsent(r, q)
        more   == SubSeq(unsent, 1, IF Len(unsent) < room THEN Len(unsent) ELSE room)
        filled == [r EXCEPT !.pipeline = @ \o more]
        sent   == IF more # <<>> /\ CanSend(r) THEN Write(filled, more) ELSE filled
        marked == IF sent.pipeline = <<>> /\ sent.stream = "Open"
                  THEN [sent EXCEPT !.idle = TRUE] ELSE sent
    IN  StartIfNeeded(marked)

(* Mutant: the stream is not started again for the writes in the pipeline. *)
ClosedForGood(r) == ForgetHandshake(Closed(r, "Error"))

(* OnWriteStreamClose for a status that rejects no write. *)
ClosedTransiently(r) == ForgetHandshake(StartIfNeeded(Closed(r, "Error")))

(* Mutant: the pipeline is not cleared. *)
RestartNetworkKeepsPipeline(r, q) ==
    LET stopped == IF IsStarted(r) THEN ForgetHandshake(Closed(r, "Initial")) ELSE r
    IN  FillWritePipeline([stopped EXCEPT !.stream = "Initial"], q)

RestartNetwork(r, q) ==
    LET stopped == IF IsStarted(r) THEN ForgetHandshake(Closed(r, "Initial")) ELSE r
    IN  FillWritePipeline([stopped EXCEPT !.pipeline = <<>>, !.stream = "Initial"], q)

NewRemote == [pipeline |-> <<>>, stream |-> "Initial", handshake |-> FALSE,
              idle |-> FALSE, closes |-> 0, asks |-> {}, net |-> NoStream]

-----------------------------------------------------------------------------
(* LevelDbMutationQueue and SyncEngine *)

(* Mutants: the last id in use; the first id, whatever is in the queues. *)
LoadLastBatchId(queues) ==
    LET ids == {0} \cup UNION {{queues[u][i].id : i \in DOMAIN queues[u]} : u \in Users}
    IN  CHOOSE m \in ids : \A i \in ids : i <= m
LoadFirstBatchId(queues) == 1

LoadNextBatchId(queues) ==
    LET ids == {0} \cup UNION {{queues[u][i].id : i \in DOMAIN queues[u]} : u \in Users}
    IN  1 + CHOOSE m \in ids : \A i \in ids : i <= m

(* A row with the same key is overwritten. *)
AddMutationBatch(q, b) ==
    IF \E i \in DOMAIN q : q[i].id = b.id
    THEN [i \in DOMAIN q |-> IF q[i].id = b.id THEN b ELSE q[i]]
    ELSE Append(q, b)

RemoveMutationBatch(q, id) ==
    IF \E k \in DOMAIN q : q[k].id = id
    THEN LET k == CHOOSE k \in DOMAIN q : q[k].id = id
         IN  SubSeq(q, 1, k - 1) \o SubSeq(q, k + 1, Len(q))
    ELSE q

(* An id that already has a handler keeps it. *)
Register(u, b) ==
    calls' = calls \cup
        (IF \E c \in calls : c.by = u /\ c.id = b.id THEN {}
         ELSE {[by |-> u, id |-> b.id, w |-> b.w]})

NotifyUser(id, ok) ==
    LET mine == {c \in calls : c.by = user /\ c.id = id} IN
    /\ calls' = calls \ mine
    /\ told' = IF mine = {} THEN told
               ELSE LET w == (CHOOSE c \in mine : TRUE).w
                    IN  [told EXCEPT ![w.by] = Append(@, [n |-> w.n, ok |-> ok])]

-----------------------------------------------------------------------------
(* Initialize *)

Init ==
    /\ auth \in Users
    /\ counter = 0
    /\ worker = <<>>
    /\ issued = [u \in Users |-> 0]
    /\ user = auth
    /\ queue = [u \in Users |-> <<>>]
    /\ nextId = 1
    /\ calls = {}
    /\ remote = NewRemote
    /\ committed = {}
    /\ stored = [u \in Users |-> 0]
    /\ told = [u \in Users |-> <<>>]
    /\ faults = 0
    /\ restarts = 0

-----------------------------------------------------------------------------
(* The app and Auth, which add tasks to the worker queue *)

(* FirestoreClient::WriteMutations *)
IssueWrite ==
    /\ Cardinality({w \in Writes : w.n <= issued[w.by]}) < MaxWrites
    /\ Len(worker) < MaxTasks
    /\ issued' = [issued EXCEPT ![auth] = @ + 1]
    /\ worker' = Append(worker, [task |-> "write",
                                 w |-> [by |-> auth, n |-> issued[auth] + 1]])
    /\ UNCHANGED <<accountVars, localVars, remote, backendVars, told, boundVars>>

(* The user signs in or out, or, with u the same user, the token changes. *)
CredentialChange(u) ==
    /\ counter < MaxChanges
    /\ Len(worker) < MaxTasks
    /\ auth' = u
    /\ counter' = counter + 1
    /\ worker' = Append(worker, [task |-> "user", u |-> u])
    /\ UNCHANGED <<issued, localVars, remote, backendVars, told, boundVars>>

(* The callback of GetToken: a request the user changed under is made     *)
(* again, an answer becomes a task.                                       *)
TokenAskedAgain(a) ==
    /\ a.counter # counter
    /\ remote' = [remote EXCEPT !.asks =
           (@ \ {a}) \cup {[a EXCEPT !.counter = counter, !.by = auth]}]
    /\ UNCHANGED <<accountVars, worker, issued, localVars, backendVars, told, boundVars>>

TokenAnswer(a, ok) ==
    /\ a.counter = counter
    /\ remote' = [remote EXCEPT !.asks = @ \ {a}]
    /\ worker' = Append(worker, [task |-> "token", close |-> a.close,
                                 by |-> a.by, ok |-> ok])
    /\ ok \/ faults < MaxFaults
    /\ faults' = IF ok THEN faults ELSE faults + 1
    /\ UNCHANGED <<accountVars, issued, localVars, backendVars, told, restarts>>

-----------------------------------------------------------------------------
(* The tasks of the worker queue *)

NextTask(kind) == worker # <<>> /\ Head(worker).task = kind /\ worker' = Tail(worker)

(* SyncEngine::WriteMutations *)
WriteMutations ==
    /\ NextTask("write")
    /\ LET b == [id |-> nextId, w |-> Head(worker).w]
           q == AddMutationBatch(queue[user], b) IN
       /\ queue' = [queue EXCEPT ![user] = q]
       /\ nextId' = nextId + 1
       /\ Register(user, b)
       /\ remote' = FillWritePipeline(remote, q)
    /\ UNCHANGED <<accountVars, issued, user, backendVars, told, boundVars>>

(* Mutant: the open stream is used for the new user. *)
HandleCredentialChangeOnOldStream ==
    /\ NextTask("user")
    /\ user' = Head(worker).u
    /\ nextId' = IF user' = user THEN nextId ELSE LoadNextBatchId(queue)
    /\ remote' = FillWritePipeline([remote EXCEPT !.pipeline = <<>>], queue[user'])
    /\ UNCHANGED <<accountVars, issued, queue, calls, backendVars, told, boundVars>>

(* SyncEngine::HandleCredentialChange *)
HandleCredentialChange ==
    /\ NextTask("user")
    /\ user' = Head(worker).u
    /\ nextId' = IF user' = user THEN nextId ELSE LoadNextBatchId(queue)
    /\ remote' = RestartNetwork(remote, queue[user'])
    /\ UNCHANGED <<accountVars, issued, queue, calls, backendVars, told, boundVars>>

(* Stream::ResumeStartWithCredentials, unless the stream was closed since. *)
(* The gRPC stream starts, and the handshake is written, in the same task. *)
ResumeStart ==
    /\ NextTask("token")
    /\ LET t == Head(worker) IN
       remote' =
         IF t.close # remote.closes THEN remote
         ELSE IF ~t.ok THEN ClosedTransiently(remote)
         ELSE Write([remote EXCEPT !.stream = "Open", !.net = NewStream(t.by)],
                    <<Hello>>)
    /\ UNCHANGED <<accountVars, issued, localVars, backendVars, told, boundVars>>

-----------------------------------------------------------------------------
(* Timers *)

BackoffElapsed ==
    /\ remote.stream = "Backoff"
    /\ remote' = Start([remote EXCEPT !.stream = "Initial"])
    /\ UNCHANGED <<accountVars, worker, issued, localVars, backendVars, told, boundVars>>

IdleTimeout ==
    /\ remote.idle
    /\ remote' = ForgetHandshake(Closed(remote, "Initial"))
    /\ UNCHANGED <<accountVars, worker, issued, localVars, backendVars, told, boundVars>>

-----------------------------------------------------------------------------
(* The backend and the network *)

net == remote.net
Live == net.open /\ net.status = "none"

(* The backend takes the next message of the stream: it answers the        *)
(* handshake, stores a write and answers it, or refuses it.                *)
BackendTakes ==
    /\ Live /\ net.up # <<>>
    /\ LET m == Head(net.up)
           replied(x) == [remote EXCEPT !.net.up = Tail(@),
                                        !.net.down = Append(@, x)] IN
       \/ /\ m = Hello
          /\ remote' = replied("hello")
          /\ UNCHANGED backendVars
       \/ /\ m # Hello /\ m.w \notin Refused
          /\ remote' = replied("ok")
          /\ committed' = committed \cup {m.w}
          /\ stored' = [stored EXCEPT ![m.w.by] = m.w.n]
       \/ /\ m # Hello /\ m.w \in Refused
          /\ remote' = [remote EXCEPT !.net.up = <<>>, !.net.status = "refused"]
          /\ UNCHANGED backendVars
    /\ UNCHANGED <<accountVars, worker, issued, localVars, told, boundVars>>

(* The stream breaks, at whatever point the backend has got to: what was  *)
(* not read is lost.  The backend may also end the handshake with a       *)
(* permanent error.                                                       *)
StreamBreaks(status) ==
    /\ Live /\ faults < MaxFaults
    /\ status = "refused" => IsIn(Hello, net.up)
    /\ remote' = [remote EXCEPT !.net.up = <<>>, !.net.down = <<>>,
                                !.net.status = status]
    /\ faults' = faults + 1
    /\ UNCHANGED <<accountVars, worker, issued, localVars, backendVars, told, restarts>>

(* The one read that is always outstanding completes, with a message or,  *)
(* when there is none left, with the failure that ends the stream.        *)
ReadCompletes ==
    /\ net.open
    /\ \A i \in DOMAIN net.events : net.events[i] = "failed"
    /\ \/ /\ net.down # <<>>
          /\ remote' = [remote EXCEPT !.net.down = Tail(@),
                                      !.net.events = Append(@, Head(net.down))]
       \/ /\ net.down = <<>> /\ net.status # "none" /\ net.events = <<>>
          /\ remote' = [remote EXCEPT !.net.events = <<"failed">>]
    /\ UNCHANGED <<accountVars, worker, issued, localVars, backendVars, told, boundVars>>

-----------------------------------------------------------------------------
(* The callbacks of gRPC on the worker queue *)

NextEvent(x) == net.open /\ net.events # <<>> /\ Head(net.events) = x
AfterEvent == [remote EXCEPT !.net.events = Tail(@)]

(* OnWriteStreamHandshakeComplete: the pipeline is sent. *)
HandshakeComplete ==
    /\ NextEvent("hello")
    /\ LET r == [AfterEvent EXCEPT !.handshake = TRUE]
       IN  remote' = IF r.pipeline = <<>> THEN r ELSE Write(r, r.pipeline)
    /\ UNCHANGED <<accountVars, worker, issued, localVars, backendVars, told, boundVars>>

(* OnWriteStreamMutationResult and HandleSuccessfulWrite: the answer is    *)
(* for the first write of the pipeline.                                    *)
MutationResult ==
    /\ NextEvent("ok")
    /\ LET b == Head(remote.pipeline)
           q == RemoveMutationBatch(queue[user], b.id) IN
       /\ NotifyUser(b.id, TRUE)
       /\ queue' = [queue EXCEPT ![user] = q]
       /\ remote' = FillWritePipeline([AfterEvent EXCEPT !.pipeline = Tail(@)], q)
    /\ UNCHANGED <<accountVars, worker, issued, user, nextId, backendVars, boundVars>>

(* Mutant: a permanent error of the handshake rejects a write too. *)
RejectsHandshake == net.status = "refused" /\ remote.pipeline # <<>>

(* OnOperationFailed and OnWriteStreamClose: the stream is closed with the *)
(* status of the backend, and the reads that have completed since are      *)
(* dropped.  A permanent error after the handshake rejects the first write *)
(* of the pipeline (HandleWriteError, HandleRejectedWrite).                *)
Rejects == net.status = "refused" /\ remote.handshake /\ remote.pipeline # <<>>

StreamCloses ==
    /\ NextEvent("failed") /\ ~Rejects
    /\ remote' = ClosedTransiently(remote)
    /\ UNCHANGED <<accountVars, worker, issued, localVars, backendVars, told, boundVars>>

StreamRejects ==
    /\ NextEvent("failed") /\ Rejects
    /\ LET b == Head(remote.pipeline)
           q == RemoveMutationBatch(queue[user], b.id)
           r == [Closed(remote, "Initial") EXCEPT !.pipeline = Tail(@)] IN
       /\ queue' = [queue EXCEPT ![user] = q]
       /\ NotifyUser(b.id, FALSE)
       /\ remote' = ForgetHandshake(FillWritePipeline(r, q))
    /\ UNCHANGED <<accountVars, worker, issued, user, nextId, backendVars, boundVars>>

(* The two callbacks of the connectivity monitor, in the order they were   *)
(* added: GrpcConnection ends its streams, then RemoteStore, unless the    *)
(* network has gone, restarts.                                             *)
ConnectivityChange(available) ==
    /\ faults < MaxFaults
    /\ LET ended == IF net.open THEN ClosedTransiently(remote) ELSE remote
       IN  remote' = IF available THEN RestartNetwork(ended, queue[user]) ELSE ended
    /\ faults' = faults + 1
    /\ UNCHANGED <<accountVars, worker, issued, localVars, backendVars, told, restarts>>

-----------------------------------------------------------------------------
(* The app ends and starts again: the queues are on the disk, the handlers *)
(* and the tasks are gone (FirestoreClient::Initialize).                   *)

Restarted(queues) ==
    /\ restarts < MaxRestarts
    /\ restarts' = restarts + 1
    /\ worker' = <<>>
    /\ user' = auth
    /\ queue' = queues
    /\ nextId' = LoadNextBatchId(queues)
    /\ calls' = {}
    /\ remote' = FillWritePipeline(NewRemote, queues[auth])
    /\ UNCHANGED <<accountVars, issued, backendVars, faults>>

Restart == Restarted(queue) /\ UNCHANGED told

(* It ends in HandleSuccessfulWrite, after the handler and before the      *)
(* batch is removed.                                                       *)
EndsInResult ==
    /\ NextEvent("ok")
    /\ LET mine == {c \in calls : c.by = user /\ c.id = Head(remote.pipeline).id} IN
       /\ mine # {}
       /\ LET w == (CHOOSE c \in mine : TRUE).w
          IN  told' = [told EXCEPT ![w.by] = Append(@, [n |-> w.n, ok |-> TRUE])]
    /\ Restarted(queue)

(* It ends in HandleRejectedWrite, after the batch is removed and before   *)
(* the handler.                                                            *)
EndsInRejection ==
    /\ NextEvent("failed") /\ Rejects
    /\ Restarted([queue EXCEPT ![user] =
                    RemoveMutationBatch(@, Head(remote.pipeline).id)])
    /\ UNCHANGED told

-----------------------------------------------------------------------------
Worker == WriteMutations \/ HandleCredentialChange \/ ResumeStart
GrpcEvent == HandshakeComplete \/ MutationResult \/ StreamCloses \/ StreamRejects
Tokens == \E a \in remote.asks :
              TokenAskedAgain(a) \/ \E ok \in BOOLEAN : TokenAnswer(a, ok)
Ends == Restart \/ EndsInResult \/ EndsInRejection

Next ==
    \/ IssueWrite
    \/ \E u \in Users : CredentialChange(u)
    \/ Tokens
    \/ Worker
    \/ BackoffElapsed
    \/ IdleTimeout
    \/ BackendTakes
    \/ \E status \in {"refused", "broken"} : StreamBreaks(status)
    \/ ReadCompletes
    \/ GrpcEvent
    \/ \E available \in BOOLEAN : ConnectivityChange(available)
    \/ Ends

(* The worker queue runs its tasks, timers fire, Auth answers, a stream    *)
(* that is up carries messages.                                            *)
Fairness ==
    /\ WF_vars(Worker)
    /\ WF_vars(Tokens)
    /\ WF_vars(BackoffElapsed)
    /\ WF_vars(BackendTakes)
    /\ WF_vars(ReadCompletes)
    /\ WF_vars(GrpcEvent)

SafeSpec == Init /\ [][Next]_vars
Spec == SafeSpec /\ Fairness

-----------------------------------------------------------------------------
Batches == [id : Nat \ {0}, w : Writes]
Answers == [n : 1 .. MaxWrites, ok : BOOLEAN]
Streams == {NoStream} \cup
    [open : {TRUE}, token : Users, up : Seq(Batches \cup {Hello}),
     down : Seq({"hello", "ok"}), status : {"none", "refused", "broken"},
     events : Seq({"hello", "ok", "failed"})]

Tasks == [task : {"write"}, w : Writes]
         \cup [task : {"user"}, u : Users]
         \cup [task : {"token"}, close : Nat, by : Users, ok : BOOLEAN]
Asks == [close : Nat, counter : 0 .. MaxChanges, by : Users]
Remotes == [pipeline : Seq(Batches),
            stream : {"Initial", "Starting", "Open", "Error", "Backoff"},
            handshake : BOOLEAN, idle : BOOLEAN, closes : Nat,
            asks : SUBSET Asks, net : Streams]

(* The types of the write path; batch ids are positive, 0 being the        *)
(* handshake's (LoadNextBatchIdFromDb).                                    *)
TypeOK ==
    /\ auth \in Users
    /\ counter \in 0 .. MaxChanges
    /\ worker \in Seq(Tasks)
    /\ issued \in [Users -> 0 .. MaxWrites]
    /\ user \in Users
    /\ queue \in [Users -> Seq(Batches)]
    /\ nextId \in Nat \ {0}
    /\ calls \subseteq [by : Users, id : Nat \ {0}, w : Writes]
    /\ remote \in Remotes
    /\ committed \subseteq Writes
    /\ stored \in [Users -> 0 .. MaxWrites]
    /\ told \in [Users -> Seq(Answers)]
    /\ faults \in 0 .. MaxFaults
    /\ restarts \in 0 .. MaxRestarts

(* The writes that were sent and not answered are the first ones of the    *)
(* queue of the user who is signed in, so an answer, which names no write, *)
(* is for the write it is taken for (FillWritePipeline,                    *)
(* OnWriteStreamMutationResult).                                           *)
PipelineIsPrefix ==
    /\ Len(remote.pipeline) <= Len(queue[user])
    /\ \A i \in DOMAIN remote.pipeline : remote.pipeline[i] = queue[user][i]

(* The assertions of the code: an answer finds a write to be for           *)
(* (OnWriteStreamMutationResult), the token of a stream that was not       *)
(* closed finds it still starting (ResumeStartWithCredentials), and the    *)
(* idle timer stops no stream that is needed (OnWriteStreamClose).         *)
AssertionsHold ==
    /\ NextEvent("ok") => remote.pipeline # <<>>
    /\ (worker # <<>> /\ Head(worker).task = "token"
           /\ Head(worker).close = remote.closes) => remote.stream = "Starting"
    /\ remote.idle => remote.pipeline = <<>>
    /\ remote.handshake => remote.stream = "Open"

(* A handler waits for a write that is still in the queue of its user: a   *)
(* batch id, which is given out again after a user change or a restart, is *)
(* never given out while a handler is registered for it                    *)
(* (LoadNextBatchIdFromDb, mutation_callbacks_).                           *)
HandlerHasBatch ==
    \A c \in calls : c.w.by = c.by /\ IsIn([id |-> c.id, w |-> c.w], queue[c.by])

(* The handlers of one user are called in the order of the writes, each    *)
(* once at most, and a write is reported as stored only after it was       *)
(* stored, whatever was sent again on the way (SyncEngine::NotifyUser).    *)
AnswersInOrder ==
    \A u \in Users :
        /\ \A i, j \in DOMAIN told[u] : i < j => told[u][i].n < told[u][j].n
        /\ \A i \in DOMAIN told[u] :
               told[u][i].ok => [by |-> u, n |-> told[u][i].n] \in committed

(* A stream carries the writes of the user whose token opened it, although *)
(* the user may change while a token is asked for, or between its answer   *)
(* and the task that uses it (Stream::RequestCredentials, GetToken).       *)
OwnCredentials ==
    net.open => \A i \in DOMAIN net.up : net.up[i] # Hello => net.up[i].w.by = net.token

(* Sending writes again does not bring back an old value for good: when    *)
(* nothing of a user is left in the queue, its document holds the last of  *)
(* the writes the backend ever stored (OnWriteStreamHandshakeComplete).    *)
Converged ==
    \A u \in Users : queue[u] = <<>> =>
        \A w \in committed : w.by = u => w.n <= stored[u]

(* A write is reported as refused because it was refused, or because a     *)
(* later one was that was sent before it was answered: a message written   *)
(* after the status of a refusal has arrived closes the stream before the  *)
(* answers that came ahead of it are read (GrpcStream::OnOperationFailed), *)
(* and the rejection is taken to be for the first of the pipeline          *)
(* (HandleWriteError).  Then what is reported as refused has been stored.  *)
RejectionHasCause ==
    \A u \in Users : \A i \in DOMAIN told[u] :
        LET w == [by |-> u, n |-> told[u][i].n] IN
        ~told[u][i].ok =>
            \/ w \in Refused
            \/ w \in committed /\ \E x \in Refused : x.by = u /\ x.n > w.n

(* A handler is called as long as its user stays signed in: nothing is     *)
(* left in the pipeline, behind a stream that is not started, or in a      *)
(* queue that is not read again (OnWriteStreamClose, FillWritePipeline).   *)
EveryWriteAnswered ==
    \A u \in Users, i \in 1 .. MaxWrites :
        (\E c \in calls : c.w = [by |-> u, n |-> i])
            ~> (user # u \/ \A c \in calls : c.w # [by |-> u, n |-> i])

(* What the app relies on when it calls setData, update, delete or commit  *)
(* with a completion handler (FirestoreClient::WriteMutations): the write  *)
(* path implements the queue of WriteQueue, with the batches on the disk   *)
(* as what is pending and the registered handlers as what is waiting.      *)
Abstract == INSTANCE WriteQueue WITH
    pending <- [u \in Users |-> [i \in DOMAIN queue[u] |-> queue[u][i].w]],
    waiting <- {c.w : c \in calls}
ImplementsWriteQueue == Abstract!Spec
=============================================================================
