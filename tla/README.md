# Pledge: a verification project in TLA+

Pledge (its Xcode target is called Lend) is an iOS app through which a donor
gives money to organisations, once or monthly. The app's own code is Swift,
about 6500 lines under `src/Lend/Lend`; everything under `src/Lend/Pods` is
third-party code, some 650,000 lines of C, C++ and Objective-C (gRPC, BoringSSL,
LevelDB, abseil, Firebase, Stripe). Of that code the project models the one part
whose behaviour the app depends on at every step: the path of a write and of a
read through the Firestore client. Accounts, pledges and history live in Firebase (Auth and
Firestore), the money goes through Apple Pay, Stripe and a payment server that
is not part of the repository. The repository has no tests and no document
beyond a one-line README, so what the program promises is taken from its
screens' texts and from comments.

File names below are relative to `src/Lend/Lend`; those of the Firestore client
(`remote/`, `core/`, `local/`, `auth/`, `api/`) to
`src/Lend/Pods/FirebaseFirestore/Firestore/core/src`.

## 1. Inventory

| Component | State it keeps | Operations | Properties that make it correct |
|---|---|---|---|
| Payment: `Common/PaymentManager.swift`, `Common/NetworkManager.swift` | the sheet, `stripeTokenId`, the callback | `pay`, `didAuthorizePayment`, `subscriptionPayment`, `didFinish` | success is reported only for a charge; one charge for one sheet; the sheet comes to an end |
| Checkout: `ViewControllers/DonateConfirmation` | the order, the join counters, the overlay | `completeCheckoutButtonPressed`, `addTips`, `sendToUpdateDonates`, `addOneTimePaymentToFirebase` | "Success!" only when the items or records of the order are saved; nothing written unpaid; the overlay goes away |
| Firestore access: `Common/FirebaseManager.swift` | none of its own; the `Users`, `Donates`, `History` collections | `addDonate`, `editDonate`, `deleteDonate`, `addTips`, `updateDefaultDonateAmount`, `fetchDonates`, `fetchOrganisations`, sign-in and sign-up | each call answers once; a partial failure is not taken as success |
| User cache: `Common/UserManager.swift` | `user`, `completeDonation`, `tmpDonateAmount`, `oneTimeDonateAmount` | assignments by the screens, `resetUserData` | a saved bucket and its amount belong together; the cache belongs to the user who is signed in |
| Donate flow: `Common/Extensions/UIViewController+DonateFlow.swift` | none | `donateStepOne`, `donateStepTwo` | the screen that comes next is the one the saved state calls for |
| Bucket: `ViewControllers/MyBucket` | rows, loaded pledges, amount, the sliders' limits, the button, the popup flag | load, merge, slide, delete, edit, save, hand over | the gate is never stale; no organisation is listed twice; every loaded pledge is handed over |
| Amount and introduction screens: `AdjustDonateAmount`, `JoinMovementGetStarted` | the amount | slider, continue, back | the amount handed on is the amount chosen |
| Tips popup, success screen | the tip | continue, close, home | |
| Impacts: `MyImpacts` | pledges and history as last loaded | load, hand pledges to a bucket | the lists belong together |
| Home, causes, search, details | lists, filters | load, filter, select | the row selected is the row opened |
| Account and first start: `Main`, `Onboarding`, `Auth`, `Welcome`, `StartDonate`, `Settings` | the session (kept by Firebase Auth), the cached profile | sign in, sign up, first amount, log out | no data of one donor reaches the next; the cached amount is the stored one |
| Firestore client, writes: `remote/remote_store.cc`, `remote/stream.cc`, `remote/write_stream.cc`, `remote/grpc_stream.cc`, `core/sync_engine.cc`, `local/local_store.cc`, `local/leveldb_mutation_queue.cc`, `auth/firebase_credentials_provider_apple.mm` | a queue of batches for each user on the disk, handlers by batch id, the pipeline, the stream with its timers and tokens | write, change of user, token, handshake, result, rejection, backoff, idle timer, change of network, restart | an answer is for the write it is taken for; answers come in order; a user's writes go out with that user's token; a write sent again does no harm; every handler is called |
| Firestore client, reads: `api/document_reference.cc`, `core/event_manager.cc`, `core/query_listener.cc`, `core/view.cc`, `remote/watch_stream.cc`, `remote/remote_event.cc`, `remote/online_state_tracker.cc` | listeners, views, targets, responses outstanding, the online state | `getDocument`, listen, unlisten, changes of the watch stream, the timers | one answer for each call, not older than the call when it is said to be the server's, and always an answer |

How they interact. Screens call `FirestoreManager` and the payment manager and
go on in callbacks. All of this is on the main queue, so a callback runs to its
end; concurrency is the interleaving of callbacks with the donor's touches, with
Firestore, the payment sheet and the server, and with the end of the session.
The Firestore client runs on a worker queue of its own, one task at a time, and
calls handlers on the main queue. `UserManager.shared` is read and written by every screen. Some closures hold
their screen weakly and do nothing when it has gone, some hold it strongly and
go on in the background.

What is hard to test here: a payment whose reply is lost or late; a donor who
leaves a screen while its writes are under way and opens another; one write of
several that is refused; a press of a button between two asynchronous steps; a
table whose sources (the chosen organisation, the pledges, the saved bucket)
overlap; a flag or cached value that is stale when a screen comes back; in the
Firestore client, a user who changes while a token is outstanding, a stream that
breaks with answers unread, an app that ends between a handler and the removal
of its batch, responses for a listen that is over. The hazards, each at its line with the properties that cover it, are listed in
`PROJECT.json`.

## 2. The modules

### ApplePay (`PaymentManager.swift`, `NetworkManager.swift`)

Each press that has to pay creates one `PaymentManager`, called an attempt.
`sheet[a]` is the state of its sheet, `stripeTokenId[a]` whether it has kept a
token, `owner` and `phase` follow each authorisation through the token and the
POST, `charged` is the server's ledger. One action for each delegate call and
each way in which a reply comes back: `Pay`, `DidAuthorizePayment`,
`TokenRefused`, `TokenIssued` (with the early failure when no profile is
loaded), `PaymentSucceeds`, `PaymentFails`, `ReplyIgnored` (JSON that is no
dictionary calls nobody), `DidFinish`, `Dismissed` (the callback, which looks at
the token only when the sheet has closed). `ServerCharges` is the external
server. The constant `Faults` says which of the faults of the outside world can
happen.

### Checkout (`DonateConfirmationViewController.swift` and the writes it makes)

Extends ApplePay. `OpenConfirmation` pushes a screen with an order;
`CompleteCheckoutButtonPressed` starts an attempt, which pays or, when the sum
is the one in the cached profile, does not. `job[a]` is the attempt's local
state: the stage, the requests without an answer, `queryCount` and `isError`.
The screen's functions (`AddTips`, `SendToUpdateDonates`,
`SendToUpdateDonatesHandler`, `CompletionBlock`...) are operators from one job
to the next, and the actions are the callbacks: `PaymentCallback`,
`TipsAnswered`, `ItemAnswered`, `DefaultAnswered`. `GoOn` does what each of them
does at its end: overlay, result, saved bucket. `Alive` says which screens a
callback still finds. Firestore answers the requests of one client in the order
in which they were made, and `writing` keeps that order. `Leave`,
`AlertDismissed` and `SessionEnds` are the donor and the outside world. The
server's documents are `profile` and `donates`; `applied` remembers accepted
item writes for the properties.

Not in the module: what comes after the success screen (it is in DonateFlow),
and the contents of a record of history.

### DonateFlow (everything between "Donate" and the success screen)

`screen` is what is on the display and `below` what the bucket screen was
pushed on. `bucket` is the state of a `MyBucketViewController`: `rows`
(`donateItems`), `donates`, `organizations`, `amount`, `caps` (how far each
cell's slider went at the last reload), `isEnabled`, `shouldShowTips`.
`completeDonation`, `tmpDonateAmount`, `oneTimeDonateAmount` and `user` are
`UserManager`. `LoadDataCompletionHandler` is the merge of the three sources of
the table, `Refresh` the `updateUI` and `reloadData` at its end. A checkout is
one step here, `CheckoutSucceeds`, with what Checkout leaves behind on success.
`paid` (what the server charges each month) and `removed` (pledges whose row was
deleted), and the field `amount` of the saved bucket, are kept for the
properties only. `RowsAt` picks rows by position and keeps their order, as the
loops over the pledges do.

Sliders move up to `caps`, which `SliderEnded` brings up to date. That step need
not follow a move: a touch can be cancelled, and a second finger can move
another slider before it, so the rows can exceed the amount.

### Account (who is signed in, and what the app keeps of that donor)

The start of the app, the two forms, the first monthly amount, logging out, and
`fetchUpdateUser`, `signIn`, `signUp` and `updateDefaultDonateAmount` of the
Firestore manager. Firebase answers on queues of its own and hands each callback
to the main queue, so an answer is two steps: Firebase settles a request
(`AuthAnswered`, `FetchAnswered`, `WriteAnswered`, and the session changes with
it), and later `CallbackRuns` runs the callback at the head of `queue`
(`SignInReturned`, `CreateUserReturned`, `FetchReturned`, `DefaultReturned`...).
In between the donor can leave a form by the swipe that works under the overlay
(`FormLeft`), send the other form, log out, or end the app (`Restart`); `here`
says whether the form that waits is still there. Writes are kept on disk and
sent while their user is signed in; a fetch answers with the writes under way
laid over the document (`View`). `docs` is the `Users` collection, `user` and
`completeDonation` are `UserManager`; the latter is only the donor who saved the
bucket, its contents are in DonateFlow. `donor`, `left` and `unsure` are kept
for the properties, `forms` for a bound.

The introduction's amount screen is one action here too (`ChooseAmountContinue`),
since it writes the same field; the checkout, which also does, is left to
Checkout.

### WriteQueue and FirestoreWrites (the write path of the Firestore client)

`WriteQueue` is what the app relies on: writes of a user are settled in order,
each handler is called once at most, and a write answered without an error is
stored. It has no streams, tokens or retries. `FirestoreWrites` is the code, and
`ImplementsWriteQueue` is `WriteQueue`'s specification under the mapping
`pending` = the batches on the disk, `waiting` = the registered handlers.

All of the client runs on one serial worker queue. The tasks that the app and
Auth add are kept in `worker` and run in order (`WriteMutations`,
`HandleCredentialChange`, `ResumeStart`); timers and the completions of gRPC are
actions of their own (`BackoffElapsed`, `IdleTimeout`, `HandshakeComplete`,
`MutationResult`, `StreamCloses`, `StreamRejects`). `remote` is the
`RemoteStore` with its stream: the functions of the code (`FillWritePipeline`,
`StartIfNeeded`, `Closed`, `RestartNetwork`) are operators from one record to the
next. `queue`, `nextId` and `calls` are `LevelDbMutationQueue` and
`mutation_callbacks_`; batch ids are computed again at each change of user and at
each start, as in the code. `auth`, `counter` and `remote.asks` are the
credentials provider: a token that was asked for before a change of user is asked
for again (`TokenAskedAgain`). Between the backend and the worker queue there are
two stages, `net.down` and `net.events`, since a read that has completed waits in
the worker queue like everything else and a write that fails can overtake it.
The app may end at any point, and inside the two handlers that change the disk
and call the app (`EndsInResult`, `EndsInRejection`).

External, and assumed: the backend takes the messages of a stream in order and
answers each, refuses a write always or never, and takes no message of a stream
that the client has closed.

### FirestoreReads (`getDocument`)

A `getDocument` is a listener that is removed at its first event. `client` is
what belongs to the worker queue: the listeners and views, the targets, the
states of the `WatchChangeAggregator` with the responses they wait for, the
online state with its timer, the stream. As above, the functions of the code are
operators on that record, and an action is a task, a timer or a message. Events
go to `main`, where `OnEvent` answers the caller, mutes the listener and sends
its removal to the worker queue. A document is its version. `reachable` says
whether the network leads to the backend; when it does not, messages stop, and
the keepalive of gRPC ends the stream. `since` is kept for `FreshAnswer`.
`OnViewSnapshots` is `QueryListener`: it raises an `Event` for each listener that
is `Ready`, in the order in which they were added (`InOrder`).

### Proof modules and instances

`ApplePayProof`, `CheckoutProof`, `DonateFlowProof`, `AccountProof`,
`FirestoreReadsProof` and `FirestoreProof` hold the theorems, and the invariants
they rest on. The proof about FirestoreWrites is in two modules: `FirestoreSteps`
(what is under way between the pipeline and the backend, the worker queue and the
batches of a user, the inductive invariant, the steps that settle no write) and
`FirestoreProof`, which extends it (the steps that settle one, the restarts, the
theorems and the refinement). `DataLemmas` has the lemmas about sequences, finite
sets, maxima, orders and folds that the other proofs share. `MCApplePay`,
`MCCheckout`, `MCDonateFlow`, `MCAccount`, `MCFirestoreWrites` and
`MCFirestoreReads` define the constants' values for TLC.

## 3. The runs

| Run | Checks | What it shows |
|---|---|---|
| `pay` | `PayTypeOK`, `SuccessIsCharged`, `OneChargePerSheet`, `SheetNeverHangs` | with lost replies, odd replies and timeouts success still means a charge, a sheet is charged twice only after a reply that was lost or ignored, and no sheet waits for ever |
| `checkout` | `TypeOK`, `ShownMeansSaved`, `WritesFollowCharge`, `BucketKeptUntilSaved`, `SpinnerHasCause`, `OneAttemptAtATime`, `ShownMeansStored`, `CheckoutSettles` | two attempts on up to two screens with refusals, departures, the end of the session, lost replies and timeouts of the sheet: "Success!" means that each item, or each record of history, is stored, and says nothing of the tip and the monthly amount, whose refusal the code ignores; as long as the same order is handed over again, what success was shown for is what the server has of the loaded pledges; an attempt that writes comes to a result, unless the donor leaves or the session ends |
| `account` | `TypeOK`, `NothingOfOthers`, `CacheIsStored` | two donors on one device, with forms left early, sessions that end, restarts, refused writes and late callbacks |
| `flow` | `TypeOK`, `GateIsFresh`, `LoadedPledgesHandedOver`, `SavedAmountIsKept`, `RowsAreDistinct`, `OnceListsTarget` | all screens, the introduction included, for a donor with a pledge, with failing loads and cancelled touches |
| `writes` | `TypeOK`, `PipelineIsPrefix`, `AssertionsHold`, `HandlerHasBatch`, `AnswersInOrder`, `OwnCredentials`, `Converged`, `ImplementsWriteQueue` | the write path with two users, changes of the user, a fault, a restart at any point: what the app relies on is implemented |
| `writes_live` | `RejectionHasCause`, `EveryWriteAnswered` | every handler is called while its user stays; a write that is reported as refused was refused, or was stored while a later one was refused |
| `reads` | `TypeOK`, `AnsweredOnce`, `FreshAnswer`, `ResponsesCounted`, `AssertionsHold`, `EveryGetAnswered` | each `getDocument` is answered once, also when the backend cannot be reached, and never with something older than the call under the server's name |

The donor of `flow` has one pledge and a monthly amount of 0, which is what a
refused update of the amount at the checkout leaves behind
(`DonateConfirmationViewController.swift:125` takes it as success).

Five runs check what a text of the app promises and find that the code does
something else:

| Run | Property | What happens |
|---|---|---|
| `checkout_once` | `DonateOnceIsNoPledge` | a one-time order whose sum is the monthly sum charges nothing and is saved as monthly pledges |
| `checkout_revived` | `ChosenOrganisationsGetIt` | one screen's attempt deletes a pledge; the next order from the same bucket edits it, and the merge makes a document without an organisation |
| `flow_in_full` | `HandedOverInFull` | after an edit of the amount the tips popup comes up by itself and hands over rows of 0 |
| `flow_delete` | `DeletedMeansStopped` | a row deleted from a table that was not loaded (impacts, saved bucket) leaves its pledge running |
| `flow_charge` | `MonthlyIsCharged` | the introduction stores the amount before it is paid, so the checkout of that amount without a tip skips the payment and shows success |

The quotations are in `PROJECT.json` under `findings`. Five more behaviours
came up while modelling for which no text makes a clear promise. A session that
ends by itself, or a request that is under way at a logout, leaves a profile or a
saved bucket for the next donor (`NothingOfOthers` names exactly these cases in
`left`); a refused first amount stays in the cache and is not written again
(`FirebaseManager.swift:213`); a retry after a
partial failure adds a new organisation a second time; with a saved monthly
bucket the organisation just chosen is not in the table
(`MyBucketViewController.swift:63`); and a load that fails after the pledges
came in, on a bucket of amount 0, hands over every pledge to be stopped.

Two behaviours of the Firestore client are worth knowing. A write can be reported
as refused although it was stored: when the backend refuses a later write of the
pipeline and the client sends another one before it has read the answers that
came ahead of the refusal, the failed send closes the stream, the answers are
dropped, and the refusal is taken to be for the first write of the pipeline
(`remote/grpc_stream.cc:313`, `remote/remote_store.cc:504`).
`RejectionHasCause` says that this is the only way; `WriteQueue` therefore lets a
stored write be settled with an error. For the app it means that an error from a
write does not prove that nothing was written. And a `getDocument` that is called
while the watch stream is starting or backing off, after the last listener was
removed, sets no ten-second timer (`remote/remote_store.cc:183`): it is answered
when the stream opens or fails, which `EveryGetAnswered` shows to happen as long as
tokens come, and not after `kOnlineStateTimeout`. The ten-second bound is not among
the properties.

### Bounds

- ApplePay: two sheets and three authorisations. A retry on the same sheet and a
  late reply to an older sheet both need two authorisations; the third lets them
  happen together.
- Checkout: two organisations, one loaded pledge, two items in an order, so that
  one answer can be refused and the other accepted in either order; two attempts
  on two screens, so that an attempt can run behind another on the same and on
  another screen, and a retry follows a partial failure. The five orders
  change and add, stop with a tip, give once, have no items, and have one row too
  small to be saved. Profiles: the sum of an order is or is not what is being
  paid. Of the payment's faults a reply can be lost and the sheet can time out,
  one leading to a charge without a token and one to a token that comes late; a
  reply that nobody reads is in `pay`. `RowsAssumption` is that a bucket lists a
  loaded pledge once, with its organisation: it is checked of these orders, and
  `RowsAreDistinct` of DonateFlow is what makes it so.
- DonateFlow: two organisations, a cause with both, amounts 0 to 2, tips 0 and
  1, three documents. One row can be full, empty or half, and two rows can
  exceed the amount. One checkout, with any number of visits to the bucket
  before it.
- Account: two donors, amounts 0 to 2, so that one amount can overtake another;
  one request and one write under way, and two callbacks waiting on the main
  queue, which is where one session's answers meet the next session; two forms
  sent, or one after a kept session: a donor, and the next one. The donors are
  interchangeable and TLC uses that symmetry. Three forms, and two writes, were
  tried as well; they take too long to be run each time and show nothing else.
- FirestoreWrites: two users, three writes, a pipeline of two (of ten in the
  code), so that the pipeline can be full with a batch left on the disk, and a
  user can come back to a queue left behind; two changes of user, one of which
  may be to the same user; two tasks waiting, so that a write and a change of
  user can be in either order; one fault and one restart. The backend refuses the
  first write of each user, so that a refusal can follow a resend. `writes_live`
  has a pipeline of three and refuses the second write, which is what the wrong
  report needs: one stored, one refused, one sent late; no restarts, since a
  handler does not survive one. The users are interchangeable, and `writes`, which
  has no liveness property, uses that symmetry.
- FirestoreReads: two calls, for one document or for two, of which one is denied;
  a version that changes once; one fault, which can be a stream that breaks, a
  token that fails, a restart of the network or a backend that is no longer
  reached. Two calls for the same document are what it takes for a response to
  meet the wrong listen. They are also what it takes
  for a denied target's count to go wrong: a denial that finds no listen is not
  counted, so the second call listens with a count that is too high, and
  `EveryGetAnswered` shows it answered. A listen with a count below zero, which a
  denial between an unwatch and its response leaves, takes a third call; three
  calls for one denied document were tried as well and each is answered.
- No other symmetry is used: the organisations play different parts in the
  orders.

Deadlock is checked for Account only: elsewhere the app may rest, and the bounds
end behaviours.

### Fairness

- Firestore's client answers the oldest write as long as it can
  (`WF_vars(FirestoreAnswers)` of Checkout): a write is repeated until the server
  has accepted or refused it. This is what `EveryWriteAnswered` shows of the
  client. The client of a signed-out user sends nothing, and `CheckoutSettles`
  says nothing of a session that has ended.
- FirestoreWrites: the worker queue runs its tasks and the completions of gRPC,
  the backoff ends, Auth answers (its request has a timeout), and a stream that
  is up carries messages. Faults are bounded, so the network comes back; nothing
  is assumed of the app and the user.
- FirestoreReads: the two queues run (`WF_vars(Queues)`), and the stream goes on
  (`WF_vars(Stream)`): tokens come, a backoff ends, a backend that is reached
  answers, and one that is not is noticed by the keepalive that
  `remote/grpc_connection.cc:264` sets. The ten-second timer is not assumed to
  fire.
- Stripe's token request and the POST end (`URLSession` has a timeout), the
  closing animation ends, and a sheet that is done or has waited too long closes
  by itself. Nothing is assumed of a donor who looks at a sheet that is ready,
  nor of any other step of the donor.

## 4. What is proved

For every value of the constants, by TLAPS:

- `PayTypes`: `PaySpec => []PayTypeOK`, and `PaySuccessIsCharged`:
  `PaySpec => []SuccessIsCharged`. The inductive invariant
  `PayInv` adds to the types that a request that has begun has an owner
  (`RequestsOwned`) and that a kept token belongs to a charge
  (`TokensArePaid`); the property alone is not inductive, since `Dismissed` reads
  the token long after the charge.
- `PayOneCharge`: `PaySpec => []OneChargePerSheet`, for any faults. The
  strengthening `ChargeInv` adds `SheetWaits` (while a request is under way its
  sheet waits for it or has closed, and no other request of the sheet is under
  way) and `ChargesAcknowledged` (a charge whose reply was neither lost nor
  ignored is under way or has left its token, and a token ends the use of the
  sheet).
- `PayReliableOneCharge`: when `Faults` has at most the sheet's timeout, a sheet
  is charged at most once; from `PayOneCharge` and that then no reply is lost or
  ignored (`EveryReplyHeard`).
- `CheckoutTypes`: `Spec => []TypeOK`. Needs that the counters stay natural
  numbers and that a job's screen has been opened.
- `CheckoutShownMeansSaved`: `Spec => []ShownMeansSaved`. It is about the item writes
  of a monthly order and the records of a one-time payment (`WritesOf`), and not
  about the tip (`addTips`, `DonateConfirmationViewController.swift:46-52`) and the
  monthly amount (`updateDefaultDonateAmount`, `:124-127`), after whose refusal the
  code goes on to "Success!", as the model does. `JoinOK` is the argument
  why counting answers is enough: `queryCount` plus the requests pending never
  exceeds what the join waits for (it stays behind for good when an answer found
  no screen), and while it is equal and `isError` is not set, whatever is not
  pending was accepted. So when the count is reached nothing is pending and
  without an error everything was accepted; the stages after it keep that.
  `ScreensOK` makes the set of writes stable: a screen on display was opened, an
  attempt belongs to an opened screen, a sheet on screen to an attempt that is
  paying.
- `CheckoutWritesFollowCharge`: `Spec => []WritesFollowCharge`, by `PaidFirst`: an
  attempt that has started is free or has a kept token, and accepted writes
  belong to attempts beyond the stage `tips`.
- `CheckoutImplementsPay`: `Spec => PayInit /\ [][PayNext]_payVars`; seen through
  the payment's variables, a checkout is a behaviour of the payment manager's
  specification (safety part), so what is proved of ApplePay holds in Checkout.

- `CheckoutBucketKept`: the saved bucket is given up only by an attempt that shows
  success (`DroppedOK`), which `CheckoutShownMeansSaved` shows to have every item
  and record write accepted; the tip and the monthly amount may have been refused.
- `CheckoutSpinnerHasCause`: the overlay of a screen always has an answer to wait
  for. This rests on `NoneMissedOK`: as long as a screen is on the stack each of
  its answers finds it, so `queryCount` plus the requests pending is exactly what
  the join waits for. It is an inequality only for a screen that has gone.
- `CheckoutOneAttempt`: a screen without a monthly tip has one attempt under way,
  since the sheet or the overlay covers the button from the press to the result
  (`AloneOK`). With a tip, and only then, the button is free between the closing
  of the sheet and the answer to the tip.
- `CheckoutShownMeansStored`: when the same order is handed over each time, the
  pledges stand on the server as ordered. An accepted write of a pledge leaves it
  with the order's amount or removed, and a write of an older attempt that comes
  later does the same (`StoredOK`); `RowsAssumption` keeps the rows apart.

`Inv` in `CheckoutProof` is the conjunction `TypeOK`, `PayInv`, `ScreensOK`,
`PaidFirst`, `JoinOK`; `ScreenInv`, which is preserved under it, adds what the
display shows (`DisplayOK`) and the four named above. The assumptions are the
named ones of the modules: bounds are natural numbers, orders and documents have
their types, an order has at most `MaxItems` items and no pledge twice.

Of DonateFlow, for any organisations and targets, any amounts, tips and pledges,
and any number of donations:

- `FlowTypesKept`, `FlowGateIsFresh`, `FlowRowsAreDistinct`,
  `FlowLoadedPledgesHandedOver`, `FlowSavedAmountIsKept`: every invariant that
  `flow` checks, and `FlowOnceListsTarget`, its action property.

The invariant, `Inv` in `DonateFlowProof`, adds to `TypeOK` and
`SavedAmountIsKept`

- `BucketOK`: what a bucket screen is at each stage of its load. Pledges are loaded
  for a monthly bucket only and only when none is saved, and the table is empty
  until they are there, so no row is older than the pledges it is compared with. The loaded
  pledges have ids of their own (`AreDonates`), and a row has the id of a pledge
  exactly when it has its organisation (`RowsFit`); sliding, deleting and editing
  keep that. This is what `LoadedPledgesHandedOver` needs: the rows are told apart
  from the pledges by organisation, the checkout looks at ids.
- `ScreenOK`: while the table, or a screen above it, is on display the button is
  right (`Gate`), a load is under way only under the table, and the confirmation
  screen has the items of this bucket.
- `AllDistinct`: not only the table but the pledges it has loaded and the saved
  bucket have one row for an organisation; each is a source of the next table.

`RowsAreDistinct` is about the flow up to the checkout: on the success screen the
old table is still there although the pledges have changed. Whether a donor has one
pledge for an organisation is not in this component's hands (a retry can add a
second, see section 3), so both properties of the rows say "as long as". The sum of
the rows is a number (`SumIsNumber`) and the merge keeps what it should
(`MergedProperties`) by `FoldSteps` of `DataLemmas`, which follows a fold step by
step. The organisations of a cause are distinct, being the documents of one query
(`TargetsAssumption`, `FirebaseManager.swift:174-189`).

Of Account, for any set of donors, any amounts and any number of forms, requests,
writes and callbacks:

- `AccountTypes`: `Spec => []TypeOK`.
- `AccountNothingOfOthers`: `Spec => []NothingOfOthers`. The invariant, `Owners`,
  follows each value from the request to the cache: every request, every callback
  that waits and everything cached is of the donor of the session or of one in
  `left`. A logout resets the cache, so it puts its donor there only when a request
  or a callback of the session is still under way.
- `AccountCacheIsStored`: `Spec => []CacheIsStored`. The cached amount is ahead of
  the stored one while a write is under way and behind it while a callback is, so
  the inductive form is about all that is under way (`AllCurrent`): for an account
  that is not unsure, if no write is under way but the one that makes its profile,
  then running the callbacks still queued leaves the stored amount in the cache.
  `Known` (nothing is of an account that does not exist yet) and `Once` (each
  account's profile is made by one chain from request to write) are what keeps a
  second profile from overwriting the first amount.

The bounds are natural numbers, and `None` is no donor, amount or profile
(`NoneAssumption`).

Of FirestoreReads, for any finite set of documents, any of them denied, any cached
ones, and any number of calls, versions and faults:

- `ReadsTypes`, `ReadsAnsweredOnce`, `ReadsFreshAnswer`, `ReadsResponsesCounted`,
  `ReadsAssertions`: every safety invariant that `reads` checks, from one inductive
  invariant.

That invariant, `Inv` in `FirestoreReadsProof`, has two halves. Of the client
(`ClientOK`):

- `Targets` and `Timers`: the assertions of the code.
- `Counted`: `outstanding_responses_` of a target is the number of its requests on
  the way up and of its responses on the way down. `Silent`: a stream that is not
  open has neither. `Unknown`: the backend says nothing of a target it denies,
  whose count is forgotten and may be wrong.
- `DocumentsFresh`: a document on its way with no response and no request of its
  target behind it is not older than the view. This is the reason for the count: a
  target is active exactly when nothing of its target is to come, so what the
  client takes in then was sent after the last listen. `CurrentsFresh`: a
  `current` comes right behind such a document. `StatesFresh`, `ViewsFresh`: so a
  view that is current, or about to become it, is not older than its beginning.

Of the calls: a get is listened to by one task or one listener (`TasksOnce`,
`Own`), an error is the last event of its get (`EventsOnce`), a get that was
answered is muted or has neither listener nor event (`AnsweredGets`), and events
of the server are fresh (`EventsFresh`). `AnsweredOnce` needs the last three
together: an answer mutes the listener, except for an error, after which nothing
must come.

Of FirestoreWrites, for any finite set of users, any refused writes, any length
of the pipeline from one, and any number of writes, changes of the user, faults
and restarts:

- `WritesTypes`, `WritesPipelineIsPrefix`, `WritesAssertionsHold`,
  `WritesHandlerHasBatch`, `WritesAnswersInOrder`, `WritesOwnCredentials`,
  `WritesConverge`, `WritesRejectionHasCause`: every safety invariant that
  `writes` and `writes_live` check, as `SafeSpec => []...`, from one inductive
  invariant.
- `WritesImplementQueue`: `SafeSpec => ImplementsWriteQueue`. A write task is
  `Issue`, a stored write is `Commit`, an answer or a rejection is `Settle`, a
  task of a new user is `ChangeUser`, the ends of the app are `Restart`, and
  everything else leaves the queue as it is.

The invariant, `Inv` in `FirestoreSteps`, is the conjunction of

- `TasksInOrder`: there is an assignment of a user to each position of the worker
  queue, from the one SyncEngine has now to the one Auth has now, under which each
  write and each token belongs to the user who will be signed in when its task
  runs. This is why a token that was asked for before a change of user opens no
  stream after it: the change lies before or behind it in the same queue.
- `AsksCurrent` and `TokensOK`: an outstanding `GetToken` with the current counter
  is for the current user, and at most one token, asked for or answered, is for
  the stream that is starting; the others carry an older `close_count_`.
- `QueuesOK`: batches are ascending in their ids and in the order of the writes,
  belong to their user, and lie below `next_batch_id_`; ids of all users together
  are bounded, which the maximum in `LoadNextBatchIdFromDb` needs.
- `WritesInOrder`: the write tasks that wait are newer than all the writes of
  that user that were queued, stored or answered.
- `StreamOK`: the pipeline is the front of the queue; on an open stream the
  handshake is under way in exactly one place, or the answers under way are for
  the first writes of the pipeline, which were stored, and the messages under way
  are exactly the rest of it; after a refusal the next write is the refused one.
- `AnswersOK`: `HandlerHasBatch`, `AnswersInOrder` and `RejectionHasCause`
  themselves, that a waiting write is newer than every answered one
  (`AnsweredBefore`), that a stored write is still in its queue or no newer than
  what the document holds and older than the queue (`StoredIsSettled`), and that
  nothing stored is refused.

None of the properties is inductive alone: that an answer is for the first write
of the pipeline needs `StreamOK`, which needs the tokens and the order of the
tasks; that it does not repeat one needs the order of the queues.

Only model-checked: the liveness properties (`SheetNeverHangs`,
`CheckoutSettles`, `EveryWriteAnswered`, `EveryGetAnswered`), since fairness is
beyond the prover. Every invariant and action property of the runs that pass is
proved.

## 5. What is not modelled

- Layout, labels, formatting, animations and sharing. The contents of the POST
  and of history records.
- A cause is assumed to have organisations: for one without, `fetchOrganisations`
  never calls back (`FirebaseManager.swift:174`).
- A restart of the app outside Account and FirestoreWrites. Nothing of a checkout is persisted on the
  device, and no code recovers one that was interrupted.
- `resetPassword`, which sends a mail and changes nothing in the app.
- Parsing of Firestore documents (`Common/Model`); the models take the values.
- Screens that nothing opens (`DonateCause`, `DonateOrganization`, `Filters`,
  `HowMuchRaised`, `EditImpact`).
- Search and the loading of home and impacts: see the plan.
- Of the Firestore client: queries for collections (limbo resolution, existence
  filters, resets), local writes shown in views, resume tokens, transactions,
  garbage collection, the encoding of messages, `DisableNetwork` and `Terminate`,
  which the app does not call. FirestoreReads reads documents whose rules and
  versions are the backend's alone.
- The other pods. They hold nearly all the lines of the repository and none of
  its logic: TLS, HTTP/2, certificates, a key-value store, encoders, a payment
  SDK. What the modelled code sees of them is stated as external actions. A
  faithful model of gRPC or BoringSSL would be a project of its own beside those
  libraries, and would say nothing about this app.

## 6. Plan

1. Payment and checkout, composed: done, with the first theorems.
2. The flow to the checkout: done, and its safety is proved.
3. `Account`: done, and its safety is proved.
4. `FirestoreWrites` with the abstract `WriteQueue`, `FirestoreReads`: done, and
   their safety is proved, with the refinement of `WriteQueue`.
5. `OrganisationFetch`: `fetchDonates` with its chunks of ten ids and their join
   (`FirebaseManager.swift:353-409`), against a reference definition; filters and
   the row that is opened in search; the three loads of the impacts screen.
6. Proofs: all safety of the runs that pass is proved. Next: that the checkout of
   DonateFlow is one that Checkout can make, which would let `RowsAreDistinct` take
   the place of Checkout's `RowsAssumption`; and what of the invariants the
   properties could say themselves.
