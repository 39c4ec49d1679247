----------------------------- MODULE DonateFlow -----------------------------
(***************************************************************************)
(* From "Donate" to the confirmation screen and home again:                *)
(*   UIViewController+DonateFlow.swift   once or monthly, which screen next *)
(*   AdjustDonateAmountViewController, ChooseAmountStepOneVC   the amount   *)
(*   MyBucketViewController and its cells   dividing the amount             *)
(*   DonateTipsPopupViewController          the tip                         *)
(*   UserManager                            the saved bucket and amounts    *)
(* The checkout itself is one step here, the successful one of Checkout.    *)
(*                                                                          *)
(* The tab bar is hidden from the first pushed screen on, so there is one   *)
(* navigation stack and at most one bucket screen on it.                    *)
(***************************************************************************)
EXTENDS Integers, FiniteSets, SequencesExt

CONSTANTS
    Orgs,           \* organisations
    Targets,        \* what "Donate" can be pressed on
    None,           \* a missing value
    MaxAmount,      \* bound: Constants.maxCauseAmount
    MaxTips,        \* bound: the largest tip
    MaxPledges,     \* bound: documents in the Donates collection
    MaxCheckouts,   \* bound: donations completed
    Profiles,       \* what the donor's document can hold at the start
    FirstPledges,   \* what the Donates collection can hold at the start
    CanFail         \* can Firestore fail to answer a query or a write?

minAmount == 1
Amounts == 0 .. MaxAmount
Ids == 1 .. MaxPledges                      \* donateId; 0: there is none
Row == [org : Orgs, id : Ids \cup {0}, amount : Nat]
Target == [cause : BOOLEAN, orgs : Seq(Orgs)]
Pledge == [org : Orgs \cup {None}, amount : Nat]  \* amount 0: no such document
Profile == [default : Nat, tips : Nat]

(* A cause has organisations, the documents of one query, each of them     *)
(* once; "Donate" on an organisation has that one.                         *)
ASSUME TargetsAssumption ==
    \A t \in Targets : /\ t \in Target /\ Len(t.orgs) > 0
                       /\ t.cause \/ Len(t.orgs) = 1
                       /\ \A i, j \in DOMAIN t.orgs : t.orgs[i] = t.orgs[j] => i = j
ASSUME FlowBounds ==
    /\ MaxAmount \in Nat \ {0} /\ MaxTips \in Nat
    /\ MaxPledges \in Nat /\ MaxCheckouts \in Nat
ASSUME ProfileAssumption == Profiles \subseteq Profile
ASSUME FirstPledgesAssumption ==
    /\ FirstPledges \subseteq [Ids -> Pledge]
    /\ None \notin Orgs
ASSUME CanFailAssumption == CanFail \in BOOLEAN

VARIABLES
    screen,             \* what is on the display
    below,              \* the screen under the bucket screen
    target,             \* what "Donate" was pressed on
    once,               \* the donateType that was chosen is .once
    draft,              \* donateAmount of the screen that asks for an amount
    edit,               \* donateAmount of the one the bucket screen has pushed
    bucket,             \* the bucket screen
    loading,            \* what its loadData waits for
    order,              \* what the confirmation screen was given
    completeDonation,   \* UserManager: the saved bucket
    tmpDonateAmount,    \* UserManager: the amount saved with it
    oneTimeDonateAmount,\* UserManager, in the UserDefaults
    user,               \* UserManager.user, and the donor's document
    pledges,            \* the Donates collection
    activeDonates,      \* what the impacts screen still shows until it has reloaded
    paid,               \* what the payment server charges each month
    removed,            \* pledges whose rows the donor has deleted
    checkouts           \* donations completed

flowVars == <<below, target, once, draft>>
bucketVars == <<bucket, loading, edit, removed>>
managerVars == <<completeDonation, tmpDonateAmount, oneTimeDonateAmount>>
serverVars == <<user, pledges, paid, activeDonates, checkouts>>
vars == <<screen, flowVars, bucketVars, order, managerVars, serverVars>>

-----------------------------------------------------------------------------
Sum(rows) == FoldLeft(LAMBDA s, r : s + r.amount, 0, rows)
OrgsOf(rows) == {rows[i].org : i \in DOMAIN rows}

(* The rows at some positions, in their order.                             *)
RowsAt(rows, kept) ==
    LET at == CHOOSE f \in [1 .. Cardinality(kept) -> kept] :
                  \A i, j \in 1 .. Cardinality(kept) : i < j => f[i] < f[j]
    IN  [k \in 1 .. Cardinality(kept) |-> rows[at[k]]]

(* Mutant of Caps: what is left may be negative. *)
CapsUnclamped(amount, rows) ==
    [i \in DOMAIN rows |-> amount - Sum(rows) + rows[i].amount]

(* configureWith: how far each slider goes, at the last reload. *)
Caps(amount, rows) ==
    LET left == amount - Sum(rows)
    IN  [i \in DOMAIN rows |-> (IF left < 0 THEN 0 ELSE left) + rows[i].amount]

(* updateUI and reloadData of a bucket screen. *)
UpdateUI(b) == [b EXCEPT !.isEnabled = (Sum(b.rows) = b.amount)]
Reload(b) == [b EXCEPT !.caps = Caps(b.amount, b.rows)]
Refresh(b) == UpdateUI(Reload(b))

NoBucket == [once |-> FALSE, amount |-> 0, wanted |-> <<>>, organizations |-> None,
             donates |-> <<>>, rows |-> <<>>, caps |-> <<>>, isEnabled |-> FALSE,
             shouldShowTips |-> FALSE]
NoOrder == [once |-> FALSE, amount |-> 0, tips |-> 0, items |-> <<>>]

Saved(type) == completeDonation # None /\ completeDonation.once = type

(* The pledges there are, in the order of their ids; and what fetchDonates *)
(* makes of them: a pledge whose organisation could not be fetched is left *)
(* out, and nobody is told.                                                *)
Donates ==
    RowsAt([i \in Ids |-> [org |-> pledges[i].org, id |-> i, amount |-> pledges[i].amount]],
           {i \in Ids : pledges[i].org # None /\ pledges[i].amount > 0})
FetchedDonates ==
    {RowsAt(Donates, {i \in DOMAIN Donates : Donates[i].org \in fetched}) :
        fetched \in IF CanFail THEN SUBSET Orgs ELSE {Orgs}}

-----------------------------------------------------------------------------
(* loadDataCompletionHandler: the rows of the table out of the target's    *)
(* organisations, the pledges and the saved bucket.                        *)
FirstOf(rows, org) == SelectInSeq(rows, LAMBDA r : r.org = org)

TargetRow(donates, org) ==
    LET i == FirstOf(donates, org)
    IN  IF i > 0 THEN donates[i] ELSE [org |-> org, id |-> 0, amount |-> 0]

(* Mutant of MergeRow: the saved row is always added. *)
MergeRowAppends(rows, r) == Append(rows, r)

MergeRow(rows, r) ==
    LET i == FirstOf(rows, r.org)
    IN  IF i > 0 THEN [rows EXCEPT ![i].amount = r.amount] ELSE Append(rows, r)

(* Mutant of MergeSaved: the saved bucket replaces the table. *)
MergeSavedReplaces(rows, type, amount) ==
    IF Saved(type) THEN completeDonation.rows
    ELSE IF Len(rows) = 1 THEN [rows EXCEPT ![1].amount = amount]
    ELSE rows

MergeSaved(rows, type, amount) ==
    IF Saved(type) THEN FoldLeft(MergeRow, rows, completeDonation.rows)
    ELSE IF Len(rows) = 1 THEN [rows EXCEPT ![1].amount = amount]
    ELSE rows

LoadDataCompletionHandler(b) ==
    LET wanted == IF b.organizations = None THEN <<>> ELSE b.organizations
        chosen == [i \in DOMAIN wanted |-> TargetRow(b.donates, wanted[i])]
        others == {j \in DOMAIN b.donates :
                       \A i \in DOMAIN chosen : chosen[i].id # b.donates[j].id}
        rows   == IF b.once THEN chosen ELSE chosen \o RowsAt(b.donates, others)
    IN  Refresh([b EXCEPT !.rows = MergeSaved(rows, b.once, b.amount)])

-----------------------------------------------------------------------------
(* The donateAmount a bucket screen starts with. *)
AmountOf(type) ==
    IF type THEN oneTimeDonateAmount
    ELSE IF tmpDonateAmount # None THEN tmpDonateAmount
    ELSE user.default

(* viewDidLoad of a bucket screen that has been pushed over a screen.  A   *)
(* bucket without a cause to ask for loads nothing in one-time mode.       *)
ShowBucket(type, amount, t, impacts, over) ==
    LET opened ==
          [NoBucket EXCEPT
             !.once = type,
             !.amount = amount,
             !.wanted = IF t = None THEN <<>> ELSE t.orgs,
             !.organizations = IF t # None /\ ~t.cause THEN t.orgs ELSE None,
             !.rows = IF ~type /\ impacts # None THEN impacts
                      ELSE IF Saved(type) THEN completeDonation.rows
                      ELSE <<>>]
        asks == t # None /\ t.cause
    IN  /\ screen' = "bucket"
        /\ below' = over
        /\ IF type
             THEN /\ bucket' = IF asks THEN Refresh(opened)
                               ELSE LoadDataCompletionHandler(opened)
                  /\ loading' = IF asks THEN "organisations" ELSE "nothing"
             ELSE /\ bucket' = Refresh(opened)
                  /\ loading' = IF impacts # None \/ Saved(FALSE) THEN "nothing"
                                ELSE "donates"
        /\ removed' = IF impacts = None /\ Saved(type) THEN removed ELSE {}

-----------------------------------------------------------------------------
(* Back on the first screen; the screens above it are gone. *)
ToRoot ==
    /\ screen' = "root"
    /\ below' = "root" /\ target' = None /\ once' = FALSE /\ draft' = 0

(* UIViewController+DonateFlow *)

(* showChooseOnceOrMonthly, from a cause or an organisation. *)
DonatePressed(t) ==
    /\ screen = "root"
    /\ checkouts < MaxCheckouts
    /\ screen' = "choice"
    /\ target' = t
    /\ UNCHANGED <<below, once, draft, bucketVars, order, managerVars, serverVars>>

ChoiceClosed ==
    /\ screen = "choice"
    /\ ToRoot
    /\ UNCHANGED <<bucketVars, order, managerVars, serverVars>>

shouldSetAmount == tmpDonateAmount = None /\ user.default = 0

DonateStepTwo(type) ==
    \/ /\ type
       /\ screen' = "adjust"
       /\ draft' = oneTimeDonateAmount
       /\ UNCHANGED <<below, bucketVars>>
    \/ /\ ~type /\ shouldSetAmount
       /\ screen' = "amount"
       /\ draft' = 0
       /\ UNCHANGED <<below, bucketVars>>
    \/ /\ ~type /\ ~shouldSetAmount
       /\ ShowBucket(type, AmountOf(type), target, None, "root")
       /\ UNCHANGED <<draft, edit>>

(* The choice, then donateStepOne: a saved bucket of the other type is     *)
(* asked about first.                                                      *)
DonateStepOne(type) ==
    /\ screen = "choice"
    /\ once' = type
    /\ \/ /\ Saved(type)
          /\ ShowBucket(type, AmountOf(type), target, None, "root")
          /\ UNCHANGED <<draft, edit>>
       \/ /\ completeDonation = None
          /\ DonateStepTwo(type)
       \/ /\ Saved(~type)
          /\ screen' = "reset"
          /\ UNCHANGED <<below, draft, bucketVars>>
    /\ UNCHANGED <<target, order, managerVars, serverVars>>

(* "Reset previous bucket?"  The saved bucket is left as it is. *)
ResetAnswered(ok) ==
    /\ screen = "reset"
    /\ \/ ok /\ DonateStepTwo(once) /\ UNCHANGED <<once, target>>
       \/ ~ok /\ ToRoot /\ UNCHANGED bucketVars
    /\ UNCHANGED <<order, managerVars, serverVars>>

(* "Complete Donation" on the home screen. *)
CompleteDonationButtonPressed ==
    /\ screen = "root"
    /\ checkouts < MaxCheckouts
    /\ completeDonation # None
    /\ LET type == completeDonation.once
       IN  ShowBucket(type, AmountOf(type), None, None, "root")
    /\ UNCHANGED <<target, once, draft, edit, order, managerVars, serverVars>>

(* "Adjust Active Donations": with the pledges the impacts screen has       *)
(* loaded, or with the ones it showed before.                              *)
AdjustActiveDonationsButtonPressed ==
    /\ screen = "root"
    /\ checkouts < MaxCheckouts
    /\ \E impacts \in {activeDonates} \cup FetchedDonates :
          ShowBucket(FALSE, AmountOf(FALSE), None, impacts, "root")
    /\ UNCHANGED <<target, once, draft, edit, order, managerVars, serverVars>>

-----------------------------------------------------------------------------
(* The screens that ask for an amount.  The slider stands at the amount,   *)
(* or at its lower end when the amount is below it.                        *)
Slider(amount) == IF amount < minAmount THEN minAmount ELSE amount

SliderValueChanged(v) ==
    /\ \/ screen \in {"adjust", "amount"} /\ draft' = v /\ UNCHANGED edit
       \/ screen = "edit" /\ edit' = v /\ UNCHANGED draft
    /\ UNCHANGED <<screen, below, target, once, bucket, loading, removed, order,
                   managerVars, serverVars>>

(* Adjust: "Continue" to a one-time bucket; back by the button or a swipe. *)
AdjustContinue ==
    /\ screen = "adjust"
    /\ oneTimeDonateAmount' = draft
    /\ ShowBucket(TRUE, draft, target, None, "adjust")
    /\ UNCHANGED <<target, once, draft, edit, order, completeDonation,
                   tmpDonateAmount, serverVars>>

AdjustBack ==
    /\ screen = "adjust"
    /\ oneTimeDonateAmount' \in {oneTimeDonateAmount, Slider(draft)}
    /\ ToRoot
    /\ UNCHANGED <<bucketVars, order, completeDonation, tmpDonateAmount, serverVars>>

(* ChooseAmountStepOne: "Continue" writes the monthly amount.  The donor   *)
(* may have left when the answer comes.                                    *)
AmountContinue ==
    /\ screen = "amount"
    /\ \/ /\ user' = [user EXCEPT !.default = draft]
          /\ \/ screen' = "recipients" /\ UNCHANGED flowVars
             \/ ToRoot
       \/ /\ CanFail /\ user.default # draft
          /\ UNCHANGED <<user, screen, flowVars>>
    /\ UNCHANGED <<bucketVars, order, managerVars, pledges, paid, activeDonates,
                   checkouts>>

(* ChooseRecipients: "Create", to a monthly bucket. *)
CreateButtonPressed ==
    /\ screen = "recipients"
    /\ ShowBucket(FALSE, AmountOf(FALSE), target, None, "recipients")
    /\ UNCHANGED <<target, once, draft, edit, order, managerVars, serverVars>>

(* Back from the screens of the introduction. *)
IntroBack ==
    /\ \/ screen = "amount" /\ ToRoot
       \/ screen = "recipients" /\ screen' = "amount" /\ UNCHANGED flowVars
    /\ UNCHANGED <<bucketVars, order, managerVars, serverVars>>

-----------------------------------------------------------------------------
(* The bucket screen.  Its overlay blocks it while it loads. *)
OnBucket == screen = "bucket" /\ loading = "nothing"

(* The bucket screen's answers: fetchDonates, then, for a cause, its       *)
(* organisations.  A failure is shown and leaves the table as it is.       *)
DonatesLoaded ==
    LET asks == target # None /\ target.cause
    IN  /\ loading = "donates"
        /\ \E donates \in FetchedDonates :
              LET loaded == [bucket EXCEPT !.donates = donates]
              IN  bucket' = IF asks THEN loaded ELSE LoadDataCompletionHandler(loaded)
        /\ loading' = IF asks THEN "organisations" ELSE "nothing"

OrganisationsLoaded ==
    /\ loading = "organisations"
    /\ bucket' = LoadDataCompletionHandler([bucket EXCEPT !.organizations = target.orgs])
    /\ loading' = "nothing"

LoadFailed ==
    /\ CanFail
    /\ loading # "nothing"
    /\ loading' = "nothing"
    /\ UNCHANGED bucket

LoadAnswered ==
    /\ DonatesLoaded \/ OrganisationsLoaded \/ LoadFailed
    /\ UNCHANGED <<screen, flowVars, edit, removed, order, managerVars, serverVars>>

(* onSliderActionMoved: as far as the slider went at the last reload. *)
SliderMoved(i, v) ==
    /\ OnBucket
    /\ v <= bucket.caps[i]
    /\ bucket' = UpdateUI([bucket EXCEPT !.rows[i].amount = v])
    /\ UNCHANGED <<screen, flowVars, edit, loading, removed, order, managerVars,
                   serverVars>>

(* onSliderActionEnded; a touch that is cancelled never gets here. *)
SliderEnded ==
    /\ OnBucket
    /\ bucket' = Reload(bucket)
    /\ UNCHANGED <<screen, flowVars, edit, loading, removed, order, managerVars,
                   serverVars>>

(* Mutant of WithoutRow: the button is not looked at again. *)
WithoutRowStale(b, i) == Reload([b EXCEPT !.rows = RemoveAt(@, i)])

WithoutRow(b, i) == Refresh([b EXCEPT !.rows = RemoveAt(@, i)])

(* onDeleteAction *)
DeleteRow(i) ==
    /\ OnBucket
    /\ bucket' = WithoutRow(bucket, i)
    /\ removed' = removed \cup ({bucket.rows[i].id} \ {0})
    /\ UNCHANGED <<screen, flowVars, edit, loading, order, managerVars, serverVars>>

(* "Edit" pushes an amount screen.  Coming back from it, or from the       *)
(* confirmation, viewWillAppear shows the tips popup if it was shown       *)
(* before.                                                                 *)
EditButtonPressed ==
    /\ OnBucket
    /\ screen' = "edit"
    /\ edit' = bucket.amount
    /\ UNCHANGED <<flowVars, bucket, loading, removed, order, managerVars, serverVars>>

ViewWillAppear == screen' = IF bucket.shouldShowTips THEN "tips" ELSE "bucket"

EditContinue ==
    /\ screen = "edit"
    /\ oneTimeDonateAmount' = IF bucket.once THEN Slider(edit) ELSE oneTimeDonateAmount
    /\ bucket' = Refresh([bucket EXCEPT
                             !.amount = edit,
                             !.rows = [i \in DOMAIN @ |-> [@[i] EXCEPT !.amount = 0]]])
    /\ ViewWillAppear
    /\ edit' = 0
    /\ UNCHANGED <<flowVars, loading, removed, order, completeDonation,
                   tmpDonateAmount, serverVars>>

EditBack ==
    /\ screen = "edit"
    /\ ViewWillAppear
    /\ edit' = 0
    /\ UNCHANGED <<flowVars, bucket, loading, removed, order, managerVars, serverVars>>

(* Mutant of SaveBucket: the amount is not saved with a monthly bucket. *)
SaveBucketOnly ==
    /\ completeDonation' = [once |-> bucket.once, rows |-> bucket.rows,
                            amount |-> bucket.amount]
    /\ UNCHANGED <<tmpDonateAmount, oneTimeDonateAmount>>

(* The saved bucket.  Its field amount is not in the code: it remembers    *)
(* for the properties what the donor was dividing.                         *)
SaveBucket ==
    /\ completeDonation' = [once |-> bucket.once, rows |-> bucket.rows,
                            amount |-> bucket.amount]
    /\ tmpDonateAmount' = IF bucket.once THEN tmpDonateAmount ELSE bucket.amount
    /\ UNCHANGED oneTimeDonateAmount

CompleteButtonPressed ==
    /\ OnBucket
    /\ bucket.isEnabled
    /\ SaveBucket
    /\ bucket' = [bucket EXCEPT !.shouldShowTips = TRUE]
    /\ screen' = "tips"
    /\ UNCHANGED <<flowVars, edit, loading, removed, order, serverVars>>

KeepBrowsingButtonPressed ==
    /\ OnBucket
    /\ SaveBucket
    /\ bucket' = NoBucket
    /\ ToRoot
    /\ UNCHANGED <<edit, loading, removed, order, serverVars>>

(* Back, while loading too: the answers then find no screen. *)
BucketBack ==
    /\ screen = "bucket"
    /\ \/ below = "root" /\ ToRoot
       \/ /\ below # "root"
          /\ screen' = below /\ below' = "root"
          /\ UNCHANGED <<target, once, draft>>
    /\ bucket' = NoBucket
    /\ loading' = "nothing"
    /\ UNCHANGED <<edit, removed, order, managerVars, serverVars>>

-----------------------------------------------------------------------------
(* The tips popup and the confirmation screen. *)
TipsClosed ==
    /\ screen = "tips"
    /\ screen' = "bucket"
    /\ UNCHANGED <<flowVars, bucketVars, order, managerVars, serverVars>>

(* Mutant of ItemsToPass: rows the donor has deleted are forgotten. *)
ItemsToPassRows(b) == b.rows

(* showDonateConfirmation passes the rows, and each pledge that was loaded *)
(* and is no longer among them, to be stopped.                             *)
ItemsToPass(b) ==
    LET gone == RowsAt(b.donates, {i \in DOMAIN b.donates :
                                       b.donates[i].org \notin OrgsOf(b.rows)})
    IN  IF b.once THEN b.rows
        ELSE b.rows \o [i \in DOMAIN gone |-> [gone[i] EXCEPT !.amount = 0]]

(* "Proceed to Checkout", with the tip the popup's buttons have come to.   *)
DonateButtonPressed(tips) ==
    /\ screen = "tips"
    /\ order' = [once |-> bucket.once, amount |-> bucket.amount, tips |-> tips,
                 items |-> ItemsToPass(bucket)]
    /\ screen' = "confirm"
    /\ UNCHANGED <<flowVars, bucketVars, managerVars, serverVars>>

ConfirmBack ==
    /\ screen = "confirm"
    /\ ViewWillAppear
    /\ order' = NoOrder
    /\ UNCHANGED <<flowVars, bucketVars, managerVars, serverVars>>

(* The checkout that succeeds, in one step. *)
FreeIds(docs) == {i \in Ids : docs[i].org = None /\ docs[i].amount = 0}
SaveRow(docs, r) ==
    IF r.id # 0
    THEN IF r.amount > 0 /\ docs[r.id].amount = 0
         THEN [docs EXCEPT ![r.id] = [org |-> None, amount |-> r.amount]]
         ELSE [docs EXCEPT ![r.id].amount = r.amount]
    ELSE IF r.amount > 0
         THEN [docs EXCEPT ![Min(FreeIds(docs))] = [org |-> r.org, amount |-> r.amount]]
         ELSE docs

CheckoutSucceeds ==
    LET sum  == order.amount + order.tips
        free == sum = user.default + user.tips
        new  == {k \in DOMAIN order.items :
                    order.items[k].id = 0 /\ order.items[k].amount > 0}
    IN  /\ screen = "confirm"
        /\ order.items # <<>> \/ (order.once /\ ~free /\ order.tips > 0)
        /\ Cardinality(new) <= Cardinality(FreeIds(pledges))
        /\ pledges' = IF order.once /\ ~free THEN pledges
                      ELSE FoldLeft(SaveRow, pledges, order.items)
        /\ paid' = IF order.once \/ free THEN paid ELSE sum
        /\ \E default \in {order.amount} \cup (IF CanFail THEN {user.default} ELSE {}),
              tips \in {order.tips} \cup (IF CanFail THEN {user.tips} ELSE {}) :
              user' = [default |-> IF order.once THEN user.default ELSE default,
                       tips |-> IF order.once \/ free \/ order.tips = 0
                                  THEN user.tips ELSE tips]
        /\ completeDonation' = None
        /\ tmpDonateAmount' = None
        /\ checkouts' = checkouts + 1
        /\ screen' = "success"
        /\ activeDonates' = Donates
        /\ UNCHANGED <<flowVars, bucketVars, order, oneTimeDonateAmount>>

BackToHomeButtonPressed ==
    /\ screen = "success"
    /\ ToRoot
    /\ bucket' = NoBucket
    /\ order' = NoOrder
    /\ removed' = {}
    /\ UNCHANGED <<edit, loading, managerVars, serverVars>>

-----------------------------------------------------------------------------
Init ==
    /\ screen = "root" /\ below = "root"
    /\ target = None /\ once = FALSE
    /\ draft = 0 /\ edit = 0
    /\ bucket = NoBucket /\ loading = "nothing" /\ order = NoOrder
    /\ completeDonation = None /\ tmpDonateAmount = None
    /\ oneTimeDonateAmount = minAmount
    /\ pledges \in FirstPledges
    /\ user \in Profiles
    /\ paid = IF Donates # <<>> THEN user.default + user.tips ELSE 0
    /\ activeDonates = <<>>
    /\ removed = {}
    /\ checkouts = 0

Next ==
    \/ \E t \in Targets : DonatePressed(t)
    \/ ChoiceClosed
    \/ \E type \in BOOLEAN : DonateStepOne(type)
    \/ \E ok \in BOOLEAN : ResetAnswered(ok)
    \/ CompleteDonationButtonPressed
    \/ AdjustActiveDonationsButtonPressed
    \/ \E v \in minAmount .. MaxAmount : SliderValueChanged(v)
    \/ AdjustContinue \/ AdjustBack
    \/ AmountContinue \/ CreateButtonPressed \/ IntroBack
    \/ LoadAnswered
    \/ \E i \in DOMAIN bucket.rows : \E v \in Amounts : SliderMoved(i, v)
    \/ SliderEnded
    \/ \E i \in DOMAIN bucket.rows : DeleteRow(i)
    \/ EditButtonPressed \/ EditContinue \/ EditBack
    \/ CompleteButtonPressed \/ KeepBrowsingButtonPressed \/ BucketBack
    \/ TipsClosed
    \/ \E tips \in 0 .. MaxTips : DonateButtonPressed(tips)
    \/ ConfirmBack
    \/ CheckoutSucceeds
    \/ BackToHomeButtonPressed

Spec == Init /\ [][Next]_vars

-----------------------------------------------------------------------------
Screens == {"root", "choice", "reset", "adjust", "amount", "recipients", "bucket",
            "edit", "tips", "confirm", "success"}
Bucket == [once : BOOLEAN, amount : Nat, wanted : Seq(Orgs),
           organizations : Seq(Orgs) \cup {None}, donates : Seq(Row), rows : Seq(Row),
           caps : Seq(Nat), isEnabled : BOOLEAN, shouldShowTips : BOOLEAN]

(* The types of the flow; amounts, rows and the limits of the sliders are  *)
(* never negative (MyBucketViewController, cellForRowAt).                  *)
TypeOK ==
    /\ screen \in Screens /\ below \in {"root", "adjust", "recipients"}
    /\ target \in Targets \cup {None} /\ once \in BOOLEAN
    /\ draft \in Nat /\ edit \in Nat
    /\ bucket \in Bucket
    /\ loading \in {"nothing", "donates", "organisations"}
    /\ order \in [once : BOOLEAN, amount : Nat, tips : Nat, items : Seq(Row)]
    /\ completeDonation \in [once : BOOLEAN, rows : Seq(Row), amount : Nat] \cup {None}
    /\ tmpDonateAmount \in Nat \cup {None} /\ oneTimeDonateAmount \in Nat
    /\ user \in Profile
    /\ pledges \in [Ids -> Pledge] /\ paid \in Nat
    /\ activeDonates \in Seq(Row)
    /\ removed \subseteq Ids
    /\ checkouts \in 0 .. MaxCheckouts

(* "Proceed to Checkout" can be pressed exactly when the rows add up to the *)
(* amount, after every load, move, cancelled touch, deletion and edit       *)
(* (MyBucketViewController.swift:188-204).                                  *)
GateIsFresh == screen = "bucket" => bucket.isEnabled = (Sum(bucket.rows) = bucket.amount)

Distinct(rows) == \A i, j \in DOMAIN rows : rows[i].org = rows[j].org => i = j

(* Up to the checkout the table has one row for an organisation, however    *)
(* the target's organisations, the pledges and the saved bucket overlap, as *)
(* long as the pledges themselves are one for each                          *)
(* (MyBucketViewController.swift:108-157).                                  *)
RowsAreDistinct ==
    screen # "success" /\ Distinct(Donates) /\ Distinct(activeDonates) =>
        Distinct(bucket.rows)

(* Whatever the donor did on the table, each pledge the screen has loaded   *)
(* is handed over once: changed, kept or stopped                            *)
(* (MyBucketViewController.swift:206-224).                                  *)
LoadedPledgesHandedOver ==
    screen = "confirm" /\ ~order.once /\ Distinct(bucket.donates) =>
        \A d \in ToSet(bucket.donates) :
            Cardinality({k \in DOMAIN order.items : order.items[k].id = d.id}) = 1

(* A saved monthly bucket is reopened with the amount it was saved with,    *)
(* whatever one-time bucket or reset question came between                  *)
(* (MyBucketViewController.swift:60,239-240,250-251).                       *)
SavedAmountIsKept ==
    Saved(FALSE) => tmpDonateAmount = completeDonation.amount

(* A one-time bucket lists what the donor pressed "Donate" on as soon as it *)
(* has loaded, next to what was saved (MyBucketViewController.swift:111-131).*)
OnceListsTarget ==
    [][bucket'.once /\ bucket' # bucket /\ loading' = "nothing"
          /\ (loading = "organisations" \/ bucket = NoBucket)
          /\ bucket'.organizations # None
       => ToSet(bucket'.wanted) \subseteq OrgsOf(bucket'.rows)]_vars

-----------------------------------------------------------------------------
(* What the app's texts promise. *)

(* The whole donation is divided among organisations when it is handed      *)
(* over: "100% of your donation will ALWAYS go to the organizations you     *)
(* chose" (MyBucket.storyboard:148).                                        *)
HandedOverInFull == screen = "confirm" => Sum(order.items) = order.amount

(* An organisation whose row the donor has deleted gets nothing after       *)
(* "Success!": "You can change the organizations that recieve your donation *)
(* at any point" (ChooseRecipients.storyboard:43).                          *)
DeletedMeansStopped ==
    screen = "success" /\ ~order.once =>
        \A id \in removed :
            (\A k \in DOMAIN order.items : order.items[k].id # id) =>
                pledges[id].amount = 0

(* A monthly donation that is shown as made, with "$amount" and "/month",   *)
(* is what the payment server charges                                       *)
(* (DonateSuccessViewController.swift:30-39).                               *)
MonthlyIsCharged ==
    screen = "success" /\ ~order.once => paid = order.amount + order.tips

=============================================================================
