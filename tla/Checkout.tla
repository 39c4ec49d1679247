------------------------------ MODULE Checkout ------------------------------
(***************************************************************************)
(* DonateConfirmationViewController.swift with the calls it makes: the     *)
(* payment (ApplePay), the writes of FirebaseManager.swift to the donor's  *)
(* documents in Firestore, and the donor's profile and saved bucket kept   *)
(* by UserManager.swift.                                                   *)
(*                                                                         *)
(* The bucket screen opens a confirmation screen with an order.  Each      *)
(* press of "Complete checkout" is an attempt.  An attempt pays, writes    *)
(* the tip, writes the items, writes the monthly amount, and then shows    *)
(* the result.  The donor can leave a screen while its writes are under    *)
(* way and open another one; the callbacks hold the screen weakly or       *)
(* strongly as the code does, and a callback whose screen is gone does     *)
(* nothing.                                                                *)
(*                                                                         *)
(* Firestore's client sends writes in the order they were made and calls   *)
(* back in that order, once the server has accepted or refused them.       *)
(***************************************************************************)
EXTENDS ApplePay, Sequences

CONSTANTS
    Orgs,           \* organisations
    Loaded,         \* ids of the pledges the bucket screen has loaded
    NoId, NoOrg,    \* a missing donateId, a missing organisation field
    Orders,         \* what the bucket screen can hand over
    Profiles,       \* what the donor's document can hold at the start
    Pledges,        \* what the Donates collection can hold at the start
    MaxScreens,     \* bound: confirmation screens opened one after another
    MaxItems,       \* bound: items of an order
    CanRefuse,      \* can Firestore refuse a write?
    CanLeave,       \* does the donor leave screens before they are done?
    CanSignOut      \* can Firebase end the session under the screen?

Keys == 0 .. MaxItems               \* 0: the tip, or the monthly amount
Docs == Loaded \cup (Attempts \X Keys)
Item == [org : Orgs, id : Loaded \cup {NoId}, amount : Nat]
Order == [once : BOOLEAN, amount : Nat, tips : Nat,
          items : Seq(Item)]
Profile == [default : Nat, tips : Nat]
Document == [org : Orgs \cup {NoOrg}, amount : Nat]
Absent == [org |-> NoOrg, amount |-> 0]

ASSUME OrdersAssumption ==
    \A o \in Orders : o \in Order /\ Len(o.items) <= MaxItems
ASSUME ProfilesAssumption == Profiles \subseteq Profile
ASSUME PledgesAssumption == Pledges \subseteq [Loaded -> Document]
(* A pledge has one row, which names its organisation; Firestore's ids of   *)
(* new documents are new.                                                   *)
ASSUME RowsAssumption ==
    /\ Loaded \cap (Attempts \X Keys) = {}
    /\ \A o \in Orders : \A k \in DOMAIN o.items : o.items[k].id # NoId =>
          /\ \A l \in DOMAIN o.items : o.items[l].id = o.items[k].id => l = k
          /\ \A p \in Pledges : p[o.items[k].id].org = o.items[k].org
ASSUME CheckoutBounds == MaxScreens \in Nat /\ MaxItems \in Nat
ASSUME SwitchesAssumption ==
    CanRefuse \in BOOLEAN /\ CanLeave \in BOOLEAN /\ CanSignOut \in BOOLEAN

VARIABLES
    orders,             \* the orders of the screens opened so far
    top,                \* what is on the display
    spinner,            \* the activity overlay of the current screen
    job,                \* attempt -> how far it has got
    writing,            \* attempts with writes under way, oldest first
    signedIn,           \* Auth.currentUser is not nil
    userLoaded,         \* UserManager.user is not nil
    user,               \* UserManager.user, the cached profile
    completeDonation,   \* UserManager.completeDonation is not nil
    profile,            \* the donor's document on the server
    donates,            \* the Donates collection on the server
    applied             \* item writes the server has accepted

appVars == <<orders, top, spinner, job, writing, signedIn, userLoaded, user,
             completeDonation>>
serverVars == <<profile, donates, applied>>
vars == <<payVars, appVars, serverVars>>

Stages == {"unused", "paying", "unpaid", "tips", "saving", "default",
           "shown", "alerted"}
Finished == {"shown", "alerted"}

Job == [screen : 0 .. MaxScreens, stage : Stages,
        to : {"none", "donates", "history"}, free : BOOLEAN,
        pending : SUBSET Keys, queryCount : Nat, isError : BOOLEAN,
        redirected : BOOLEAN]

(* The types of the checkout; the counters of its joins are natural        *)
(* numbers (sendToUpdateDonates, queryCount).                              *)
TypeOK ==
    /\ PayTypeOK
    /\ orders \in Seq(Orders) /\ Len(orders) <= MaxScreens
    /\ top \in {"bucket", "confirm", "sheet", "success", "alert", "auth"}
    /\ spinner \in BOOLEAN
    /\ job \in [Attempts -> Job]
    /\ writing \in Seq(Attempts)
    /\ signedIn \in BOOLEAN
    /\ userLoaded \in BOOLEAN
    /\ user \in Profile
    /\ completeDonation \in BOOLEAN
    /\ profile \in Profile
    /\ donates \in [Docs -> Document]
    /\ applied \subseteq Attempts \X Keys

NewJob == [screen |-> 0, stage |-> "unused", to |-> "none", free |-> FALSE,
           pending |-> {}, queryCount |-> 0, isError |-> FALSE,
           redirected |-> FALSE]

Init ==
    /\ PayInit
    /\ orders = <<>>
    /\ top = "bucket"
    /\ spinner = FALSE
    /\ job = [a \in Attempts |-> NewJob]
    /\ writing = <<>>
    /\ signedIn = TRUE
    /\ profile \in Profiles
    /\ userLoaded \in BOOLEAN
    /\ user = IF userLoaded THEN profile ELSE [default |-> 0, tips |-> 0]
    /\ completeDonation = TRUE
    /\ \E p \in Pledges :
          donates = [d \in Docs |-> IF d \in Loaded THEN p[d] ELSE Absent]
    /\ applied = {}

-----------------------------------------------------------------------------
Screen == Len(orders)                       \* the screen opened last
OrderOf(j) == orders[j.screen]

(* The items whose save is a request, and the records of a one-time payment. *)
ItemsToSave(o) ==
    {k \in DOMAIN o.items : o.items[k].id # NoId \/ o.items[k].amount > 0}
RecordsToAdd(o) ==
    DOMAIN o.items \cup (IF o.tips > 0 THEN {0} ELSE {})
(* The writes a join counts the answers of: the items of a monthly order,  *)
(* or the records of a one-time payment.  The tip that is written before    *)
(* the join (addTips) and the monthly amount that is written after it       *)
(* (updateDefaultDonateAmount) are not among them.                          *)
WritesOf(j) ==
    CASE j.to = "donates" -> ItemsToSave(OrderOf(j))
      [] j.to = "history" -> RecordsToAdd(OrderOf(j))
      [] OTHER -> {}

(* The number of answers a join waits for. *)
Expected(j) ==
    IF j.to = "donates" THEN Len(OrderOf(j).items)
                        ELSE Cardinality(RecordsToAdd(OrderOf(j)))

(* A screen is in memory while it is on the navigation stack, and while a  *)
(* callback that holds it strongly has yet to come: the ones of addTips    *)
(* and of updateDefaultDonateAmount.                                       *)
OnStack(s) == s = Screen /\ top \notin {"bucket", "auth"}
Alive(s) ==
    \/ OnStack(s)
    \/ \E b \in Attempts : job[b].screen = s /\ job[b].stage \in {"tips", "default"}

-----------------------------------------------------------------------------
(* The functions of the screen, as what they make of an attempt's state.   *)
(* A call of FirebaseManager without a signed-in user sends the app to the *)
(* login screen and answers false before it returns.                       *)

(* Mutant of CompletionBlock: the error flag is not looked at. *)
CompletionBlockUnchecked(j) == [j EXCEPT !.stage = "shown"]

(* completionBlock of sendToUpdateDonatesHandler *)
CompletionBlock(j) ==
    [j EXCEPT !.stage = IF j.isError THEN "alerted" ELSE "shown"]

SendToUpdateDonatesHandler(j) ==
    IF OrderOf(j).once \/ OrderOf(j).amount = user.default
      THEN CompletionBlock(j)
      ELSE IF signedIn
             THEN [j EXCEPT !.stage = "default", !.pending = {0}]
             ELSE CompletionBlock([j EXCEPT !.redirected = TRUE])

(* Mutant of StartJoin: the items that need no request counted backwards. *)
StartJoinBackwards(j, to, ks, n) ==
    [j EXCEPT !.stage = "saving", !.to = to, !.pending = ks,
              !.queryCount = Cardinality(ks) - n]

(* Start the requests ks of a join, n answers in all. *)
StartJoin(j, to, ks, n) ==
    LET sent == IF signedIn THEN ks ELSE {}
        failed == ~signedIn /\ ks # {}
        begun == [j EXCEPT !.stage = "saving", !.to = to, !.pending = sent,
                           !.queryCount = n - Cardinality(sent),
                           !.isError = failed, !.redirected = failed]
    IN  IF n > 0 /\ begun.queryCount = n
          THEN SendToUpdateDonatesHandler(begun)
          ELSE begun

SendToUpdateDonates(j) ==
    StartJoin(j, "donates", ItemsToSave(OrderOf(j)), Len(OrderOf(j).items))

AddOneTimePaymentToFirebase(j) ==
    StartJoin(j, "history", RecordsToAdd(OrderOf(j)),
              Cardinality(RecordsToAdd(OrderOf(j))))

AddTips(j) ==
    CASE OrderOf(j).tips = 0 -> SendToUpdateDonates(j)
      [] OrderOf(j).tips > 0 /\ signedIn ->
            [j EXCEPT !.stage = "tips", !.pending = {0}]
      [] OTHER -> [SendToUpdateDonates(j) EXCEPT !.redirected = TRUE]

(* Mutants of CountAnswer: the last answer decides; failures are not counted. *)
CountLastAnswer(j, k, ok) ==
    LET counted == [j EXCEPT !.pending = @ \ {k}, !.queryCount = @ + 1,
                             !.isError = ~ok]
    IN  IF counted.queryCount = Expected(j)
          THEN SendToUpdateDonatesHandler(counted)
          ELSE counted
CountSuccesses(j, k, ok) ==
    LET counted == [j EXCEPT !.pending = @ \ {k},
                             !.queryCount = IF ok THEN @ + 1 ELSE @]
    IN  IF counted.queryCount = Expected(j)
          THEN SendToUpdateDonatesHandler(counted)
          ELSE counted

(* The answer to one request of a join. *)
CountAnswer(j, k, ok) ==
    LET failed == j.isError \/ ~ok
        counted == [j EXCEPT !.pending = @ \ {k}, !.queryCount = @ + 1,
                             !.isError = failed]
    IN  IF counted.queryCount = Expected(j)
          THEN SendToUpdateDonatesHandler(counted)
          ELSE counted

-----------------------------------------------------------------------------
(* Mutant of SpinnerAfter: no overlay while items are saved. *)
SpinnerNever(a, j) == FALSE

(* start- and stopActivityAnimating of the screen of attempt a. *)
SpinnerAfter(a, j) ==
    IF OnStack(j.screen)
      THEN \/ j.stage \in {"saving", "default"} /\ job[a].stage # "saving"
           \/ j.stage \notin Finished /\ spinner
      ELSE spinner

(* An attempt that goes on is the oldest writer, or was not writing. *)
OthersWriting(a) ==
    IF writing # <<>> /\ Head(writing) = a THEN Tail(writing) ELSE writing

(* Attempt a goes on with state j, and what it has come to is shown: an    *)
(* overlay goes on when a join begins and off with the result; a result is *)
(* presented if the screen can present it; after a success the saved       *)
(* bucket is dropped, whether or not the screen is still there.            *)
GoOn(a, j, display) ==
    /\ job' = [job EXCEPT ![a] = j]
    /\ writing' = IF j.pending # {} /\ j.stage = job[a].stage THEN writing
                  ELSE IF j.pending # {} THEN Append(OthersWriting(a), a)
                  ELSE OthersWriting(a)
    /\ spinner' = SpinnerAfter(a, j)
    /\ top' = IF j.redirected /\ ~job[a].redirected THEN "auth"
              ELSE IF j.stage \in Finished /\ j.screen = Screen /\ display = "confirm"
                THEN (IF j.stage = "shown" THEN "success" ELSE "alert")
              ELSE display
    /\ completeDonation' = (completeDonation /\ j.stage # "shown")
    /\ UNCHANGED <<orders, signedIn>>

-----------------------------------------------------------------------------
(* What the client's own cache answers for the donor's document: the       *)
(* server's fields under the writes that are still under way.              *)
Writers(stage) == {i \in DOMAIN writing : job[writing[i]].stage = stage}
Latest(stage) ==
    {writing[i] : i \in {n \in Writers(stage) : \A m \in Writers(stage) : m <= n}}
LocalProfiles ==
    [default : IF Writers("default") = {} THEN {profile.default}
               ELSE {OrderOf(job[a]).amount : a \in Latest("default")},
     tips    : IF Writers("tips") = {} THEN {profile.tips}
               ELSE {OrderOf(job[a]).tips : a \in Latest("tips")}]

(* The bucket screen's tips popup refreshes the profile, if the fetch      *)
(* succeeds, and pushes a confirmation screen.  Before that the donor may  *)
(* have pressed "Complete" again, which saves the bucket again.            *)
OpenConfirmation(o) ==
    /\ top = "bucket"
    /\ signedIn
    /\ Screen < MaxScreens
    /\ orders' = Append(orders, o)
    /\ top' = "confirm"
    /\ spinner' = FALSE
    /\ \/ userLoaded' = TRUE /\ user' \in LocalProfiles
       \/ UNCHANGED <<userLoaded, user>>
    /\ completeDonation' \in {completeDonation, TRUE}
    /\ UNCHANGED <<payVars, job, writing, signedIn, serverVars>>

(* completeCheckoutButtonPressed: nothing to pay when the sum is what the   *)
(* cached profile says is being paid already.                              *)
NothingToPay(o) == o.amount + o.tips = user.default + user.tips

CompleteCheckoutButtonPressed(a) ==
    LET o == orders[Screen]
        j == [NewJob EXCEPT !.screen = Screen]
    IN  /\ top = "confirm" /\ ~spinner
        /\ job[a].stage = "unused"
        /\ \A b \in 1 .. (a - 1) : job[b].stage # "unused"
        /\ \/ /\ ~NothingToPay(o)
              /\ Pay(a)
              /\ job' = [job EXCEPT ![a] = [j EXCEPT !.stage = "paying"]]
              /\ top' = "sheet"
              /\ UNCHANGED <<orders, spinner, writing, signedIn, completeDonation>>
           \/ /\ NothingToPay(o)
              /\ GoOn(a, SendToUpdateDonates([j EXCEPT !.free = TRUE]), top)
              /\ UNCHANGED payVars
        /\ UNCHANGED <<userLoaded, user, serverVars>>

(* The sheet and the network go on by themselves. *)
PaymentGoesOn ==
    /\ SheetStep \/ RequestStep(userLoaded)
    /\ UNCHANGED <<appVars, serverVars>>

(* The callback given to PaymentManager.pay.  The app may have gone to the  *)
(* login screen meanwhile; then the callback finds no screen.               *)
PaymentCallback(a) ==
    /\ Dismissed(a)
    /\ \/ /\ top = "sheet" /\ Outcome(a) = "success"
          /\ GoOn(a, IF OrderOf(job[a]).once
                       THEN AddOneTimePaymentToFirebase(job[a])
                       ELSE AddTips(job[a]), "confirm")
       \/ /\ top = "sheet" /\ Outcome(a) = "failure"
          /\ GoOn(a, [job[a] EXCEPT !.stage = "unpaid"], "confirm")
       \/ /\ top # "sheet"
          /\ UNCHANGED <<orders, top, spinner, job, writing, signedIn,
                         completeDonation>>
    /\ UNCHANGED <<userLoaded, user, serverVars>>

-----------------------------------------------------------------------------
(* Firestore's next answer: to attempt a, the oldest with writes under way, *)
(* for its first request.  The client of a user who is signed out sends     *)
(* nothing.                                                                 *)
NextAnswer(a, k, ok) ==
    /\ signedIn
    /\ writing # <<>> /\ a = Head(writing)
    /\ k \in job[a].pending /\ \A l \in job[a].pending : k <= l
    /\ ok \/ CanRefuse

(* addTips, its callback, and the save that follows whatever the answer. *)
TipsAnswered(a, ok) ==
    LET tips == OrderOf(job[a]).tips
    IN  /\ job[a].stage = "tips"
        /\ NextAnswer(a, 0, ok)
        /\ profile' = IF ok THEN [profile EXCEPT !.tips = tips] ELSE profile
        /\ user' = IF ok /\ userLoaded THEN [user EXCEPT !.tips = tips] ELSE user
        /\ GoOn(a, SendToUpdateDonates(job[a]), top)
        /\ UNCHANGED <<payVars, userLoaded, donates, applied>>

(* Mutant of SaveItem: an amount of 0 is saved like any other. *)
SaveItemKeepsZero(a, k) ==
    LET i == OrderOf(job[a]).items[k]
    IN  IF i.id # NoId
          THEN [donates EXCEPT ![i.id].amount = i.amount]
          ELSE [donates EXCEPT ![<<a, k>>] = [org |-> i.org, amount |-> i.amount]]

(* editDonate, deleteDonate and addDonate on the server.  An edit merges:   *)
(* on a document that has been deleted it leaves one with an amount only.   *)
SaveItem(a, k) ==
    LET i == OrderOf(job[a]).items[k]
    IN  CASE i.id # NoId /\ i.amount > 0 ->
               [donates EXCEPT ![i.id].amount = i.amount]
          [] i.id # NoId /\ i.amount = 0 -> [donates EXCEPT ![i.id] = Absent]
          [] OTHER ->
               [donates EXCEPT ![<<a, k>>] = [org |-> i.org, amount |-> i.amount]]

(* The answer to an item's request.  The callback holds the screen weakly. *)
ItemAnswered(a, k, ok) ==
    /\ job[a].stage = "saving"
    /\ NextAnswer(a, k, ok)
    /\ donates' = IF ok /\ job[a].to = "donates" THEN SaveItem(a, k) ELSE donates
    /\ applied' = IF ok THEN applied \cup {<<a, k>>} ELSE applied
    /\ GoOn(a, IF Alive(job[a].screen) THEN CountAnswer(job[a], k, ok)
               ELSE [job[a] EXCEPT !.pending = @ \ {k}], top)
    /\ UNCHANGED <<payVars, userLoaded, user, profile>>

(* updateDefaultDonateAmount and its callback, completionBlock. *)
DefaultAnswered(a, ok) ==
    LET amount == OrderOf(job[a]).amount
    IN  /\ job[a].stage = "default"
        /\ NextAnswer(a, 0, ok)
        /\ profile' = IF ok THEN [profile EXCEPT !.default = amount] ELSE profile
        /\ user' = IF ok /\ userLoaded THEN [user EXCEPT !.default = amount] ELSE user
        /\ GoOn(a, CompletionBlock([job[a] EXCEPT !.pending = {}]), top)
        /\ UNCHANGED <<payVars, userLoaded, donates, applied>>

-----------------------------------------------------------------------------
(* The back button, or the swipe that works under the overlay too. *)
Leave ==
    /\ CanLeave
    /\ top = "confirm"
    /\ top' = "bucket"
    /\ spinner' = FALSE
    /\ UNCHANGED <<payVars, orders, job, writing, signedIn, userLoaded, user,
                   completeDonation, serverVars>>

(* The error alert closes by itself after a second. *)
AlertDismissed ==
    /\ top = "alert"
    /\ top' = "confirm"
    /\ UNCHANGED <<payVars, orders, spinner, job, writing, signedIn, userLoaded,
                   user, completeDonation, serverVars>>

(* Firebase ends the session: the account is disabled or its token revoked. *)
SessionEnds ==
    /\ CanSignOut
    /\ signedIn
    /\ signedIn' = FALSE
    /\ UNCHANGED <<payVars, orders, top, spinner, job, writing, userLoaded, user,
                   completeDonation, serverVars>>

FirestoreAnswers ==
    \E a \in Attempts, ok \in BOOLEAN :
        \/ TipsAnswered(a, ok)
        \/ \E k \in Keys : ItemAnswered(a, k, ok)
        \/ DefaultAnswered(a, ok)

Next ==
    \/ \E o \in Orders : OpenConfirmation(o)
    \/ \E a \in Attempts : CompleteCheckoutButtonPressed(a) \/ PaymentCallback(a)
    \/ PaymentGoesOn
    \/ FirestoreAnswers
    \/ Leave
    \/ AlertDismissed
    \/ SessionEnds

(* Firestore keeps trying until the server has answered. *)
Fairness == WF_vars(FirestoreAnswers)

Spec == Init /\ [][Next]_vars /\ Fairness

-----------------------------------------------------------------------------
(* The result is "Success!" only when the server has accepted each item    *)
(* and each record of history that the attempt had to write, in whatever   *)
(* order answers, errors, other attempts and departures come               *)
(* (DonateConfirmationViewController.swift:54-114,141-177).  The tip of a  *)
(* monthly order and its monthly amount are not among these writes: the    *)
(* code goes on to "Success!" when they are refused (:46-52,124-127).      *)
ShownMeansSaved ==
    \A a \in Attempts :
        job[a].stage = "shown" =>
            \A k \in WritesOf(job[a]) : <<a, k>> \in applied

(* Nothing is written for an attempt that had to pay before the server has *)
(* taken the money for it (DonateConfirmationViewController.swift:184-199).*)
WritesFollowCharge ==
    \A a \in Attempts :
        ~job[a].free /\ (\E k \in Keys : <<a, k>> \in applied) => ChargesOf(a) # {}

(* The saved bucket is dropped only after each of its rows has been        *)
(* written (DonateConfirmationViewController.swift:117-119).               *)
BucketKeptUntilSaved ==
    completeDonation \/
        \E a \in Attempts :
            /\ job[a].stage = "shown"
            /\ \A k \in WritesOf(job[a]) : <<a, k>> \in applied

(* The overlay that blocks the screen is there because of an answer that   *)
(* is still to come.  The one exception the code has is an order without   *)
(* items: its loop makes no request and nothing ends it                    *)
(* (DonateConfirmationViewController.swift:55-60).                         *)
SpinnerHasCause ==
    spinner =>
        \E a \in Attempts :
            /\ job[a].screen = Screen
            /\ job[a].stage \in {"saving", "default"}
            /\ job[a].pending # {} \/ OrderOf(job[a]).items = <<>>

(* An order that is given once, or monthly without a tip, goes through one  *)
(* attempt at a time: the sheet and the overlay leave no moment at which    *)
(* the button of the screen can be pressed again.  Only the write of a      *)
(* monthly tip leaves one                                                   *)
(* (DonateConfirmationViewController.swift:46-55,142,182).                  *)
OneAttemptAtATime ==
    \A a, b \in Attempts :
        /\ job[a].screen = Screen /\ job[b].screen = Screen
        /\ job[a].stage \in {"paying", "tips", "saving", "default"}
        /\ job[b].stage \in {"paying", "tips", "saving", "default"}
        /\ orders[Screen].once \/ orders[Screen].tips = 0
        => a = b

(* When an attempt has shown "Success!", each loaded pledge of its order    *)
(* stands on the server with the order's amount, or is gone if that is 0,   *)
(* for as long as the bucket keeps handing over the same order, whatever    *)
(* was refused and tried again (FirebaseManager.swift:306-334).             *)
ShownMeansStored ==
    \A a \in Attempts :
        /\ job[a].stage = "shown" /\ job[a].to = "donates"
        /\ \A s \in DOMAIN orders : orders[s] = OrderOf(job[a])
        => \A k \in DOMAIN OrderOf(job[a]).items :
              LET i == OrderOf(job[a]).items[k]
              IN  i.id # NoId =>
                    donates[i.id] = IF i.amount > 0
                                      THEN [org |-> i.org, amount |-> i.amount]
                                      ELSE Absent

(* An attempt that has begun to write comes to a result, whatever is        *)
(* refused on the way, unless the donor leaves its screen or the session    *)
(* ends.  An order without items is the exception SpinnerHasCause names     *)
(* (DonateConfirmationViewController.swift:64-106).                         *)
CheckoutSettles ==
    \A a \in Attempts :
        job[a].stage \in {"tips", "saving", "default"} /\ OrderOf(job[a]).items # <<>>
            ~> (job[a].stage \in Finished \/ ~Alive(job[a].screen) \/ ~signedIn)

-----------------------------------------------------------------------------
(* What the app's texts and comments promise. *)

(* At "Success!" every organisation the donor gave an amount to stands in   *)
(* the Donates collection with that amount: "100% of your donation will     *)
(* ALWAYS go to the organizations you chose"                                *)
(* (DonateConfirmation.storyboard:134).                                     *)
ChosenOrganisationsGetIt ==
    [][\A a \in Attempts :
          /\ job[a].stage # "shown" /\ job[a]'.stage = "shown"
          /\ job[a].to = "donates"
          => \A k \in DOMAIN OrderOf(job[a]).items :
                LET i == OrderOf(job[a]).items[k]
                IN  i.amount > 0 =>
                      \E d \in Docs :
                          donates'[d] = [org |-> i.org, amount |-> i.amount]
      ]_vars

(* A one-time donation makes no monthly pledge: the button that starts it   *)
(* says "Donate Once" (ChooseDonateOnceOrMonthly.storyboard:65).            *)
DonateOnceIsNoPledge ==
    \A a \in Attempts :
        job[a].screen > 0 /\ OrderOf(job[a]).once =>
            \A k \in Keys : donates[<<a, k>>] = Absent

=============================================================================
