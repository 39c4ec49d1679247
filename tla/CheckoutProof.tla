--------------------------- MODULE CheckoutProof ---------------------------
(***************************************************************************)
(* Proofs about Checkout for any orders, profiles, pledges and bounds.     *)
(***************************************************************************)
EXTENDS Checkout, ApplePayProof

Started == {"tips", "saving", "default", "shown", "alerted"}
Written == {"saving", "default", "shown", "alerted"}
Displays == {"bucket", "confirm", "sheet", "success", "alert", "auth"}

(* A screen on the display was opened, an attempt that has been made        *)
(* belongs to one, and a sheet belongs to an attempt that is paying.        *)
ScreensOK ==
    /\ top # "bucket" => Len(orders) > 0
    /\ \A a \in Attempts :
          /\ job[a].stage # "unused" => job[a].screen \in 1 .. Len(orders)
          /\ OnScreen(a) => job[a].stage = "paying"

(* Only what has been paid for, or needs no payment, goes on to write. *)
PaidFirst ==
    \A a \in Attempts :
        /\ job[a].stage \in Started => job[a].free \/ stripeTokenId[a]
        /\ \A k \in Keys : <<a, k>> \in applied => job[a].stage \in Written

(* The count of a join never runs ahead of the answers.  It stays behind    *)
(* them for good once an answer has been missed; as long as it has not, and *)
(* there was no error, everything that is not under way has been accepted.  *)
JoinCounts(a, j, done) ==
    /\ j.to \in {"donates", "history"}
    /\ j.pending \subseteq WritesOf(j)
    /\ j.queryCount + Cardinality(j.pending) <= Expected(j)
    /\ j.queryCount + Cardinality(j.pending) = Expected(j) /\ ~j.isError =>
          \A k \in WritesOf(j) \ j.pending : <<a, k>> \in done

JoinDone(a, j, done) ==
    ~j.isError => \A k \in WritesOf(j) : <<a, k>> \in done

JoinFits(a, j, done) ==
    /\ j.stage = "saving" => JoinCounts(a, j, done)
    /\ j.stage \in {"default", "shown"} => JoinDone(a, j, done)
    /\ j.stage = "shown" => ~j.isError

JoinOK == \A a \in Attempts : JoinFits(a, job[a], applied)

Inv == TypeOK /\ PayInv /\ ScreensOK /\ PaidFirst /\ JoinOK

-----------------------------------------------------------------------------
(* The fields of an order. *)
LEMMA OrderFields ==
    ASSUME NEW o \in Orders
    PROVE  /\ o.once \in BOOLEAN /\ o.amount \in Nat /\ o.tips \in Nat
           /\ o.items \in Seq(Item) /\ Len(o.items) \in 0 .. MaxItems
           /\ DOMAIN o.items = 1 .. Len(o.items)
  BY OrdersAssumption, CheckoutBounds DEF Order

(* The requests of a join are keys, finitely many, and an order has at     *)
(* least as many items as it has items to save.                            *)
LEMMA WriteKeys ==
    ASSUME NEW o \in Orders
    PROVE  /\ ItemsToSave(o) \subseteq Keys /\ RecordsToAdd(o) \subseteq Keys
           /\ IsFiniteSet(ItemsToSave(o)) /\ IsFiniteSet(RecordsToAdd(o))
           /\ Cardinality(ItemsToSave(o)) \in Nat
           /\ Cardinality(RecordsToAdd(o)) \in Nat
           /\ Cardinality(ItemsToSave(o)) <= Len(o.items)
<1>1. /\ IsFiniteSet(1 .. Len(o.items))
      /\ Cardinality(1 .. Len(o.items)) = Len(o.items)
    BY OrderFields, FS_Interval
<1>2. ItemsToSave(o) \subseteq 1 .. Len(o.items)
    BY OrderFields DEF ItemsToSave
<1>3. IsFiniteSet(ItemsToSave(o)) /\ Cardinality(ItemsToSave(o)) <= Len(o.items)
    BY <1>1, <1>2, FS_Subset
<1>4. IsFiniteSet({0}) /\ IsFiniteSet({})
    BY FS_Singleton, FS_EmptySet
<1>5. IsFiniteSet(RecordsToAdd(o))
    BY <1>1, <1>4, OrderFields, FS_Union DEF RecordsToAdd
<1>6. Cardinality(ItemsToSave(o)) \in Nat /\ Cardinality(RecordsToAdd(o)) \in Nat
    BY <1>3, <1>5, FS_CardinalityType
<1>7. ItemsToSave(o) \subseteq Keys /\ RecordsToAdd(o) \subseteq Keys
    BY <1>2, OrderFields, CheckoutBounds DEF Keys, RecordsToAdd
<1>8. QED
    BY <1>3, <1>5, <1>6, <1>7

(* The fields of an attempt's state. *)
LEMMA JobFields ==
    ASSUME NEW j \in Job
    PROVE  /\ j.screen \in 0 .. MaxScreens /\ j.stage \in Stages
           /\ j.to \in {"none", "donates", "history"} /\ j.free \in BOOLEAN
           /\ j.pending \subseteq Keys /\ j.queryCount \in Nat
           /\ j.isError \in BOOLEAN /\ j.redirected \in BOOLEAN
  BY DEF Job

(* The handler after a join whose writes are all accepted or known to have *)
(* failed.                                                                 *)
LEMMA HandlerFits ==
    ASSUME NEW j \in Job, NEW a, NEW done, JoinDone(a, j, done),
           signedIn \in BOOLEAN
    PROVE  LET r == SendToUpdateDonatesHandler(j)
           IN  /\ r \in Job /\ r.screen = j.screen /\ r.free = j.free
               /\ r.stage \in Written
               /\ JoinFits(a, r, done)
<1> DEFINE r == SendToUpdateDonatesHandler(j)
<1>0. 0 \in Keys
    BY CheckoutBounds DEF Keys
<1>1. /\ r \in Job /\ r.screen = j.screen /\ r.free = j.free
      /\ r.to = j.to /\ r.isError = j.isError
      /\ r.stage \in {"default", "shown", "alerted"}
      /\ r.stage = "shown" => ~r.isError
    BY <1>0 DEF SendToUpdateDonatesHandler, CompletionBlock, Job, Stages
<1>2. WritesOf(r) = WritesOf(j)
    BY <1>1 DEF WritesOf, OrderOf
<1> HIDE DEF r
<1>3. JoinFits(a, r, done)
    BY <1>1, <1>2 DEF JoinFits, JoinDone
<1>4. QED
    BY <1>1, <1>3 DEF r, Written

(* A join that begins counts every item that needs no request. *)
LEMMA StartJoinFits ==
    ASSUME NEW j \in Job, OrderOf(j) \in Orders, NEW a, NEW done,
           signedIn \in BOOLEAN, NEW to, NEW ks, NEW n,
           \/ /\ to = "donates" /\ ks = ItemsToSave(OrderOf(j))
              /\ n = Len(OrderOf(j).items)
           \/ /\ to = "history" /\ ks = RecordsToAdd(OrderOf(j))
              /\ n = Cardinality(RecordsToAdd(OrderOf(j)))
    PROVE  LET r == StartJoin(j, to, ks, n)
           IN  /\ r \in Job /\ r.screen = j.screen /\ r.free = j.free
               /\ r.stage \in Written
               /\ JoinFits(a, r, done)
<1> DEFINE sent == IF signedIn THEN ks ELSE {}
           failed == ~signedIn /\ ks # {}
           left == n - Cardinality(sent)
           b == [j EXCEPT !.stage = "saving", !.to = to, !.pending = sent,
                          !.queryCount = left,
                          !.isError = failed, !.redirected = failed]
<1>1. /\ n \in Nat /\ ks \subseteq Keys /\ IsFiniteSet(ks)
      /\ Cardinality(ks) \in Nat /\ Cardinality(ks) <= n
    BY OrderFields, WriteKeys, CheckoutBounds
<1>2. /\ sent \subseteq ks /\ Cardinality(sent) \in Nat /\ Cardinality(sent) <= n
      /\ IsFiniteSet(sent)
      /\ Cardinality(sent) = 0 => sent = {}
    BY <1>1, FS_EmptySet
<1>3. /\ failed \in BOOLEAN /\ left \in Nat /\ sent \in SUBSET Keys
      /\ "saving" \in Stages /\ to \in {"none", "donates", "history"}
    BY <1>1, <1>2 DEF Stages
<1>4. StartJoin(j, to, ks, n) =
        IF n > 0 /\ b.queryCount = n THEN SendToUpdateDonatesHandler(b) ELSE b
    BY DEF StartJoin
<1>5. ~failed => sent = ks
    OBVIOUS
<1>6. left + Cardinality(sent) = n /\ (left = n => sent = {})
    BY <1>1, <1>2
<1> HIDE DEF sent, failed, left
<1>7. /\ b \in Job /\ b.screen = j.screen /\ b.free = j.free /\ b.to = to
      /\ b.stage = "saving" /\ b.pending = sent
      /\ b.queryCount = left /\ b.isError = failed
    BY <1>3 DEF Job
<1> HIDE DEF b
<1>8. WritesOf(b) = ks /\ Expected(b) = n
    BY <1>7 DEF WritesOf, Expected, OrderOf
<1>9. CASE n > 0 /\ b.queryCount = n
    <2>1. JoinDone(a, b, done)
        BY <1>5, <1>6, <1>7, <1>8, <1>9 DEF JoinDone
    <2>2. QED
        BY <1>4, <1>7, <1>9, <2>1, HandlerFits
<1>10. CASE ~(n > 0 /\ b.queryCount = n)
    <2>1. b.pending \subseteq WritesOf(b)
        BY <1>2, <1>7, <1>8
    <2>2. ~b.isError => WritesOf(b) \ b.pending = {}
        BY <1>5, <1>7, <1>8
    <2>3. b.queryCount + Cardinality(b.pending) <= Expected(b)
        BY <1>1, <1>6, <1>7, <1>8
    <2>4. JoinCounts(a, b, done)
        BY <1>7, <2>1, <2>2, <2>3, Zenon DEF JoinCounts
    <2>5. QED
        BY <1>4, <1>7, <1>10, <2>4 DEF JoinFits, Written
<1>11. QED
    BY <1>9, <1>10

(* The saves of an attempt that belongs to an open screen. *)
LEMMA SavesFit ==
    ASSUME NEW j \in Job, OrderOf(j) \in Orders, NEW a, NEW done,
           signedIn \in BOOLEAN,
           NEW r \in {SendToUpdateDonates(j), AddOneTimePaymentToFirebase(j)}
    PROVE  /\ r \in Job /\ r.screen = j.screen /\ r.free = j.free
           /\ r.stage \in Written
           /\ JoinFits(a, r, done)
<1>1. CASE r = SendToUpdateDonates(j)
    <2> DEFINE n == Len(OrderOf(j).items)
    <2>1. r = StartJoin(j, "donates", ItemsToSave(OrderOf(j)), n)
        BY <1>1 DEF SendToUpdateDonates
    <2>2. n = Len(OrderOf(j).items)
        OBVIOUS
    <2> HIDE DEF n
    <2>3. QED
        BY <2>1, <2>2, StartJoinFits
<1>2. CASE r = AddOneTimePaymentToFirebase(j)
    BY <1>2, StartJoinFits DEF AddOneTimePaymentToFirebase
<1>3. QED
    BY <1>1, <1>2

(* The tip's write, or the save that follows at once. *)
LEMMA AddTipsFits ==
    ASSUME NEW j \in Job, OrderOf(j) \in Orders, NEW a, NEW done,
           signedIn \in BOOLEAN
    PROVE  LET r == AddTips(j)
           IN  /\ r \in Job /\ r.screen = j.screen /\ r.free = j.free
               /\ r.stage \in Started
               /\ JoinFits(a, r, done)
<1> DEFINE s == SendToUpdateDonates(j)
           t == [j EXCEPT !.stage = "tips", !.pending = {0}]
           e == [s EXCEPT !.redirected = TRUE]
<1>1. /\ s \in Job /\ s.screen = j.screen /\ s.free = j.free
      /\ s.stage \in Written /\ JoinFits(a, s, done)
    BY SavesFit
<1>2. /\ t \in Job /\ t.screen = j.screen /\ t.free = j.free
      /\ t.stage = "tips"
    <2>1. {0} \in SUBSET Keys /\ "tips" \in Stages
        BY CheckoutBounds DEF Keys, Stages
    <2>2. QED
        BY <2>1 DEF Job
<1>3. JoinFits(a, t, done)
    BY <1>2 DEF JoinFits
<1>4. AddTips(j) \in {s, t, e}
    BY OrderFields DEF AddTips
<1> HIDE DEF s, t
<1>5. /\ e \in Job /\ e.screen = s.screen /\ e.free = s.free /\ e.to = s.to
      /\ e.stage = s.stage /\ e.pending = s.pending
      /\ e.queryCount = s.queryCount /\ e.isError = s.isError
    BY <1>1 DEF Job
<1> HIDE DEF e
<1>6. WritesOf(e) = WritesOf(s) /\ Expected(e) = Expected(s)
    BY <1>5 DEF WritesOf, Expected, OrderOf
<1>7. JoinFits(a, e, done)
    BY <1>1, <1>5, <1>6 DEF JoinFits, JoinCounts, JoinDone
<1>8. QED
    BY <1>1, <1>2, <1>3, <1>4, <1>5, <1>7 DEF Started, Written

(* An answer that is counted. *)
LEMMA CountAnswerFits ==
    ASSUME NEW j \in Job, OrderOf(j) \in Orders, NEW a, NEW done,
           signedIn \in BOOLEAN, j.stage = "saving",
           NEW k \in j.pending, NEW ok \in BOOLEAN, JoinCounts(a, j, done),
           NEW r, r = CountAnswer(j, k, ok),
           NEW acc, acc = IF ok THEN done \cup {<<a, k>>} ELSE done
    PROVE  /\ r \in Job /\ r.screen = j.screen /\ r.free = j.free
           /\ r.stage \in Written
           /\ JoinFits(a, r, acc)
<1> DEFINE failed == j.isError \/ ~ok
           rest == j.pending \ {k}
           count == j.queryCount + 1
           c == [j EXCEPT !.pending = rest, !.queryCount = count, !.isError = failed]
<1>1. failed \in BOOLEAN /\ rest \in SUBSET Keys /\ count \in Nat
    BY JobFields
<1>2. IsFiniteSet(WritesOf(j)) /\ Expected(j) \in Nat
    BY WriteKeys, OrderFields DEF JoinCounts, WritesOf, Expected
<1>3. IsFiniteSet(j.pending)
    BY <1>2, FS_Subset DEF JoinCounts
<1>4. /\ IsFiniteSet(rest) /\ Cardinality(rest) = Cardinality(j.pending) - 1
      /\ Cardinality(j.pending) \in Nat /\ Cardinality(rest) \in Nat
      /\ Cardinality(rest) = 0 => rest = {}
    BY <1>3, FS_RemoveElement, FS_CardinalityType, FS_EmptySet
<1>5. CountAnswer(j, k, ok) =
        IF c.queryCount = Expected(j) THEN SendToUpdateDonatesHandler(c) ELSE c
    BY DEF CountAnswer
<1> HIDE DEF failed, rest, count
<1>6. /\ c \in Job /\ c.screen = j.screen /\ c.free = j.free /\ c.to = j.to
      /\ c.stage = "saving" /\ c.pending = rest
      /\ c.queryCount = count /\ c.isError = failed
    BY <1>1 DEF Job
<1> HIDE DEF c
<1>a. WritesOf(c) = WritesOf(j) /\ Expected(c) = Expected(j)
    BY <1>6 DEF WritesOf, Expected, OrderOf
<1>7. JoinCounts(a, c, acc)
    <2>1. c.queryCount + Cardinality(c.pending) = j.queryCount + Cardinality(j.pending)
        BY <1>4, <1>6, JobFields DEF count
    <2>2. c.pending \subseteq WritesOf(c)
        BY <1>6, <1>a DEF JoinCounts, rest
    <2>3. ASSUME ~c.isError, c.queryCount + Cardinality(c.pending) = Expected(c),
                 NEW l \in WritesOf(c) \ c.pending
          PROVE  <<a, l>> \in acc
        <3>1. ok /\ ~j.isError
            BY <1>6, <2>3 DEF failed
        <3>2. l = k \/ l \notin j.pending
            BY <1>6, <2>3 DEF rest
        <3>3. l = k \/ <<a, l>> \in done
            BY <1>a, <2>1, <2>3, <3>1, <3>2 DEF JoinCounts
        <3>4. QED
            BY <3>1, <3>3
    <2>4. c.to \in {"donates", "history"}
        BY <1>6 DEF JoinCounts
    <2>5. c.queryCount + Cardinality(c.pending) <= Expected(c)
        BY <1>a, <2>1 DEF JoinCounts
    <2>6. QED
        BY <2>2, <2>3, <2>4, <2>5, Zenon DEF JoinCounts
<1>8. CASE c.queryCount = Expected(j)
    <2>1. c.queryCount + Cardinality(c.pending) = Expected(c) /\ c.pending = {}
        BY <1>1, <1>2, <1>4, <1>6, <1>a, <1>7, <1>8 DEF JoinCounts
    <2>2. JoinDone(a, c, acc)
        BY <1>7, <2>1 DEF JoinCounts, JoinDone
    <2>3. QED
        BY <1>5, <1>6, <1>8, <2>2, HandlerFits
<1>9. CASE c.queryCount # Expected(j)
    BY <1>5, <1>6, <1>7, <1>9 DEF JoinFits, Written
<1>10. QED
    BY <1>8, <1>9

(* An answer whose screen is gone. *)
LEMMA MissedAnswerFits ==
    ASSUME NEW j \in Job, OrderOf(j) \in Orders, NEW a, NEW done, NEW more,
           j.stage = "saving", NEW k \in j.pending, JoinCounts(a, j, done),
           NEW r, r.screen = j.screen, r.to = j.to, r.stage = "saving",
           r.pending = j.pending \ {k}, r.queryCount = j.queryCount
    PROVE  JoinFits(a, r, more)
<1>1. /\ r.screen = j.screen /\ r.to = j.to
      /\ r.stage = "saving" /\ r.pending = j.pending \ {k}
      /\ r.queryCount = j.queryCount
    OBVIOUS
<1>2. IsFiniteSet(WritesOf(j)) /\ Expected(j) \in Nat
    BY WriteKeys, OrderFields DEF JoinCounts, WritesOf, Expected
<1>3. IsFiniteSet(j.pending)
    BY <1>2, FS_Subset DEF JoinCounts
<1>4. /\ Cardinality(r.pending) = Cardinality(j.pending) - 1
      /\ Cardinality(j.pending) \in Nat
    BY <1>1, <1>3, FS_RemoveElement, FS_CardinalityType
<1>5. WritesOf(r) = WritesOf(j) /\ Expected(r) = Expected(j)
    BY <1>1 DEF WritesOf, Expected, OrderOf
<1>6. JoinCounts(a, r, more)
    <2>1. r.to \in {"donates", "history"} /\ r.pending \subseteq WritesOf(r)
        BY <1>1, <1>5 DEF JoinCounts
    <2>2. /\ r.queryCount + Cardinality(r.pending) <= Expected(r)
          /\ r.queryCount + Cardinality(r.pending) # Expected(r)
        BY <1>1, <1>2, <1>4, <1>5, JobFields DEF JoinCounts
    <2>3. QED
        BY <2>1, <2>2, Zenon DEF JoinCounts
<1>7. QED
    BY <1>1, <1>6 DEF JoinFits, Written

-----------------------------------------------------------------------------
(* What the other attempts have written does not matter to a join. *)
LEMMA JoinFitsMore ==
    ASSUME NEW a, NEW j, NEW done, NEW more, done \subseteq more,
           JoinFits(a, j, done)
    PROVE  JoinFits(a, j, more)
  BY DEF JoinFits, JoinCounts, JoinDone

(* A step that goes on with an attempt keeps the types of what it changes. *)
LEMMA GoOnTypes ==
    ASSUME TypeOK, NEW a \in Attempts, NEW r \in Job, NEW d \in Displays,
           GoOn(a, r, d)
    PROVE  /\ job' \in [Attempts -> Job] /\ job'[a] = r
           /\ \A b \in Attempts \ {a} : job'[b] = job[b]
           /\ orders' = orders /\ signedIn' = signedIn
           /\ writing' \in Seq(Attempts)
           /\ spinner' \in BOOLEAN /\ top' \in Displays
           /\ completeDonation' \in BOOLEAN
<1>1. /\ job' \in [Attempts -> Job] /\ job'[a] = r
      /\ \A b \in Attempts \ {a} : job'[b] = job[b]
      /\ orders' = orders /\ signedIn' = signedIn
    BY DEF GoOn, TypeOK
<1>2. OthersWriting(a) \in Seq(Attempts)
    BY DEF OthersWriting, TypeOK
<1>3. writing' \in Seq(Attempts)
    BY <1>2 DEF GoOn, TypeOK
<1>4. spinner' \in BOOLEAN
    BY DEF GoOn, SpinnerAfter, TypeOK
<1>5. top' \in Displays
    BY DEF GoOn, Displays
<1>6. completeDonation' \in BOOLEAN
    BY DEF GoOn
<1>7. QED
    BY <1>1, <1>3, <1>4, <1>5, <1>6

(* A step that goes on with an attempt, to a state that fits it, keeps the *)
(* invariant; it may have added an accepted write of that attempt.         *)
LEMMA GoOnInv ==
    ASSUME Inv, NEW a \in Attempts, NEW r \in Job, NEW d \in Displays,
           GoOn(a, r, d),
           r.screen \in 1 .. Len(orders),
           JoinFits(a, r, applied'),
           applied \subseteq applied',
           applied' \subseteq applied \cup ({a} \X Keys),
           applied' # applied \/ job[a].stage \in Written => r.stage \in Written,
           r.stage \in Started => r.free \/ stripeTokenId'[a],
           \A b \in Attempts : stripeTokenId[b] => stripeTokenId'[b],
           \A b \in Attempts \ {a} : OnScreen(b)' => OnScreen(b),
           OnScreen(a)' => r.stage = "paying"
    PROVE  ScreensOK' /\ PaidFirst' /\ JoinOK'
<1>2. TypeOK
    BY DEF Inv
<1>3. /\ job' \in [Attempts -> Job] /\ job'[a] = r
      /\ \A b \in Attempts \ {a} : job'[b] = job[b]
      /\ orders' = orders
    BY <1>2, GoOnTypes
<1>4. ScreensOK'
    <2>1. Len(orders) > 0
        BY <1>2 DEF TypeOK
    <2>2. QED
        BY <1>3, <2>1 DEF Inv, ScreensOK
<1>5. PaidFirst'
    BY <1>3 DEF Inv, PaidFirst, Started, Written
<1>6. JoinOK'
    <2> SUFFICES ASSUME NEW b \in Attempts PROVE JoinFits(b, job[b], applied)'
        BY DEF JoinOK
    <2>1. JoinFits(b, job'[b], applied')
        <3>1. CASE b = a
            BY <1>3, <3>1
        <3>2. CASE b # a
            BY <1>3, <3>2, JoinFitsMore DEF Inv, JoinOK
        <3>3. QED
            BY <3>1, <3>2
    <2>2. QED
        BY <1>3, <2>1
           DEF JoinFits, JoinCounts, JoinDone, WritesOf, Expected, OrderOf
<1>7. QED
    BY <1>4, <1>5, <1>6

-----------------------------------------------------------------------------
(* Every step of the checkout is a step of the payment component, or does   *)
(* not touch it.                                                            *)
LEMMA CheckoutStepPays ==
    userLoaded \in BOOLEAN /\ [Next]_vars => [PayNext]_payVars
<1> SUFFICES ASSUME userLoaded \in BOOLEAN, [Next]_vars PROVE [PayNext]_payVars
    OBVIOUS
<1>1. ASSUME NEW a \in Attempts, CompleteCheckoutButtonPressed(a)
      PROVE  [PayNext]_payVars
    BY <1>1 DEF CompleteCheckoutButtonPressed, PayNext
<1>2. ASSUME NEW a \in Attempts, PaymentCallback(a) PROVE [PayNext]_payVars
    BY <1>2 DEF PaymentCallback, PayNext
<1>3. CASE PaymentGoesOn
    BY <1>3 DEF PaymentGoesOn, PayNext
<1>4. CASE FirestoreAnswers
    BY <1>4 DEF FirestoreAnswers, TipsAnswered, ItemAnswered, DefaultAnswered
<1>5. CASE \E o \in Orders : OpenConfirmation(o)
    BY <1>5 DEF OpenConfirmation
<1>6. CASE Leave \/ AlertDismissed \/ SessionEnds
    BY <1>6 DEF Leave, AlertDismissed, SessionEnds
<1>7. CASE UNCHANGED vars
    BY <1>7 DEF vars
<1>8. QED
    BY <1>1, <1>2, <1>3, <1>4, <1>5, <1>6, <1>7 DEF Next

(* A manager keeps the token it has. *)
LEMMA TokensStay ==
    ASSUME PayInv, [PayNext]_payVars, NEW a \in Attempts, stripeTokenId[a]
    PROVE  stripeTokenId'[a]
  BY DEF PayInv, PayTypeOK, PayNext, RequestStep, SheetStep, Pay, Dismissed,
         DidAuthorizePayment, DidFinish, TokenRefused, TokenIssued, ServerCharges,
         PaymentSucceeds, PaymentFails, ReplyIgnored, payVars

(* The order of an attempt that has been made is one of the orders. *)
LEMMA OrderOfAttempt ==
    ASSUME TypeOK, NEW j, j.screen \in 1 .. Len(orders)
    PROVE  OrderOf(j) \in Orders
  BY DEF TypeOK, OrderOf

(* The first state satisfies the inductive invariant. *)
LEMMA InitInv == Init => Inv
<1> SUFFICES ASSUME Init PROVE Inv
    OBVIOUS
<1>1. PayInv
    BY PayInitInv DEF Init
<1>2. NewJob \in Job /\ NewJob.stage = "unused"
    BY CheckoutBounds DEF NewJob, Job, Stages, Keys
<1>3. user \in Profile /\ profile \in Profile
    BY ProfilesAssumption DEF Init, Profile
<1>4. donates \in [Docs -> Document]
    BY PledgesAssumption DEF Init, Docs, Document, Absent
<1>a. orders \in Seq(Orders) /\ Len(orders) <= MaxScreens /\ writing \in Seq(Attempts)
    BY CheckoutBounds DEF Init
<1>b. job \in [Attempts -> Job]
    BY <1>2 DEF Init
<1>c. /\ spinner \in BOOLEAN /\ signedIn \in BOOLEAN /\ userLoaded \in BOOLEAN
      /\ completeDonation \in BOOLEAN /\ applied \subseteq Attempts \X Keys
    BY DEF Init
<1>5. TypeOK
    BY <1>1, <1>3, <1>4, <1>a, <1>b, <1>c DEF Init, TypeOK, PayInv
<1>6. ScreensOK
    BY <1>2 DEF Init, ScreensOK, PayInit, OnScreen
<1>7. PaidFirst
    BY <1>2 DEF Init, PaidFirst, Started
<1>8. JoinOK
    BY <1>2 DEF Init, JoinOK, JoinFits
<1>9. QED
    BY <1>1, <1>5, <1>6, <1>7, <1>8 DEF Inv

(* A step that leaves the attempts, the orders and the token of every      *)
(* manager alone, and presents no sheet, keeps what is said of attempts.   *)
LEMMA AttemptsAlone ==
    ASSUME Inv, UNCHANGED <<job, orders, applied>>,
           top' # "bucket" => top # "bucket",
           \A b \in Attempts : stripeTokenId[b] => stripeTokenId'[b],
           \A b \in Attempts : OnScreen(b)' => OnScreen(b)
    PROVE  ScreensOK' /\ PaidFirst' /\ JoinOK'
<1>1. ScreensOK' /\ PaidFirst'
    BY DEF Inv, ScreensOK, PaidFirst
<1>2. JoinOK'
    BY DEF Inv, JoinOK, JoinFits, JoinCounts, JoinDone, WritesOf, Expected, OrderOf
<1>3. QED
    BY <1>1, <1>2

(* No step of a request presents a sheet. *)
LEMMA NoNewSheet ==
    ASSUME PayInv, SheetStep \/ RequestStep(userLoaded), NEW a \in Attempts,
           OnScreen(a)'
    PROVE  OnScreen(a)
  BY DEF PayInv, PayTypeOK, RequestsOwned, OnScreen, SheetStep, RequestStep,
         DidAuthorizePayment, DidFinish, TokenRefused, TokenIssued,
         ServerCharges, PaymentSucceeds, PaymentFails, ReplyIgnored, Answer

(* The bucket screen opens a confirmation screen. *)
LEMMA OpenInv ==
    ASSUME Inv, PayInv', NEW o \in Orders, OpenConfirmation(o)
    PROVE  Inv'
<1>1. /\ orders' = Append(orders, o) /\ Len(orders) < MaxScreens
      /\ UNCHANGED <<payVars, job, writing, signedIn, serverVars>>
      /\ orders \in Seq(Orders)
    BY DEF OpenConfirmation, Inv, TypeOK, Screen
<1>2. /\ orders' \in Seq(Orders) /\ Len(orders') = Len(orders) + 1
      /\ \A n \in 1 .. Len(orders) : orders'[n] = orders[n]
      /\ Len(orders) \in Nat
    BY <1>1
<1>3. user' \in Profile /\ userLoaded' \in BOOLEAN
    <2>1. CASE userLoaded' = TRUE /\ user' \in LocalProfiles
        <3>1. \A stage \in {"default", "tips"} : \A a \in Latest(stage) :
                 a \in Attempts /\ job[a].stage = stage
            BY DEF Latest, Writers, Inv, TypeOK
        <3>2. \A stage \in {"default", "tips"} : \A a \in Latest(stage) :
                 OrderOf(job[a]) \in Orders
            BY <3>1, OrderOfAttempt DEF Inv, ScreensOK
        <3>3. profile.default \in Nat /\ profile.tips \in Nat
            BY DEF Inv, TypeOK, Profile
        <3>4. \A q \in Orders : q.amount \in Nat /\ q.tips \in Nat
            BY OrderFields
        <3>5. QED
            BY <2>1, <3>2, <3>3, <3>4 DEF LocalProfiles, Profile
    <2>2. CASE UNCHANGED <<userLoaded, user>>
        BY <2>2 DEF Inv, TypeOK
    <2>3. QED
        BY <2>1, <2>2 DEF OpenConfirmation
<1>4. TypeOK'
    <2>1. spinner' \in BOOLEAN /\ completeDonation' \in BOOLEAN /\ top' = "confirm"
        BY DEF OpenConfirmation, Inv, TypeOK
    <2>2. Len(orders') <= MaxScreens
        BY <1>1, <1>2, CheckoutBounds
    <2>3. QED
        BY <1>1, <1>2, <1>3, <2>1, <2>2 DEF Inv, TypeOK, PayInv, serverVars
<1>5. \A a \in Attempts :
        job[a].stage # "unused" => OrderOf(job[a])' = OrderOf(job[a])
    BY <1>1, <1>2 DEF Inv, ScreensOK, OrderOf
<1>6. ScreensOK' /\ PaidFirst'
    BY <1>1, <1>2 DEF Inv, ScreensOK, PaidFirst, OnScreen, payVars, serverVars
<1>7. JoinOK'
    <2> SUFFICES ASSUME NEW a \in Attempts PROVE JoinFits(a, job[a], applied)'
        BY DEF JoinOK
    <2>1. JoinFits(a, job[a], applied)
        BY DEF Inv, JoinOK
    <2>2. CASE job[a].stage = "unused"
        BY <1>1, <2>2 DEF JoinFits
    <2>3. CASE job[a].stage # "unused"
        <3>1. OrderOf(job[a])' = OrderOf(job[a]) /\ job' = job /\ applied' = applied
            BY <1>1, <1>5, <2>3 DEF serverVars
        <3>2. WritesOf(job[a])' = WritesOf(job[a]) /\ Expected(job[a])' = Expected(job[a])
            BY <3>1 DEF WritesOf, Expected
        <3>3. QED
            BY <2>1, <3>1, <3>2 DEF JoinFits, JoinCounts, JoinDone
    <2>4. QED
        BY <2>2, <2>3
<1>8. QED
    BY <1>4, <1>6, <1>7 DEF Inv

(* The button is pressed: a sheet is presented, or the items are saved. *)
LEMMA PressInv ==
    ASSUME Inv, PayInv', [PayNext]_payVars, NEW a \in Attempts,
           CompleteCheckoutButtonPressed(a)
    PROVE  Inv'
<1> DEFINE j == [NewJob EXCEPT !.screen = Screen]
           p == [j EXCEPT !.stage = "paying"]
           f == [j EXCEPT !.free = TRUE]
           s == SendToUpdateDonates(f)
<1>1. /\ job[a].stage = "unused" /\ top = "confirm"
      /\ UNCHANGED <<userLoaded, user, serverVars>>
      /\ \/ /\ Pay(a) /\ job' = [job EXCEPT ![a] = p] /\ top' = "sheet"
            /\ UNCHANGED <<orders, spinner, writing, signedIn, completeDonation>>
         \/ GoOn(a, s, top) /\ UNCHANGED payVars
    BY DEF CompleteCheckoutButtonPressed
<1>2. TypeOK /\ PayInv /\ ScreensOK /\ PaidFirst /\ JoinOK
    BY DEF Inv
<1>3. Screen \in 1 .. Len(orders) /\ Screen \in 0 .. MaxScreens
    BY <1>1, <1>2, CheckoutBounds DEF ScreensOK, TypeOK, Screen
<1>4. /\ p \in Job /\ p.screen = Screen /\ p.stage = "paying"
      /\ f \in Job /\ f.screen = Screen /\ f.free = TRUE
    BY <1>3, CheckoutBounds DEF NewJob, Job, Stages, Keys
<1>5. OrderOf(f) \in Orders /\ signedIn \in BOOLEAN
    BY <1>2, <1>3, <1>4, OrderOfAttempt DEF TypeOK
<1> HIDE DEF p, f
<1>6. /\ s \in Job /\ s.screen = Screen /\ s.free = TRUE /\ s.stage \in Written
      /\ JoinFits(a, s, applied)
    BY <1>4, <1>5, SavesFit
<1> HIDE DEF s
<1>7. CASE /\ Pay(a) /\ job' = [job EXCEPT ![a] = p] /\ top' = "sheet"
           /\ UNCHANGED <<orders, spinner, writing, signedIn, completeDonation>>
    <2>1. TypeOK'
        BY <1>1, <1>2, <1>4, <1>7 DEF TypeOK, PayInv, serverVars
    <2>2. /\ job'[a] = p /\ \A b \in Attempts \ {a} : job'[b] = job[b]
          /\ \A b \in Attempts \ {a} : sheet'[b] = sheet[b]
          /\ stripeTokenId' = stripeTokenId /\ applied' = applied /\ orders' = orders
        BY <1>1, <1>2, <1>7 DEF Pay, TypeOK, PayTypeOK, serverVars
    <2>3. ScreensOK'
        BY <1>1, <1>2, <1>3, <1>4, <2>2 DEF ScreensOK, OnScreen
    <2>4. PaidFirst'
        BY <1>1, <1>2, <1>4, <2>2 DEF PaidFirst, Started, Written
    <2>5. JoinOK'
        <3>1. \A b \in Attempts \ {a} : JoinFits(b, job[b], applied)'
            BY <1>2, <2>2
               DEF JoinOK, JoinFits, JoinCounts, JoinDone, WritesOf, Expected, OrderOf
        <3>2. JoinFits(a, job[a], applied)'
            BY <1>4, <2>2 DEF JoinFits
        <3>3. QED
            BY <3>1, <3>2 DEF JoinOK
    <2>6. QED
        BY <2>1, <2>3, <2>4, <2>5 DEF Inv
<1>8. CASE GoOn(a, s, top) /\ UNCHANGED payVars
    <2>1. TypeOK'
        BY <1>1, <1>2, <1>6, <1>8, GoOnTypes
           DEF TypeOK, Displays, PayInv, serverVars
    <2>2. ScreensOK' /\ PaidFirst' /\ JoinOK'
        <3>1. /\ applied' = applied /\ top \in Displays
              /\ stripeTokenId' = stripeTokenId /\ sheet' = sheet
            BY <1>1, <1>8 DEF Displays, serverVars, payVars
        <3>2. ~OnScreen(a)
            BY <1>1, <1>2 DEF ScreensOK
        <3>3. \A b \in Attempts : OnScreen(b)' => OnScreen(b)
            BY <3>1 DEF OnScreen
        <3>4. QED
            BY <1>3, <1>6, <1>8, <3>1, <3>2, <3>3, GoOnInv
    <2>3. QED
        BY <2>1, <2>2 DEF Inv
<1>9. QED
    BY <1>1, <1>7, <1>8

(* The sheet has closed and tells the screen, if there is one. *)
LEMMA CallbackInv ==
    ASSUME Inv, PayInv', [PayNext]_payVars, NEW a \in Attempts, PaymentCallback(a)
    PROVE  Inv'
<1> DEFINE j == job[a]
           u == [j EXCEPT !.stage = "unpaid"]
           r == IF OrderOf(j).once THEN AddOneTimePaymentToFirebase(j) ELSE AddTips(j)
<1>1. TypeOK /\ PayInv /\ ScreensOK /\ PaidFirst /\ JoinOK
    BY DEF Inv
<1>2. /\ UNCHANGED <<userLoaded, user, serverVars>>
      /\ sheet[a] = "dismissing" /\ sheet' = [sheet EXCEPT ![a] = Outcome(a)]
      /\ stripeTokenId' = stripeTokenId
      /\ \/ Outcome(a) = "success" /\ GoOn(a, r, "confirm")
         \/ Outcome(a) = "failure" /\ GoOn(a, u, "confirm")
         \/ UNCHANGED <<orders, top, spinner, job, writing, signedIn, completeDonation>>
    BY DEF PaymentCallback, Dismissed
<1>3. /\ j \in Job /\ j.stage = "paying" /\ j.screen \in 1 .. Len(orders)
      /\ signedIn \in BOOLEAN
    BY <1>1, <1>2 DEF TypeOK, ScreensOK, OnScreen
<1>4. OrderOf(j) \in Orders
    BY <1>1, <1>3, OrderOfAttempt
<1>5. /\ ~OnScreen(a)' /\ \A b \in Attempts : OnScreen(b)' => OnScreen(b)
      /\ applied' = applied
      /\ Outcome(a) = "success" => stripeTokenId'[a]
    BY <1>1, <1>2 DEF OnScreen, Outcome, TypeOK, PayTypeOK, serverVars
<1>6. /\ u \in Job /\ u.screen = j.screen /\ u.stage = "unpaid"
      /\ JoinFits(a, u, applied)
    BY <1>3 DEF Job, Stages, JoinFits
<1>7. /\ r \in Job /\ r.screen = j.screen /\ r.stage \in Started
      /\ JoinFits(a, r, applied)
    <2>1. CASE OrderOf(j).once
        BY <1>3, <1>4, <2>1, SavesFit DEF Started, Written
    <2>2. CASE ~OrderOf(j).once
        BY <1>3, <1>4, <2>2, AddTipsFits
    <2>3. QED
        BY <2>1, <2>2
<1> HIDE DEF u, r
<1>8. ASSUME NEW q \in {u, r}, GoOn(a, q, "confirm"),
             q = r => Outcome(a) = "success"
      PROVE  Inv'
    <2>1. "confirm" \in Displays /\ q \in Job
        BY <1>6, <1>7 DEF Displays
    <2>2. TypeOK'
        BY <1>1, <1>2, <1>8, <2>1, GoOnTypes DEF TypeOK, Displays, PayInv, serverVars
    <2>3. ScreensOK' /\ PaidFirst' /\ JoinOK'
        <3>1. j.stage \notin Written
            BY <1>3 DEF Written
        <3>2. q.stage \in Started => stripeTokenId'[a]
            BY <1>5, <1>6, <1>8 DEF Started
        <3>3. q.screen \in 1 .. Len(orders) /\ JoinFits(a, q, applied)
            BY <1>3, <1>6, <1>7
        <3>4. QED
            BY <1>2, <1>5, <1>8, <2>1, <3>1, <3>2, <3>3, GoOnInv
    <2>4. QED
        BY <2>2, <2>3 DEF Inv
<1>9. CASE UNCHANGED <<orders, top, spinner, job, writing, signedIn, completeDonation>>
    <2>1. TypeOK'
        BY <1>1, <1>2, <1>9 DEF TypeOK, PayInv, serverVars
    <2>2. QED
        BY <1>2, <1>5, <1>9, <2>1, AttemptsAlone DEF Inv
<1>10. u # r
    BY <1>6, <1>7 DEF Started
<1>11. QED
    BY <1>2, <1>8, <1>9, <1>10

(* Firestore answers a request. *)
LEMMA AnswerInv ==
    ASSUME Inv, PayInv', NEW a \in Attempts, NEW ok \in BOOLEAN,
           \/ TipsAnswered(a, ok)
           \/ \E k \in Keys : ItemAnswered(a, k, ok)
           \/ DefaultAnswered(a, ok)
    PROVE  Inv'
<1> DEFINE j == job[a]
<1>1. /\ TypeOK /\ PayInv /\ ScreensOK /\ PaidFirst /\ JoinOK
      /\ j \in Job /\ signedIn \in BOOLEAN /\ top \in Displays
      /\ user \in Profile /\ profile \in Profile
    BY DEF Inv, TypeOK, Displays
<1>2. UNCHANGED payVars /\ j.stage \in {"tips", "saving", "default"}
    BY DEF TipsAnswered, ItemAnswered, DefaultAnswered
<1>3. /\ j.screen \in 1 .. Len(orders) /\ OrderOf(j) \in Orders
      /\ ~OnScreen(a)
      /\ (j.free \/ stripeTokenId[a])
    BY <1>1, <1>2, OrderOfAttempt DEF ScreensOK, PaidFirst, Started
<1>4. OrderOf(j).amount \in Nat /\ OrderOf(j).tips \in Nat
    BY <1>3, OrderFields
(* The part every answer shares: the attempt goes on with q. *)
<1>5. ASSUME NEW q \in Job, GoOn(a, q, top), q.screen = j.screen, q.free = j.free,
             q.stage \in Written, JoinFits(a, q, applied'),
             applied \subseteq applied', applied' \subseteq applied \cup ({a} \X Keys),
             user' \in Profile, profile' \in Profile, userLoaded' = userLoaded,
             donates' \in [Docs -> Document]
      PROVE  Inv'
    <2>1. TypeOK'
        <3>1. applied' \subseteq Attempts \X Keys
            BY <1>1, <1>5 DEF TypeOK
        <3>2. QED
            BY <1>1, <1>5, <3>1, GoOnTypes DEF TypeOK, Displays, PayInv
    <2>2. stripeTokenId' = stripeTokenId /\ sheet' = sheet
        BY <1>2 DEF payVars
    <2>3. \A b \in Attempts : OnScreen(b)' => OnScreen(b)
        BY <2>2 DEF OnScreen
    <2>4. ScreensOK' /\ PaidFirst' /\ JoinOK'
        BY <1>1, <1>3, <1>5, <2>2, <2>3, GoOnInv
    <2>5. QED
        BY <2>1, <2>4 DEF Inv
<1>6. CASE TipsAnswered(a, ok)
    <2> DEFINE q == SendToUpdateDonates(j)
    <2>1. /\ q \in Job /\ q.screen = j.screen /\ q.free = j.free
          /\ q.stage \in Written /\ JoinFits(a, q, applied)
        BY <1>1, <1>3, SavesFit
    <2>2. /\ GoOn(a, q, top) /\ UNCHANGED <<userLoaded, donates, applied>>
          /\ user' \in Profile /\ profile' \in Profile
        BY <1>1, <1>4, <1>6 DEF TipsAnswered, Profile
    <2> HIDE DEF q
    <2>3. QED
        BY <1>1, <1>5, <2>1, <2>2 DEF TypeOK
<1>7. CASE DefaultAnswered(a, ok)
    <2> DEFINE c == [j EXCEPT !.pending = {}]
               q == CompletionBlock(c)
    <2>1. /\ c \in Job /\ c.screen = j.screen /\ c.free = j.free /\ c.to = j.to
          /\ c.isError = j.isError
        BY <1>1 DEF Job
    <2>2. JoinDone(a, j, applied)
        BY <1>1, <1>7 DEF DefaultAnswered, JoinOK, JoinFits
    <2>3. GoOn(a, q, top)
        BY <1>7 DEF DefaultAnswered
    <2> HIDE DEF c
    <2>4. /\ q \in Job /\ q.screen = j.screen /\ q.free = j.free /\ q.to = j.to
          /\ q.isError = j.isError
          /\ q.stage = IF j.isError THEN "alerted" ELSE "shown"
        BY <2>1 DEF CompletionBlock, Job, Stages
    <2> HIDE DEF q
    <2>5. WritesOf(q) = WritesOf(j)
        BY <2>4 DEF WritesOf, OrderOf
    <2>6. q.stage \in Written /\ JoinFits(a, q, applied)
        BY <2>2, <2>4, <2>5 DEF JoinFits, JoinDone, Written
    <2>7. /\ UNCHANGED <<userLoaded, donates, applied>>
          /\ user' \in Profile /\ profile' \in Profile
        BY <1>1, <1>4, <1>7 DEF DefaultAnswered, Profile
    <2>8. QED
        BY <1>1, <1>5, <2>3, <2>4, <2>6, <2>7 DEF TypeOK
<1>8. ASSUME NEW k \in Keys, ItemAnswered(a, k, ok) PROVE Inv'
    <2> DEFINE acc == IF ok THEN applied \cup {<<a, k>>} ELSE applied
               q == IF Alive(j.screen) THEN CountAnswer(j, k, ok)
                    ELSE [j EXCEPT !.pending = @ \ {k}]
    <2>1. /\ j.stage = "saving" /\ k \in j.pending /\ applied' = acc
          /\ GoOn(a, q, top) /\ UNCHANGED <<userLoaded, user, profile>>
          /\ donates' = IF ok /\ j.to = "donates" THEN SaveItem(a, k) ELSE donates
        BY <1>8 DEF ItemAnswered, NextAnswer
    <2>2. JoinCounts(a, j, applied)
        BY <1>1, <2>1 DEF JoinOK, JoinFits
    <2>3. applied \subseteq acc /\ acc \subseteq applied \cup ({a} \X Keys)
        OBVIOUS
    <2>4. /\ q \in Job /\ q.screen = j.screen /\ q.free = j.free
          /\ q.stage \in Written /\ JoinFits(a, q, acc)
        <3>1. CASE Alive(j.screen)
            <4>1. q = CountAnswer(j, k, ok)
                BY <3>1
            <4>2. acc = IF ok THEN applied \cup {<<a, k>>} ELSE applied
                OBVIOUS
            <4>3. /\ j \in Job /\ OrderOf(j) \in Orders /\ signedIn \in BOOLEAN
                  /\ j.stage = "saving" /\ k \in j.pending
                BY <1>1, <1>3, <2>1
            <4> HIDE DEF q, acc, j
            <4>4. QED
                BY <2>2, <4>1, <4>2, <4>3, CountAnswerFits
        <3>2. CASE ~Alive(j.screen)
            <4> DEFINE rest == j.pending \ {k}
            <4>1. q = [j EXCEPT !.pending = rest]
                BY <3>2
            <4>2. /\ j \in Job /\ OrderOf(j) \in Orders
                  /\ j.stage = "saving" /\ k \in j.pending
                BY <1>1, <1>3, <2>1
            <4>3. rest \in SUBSET Keys /\ rest = j.pending \ {k}
                BY <4>2, JobFields
            <4> HIDE DEF q, acc, j, rest
            <4>4. /\ q \in Job /\ q.screen = j.screen /\ q.free = j.free
                  /\ q.to = j.to /\ q.stage = "saving" /\ q.pending = rest
                  /\ q.queryCount = j.queryCount
                BY <4>1, <4>2, <4>3 DEF Job
            <4>5. JoinFits(a, q, acc)
                BY <2>2, <4>2, <4>3, <4>4, MissedAnswerFits
            <4>6. QED
                BY <4>4, <4>5 DEF Written
        <3>3. QED
            BY <3>1, <3>2
    <2>5. donates' \in [Docs -> Document]
        <3>1. CASE ok /\ j.to = "donates"
            <4> DEFINE i == OrderOf(j).items[k]
            <4>1. k \in DOMAIN OrderOf(j).items
                BY <2>1, <2>2, <3>1 DEF JoinCounts, WritesOf, ItemsToSave
            <4>a. i \in Item
                BY <1>3, <4>1, OrderFields
            <4>2. /\ i.org \in Orgs /\ i.amount \in Nat
                  /\ i.id \in Loaded \cup {NoId}
                BY <4>a DEF Item
            <4>3. donates \in [Docs -> Document] /\ <<a, k>> \in Docs
                BY <1>1 DEF TypeOK, Docs
            <4>4. SaveItem(a, k) \in [Docs -> Document]
                BY <4>2, <4>3 DEF SaveItem, Document, Absent, Docs
            <4>5. QED
                BY <2>1, <3>1, <4>4
        <3>2. CASE ~(ok /\ j.to = "donates")
            BY <1>1, <2>1, <3>2 DEF TypeOK
        <3>3. QED
            BY <3>1, <3>2
    <2> HIDE DEF acc, q
    <2>6. QED
        BY <1>1, <1>5, <2>1, <2>3, <2>4, <2>5
<1>9. QED
    BY <1>6, <1>7, <1>8

(* Every step keeps the inductive invariant. *)
LEMMA StepInv == Inv /\ [Next]_vars => Inv'
<1> SUFFICES ASSUME Inv, [Next]_vars PROVE Inv'
    OBVIOUS
<1>1. TypeOK /\ PayInv
    BY DEF Inv
<1>2. [PayNext]_payVars /\ PayInv'
    BY <1>1, CheckoutStepPays, PayStepInv DEF TypeOK
<1>3. \A b \in Attempts : stripeTokenId[b] => stripeTokenId'[b]
    BY <1>1, <1>2, TokensStay
<1>4. CASE \E o \in Orders : OpenConfirmation(o)
    BY <1>2, <1>4, OpenInv
<1>5. CASE \E a \in Attempts : CompleteCheckoutButtonPressed(a)
    BY <1>2, <1>5, PressInv
<1>6. CASE \E a \in Attempts : PaymentCallback(a)
    BY <1>2, <1>6, CallbackInv
<1>7. CASE FirestoreAnswers
    BY <1>2, <1>7, AnswerInv DEF FirestoreAnswers
<1>8. CASE PaymentGoesOn
    <2>1. \A b \in Attempts : OnScreen(b)' => OnScreen(b)
        BY <1>1, <1>8, NoNewSheet DEF PaymentGoesOn
    <2>2. TypeOK'
        BY <1>1, <1>2, <1>8 DEF PaymentGoesOn, TypeOK, PayInv, appVars, serverVars
    <2>3. QED
        BY <1>2, <1>3, <1>8, <2>1, <2>2, AttemptsAlone
           DEF Inv, PaymentGoesOn, appVars, serverVars
<1>9. CASE Leave \/ AlertDismissed \/ SessionEnds \/ UNCHANGED vars
    <2>1. UNCHANGED <<payVars, job, orders, serverVars>>
        BY <1>9 DEF Leave, AlertDismissed, SessionEnds, vars, appVars
    <2>2. TypeOK'
        BY <1>1, <1>9
           DEF Leave, AlertDismissed, SessionEnds, vars, TypeOK, PayTypeOK,
               payVars, appVars, serverVars
    <2>3. \A b \in Attempts : OnScreen(b)' => OnScreen(b)
        BY <2>1 DEF OnScreen, payVars
    <2>4. top' # "bucket" => top # "bucket"
        BY <1>9 DEF Leave, AlertDismissed, SessionEnds, vars, appVars
    <2>5. QED
        BY <1>2, <1>3, <2>1, <2>2, <2>3, <2>4, AttemptsAlone DEF Inv, serverVars
<1>10. QED
    BY <1>4, <1>5, <1>6, <1>7, <1>8, <1>9 DEF Next

-----------------------------------------------------------------------------
(* The inductive invariant of the screens: what the display says of the    *)
(* attempts, beside what the attempts say of the writes.                    *)

(* A join of whose answers none has been missed still waits for one, unless *)
(* its order has no items.                                                  *)
NoneMissed(j) ==
    /\ j.stage = "saving" =>
          /\ j.queryCount + Cardinality(j.pending) = Expected(j)
          /\ j.queryCount < Expected(j) \/ OrderOf(j).items = <<>>
    /\ j.stage = "default" => j.pending # {}

(* Who is on the login screen is signed out, the bucket has no overlay, and *)
(* one attempt pays while the sheet is up.                                  *)
DisplayOK ==
    /\ top = "auth" => ~signedIn
    /\ top = "bucket" => ~spinner
    /\ \A a \in Attempts :
          job[a].stage = "paying" =>
              /\ top = "sheet" /\ job[a].screen = Screen
              /\ \A b \in Attempts : job[b].stage = "paying" => a = b

(* A screen on the stack hears every answer. *)
NoneMissedOK ==
    \A a \in Attempts : OnStack(job[a].screen) => NoneMissed(job[a])

(* Without the write of a monthly tip, the one busy attempt of the screen   *)
(* is behind the sheet or behind the overlay.                               *)
Busy(a) ==
    /\ job[a].screen = Screen
    /\ job[a].stage \in {"paying", "tips", "saving", "default"}
TipNotWritten(o) == o.once \/ o.tips = 0
AloneOK ==
    Screen > 0 /\ TipNotWritten(orders[Screen]) =>
        \A a \in Attempts : Busy(a) =>
            /\ \A b \in Attempts : Busy(b) => a = b
            /\ job[a].stage # "tips"
            /\ job[a].stage # "paying" /\ OnStack(Screen) => spinner

(* The saved bucket goes with an attempt that has shown "Success!". *)
DroppedOK == completeDonation \/ \E a \in Attempts : job[a].stage = "shown"

(* While every screen has the same order, a row's pledge keeps its          *)
(* organisation as long as the row has an amount, and is what the row says  *)
(* from the first accepted write of that row.                               *)
Target(i) ==
    IF i.amount > 0 THEN [org |-> i.org, amount |-> i.amount] ELSE Absent
AllOrdersAre(o) == \A s \in DOMAIN orders : orders[s] = o
RowStored(o, k) ==
    LET i == o.items[k]
    IN  /\ i.amount > 0 => donates[i.id].org = i.org
        /\ \A a \in Attempts :
              job[a].to = "donates" /\ <<a, k>> \in applied =>
                  donates[i.id] = Target(i)
StoredOK ==
    \A o \in Orders : AllOrdersAre(o) =>
        \A k \in DOMAIN o.items : o.items[k].id # NoId => RowStored(o, k)

ScreenInv ==
    DisplayOK /\ NoneMissedOK /\ SpinnerHasCause /\ AloneOK /\ DroppedOK /\ StoredOK

(* What a function of the screen makes of an attempt: it is past the sheet, *)
(* on the way to a result, and sends the app to the login screen only if    *)
(* nobody is signed in.                                                     *)
GoesOn(j, r) ==
    /\ r.stage \in {"tips", "saving", "default", "shown", "alerted"}
    /\ r.stage = "tips" => ~TipNotWritten(OrderOf(j))
    /\ r.screen = j.screen
    /\ NoneMissed(r)
    /\ r.redirected /\ ~j.redirected => ~signedIn

-----------------------------------------------------------------------------
(* The handler leaves nothing to wait for, or one write. *)
LEMMA HandlerGoesOn ==
    ASSUME NEW j \in Job, signedIn \in BOOLEAN
    PROVE  LET r == SendToUpdateDonatesHandler(j)
           IN  /\ r.stage \in {"default", "shown", "alerted"}
               /\ r.screen = j.screen /\ r.to = j.to
               /\ r.stage = "default" => r.pending = {0}
               /\ r.redirected /\ ~j.redirected => ~signedIn
  BY DEF SendToUpdateDonatesHandler, CompletionBlock, Job

(* A join that begins waits for its requests, if it has any. *)
LEMMA StartJoinGoesOn ==
    ASSUME NEW j \in Job, OrderOf(j) \in Orders, signedIn \in BOOLEAN,
           NEW to, NEW ks, NEW n,
           \/ /\ to = "donates" /\ ks = ItemsToSave(OrderOf(j))
              /\ n = Len(OrderOf(j).items)
           \/ /\ to = "history" /\ ks = RecordsToAdd(OrderOf(j))
              /\ n = Cardinality(RecordsToAdd(OrderOf(j)))
    PROVE  LET r == StartJoin(j, to, ks, n)
           IN  GoesOn(j, r) /\ r.stage # "tips" /\ r.to = to
<1> DEFINE sent == IF signedIn THEN ks ELSE {}
           failed == ~signedIn /\ ks # {}
           left == n - Cardinality(sent)
           b == [j EXCEPT !.stage = "saving", !.to = to, !.pending = sent,
                          !.queryCount = left,
                          !.isError = failed, !.redirected = failed]
<1>1. /\ n \in Nat /\ ks \subseteq Keys /\ IsFiniteSet(ks)
      /\ Cardinality(ks) \in Nat /\ Cardinality(ks) <= n
    BY OrderFields, WriteKeys, CheckoutBounds
<1>2. /\ Cardinality(sent) \in Nat /\ Cardinality(sent) <= n
      /\ sent \in SUBSET Keys
    BY <1>1, FS_EmptySet
<1>3. /\ failed \in BOOLEAN /\ left \in Nat /\ left <= n
      /\ "saving" \in Stages /\ to \in {"none", "donates", "history"}
      /\ failed => ~signedIn
    BY <1>1, <1>2 DEF Stages
<1>4. StartJoin(j, to, ks, n) =
        IF n > 0 /\ b.queryCount = n THEN SendToUpdateDonatesHandler(b) ELSE b
    BY DEF StartJoin
<1>5. left + Cardinality(sent) = n
    BY <1>1, <1>2
<1>6. n = 0 => OrderOf(j).items = <<>>
    <2> DEFINE R == RecordsToAdd(OrderOf(j))
               L == Len(OrderOf(j).items)
    <2>1. DOMAIN OrderOf(j).items \subseteq R /\ IsFiniteSet(R)
        BY WriteKeys DEF RecordsToAdd
    <2>2. /\ DOMAIN OrderOf(j).items = 1 .. L /\ L \in Nat
          /\ OrderOf(j).items \in Seq(Item)
        BY OrderFields, CheckoutBounds
    <2>3. n = L \/ n = Cardinality(R)
        OBVIOUS
    <2> HIDE DEF R, L
    <2>4. Cardinality(R) = 0 => R = {}
        BY <2>1, FS_EmptySet
    <2>5. n = 0 => L = 0
        BY <2>1, <2>2, <2>3, <2>4
    <2>6. QED
        BY <2>2, <2>5 DEF L
<1> HIDE DEF sent, failed, left
<1>7. /\ b \in Job /\ b.screen = j.screen /\ b.to = to
      /\ b.stage = "saving" /\ b.pending = sent
      /\ b.queryCount = left /\ b.isError = failed /\ b.redirected = failed
    BY <1>2, <1>3 DEF Job
<1> HIDE DEF b
<1>8. Expected(b) = n /\ OrderOf(b) = OrderOf(j)
    BY <1>7 DEF Expected, OrderOf
<1>9. CASE n > 0 /\ b.queryCount = n
    <2>1. SendToUpdateDonatesHandler(b).stage = "default" =>
             SendToUpdateDonatesHandler(b).pending # {}
        BY <1>7, HandlerGoesOn
    <2>2. QED
        BY <1>3, <1>4, <1>7, <1>9, <2>1, HandlerGoesOn DEF GoesOn, NoneMissed
<1>10. CASE ~(n > 0 /\ b.queryCount = n)
    <2>1. b.queryCount + Cardinality(b.pending) = Expected(b)
        BY <1>5, <1>7, <1>8
    <2>2. b.queryCount < Expected(b) \/ OrderOf(b).items = <<>>
        BY <1>1, <1>3, <1>6, <1>7, <1>8, <1>10
    <2>3. QED
        BY <1>3, <1>4, <1>7, <1>10, <2>1, <2>2 DEF GoesOn, NoneMissed
<1>11. QED
    BY <1>9, <1>10

(* The saves, and the write of a tip before them. *)
LEMMA SavesGoOn ==
    ASSUME NEW j \in Job, OrderOf(j) \in Orders, signedIn \in BOOLEAN
    PROVE  /\ GoesOn(j, SendToUpdateDonates(j))
           /\ GoesOn(j, AddOneTimePaymentToFirebase(j))
           /\ ~OrderOf(j).once => GoesOn(j, AddTips(j))
           /\ SendToUpdateDonates(j).stage # "tips"
<1> DEFINE s == SendToUpdateDonates(j)
           t == [j EXCEPT !.stage = "tips", !.pending = {0}]
           e == [s EXCEPT !.redirected = TRUE]
<1>1. GoesOn(j, s) /\ s.stage # "tips"
    <2> DEFINE n == Len(OrderOf(j).items)
    <2>1. s = StartJoin(j, "donates", ItemsToSave(OrderOf(j)), n)
        BY DEF SendToUpdateDonates
    <2>2. n = Len(OrderOf(j).items)
        OBVIOUS
    <2> HIDE DEF n, s
    <2>3. QED
        BY <2>1, <2>2, StartJoinGoesOn
<1>2. GoesOn(j, AddOneTimePaymentToFirebase(j))
    BY StartJoinGoesOn DEF AddOneTimePaymentToFirebase
<1>3. ASSUME ~OrderOf(j).once PROVE GoesOn(j, AddTips(j))
    <2>1. CASE OrderOf(j).tips = 0
        BY <1>1, <2>1 DEF AddTips
    <2>2. CASE OrderOf(j).tips > 0 /\ signedIn
        <3>1. AddTips(j) = t
            BY <2>2, OrderFields DEF AddTips
        <3>2. t.stage = "tips" /\ t.screen = j.screen /\ t.redirected = j.redirected
            BY DEF Job
        <3>3. ~TipNotWritten(OrderOf(j))
            BY <1>3, <2>2, OrderFields DEF TipNotWritten
        <3>4. QED
            BY <3>1, <3>2, <3>3 DEF GoesOn, NoneMissed
    <2>3. CASE OrderOf(j).tips > 0 /\ ~signedIn
        <3>1. AddTips(j) = e
            BY <2>3, OrderFields DEF AddTips
        <3>2. s \in Job
            BY SavesFit
        <3> HIDE DEF s
        <3>3. /\ e.stage = s.stage /\ e.screen = s.screen /\ e.to = s.to
              /\ e.queryCount = s.queryCount /\ e.pending = s.pending
            BY <3>2 DEF Job
        <3> HIDE DEF e
        <3>4. OrderOf(e) = OrderOf(s) /\ Expected(e) = Expected(s)
            BY <3>3 DEF OrderOf, Expected
        <3>5. QED
            BY <1>1, <2>3, <3>1, <3>3, <3>4 DEF GoesOn, NoneMissed
    <2>4. QED
        BY <2>1, <2>2, <2>3, OrderFields
<1>4. QED
    BY <1>1, <1>2, <1>3

(* An answer that is counted is not missed. *)
LEMMA CountAnswerGoesOn ==
    ASSUME NEW j \in Job, OrderOf(j) \in Orders, signedIn \in BOOLEAN,
           j.stage = "saving", NEW k \in j.pending, NEW ok \in BOOLEAN,
           j.pending \subseteq WritesOf(j),
           j.to \in {"donates", "history"}, NoneMissed(j)
    PROVE  GoesOn(j, CountAnswer(j, k, ok)) /\ CountAnswer(j, k, ok).stage # "tips"
<1> DEFINE failed == j.isError \/ ~ok
           rest == j.pending \ {k}
           count == j.queryCount + 1
           c == [j EXCEPT !.pending = rest, !.queryCount = count, !.isError = failed]
<1>1. failed \in BOOLEAN /\ rest \in SUBSET Keys /\ count \in Nat
    BY JobFields
<1>2. IsFiniteSet(j.pending) /\ Expected(j) \in Nat
    BY WriteKeys, OrderFields, FS_Subset DEF WritesOf, Expected
<1>4. /\ Cardinality(rest) = Cardinality(j.pending) - 1
      /\ Cardinality(j.pending) \in Nat /\ Cardinality(rest) \in Nat
    BY <1>2, FS_RemoveElement, FS_CardinalityType
<1>5. CountAnswer(j, k, ok) =
        IF c.queryCount = Expected(j) THEN SendToUpdateDonatesHandler(c) ELSE c
    BY DEF CountAnswer
<1> HIDE DEF failed, rest, count
<1>6. /\ c \in Job /\ c.screen = j.screen /\ c.to = j.to
      /\ c.stage = "saving" /\ c.pending = rest
      /\ c.queryCount = count /\ c.redirected = j.redirected
    BY <1>1 DEF Job
<1> HIDE DEF c
<1>7. Expected(c) = Expected(j) /\ OrderOf(c) = OrderOf(j)
    BY <1>6 DEF Expected, OrderOf
<1>8. c.queryCount + Cardinality(c.pending) = Expected(c)
    <2>1. j.queryCount + Cardinality(j.pending) = Expected(j) /\ j.queryCount \in Nat
        BY JobFields DEF NoneMissed
    <2>2. QED
        BY <1>4, <1>6, <1>7, <2>1 DEF count
<1>9. CASE c.queryCount = Expected(j)
    <2>1. SendToUpdateDonatesHandler(c).stage = "default" =>
             SendToUpdateDonatesHandler(c).pending # {}
        BY <1>6, HandlerGoesOn
    <2>2. QED
        BY <1>5, <1>6, <1>9, <2>1, HandlerGoesOn DEF GoesOn, NoneMissed
<1>10. CASE c.queryCount # Expected(j)
    <2>1. c.queryCount < Expected(c)
        BY <1>1, <1>2, <1>4, <1>6, <1>7, <1>8, <1>10
    <2>2. QED
        BY <1>5, <1>6, <1>8, <1>10, <2>1 DEF GoesOn, NoneMissed
<1>11. QED
    BY <1>9, <1>10

(* What a step that goes on does to the overlay and to the display. *)
LEMMA GoOnShows ==
    ASSUME TypeOK, NEW a \in Attempts, NEW r \in Job, NEW d \in Displays, GoOn(a, r, d)
    PROVE  /\ ~OnStack(r.screen) => (spinner' <=> spinner)
           /\ OnStack(r.screen) /\ r.stage \in Finished => ~spinner'
           /\ OnStack(r.screen) /\ r.stage \in {"saving", "default"}
                 /\ (job[a].stage = "saving" => spinner) => spinner'
           /\ spinner' => spinner \/ (OnStack(r.screen) /\ r.stage \in {"saving", "default"})
           /\ top' \in {"auth", "success", "alert", d}
           /\ top' = "auth" => top' = d \/ (r.redirected /\ ~job[a].redirected)
           /\ top' \in {"auth", d} \/ d = "confirm"
<1>1. spinner' = SpinnerAfter(a, r)
    BY DEF GoOn
<1>2. /\ ~OnStack(r.screen) => (spinner' <=> spinner)
      /\ OnStack(r.screen) /\ r.stage \in Finished => ~spinner'
      /\ OnStack(r.screen) /\ r.stage \in {"saving", "default"}
            /\ (job[a].stage = "saving" => spinner) => spinner'
      /\ spinner' => spinner \/ (OnStack(r.screen) /\ r.stage \in {"saving", "default"})
    BY <1>1 DEF SpinnerAfter, Finished
<1>3. /\ top' \in {"auth", "success", "alert", d}
      /\ top' = "auth" => top' = d \/ (r.redirected /\ ~job[a].redirected)
      /\ top' \in {"auth", d} \/ d = "confirm"
    BY DEF GoOn
<1>4. QED
    BY <1>1, <1>2, <1>3

(* What is said of the display when attempt a goes on from the screen it   *)
(* belongs to.                                                             *)
LEMMA GoOnDisplay ==
    ASSUME Inv, ScreenInv, NEW a \in Attempts, NEW r \in Job, NEW d \in Displays,
           GoOn(a, r, d), r.stage \notin {"unused", "paying"},
           \/ d = top /\ job[a].stage # "paying"
           \/ d = "confirm" /\ top = "sheet" /\ job[a].stage = "paying",
           \/ job[a].stage = "unused" /\ top = "confirm"
           \/ job[a].stage = "paying"
           \/ signedIn,
           r.redirected /\ ~job[a].redirected => ~signedIn
    PROVE  DisplayOK'
<1>1. /\ job'[a] = r /\ \A b \in Attempts \ {a} : job'[b] = job[b]
      /\ orders' = orders /\ signedIn' = signedIn
    BY GoOnTypes DEF Inv
<1>2. /\ top' \in {"auth", "success", "alert", d}
      /\ top' = "auth" => ~signedIn \/ top' = d
      /\ top' \in {"auth", d} \/ d = "confirm"
      /\ ~OnStack(r.screen) => (spinner' <=> spinner)
    BY GoOnShows DEF Inv
<1>3. top' = "auth" => ~signedIn'
    BY <1>1, <1>2 DEF ScreenInv, DisplayOK
<1>4. top' = "bucket" => ~spinner'
    <2> HAVE top' = "bucket"
    <2>1. d = "bucket"
        BY <1>2
    <2>2. top = "bucket"
        BY <2>1
    <2>3. QED
        BY <1>2, <2>2 DEF OnStack, ScreenInv, DisplayOK
<1>5. ASSUME NEW b \in Attempts, job'[b].stage = "paying"
      PROVE  /\ top' = "sheet" /\ job'[b].screen = Screen'
             /\ \A c \in Attempts : job'[c].stage = "paying" => b = c
    <2>1. b # a /\ job[b].stage = "paying" /\ job'[b] = job[b]
        BY <1>1, <1>5
    <2>2. /\ top = "sheet" /\ job[b].screen = Screen
          /\ \A c \in Attempts : job[c].stage = "paying" => b = c
        BY <2>1 DEF ScreenInv, DisplayOK
    <2>3. d = top /\ signedIn
        BY <2>1, <2>2
    <2>4. top' = "sheet"
        BY <1>2, <2>2, <2>3
    <2>5. QED
        BY <1>1, <2>1, <2>2, <2>4 DEF Screen
<1>6. QED
    BY <1>3, <1>4, <1>5 DEF DisplayOK

(* What is said of the overlay and of the button. *)
LEMMA GoOnScreens ==
    ASSUME Inv, ScreenInv, NEW a \in Attempts, NEW r \in Job, NEW d \in Displays,
           GoOn(a, r, d), r.stage \notin {"unused", "paying"},
           r.stage = "tips" => ~TipNotWritten(OrderOf(r)),
           \/ d = top /\ job[a].stage # "paying"
           \/ d = "confirm" /\ top = "sheet" /\ job[a].stage = "paying",
           \/ job[a].stage = "unused" /\ top = "confirm" /\ ~spinner
           \/ job[a].stage = "paying" /\ r.screen = job[a].screen
           \/ /\ job[a].stage \in {"tips", "saving", "default"} /\ signedIn
              /\ r.screen = job[a].screen
              /\ r.stage \notin {"tips", "unpaid"},
           r.redirected /\ ~job[a].redirected => ~signedIn,
           OnStack(r.screen) => NoneMissed(r)
    PROVE  /\ DisplayOK' /\ NoneMissedOK' /\ SpinnerHasCause' /\ AloneOK'
           /\ DroppedOK'
<1>1. /\ job'[a] = r /\ \A b \in Attempts \ {a} : job'[b] = job[b]
      /\ orders' = orders /\ signedIn' = signedIn /\ job \in [Attempts -> Job]
    BY GoOnTypes DEF Inv, TypeOK
<1>a. /\ ~OnStack(r.screen) => (spinner' <=> spinner)
      /\ OnStack(r.screen) /\ r.stage \in Finished => ~spinner'
      /\ OnStack(r.screen) /\ r.stage \in {"saving", "default"}
            /\ (job[a].stage = "saving" => spinner) => spinner'
      /\ spinner' => spinner \/ (OnStack(r.screen) /\ r.stage \in {"saving", "default"})
      /\ top' \in {"auth", "success", "alert", d}
      /\ top' \in {"auth", d} \/ d = "confirm"
    BY GoOnShows DEF Inv
<1>2. DisplayOK'
    BY GoOnDisplay
<1>b. DisplayOK /\ NoneMissedOK /\ SpinnerHasCause /\ AloneOK /\ DroppedOK
    BY DEF ScreenInv
<1>3. OnStack(Screen)' => OnStack(Screen)
    BY <1>1, <1>a DEF OnStack, Screen
<1>4. NoneMissedOK'
    <2> SUFFICES ASSUME NEW b \in Attempts, OnStack(job[b].screen)'
                 PROVE  NoneMissed(job[b])'
        BY DEF NoneMissedOK
    <2>1. OnStack(job'[b].screen)
        BY <1>1, <1>3 DEF OnStack, Screen
    <2>2. NoneMissed(job'[b])
        BY <1>1, <1>b, <2>1 DEF NoneMissedOK
    <2>3. QED
        BY <1>1, <2>2 DEF NoneMissed, Expected, OrderOf, RecordsToAdd
<1>5. DroppedOK'
    BY <1>1, <1>b DEF DroppedOK, GoOn
<1>6. SpinnerHasCause'
    <2> DEFINE Cause(j) == /\ j.screen = Screen /\ j.stage \in {"saving", "default"}
                           /\ j.pending # {} \/ OrderOf(j).items = <<>>
    <2> SUFFICES ASSUME spinner' PROVE \E b \in Attempts : Cause(job'[b])
        <3>1. Screen' = Screen
            BY <1>1 DEF Screen
        <3>2. \A b \in Attempts : OrderOf(job[b])' = OrderOf(job'[b])
            BY <1>1 DEF OrderOf
        <3>3. QED
            BY <3>1, <3>2 DEF SpinnerHasCause
    <2>1. OnStack(r.screen) /\ r.stage \in {"saving", "default"} => Cause(r)
        <3> HAVE OnStack(r.screen) /\ r.stage \in {"saving", "default"}
        <3>1. NoneMissed(r) /\ r.screen = Screen
            BY DEF OnStack
        <3>2. CASE r.stage = "default"
            BY <3>1, <3>2 DEF NoneMissed
        <3>3. CASE r.stage = "saving"
            <4>1. r.queryCount \in Nat /\ (r.pending = {} => Cardinality(r.pending) = 0)
                BY JobFields, FS_EmptySet
            <4>2. /\ r.queryCount + Cardinality(r.pending) = Expected(r)
                  /\ r.queryCount < Expected(r) \/ OrderOf(r).items = <<>>
                BY <3>1, <3>3 DEF NoneMissed
            <4>3. r.pending = {} => OrderOf(r).items = <<>>
                BY <4>1, <4>2
            <4>4. QED
                BY <3>1, <3>3, <4>3
        <3>4. QED
            BY <3>2, <3>3
    <2>2. CASE OnStack(r.screen) /\ r.stage \in {"saving", "default"}
        BY <1>1, <2>1, <2>2
    <2>3. CASE ~(OnStack(r.screen) /\ r.stage \in {"saving", "default"})
        <3>1. spinner
            BY <1>a, <2>3
        <3>2. PICK b \in Attempts : Cause(job[b])
            BY <1>b, <3>1 DEF SpinnerHasCause
        <3>3. b # a
            <4> SUFFICES ASSUME b = a PROVE FALSE
                OBVIOUS
            <4>1. r.screen = Screen /\ signedIn /\ r.stage \notin {"tips", "unpaid"}
                BY <3>2
            <4>2. OnStack(Screen)
                BY <1>b, <3>1, <4>1 DEF OnStack, DisplayOK
            <4>3. r.stage \in Finished
                BY <2>3, <4>1, <4>2, JobFields DEF Stages, Finished
            <4>4. QED
                BY <1>a, <4>1, <4>2, <4>3
        <3>4. QED
            BY <1>1, <3>2, <3>3
    <2>4. QED
        BY <2>2, <2>3
<1>7. AloneOK'
    <2> SUFFICES ASSUME Screen > 0, TipNotWritten(orders[Screen]), NEW b \in Attempts,
                        Busy(b)'
                 PROVE  /\ \A c \in Attempts : Busy(c)' => b = c
                        /\ job'[b].stage # "tips"
                        /\ job'[b].stage # "paying" /\ OnStack(Screen)' => spinner'
        BY <1>1 DEF AloneOK, Screen
    <2>1. \A c \in Attempts \ {a} : Busy(c)' <=> Busy(c)
        BY <1>1 DEF Busy, Screen
    <2>2. Busy(a)' => /\ r.screen = Screen /\ r.stage \in {"tips", "saving", "default"}
                      /\ r.stage # "tips"
        BY <1>1 DEF Busy, Screen, OrderOf
    <2>3. \A c \in Attempts : Busy(c) =>
             /\ \A e \in Attempts : Busy(e) => c = e
             /\ job[c].stage # "tips"
             /\ job[c].stage # "paying" /\ OnStack(Screen) => spinner
        BY <1>b DEF AloneOK
    <2>4. ASSUME r.screen = Screen, NEW c \in Attempts \ {a}, Busy(c) PROVE FALSE
        <3>1. CASE job[a].stage = "unused" /\ top = "confirm" /\ ~spinner
            <4>1. job[c].stage # "paying"
                BY <1>b, <3>1 DEF DisplayOK
            <4>2. OnStack(Screen)
                BY <3>1 DEF OnStack
            <4>3. QED
                BY <2>3, <2>4, <3>1, <4>1, <4>2
        <3>2. CASE job[a].stage \in {"paying", "tips", "saving", "default"}
                   /\ r.screen = job[a].screen
            BY <2>3, <2>4, <3>2 DEF Busy
        <3>3. QED
            BY <3>1, <3>2
    <2>5. \A c \in Attempts : Busy(c)' => b = c
        BY <2>1, <2>2, <2>3, <2>4
    <2>6. job'[b].stage # "tips"
        BY <1>1, <2>1, <2>2, <2>3
    <2>7. ASSUME job'[b].stage # "paying", OnStack(Screen)' PROVE spinner'
        <3>1. OnStack(Screen)
            BY <1>3, <2>7
        <3>2. CASE b = a
            <4>1. r.screen = Screen /\ r.stage \in {"saving", "default"}
                BY <2>2, <3>2
            <4>2. job[a].stage = "saving" => Busy(a)
                BY <4>1 DEF Busy
            <4>3. job[a].stage = "saving" => spinner
                BY <2>3, <3>1, <4>2
            <4>4. QED
                BY <1>a, <3>1, <4>1, <4>3
        <3>3. CASE b # a
            <4>1. Busy(b) /\ spinner
                BY <1>1, <2>1, <2>3, <2>7, <3>1, <3>3
            <4>2. r.screen # Screen
                BY <2>4, <3>3, <4>1
            <4>3. ~OnStack(r.screen)
                BY <4>2 DEF OnStack
            <4>4. QED
                BY <1>a, <4>1, <4>3
        <3>4. QED
            BY <3>2, <3>3
    <2>8. QED
        BY <2>5, <2>6, <2>7
<1>8. QED
    BY <1>2, <1>4, <1>5, <1>6, <1>7

(* A step that makes no accepted write leaves the stored rows alone. *)
LEMMA StoredAlone ==
    ASSUME Inv, StoredOK, UNCHANGED <<donates, applied>>,
           orders' = orders \/ \E o \in Orders : orders' = Append(orders, o),
           \A a \in Attempts : \A k \in Keys :
              job'[a].to = "donates" /\ <<a, k>> \in applied => job[a].to = "donates"
    PROVE  StoredOK'
<1> SUFFICES ASSUME NEW o \in Orders, AllOrdersAre(o)',
                    NEW k \in DOMAIN o.items, o.items[k].id # NoId
             PROVE  RowStored(o, k)'
    BY DEF StoredOK
<1>1. orders \in Seq(Orders)
    BY DEF Inv, TypeOK
<1>2. AllOrdersAre(o)
    <2> SUFFICES ASSUME NEW s \in DOMAIN orders PROVE orders[s] = o
        BY DEF AllOrdersAre
    <2>1. s \in DOMAIN orders' /\ orders'[s] = orders[s]
        BY <1>1
    <2>2. QED
        BY <2>1 DEF AllOrdersAre
<1>3. RowStored(o, k)
    BY <1>2 DEF StoredOK
<1>4. k \in Keys
    BY OrderFields, CheckoutBounds DEF Keys
<1>5. QED
    BY <1>3, <1>4 DEF RowStored

(* An accepted write of a row makes its pledge what the row says, and no    *)
(* other row's.                                                             *)
LEMMA SaveItemStores ==
    ASSUME NEW o \in Orders, NEW a \in Attempts, OrderOf(job[a]) = o,
           NEW k \in DOMAIN o.items, NEW l \in DOMAIN o.items, o.items[l].id # NoId,
           donates \in [Docs -> Document],
           o.items[l].amount > 0 => donates[o.items[l].id].org = o.items[l].org
    PROVE  LET d == o.items[l].id
           IN  SaveItem(a, k)[d] = IF k = l THEN Target(o.items[l]) ELSE donates[d]
<1> DEFINE w == o.items[k]
           i == o.items[l]
<1>1. /\ w \in Item /\ i \in Item /\ k \in Keys
    BY OrderFields, CheckoutBounds DEF Keys
<1>2. /\ w.amount \in Nat /\ i.amount \in Nat /\ i.id \in Loaded /\ i.id \in Docs
      /\ w.id \in Loaded \cup {NoId} /\ w.org \in Orgs /\ i.org \in Orgs
      /\ <<a, k>> \in Docs /\ <<a, k>> # i.id
    BY <1>1, RowsAssumption DEF Item, Docs
<1>3. w.id = i.id => k = l
    BY RowsAssumption
<1>4. donates[i.id] \in Document
    BY <1>2
<1>5. SaveItem(a, k) = 
         IF w.id # NoId /\ w.amount > 0 THEN [donates EXCEPT ![w.id].amount = w.amount]
         ELSE IF w.id # NoId THEN [donates EXCEPT ![w.id] = Absent]
         ELSE [donates EXCEPT ![<<a, k>>] = [org |-> w.org, amount |-> w.amount]]
    BY <1>2 DEF SaveItem
<1>6. i.amount > 0 => donates[i.id].org = i.org
    OBVIOUS
<1>7. CASE k = l
    <2>1. SaveItem(a, k) = IF i.amount > 0 THEN [donates EXCEPT ![i.id].amount = i.amount]
                           ELSE [donates EXCEPT ![i.id] = Absent]
        BY <1>5, <1>7
    <2> HIDE DEF i, w
    <2>2. QED
        BY <1>2, <1>4, <1>6, <1>7, <2>1 DEF Target, Document, i
<1>8. CASE k # l
    <2>1. w.id # i.id
        BY <1>3, <1>8
    <2>2. SaveItem(a, k)[i.id] = donates[i.id]
        <3> HIDE DEF i, w
        <3>1. QED
            BY <1>2, <1>5, <2>1
    <2>3. QED
        BY <1>8, <2>2
<1>9. QED
    BY <1>7, <1>8

(* An answer that is counted, or missed, keeps the rows stored. *)
LEMMA ItemStored ==
    ASSUME Inv, StoredOK, NEW a \in Attempts, NEW k \in Keys, NEW ok \in BOOLEAN,
           ItemAnswered(a, k, ok), orders' = orders,
           \A b \in Attempts : job'[b].to = job[b].to
    PROVE  StoredOK'
<1>1. /\ TypeOK /\ ScreensOK /\ JoinOK /\ donates \in [Docs -> Document]
    BY DEF Inv, TypeOK
<1>2. /\ job[a].stage = "saving" /\ k \in job[a].pending
      /\ donates' = IF ok /\ job[a].to = "donates" THEN SaveItem(a, k) ELSE donates
      /\ applied' = IF ok THEN applied \cup {<<a, k>>} ELSE applied
    BY DEF ItemAnswered, NextAnswer
<1>3. job[a].screen \in 1 .. Len(orders) /\ job[a].pending \subseteq WritesOf(job[a])
    BY <1>1, <1>2 DEF ScreensOK, JoinOK, JoinFits, JoinCounts
<1> SUFFICES ASSUME NEW o \in Orders, AllOrdersAre(o),
                    NEW l \in DOMAIN o.items, o.items[l].id # NoId
             PROVE  RowStored(o, l)'
    BY DEF StoredOK, AllOrdersAre
<1>4. RowStored(o, l)
    BY DEF StoredOK
<1>5. OrderOf(job[a]) = o
    BY <1>1, <1>3 DEF OrderOf, AllOrdersAre, TypeOK
<1>6. CASE ok /\ job[a].to = "donates"
    <2>1. k \in DOMAIN o.items
        BY <1>2, <1>3, <1>5, <1>6 DEF WritesOf, ItemsToSave
    <2>2. donates'[o.items[l].id] =
             IF k = l THEN Target(o.items[l]) ELSE donates[o.items[l].id]
        <3>1. o.items[l].amount > 0 => donates[o.items[l].id].org = o.items[l].org
            BY <1>4 DEF RowStored
        <3>2. SaveItem(a, k)[o.items[l].id] =
                 IF k = l THEN Target(o.items[l]) ELSE donates[o.items[l].id]
            BY <1>1, <1>5, <2>1, <3>1, SaveItemStores
        <3>3. QED
            BY <1>2, <1>6, <3>2
    <2>3. CASE k = l
        BY <2>2, <2>3 DEF RowStored, Target
    <2>4. CASE k # l
        <3>1. \A b \in Attempts : <<b, l>> \in applied' => <<b, l>> \in applied
            BY <1>2, <2>4
        <3>2. QED
            BY <1>4, <2>2, <2>4, <3>1 DEF RowStored
    <2>5. QED
        BY <2>3, <2>4
<1>7. CASE ~(ok /\ job[a].to = "donates")
    <2>1. donates' = donates
        BY <1>2, <1>7
    <2>2. \A b \in Attempts : job[b].to = "donates" /\ <<b, l>> \in applied'
             => <<b, l>> \in applied
        BY <1>2, <1>7
    <2>3. QED
        BY <1>4, <2>1, <2>2 DEF RowStored
<1>8. QED
    BY <1>6, <1>7

(* A counted answer leaves the kind of the attempt's writes alone. *)
LEMMA CountAnswerKeeps ==
    ASSUME NEW j \in Job, signedIn, j.stage = "saving",
           NEW k \in j.pending, NEW ok \in BOOLEAN,
           NEW r, r = CountAnswer(j, k, ok)
    PROVE  /\ r.to = j.to /\ r.stage \in {"saving", "default", "shown", "alerted"}
           /\ r.redirected => j.redirected
<1> DEFINE failed == j.isError \/ ~ok
           rest == j.pending \ {k}
           count == j.queryCount + 1
           c == [j EXCEPT !.pending = rest, !.queryCount = count, !.isError = failed]
<1>1. failed \in BOOLEAN /\ rest \in SUBSET Keys /\ count \in Nat
    BY JobFields
<1>2. r = IF c.queryCount = Expected(j) THEN SendToUpdateDonatesHandler(c) ELSE c
    BY DEF CountAnswer
<1> HIDE DEF failed, rest, count
<1>3. /\ c \in Job /\ c.to = j.to /\ c.stage = "saving" /\ c.redirected = j.redirected
    BY <1>1 DEF Job
<1> HIDE DEF c
<1>4. QED
    BY <1>2, <1>3, HandlerGoesOn

-----------------------------------------------------------------------------
(* No screen is open at first. *)
LEMMA InitScreens == Init => ScreenInv
<1> SUFFICES ASSUME Init PROVE ScreenInv
    OBVIOUS
<1>1. /\ orders = <<>> /\ top = "bucket" /\ ~spinner /\ completeDonation
      /\ \A a \in Attempts : job[a].stage = "unused" /\ job[a].to = "none"
      /\ applied = {}
    BY DEF Init, NewJob
<1>2. DisplayOK /\ SpinnerHasCause /\ DroppedOK
    BY <1>1 DEF DisplayOK, SpinnerHasCause, DroppedOK
<1>3. NoneMissedOK /\ AloneOK
    BY <1>1 DEF NoneMissedOK, OnStack, AloneOK, Busy, Screen
<1>4. StoredOK
    <2> SUFFICES ASSUME NEW o \in Orders, NEW k \in DOMAIN o.items, o.items[k].id # NoId
                 PROVE  RowStored(o, k)
        BY DEF StoredOK
    <2>1. o.items[k].id \in Loaded
        <3>1. o.items[k] \in Item
            BY OrderFields
        <3>2. QED
            BY <3>1 DEF Item
    <2>2. PICK p \in Pledges : donates = [d \in Docs |-> IF d \in Loaded THEN p[d] ELSE Absent]
        BY DEF Init
    <2>3. donates[o.items[k].id] = p[o.items[k].id]
        BY <2>1, <2>2 DEF Docs
    <2>4. p[o.items[k].id].org = o.items[k].org
        BY RowsAssumption
    <2>5. QED
        BY <1>1, <2>3, <2>4 DEF RowStored
<1>5. QED
    BY <1>2, <1>3, <1>4 DEF ScreenInv

(* A new screen has no attempts yet. *)
LEMMA OpenScreens ==
    ASSUME Inv, ScreenInv, NEW o \in Orders, OpenConfirmation(o)
    PROVE  ScreenInv'
<1>1. /\ top = "bucket" /\ top' = "confirm" /\ ~spinner'
      /\ orders' = Append(orders, o) /\ orders \in Seq(Orders) /\ Len(orders) \in Nat
      /\ UNCHANGED <<job, signedIn, serverVars>>
      /\ completeDonation' = TRUE \/ completeDonation' = completeDonation
    <2>1. orders \in Seq(Orders)
        BY DEF Inv, TypeOK
    <2>2. completeDonation' = TRUE \/ completeDonation' = completeDonation
        BY Zenon DEF OpenConfirmation
    <2>3. /\ top = "bucket" /\ top' = "confirm" /\ spinner' = FALSE
          /\ orders' = Append(orders, o) /\ UNCHANGED <<job, signedIn, serverVars>>
        BY DEF OpenConfirmation
    <2>4. QED
        BY <2>1, <2>2, <2>3
<1>2. /\ Screen' = Len(orders) + 1
      /\ \A a \in Attempts : job[a].stage # "unused" => job[a].screen # Screen'
    BY <1>1 DEF Screen, Inv, ScreensOK
<1>3. DisplayOK'
    BY <1>1 DEF ScreenInv, DisplayOK
<1>4. NoneMissedOK' /\ SpinnerHasCause' /\ AloneOK'
    <2>1. \A a \in Attempts : job'[a].screen = Screen' => job'[a].stage = "unused"
        BY <1>1, <1>2
    <2>2. NoneMissedOK'
        BY <2>1 DEF NoneMissedOK, OnStack, NoneMissed
    <2>3. AloneOK'
        BY <2>1 DEF AloneOK, Busy
    <2>4. SpinnerHasCause'
        BY <1>1 DEF SpinnerHasCause
    <2>5. QED
        BY <2>2, <2>3, <2>4
<1>5. DroppedOK'
    <2>1. CASE completeDonation' = TRUE
        BY <2>1 DEF DroppedOK
    <2>2. CASE completeDonation' = completeDonation
        BY <1>1, <2>2 DEF ScreenInv, DroppedOK
    <2>3. QED
        BY <1>1, <2>1, <2>2
<1>6. StoredOK'
    BY <1>1, StoredAlone DEF ScreenInv, serverVars
<1>7. QED
    BY <1>3, <1>4, <1>5, <1>6 DEF ScreenInv

(* No request of an attempt that has not come to its saves is accepted. *)
LEMMA NoneApplied ==
    ASSUME Inv, NEW a \in Attempts, job[a].stage \notin Written, NEW k \in Keys
    PROVE  <<a, k>> \notin applied
  BY DEF Inv, PaidFirst

(* A step that leaves the attempts, the orders and the server alone, and    *)
(* the display too or for a screen below, keeps what is said of the screens.*)
LEMMA ScreensAlone ==
    ASSUME Inv, ScreenInv, UNCHANGED <<job, orders, completeDonation, serverVars>>,
           signedIn' => signedIn,
           \/ top' = top /\ spinner' = spinner
           \/ top' = "bucket" /\ ~spinner' /\ top = "confirm"
           \/ top = "alert" /\ top' = "confirm" /\ spinner' = spinner
    PROVE  ScreenInv'
<1>2. /\ OnStack(Screen)' => OnStack(Screen) /\ spinner' = spinner
      /\ Screen' = Screen
    BY DEF OnStack, Screen
<1>3. DisplayOK'
    BY <1>2 DEF ScreenInv, DisplayOK
<1>4. NoneMissedOK'
    <2> SUFFICES ASSUME NEW b \in Attempts, OnStack(job[b].screen)'
                 PROVE  NoneMissed(job[b])'
        BY DEF NoneMissedOK
    <2>1. NoneMissed(job[b])
        BY <1>2 DEF ScreenInv, NoneMissedOK, OnStack
    <2>2. QED
        BY <2>1 DEF NoneMissed, Expected, OrderOf, RecordsToAdd
<1>5. SpinnerHasCause' /\ DroppedOK'
    BY <1>2 DEF ScreenInv, SpinnerHasCause, DroppedOK, OrderOf
<1>6. AloneOK'
    BY <1>2 DEF ScreenInv, AloneOK, Busy
<1>7. StoredOK'
    BY StoredAlone DEF ScreenInv, serverVars
<1>8. QED
    BY <1>3, <1>4, <1>5, <1>6, <1>7 DEF ScreenInv

(* The button is pressed where nothing else is under way. *)
LEMMA PressScreens ==
    ASSUME Inv, ScreenInv, NEW a \in Attempts, CompleteCheckoutButtonPressed(a)
    PROVE  ScreenInv'
<1> DEFINE j == [NewJob EXCEPT !.screen = Screen]
           p == [j EXCEPT !.stage = "paying"]
           f == [j EXCEPT !.free = TRUE]
           s == SendToUpdateDonates(f)
<1>1. /\ job[a].stage = "unused" /\ top = "confirm" /\ ~spinner
      /\ UNCHANGED <<userLoaded, user, serverVars>>
      /\ \/ /\ job' = [job EXCEPT ![a] = p] /\ top' = "sheet"
            /\ UNCHANGED <<orders, spinner, writing, signedIn, completeDonation>>
         \/ GoOn(a, s, top)
    BY DEF CompleteCheckoutButtonPressed
<1>2. TypeOK /\ ScreensOK /\ job \in [Attempts -> Job]
    BY DEF Inv, TypeOK
<1>3. Screen \in 1 .. Len(orders) /\ Screen \in 0 .. MaxScreens
    BY <1>1, <1>2, CheckoutBounds DEF ScreensOK, TypeOK, Screen
<1>4. /\ p \in Job /\ p.screen = Screen /\ p.stage = "paying"
      /\ f \in Job /\ f.screen = Screen /\ ~f.redirected
    BY <1>3, CheckoutBounds DEF NewJob, Job, Stages, Keys
<1>5. OrderOf(f) \in Orders /\ signedIn \in BOOLEAN
    BY <1>2, <1>3, <1>4, OrderOfAttempt DEF TypeOK
<1> HIDE DEF p, f
<1>6. s \in Job /\ GoesOn(f, s) /\ s.stage # "tips"
    BY <1>4, <1>5, SavesFit, SavesGoOn
<1> HIDE DEF s
<1>7. CASE GoOn(a, s, top)
    <2>1. /\ s.stage \notin {"unused", "paying", "tips"} /\ NoneMissed(s)
          /\ s.redirected => ~signedIn
        BY <1>4, <1>6 DEF GoesOn
    <2>2. /\ DisplayOK' /\ NoneMissedOK' /\ SpinnerHasCause' /\ AloneOK' /\ DroppedOK'
        <3>1. top \in Displays
            BY <1>1 DEF Displays
        <3>2. QED
            BY <1>1, <1>6, <1>7, <2>1, <3>1, GoOnScreens
    <2>3. StoredOK'
        <3>1. \A k \in Keys : <<a, k>> \notin applied
            BY <1>1, NoneApplied DEF Written
        <3>2. orders' = orders /\ \A b \in Attempts \ {a} : job'[b] = job[b]
            BY <1>2, <1>6, <1>7, <1>1, GoOnTypes DEF Displays
        <3>3. QED
            BY <1>1, <3>1, <3>2, StoredAlone DEF ScreenInv, serverVars
    <2>4. QED
        BY <2>2, <2>3 DEF ScreenInv
<1>8. CASE /\ job' = [job EXCEPT ![a] = p] /\ top' = "sheet"
           /\ UNCHANGED <<orders, spinner, writing, signedIn, completeDonation>>
    <2>1. /\ job'[a] = p /\ \A b \in Attempts \ {a} : job'[b] = job[b]
          /\ orders' = orders /\ Screen' = Screen /\ OnStack(Screen) /\ OnStack(Screen)'
        BY <1>1, <1>2, <1>8 DEF OnStack, Screen
    <2>2. \A b \in Attempts : job[b].stage # "paying"
        BY <1>1 DEF ScreenInv, DisplayOK
    <2>3. DisplayOK'
        BY <1>4, <1>8, <2>1, <2>2 DEF DisplayOK
    <2>4. NoneMissedOK'
        <3> SUFFICES ASSUME NEW b \in Attempts, OnStack(job[b].screen)'
                     PROVE  NoneMissed(job[b])'
            BY DEF NoneMissedOK
        <3>1. b # a => NoneMissed(job[b])
            BY <2>1 DEF ScreenInv, NoneMissedOK, OnStack
        <3>2. QED
            BY <1>4, <2>1, <3>1 DEF NoneMissed, Expected, OrderOf, RecordsToAdd
    <2>5. SpinnerHasCause'
        BY <1>1, <1>8 DEF SpinnerHasCause
    <2>6. AloneOK'
        <3> SUFFICES ASSUME Screen > 0, TipNotWritten(orders[Screen])
                     PROVE  \A b \in Attempts \ {a} : ~Busy(b)
            BY <1>4, <2>1 DEF AloneOK, Busy, Screen
        <3>1. QED
            BY <1>1, <2>1, <2>2 DEF ScreenInv, AloneOK, Busy
    <2>7. DroppedOK'
        BY <1>1, <1>8, <2>1 DEF ScreenInv, DroppedOK
    <2>8. StoredOK'
        <3>1. \A k \in Keys : <<a, k>> \notin applied
            BY <1>1, NoneApplied DEF Written
        <3>2. QED
            BY <1>1, <2>1, <3>1, StoredAlone DEF ScreenInv, serverVars
    <2>9. QED
        BY <2>3, <2>4, <2>5, <2>6, <2>7, <2>8 DEF ScreenInv
<1>9. QED
    BY <1>1, <1>7, <1>8

(* The sheet has closed. *)
LEMMA CallbackScreens ==
    ASSUME Inv, ScreenInv, NEW a \in Attempts, PaymentCallback(a)
    PROVE  ScreenInv'
<1> DEFINE j == job[a]
           u == [j EXCEPT !.stage = "unpaid"]
           r == IF OrderOf(j).once THEN AddOneTimePaymentToFirebase(j) ELSE AddTips(j)
<1>1. /\ UNCHANGED <<userLoaded, user, serverVars>> /\ sheet[a] = "dismissing"
      /\ \/ top = "sheet" /\ GoOn(a, r, "confirm")
         \/ top = "sheet" /\ GoOn(a, u, "confirm")
         \/ UNCHANGED <<orders, top, spinner, job, writing, signedIn, completeDonation>>
    BY DEF PaymentCallback, Dismissed
<1>2. TypeOK /\ ScreensOK /\ "confirm" \in Displays
    BY DEF Inv, Displays
<1>3. /\ j \in Job /\ j.stage = "paying" /\ j.screen \in 1 .. Len(orders)
      /\ signedIn \in BOOLEAN
    BY <1>1, <1>2 DEF TypeOK, ScreensOK, OnScreen
<1>4. OrderOf(j) \in Orders
    BY <1>2, <1>3, OrderOfAttempt
<1>5. u \in Job /\ u.stage = "unpaid" /\ u.screen = j.screen /\ u.redirected = j.redirected
    BY <1>3 DEF Job, Stages
<1>6. r \in Job /\ GoesOn(j, r)
    BY <1>3, <1>4, SavesFit, AddTipsFits, SavesGoOn
<1> HIDE DEF u, r
<1>7. ASSUME NEW q \in Job, top = "sheet", GoOn(a, q, "confirm"),
             q.stage \notin {"unused", "paying"},
             q.stage = "tips" => ~TipNotWritten(OrderOf(q)),
             q.screen = j.screen, q.redirected /\ ~j.redirected => ~signedIn,
             NoneMissed(q)
      PROVE  ScreenInv'
    <2>1. DisplayOK' /\ NoneMissedOK' /\ SpinnerHasCause' /\ AloneOK' /\ DroppedOK'
        BY <1>2, <1>3, <1>7, GoOnScreens
    <2>2. StoredOK'
        <3>1. \A k \in Keys : <<a, k>> \notin applied
            BY <1>3, NoneApplied DEF Written
        <3>2. orders' = orders /\ \A b \in Attempts \ {a} : job'[b] = job[b]
            BY <1>2, <1>7, GoOnTypes
        <3>3. QED
            BY <1>1, <3>1, <3>2, StoredAlone DEF ScreenInv, serverVars
    <2>3. QED
        BY <2>1, <2>2 DEF ScreenInv
<1>8. CASE top = "sheet" /\ GoOn(a, r, "confirm")
    <2>1. OrderOf(r) = OrderOf(j)
        BY <1>6 DEF GoesOn, OrderOf
    <2>2. QED
        BY <1>6, <1>7, <1>8, <2>1 DEF GoesOn
<1>9. CASE top = "sheet" /\ GoOn(a, u, "confirm")
    BY <1>5, <1>7, <1>9 DEF NoneMissed
<1>10. CASE UNCHANGED <<orders, top, spinner, job, writing, signedIn, completeDonation>>
    BY <1>1, <1>10, ScreensAlone
<1>11. QED
    BY <1>1, <1>8, <1>9, <1>10

(* Firestore answers a request. *)
LEMMA AnswerScreens ==
    ASSUME Inv, ScreenInv, NEW a \in Attempts, NEW ok \in BOOLEAN,
           \/ TipsAnswered(a, ok)
           \/ \E k \in Keys : ItemAnswered(a, k, ok)
           \/ DefaultAnswered(a, ok)
    PROVE  ScreenInv'
<1> DEFINE j == job[a]
<1>1. /\ TypeOK /\ ScreensOK /\ JoinOK /\ j \in Job /\ signedIn
      /\ top \in Displays /\ j.stage \in {"tips", "saving", "default"}
    BY DEF Inv, TypeOK, Displays, TipsAnswered, ItemAnswered, DefaultAnswered, NextAnswer
<1>2. OrderOf(j) \in Orders
    BY <1>1, OrderOfAttempt DEF ScreensOK
<1>3. ASSUME NEW q \in Job, GoOn(a, q, top),
             q.stage \in {"saving", "default", "shown", "alerted"},
             q.screen = j.screen, q.redirected => j.redirected,
             OnStack(q.screen) => NoneMissed(q)
      PROVE  DisplayOK' /\ NoneMissedOK' /\ SpinnerHasCause' /\ AloneOK' /\ DroppedOK'
    BY <1>1, <1>3, GoOnScreens
<1>4. ASSUME NEW q \in Job, GoOn(a, q, top)
      PROVE  /\ orders' = orders /\ job'[a] = q
             /\ \A b \in Attempts \ {a} : job'[b] = job[b]
    BY <1>1, <1>4, GoOnTypes
<1>5. CASE TipsAnswered(a, ok)
    <2> DEFINE q == SendToUpdateDonates(j)
    <2>1. GoOn(a, q, top) /\ UNCHANGED <<donates, applied>> /\ j.stage = "tips"
        BY <1>5 DEF TipsAnswered
    <2>2. q \in Job /\ GoesOn(j, q) /\ q.stage # "tips"
        BY <1>1, <1>2, SavesFit, SavesGoOn
    <2> HIDE DEF q
    <2>3. DisplayOK' /\ NoneMissedOK' /\ SpinnerHasCause' /\ AloneOK' /\ DroppedOK'
        BY <1>1, <1>3, <2>1, <2>2 DEF GoesOn
    <2>4. \A k \in Keys : <<a, k>> \notin applied
        BY <2>1, NoneApplied DEF Written
    <2>5. StoredOK'
        BY <1>4, <2>1, <2>2, <2>4, StoredAlone DEF ScreenInv
    <2>6. QED
        BY <2>3, <2>5 DEF ScreenInv
<1>6. CASE DefaultAnswered(a, ok)
    <2> DEFINE c == [j EXCEPT !.pending = {}]
               q == CompletionBlock(c)
    <2>1. /\ c \in Job /\ c.screen = j.screen /\ c.to = j.to /\ c.redirected = j.redirected
        BY <1>1 DEF Job
    <2>2. GoOn(a, q, top) /\ UNCHANGED <<donates, applied>>
        BY <1>6 DEF DefaultAnswered
    <2> HIDE DEF c
    <2>3. /\ q \in Job /\ q.screen = j.screen /\ q.to = j.to
          /\ q.redirected = j.redirected /\ q.stage \in {"shown", "alerted"}
        BY <2>1 DEF CompletionBlock, Job, Stages
    <2> HIDE DEF q
    <2>4. DisplayOK' /\ NoneMissedOK' /\ SpinnerHasCause' /\ AloneOK' /\ DroppedOK'
        BY <1>3, <2>2, <2>3 DEF NoneMissed
    <2>5. StoredOK'
        BY <1>4, <2>2, <2>3, StoredAlone DEF ScreenInv
    <2>6. QED
        BY <2>4, <2>5 DEF ScreenInv
<1>7. ASSUME NEW k \in Keys, ItemAnswered(a, k, ok) PROVE ScreenInv'
    <2> DEFINE rest == j.pending \ {k}
               m == [j EXCEPT !.pending = rest]
               q == IF Alive(j.screen) THEN CountAnswer(j, k, ok) ELSE m
    <2>1. /\ j.stage = "saving" /\ k \in j.pending /\ GoOn(a, q, top)
        BY <1>7 DEF ItemAnswered, NextAnswer
    <2>2. /\ j.pending \subseteq WritesOf(j) /\ j.to \in {"donates", "history"}
          /\ JoinCounts(a, j, applied)
        BY <1>1, <2>1 DEF JoinOK, JoinFits, JoinCounts
    <2>3. /\ m \in Job /\ m.screen = j.screen /\ m.to = j.to /\ m.stage = "saving"
          /\ m.redirected = j.redirected
        <3>1. rest \in SUBSET Keys
            BY <1>1, JobFields
        <3> HIDE DEF rest
        <3>2. QED
            BY <1>1, <2>1, <3>1 DEF Job
    <2>4. /\ q \in Job /\ q.screen = j.screen /\ q.to = j.to
          /\ q.stage \in {"saving", "default", "shown", "alerted"}
          /\ q.redirected => j.redirected
          /\ OnStack(q.screen) => NoneMissed(q)
        <3>1. CASE ~Alive(j.screen)
            BY <2>3, <3>1 DEF Alive
        <3>2. CASE Alive(j.screen)
            <4>1. q = CountAnswer(j, k, ok)
                BY <3>2
            <4>2. OnStack(j.screen) => NoneMissed(j)
                BY DEF ScreenInv, NoneMissedOK
            <4> HIDE DEF q, m
            <4>3. /\ q \in Job /\ q.screen = j.screen
                <5> DEFINE acc == IF ok THEN applied \cup {<<a, k>>} ELSE applied
                <5>1. acc = IF ok THEN applied \cup {<<a, k>>} ELSE applied
                    OBVIOUS
                <5> HIDE DEF acc, j
                <5>2. QED
                    BY <1>1, <1>2, <2>1, <2>2, <4>1, <5>1, CountAnswerFits
            <4>4. /\ q.to = j.to /\ q.stage \in {"saving", "default", "shown", "alerted"}
                  /\ q.redirected => j.redirected
                BY <1>1, <1>2, <2>1, <2>2, <4>1, CountAnswerKeeps
            <4>5. OnStack(j.screen) => NoneMissed(q)
                BY <1>1, <1>2, <2>1, <2>2, <4>1, <4>2, CountAnswerGoesOn DEF GoesOn
            <4>6. QED
                BY <4>3, <4>4, <4>5
        <3>3. QED
            BY <3>1, <3>2
    <2> HIDE DEF q, m
    <2>5. DisplayOK' /\ NoneMissedOK' /\ SpinnerHasCause' /\ AloneOK' /\ DroppedOK'
        BY <1>3, <2>1, <2>4
    <2>6. StoredOK'
        <3>1. \A b \in Attempts : job'[b].to = job[b].to
            BY <1>4, <2>1, <2>4
        <3>2. QED
            BY <1>4, <1>7, <2>1, <2>4, <3>1, ItemStored DEF ScreenInv
    <2>7. QED
        BY <2>5, <2>6 DEF ScreenInv
<1>8. QED
    BY <1>5, <1>6, <1>7

(* Every step keeps what is said of the screens. *)
LEMMA StepScreens == Inv /\ ScreenInv /\ [Next]_vars => ScreenInv'
<1> SUFFICES ASSUME Inv, ScreenInv, [Next]_vars PROVE ScreenInv'
    OBVIOUS
<1>1. CASE \E o \in Orders : OpenConfirmation(o)
    BY <1>1, OpenScreens
<1>2. CASE \E a \in Attempts : CompleteCheckoutButtonPressed(a)
    BY <1>2, PressScreens
<1>3. CASE \E a \in Attempts : PaymentCallback(a)
    BY <1>3, CallbackScreens
<1>4. CASE FirestoreAnswers
    BY <1>4, AnswerScreens DEF FirestoreAnswers
<1>5. CASE PaymentGoesOn \/ Leave \/ AlertDismissed \/ SessionEnds \/ UNCHANGED vars
    <2>1. /\ UNCHANGED <<job, orders, completeDonation, serverVars>>
          /\ signedIn' => signedIn
          /\ \/ top' = top /\ spinner' = spinner
             \/ top' = "bucket" /\ ~spinner' /\ top = "confirm"
             \/ top = "alert" /\ top' = "confirm" /\ spinner' = spinner
        BY <1>5 DEF PaymentGoesOn, Leave, AlertDismissed, SessionEnds, vars, appVars
    <2>2. QED
        BY <2>1, ScreensAlone
<1>6. QED
    BY <1>1, <1>2, <1>3, <1>4, <1>5 DEF Next

-----------------------------------------------------------------------------
(* The checkout keeps its types. *)
THEOREM CheckoutTypes == Spec => []TypeOK
<1>1. Inv => TypeOK
    BY DEF Inv
<1>2. QED
    BY InitInv, StepInv, <1>1, PTL DEF Spec

(* "Success!" is shown only when the server has accepted each item and     *)
(* each record that the attempt had to write: the counter of answers never *)
(* runs ahead of them, whatever screens come and go                        *)
(* (DonateConfirmationViewController.swift:54-114,141-177).  It says       *)
(* nothing of the tip of a monthly order and of the monthly amount, whose  *)
(* refusal the code ignores (:46-52,124-127).                              *)
THEOREM CheckoutShownMeansSaved == Spec => []ShownMeansSaved
<1>1. Inv => ShownMeansSaved
    BY DEF Inv, JoinOK, JoinFits, JoinDone, ShownMeansSaved
<1>2. QED
    BY InitInv, StepInv, <1>1, PTL DEF Spec

(* Nothing is written for an attempt that had to pay before the server has *)
(* taken the money for it (DonateConfirmationViewController.swift:184-199  *)
(* with PaymentManager.swift:53-82).                                       *)
THEOREM CheckoutWritesFollowCharge == Spec => []WritesFollowCharge
<1>1. Inv => WritesFollowCharge
    BY DEF Inv, PaidFirst, Written, Started, PayInv, TokensArePaid,
           WritesFollowCharge, ChargesOf
<1>2. QED
    BY InitInv, StepInv, <1>1, PTL DEF Spec

(* The saved bucket is dropped only after each of its rows has been         *)
(* written: the attempt that dropped it has shown "Success!", and the item  *)
(* and record writes of a shown attempt have been accepted                  *)
(* (DonateConfirmationViewController.swift:117-119).                        *)
THEOREM CheckoutBucketKept == Spec => []BucketKeptUntilSaved
<1>1. Inv /\ ScreenInv => BucketKeptUntilSaved
    BY DEF Inv, JoinOK, JoinFits, JoinDone, ScreenInv, DroppedOK, BucketKeptUntilSaved
<1>2. QED
    BY InitInv, StepInv, InitScreens, StepScreens, <1>1, PTL DEF Spec

(* The overlay never stays for an answer that cannot come any more: a       *)
(* screen on the stack misses no answer of a join, so while the count is    *)
(* short a request is under way (DonateConfirmationViewController.swift:    *)
(* 54-60,111-139).                                                          *)
THEOREM CheckoutSpinnerHasCause == Spec => []SpinnerHasCause
<1>1. ScreenInv => SpinnerHasCause
    BY DEF ScreenInv
<1>2. QED
    BY InitInv, StepInv, InitScreens, StepScreens, <1>1, PTL DEF Spec

(* Without the write of a monthly tip the sheet or the overlay is between   *)
(* the donor and the button for as long as an attempt of the screen is      *)
(* under way (DonateConfirmationViewController.swift:46-55,142,182).        *)
THEOREM CheckoutOneAttempt == Spec => []OneAttemptAtATime
<1>1. TypeOK /\ ScreensOK /\ ScreenInv => OneAttemptAtATime
    <2> SUFFICES ASSUME TypeOK, ScreensOK, ScreenInv, NEW a \in Attempts, NEW b \in Attempts,
                        Busy(a), Busy(b), TipNotWritten(orders[Screen])
                 PROVE  a = b
        BY DEF OneAttemptAtATime, Busy, TipNotWritten
    <2>1. Screen > 0
        BY DEF Busy, ScreensOK, TypeOK, Screen
    <2>2. QED
        BY <2>1 DEF ScreenInv, AloneOK
<1>2. QED
    BY InitInv, StepInv, InitScreens, StepScreens, <1>1, PTL DEF Spec, Inv

(* After "Success!" each loaded pledge of the order stands on the server    *)
(* with the order's amount, or is gone if that is 0, as long as the bucket  *)
(* hands over the same order, whatever other attempts at it have written    *)
(* since (FirebaseManager.swift:306-334).                                   *)
THEOREM CheckoutShownMeansStored == Spec => []ShownMeansStored
<1>1. Inv /\ ScreenInv => ShownMeansStored
    <2> SUFFICES ASSUME Inv, ScreenInv, NEW a \in Attempts,
                        job[a].stage = "shown", job[a].to = "donates",
                        AllOrdersAre(OrderOf(job[a])),
                        NEW k \in DOMAIN OrderOf(job[a]).items,
                        OrderOf(job[a]).items[k].id # NoId
                 PROVE  donates[OrderOf(job[a]).items[k].id]
                          = Target(OrderOf(job[a]).items[k])
        BY DEF ShownMeansStored, AllOrdersAre, Target
    <2>1. /\ job[a].screen \in 1 .. Len(orders)
          /\ ShownMeansSaved
        BY DEF Inv, ScreensOK, JoinOK, JoinFits, JoinDone, ShownMeansSaved
    <2>2. OrderOf(job[a]) \in Orders
        BY <2>1, OrderOfAttempt DEF Inv
    <2>3. <<a, k>> \in applied
        BY <2>1 DEF ShownMeansSaved, WritesOf, ItemsToSave
    <2>4. RowStored(OrderOf(job[a]), k)
        BY <2>2 DEF ScreenInv, StoredOK
    <2>5. QED
        BY <2>3, <2>4 DEF RowStored
<1>2. QED
    BY InitInv, StepInv, InitScreens, StepScreens, <1>1, PTL DEF Spec

(* The checkout drives the payment component as it is meant to be driven:  *)
(* seen through the payment's own state, every behaviour of the checkout   *)
(* is one of the payment component without its fairness.                   *)
THEOREM CheckoutImplementsPay == Spec => PayInit /\ [][PayNext]_payVars
<1>1. Init => PayInit
    BY DEF Init
<1>2. Inv /\ [Next]_vars => [PayNext]_payVars
    BY CheckoutStepPays DEF Inv, TypeOK
<1>3. QED
    BY InitInv, StepInv, <1>1, <1>2, PTL DEF Spec
=============================================================================
