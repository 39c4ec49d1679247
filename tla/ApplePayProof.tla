--------------------------- MODULE ApplePayProof ---------------------------
(***************************************************************************)
(* Proofs about ApplePay for any number of attempts and of authorisations. *)
(***************************************************************************)
EXTENDS ApplePay, FiniteSetTheorems, TLAPS

(* A request has an owner once it is made and keeps it; only a request that *)
(* was made can be charged; a manager keeps a token only for a charge.      *)
RequestsOwned ==
    /\ \A u \in Requests : phase[u] # "free" => owner[u] \in Attempts
    /\ \A u \in charged : phase[u] # "free"

TokensArePaid ==
    \A a \in Attempts :
        /\ stripeTokenId[a] => \E u \in charged : owner[u] = a
        /\ sheet[a] = "success" => stripeTokenId[a]

PayInv == PayTypeOK /\ RequestsOwned /\ TokensArePaid

(* The first state satisfies the inductive invariant. *)
LEMMA PayInitInv == PayInit => PayInv
  BY DEF PayInit, PayInv, PayTypeOK, RequestsOwned, TokensArePaid, SheetStates,
         Phases

(* Every step of the payment component keeps its inductive invariant. *)
LEMMA PayStepInv == PayInv /\ [PayNext]_payVars => PayInv'
<1> SUFFICES ASSUME PayInv, [PayNext]_payVars PROVE PayInv'
    OBVIOUS
<1> USE DEF PayInv, PayTypeOK, RequestsOwned, TokensArePaid, SheetStates, Phases
<1>1. ASSUME NEW a \in Attempts, Pay(a) PROVE PayInv'
    BY <1>1 DEF Pay
<1>2. ASSUME NEW a \in Attempts, NEW u \in Requests, DidAuthorizePayment(a, u)
      PROVE PayInv'
    BY <1>2 DEF DidAuthorizePayment
<1>3. ASSUME NEW a \in Attempts, DidFinish(a) PROVE PayInv'
    BY <1>3 DEF DidFinish
<1>4. ASSUME NEW a \in Attempts, Dismissed(a) PROVE PayInv'
    BY <1>4 DEF Dismissed, Outcome
<1>5. ASSUME NEW u \in Requests, TokenRefused(u) PROVE PayInv'
    BY <1>5 DEF TokenRefused, Answer
<1>6. ASSUME NEW u \in Requests, NEW l \in BOOLEAN, TokenIssued(u, l) PROVE PayInv'
    BY <1>6 DEF TokenIssued, Answer
<1>7. ASSUME NEW u \in Requests, ServerCharges(u) PROVE PayInv'
    BY <1>7 DEF ServerCharges
<1>8. ASSUME NEW u \in Requests, PaymentSucceeds(u) PROVE PayInv'
    BY <1>8 DEF PaymentSucceeds, Answer
<1>9. ASSUME NEW u \in Requests, PaymentFails(u) PROVE PayInv'
    BY <1>9 DEF PaymentFails, Answer
<1>10. ASSUME NEW u \in Requests, ReplyIgnored(u) PROVE PayInv'
    BY <1>10 DEF ReplyIgnored
<1>11. CASE UNCHANGED payVars
    BY <1>11 DEF payVars
<1>12. QED
    BY <1>1, <1>2, <1>3, <1>4, <1>5, <1>6, <1>7, <1>8, <1>9, <1>10, <1>11
       DEF PayNext, RequestStep, SheetStep

(* The invariant says what SuccessIsCharged says. *)
LEMMA PayInvSuccess == PayInv => SuccessIsCharged
  BY DEF PayInv, TokensArePaid, SuccessIsCharged, ChargesOf

(* The payment component keeps its types: a request is owned by a sheet,    *)
(* and a sheet and a request are in one of the states of the code           *)
(* (PaymentManager.swift:20-82), for any number of both and any faults.     *)
THEOREM PayTypes == PaySpec => []PayTypeOK
<1>1. PayInv => PayTypeOK
    BY DEF PayInv
<1>2. QED
    BY PayInitInv, PayStepInv, <1>1, PTL DEF PaySpec

(* The payment component reports success to the app only for a sheet whose  *)
(* charge the server has made (PaymentManager.swift:53-82), whatever faults *)
(* happen and however many sheets and authorisations there are.             *)
THEOREM PaySuccessIsCharged == PaySpec => []SuccessIsCharged
  BY PayInitInv, PayStepInv, PayInvSuccess, PTL DEF PaySpec

-----------------------------------------------------------------------------
(* While a request is under way its sheet waits for it, or has closed, and  *)
(* no other of the sheet is under way; a charge that was heard of is under   *)
(* way or acknowledged by the token; a token ends the use of the sheet.      *)
UnderWay(u) == phase[u] \in {"token", "posted"}
Heard(u) == phase[u] \notin {"abandoned", "ignored"}

SheetWaits ==
    /\ \A u \in Requests :
          UnderWay(u) => /\ sheet[owner[u]] \notin {"none", "ready", "authorised"}
                         /\ ~stripeTokenId[owner[u]]
    /\ \A u, v \in Requests :
          UnderWay(u) /\ UnderWay(v) /\ owner[u] = owner[v] => u = v

ChargesAcknowledged ==
    /\ \A u \in charged :
          Heard(u) => \/ phase[u] = "posted"
                      \/ phase[u] = "answered" /\ stripeTokenId[owner[u]]
    /\ \A a \in Attempts :
          stripeTokenId[a] => sheet[a] \notin {"none", "ready", "authorising"}
    /\ \A u, v \in charged :
          Heard(u) /\ Heard(v) /\ owner[u] = owner[v] => u = v

ChargeInv == PayInv /\ SheetWaits /\ ChargesAcknowledged

(* Every step keeps the invariant about charges. *)
LEMMA ChargeStep == ChargeInv /\ [PayNext]_payVars => ChargeInv'
<1> SUFFICES ASSUME ChargeInv, [PayNext]_payVars PROVE ChargeInv'
    OBVIOUS
<1>0. PayInv /\ PayInv'
    BY PayStepInv DEF ChargeInv
<1> SUFFICES (SheetWaits /\ ChargesAcknowledged)'
    BY <1>0 DEF ChargeInv
<1> USE <1>0 DEF PayInv, PayTypeOK, RequestsOwned, ChargeInv, SheetWaits,
                 UnderWay, Heard, ChargesAcknowledged
<1>1. ASSUME NEW a \in Attempts, Pay(a) PROVE (SheetWaits /\ ChargesAcknowledged)'
    BY <1>1 DEF Pay
<1>2. ASSUME NEW a \in Attempts, NEW u \in Requests, DidAuthorizePayment(a, u)
      PROVE (SheetWaits /\ ChargesAcknowledged)'
    BY <1>2 DEF DidAuthorizePayment
<1>3. ASSUME NEW a \in Attempts, DidFinish(a)
      PROVE (SheetWaits /\ ChargesAcknowledged)'
    BY <1>3 DEF DidFinish
<1>4. ASSUME NEW a \in Attempts, Dismissed(a)
      PROVE (SheetWaits /\ ChargesAcknowledged)'
    BY <1>4 DEF Dismissed, Outcome
<1>5. ASSUME NEW u \in Requests, TokenRefused(u)
      PROVE (SheetWaits /\ ChargesAcknowledged)'
    BY <1>5 DEF TokenRefused, Answer
<1>6. ASSUME NEW u \in Requests, NEW l \in BOOLEAN, TokenIssued(u, l)
      PROVE (SheetWaits /\ ChargesAcknowledged)'
    BY <1>6 DEF TokenIssued, Answer
<1>7. ASSUME NEW u \in Requests, ServerCharges(u)
      PROVE (SheetWaits /\ ChargesAcknowledged)'
    BY <1>7 DEF ServerCharges
<1>8. ASSUME NEW u \in Requests, PaymentSucceeds(u)
      PROVE (SheetWaits /\ ChargesAcknowledged)'
    BY <1>8 DEF PaymentSucceeds, Answer
<1>9. ASSUME NEW u \in Requests, PaymentFails(u)
      PROVE (SheetWaits /\ ChargesAcknowledged)'
    BY <1>9 DEF PaymentFails, Answer
<1>10. ASSUME NEW u \in Requests, ReplyIgnored(u)
       PROVE (SheetWaits /\ ChargesAcknowledged)'
    BY <1>10 DEF ReplyIgnored
<1>11. CASE UNCHANGED payVars
    BY <1>11 DEF payVars
<1>12. QED
    BY <1>1, <1>2, <1>3, <1>4, <1>5, <1>6, <1>7, <1>8, <1>9, <1>10, <1>11
       DEF PayNext, RequestStep, SheetStep

(* At most one element makes at most one. *)
LEMMA AtMostOne ==
    ASSUME NEW S, \A u, v \in S : u = v
    PROVE  Cardinality(S) <= 1
<1>1. CASE S = {}
    BY <1>1, FS_EmptySet
<1>2. CASE S # {}
    <2>1. PICK u : u \in S
        BY <1>2
    <2>2. S = {u}
        BY <2>1
    <2>3. Cardinality(S) = 1
        BY <2>2, FS_Singleton
    <2>4. QED
        BY <2>3
<1>3. QED
    BY <1>1, <1>2

(* The invariant bounds the charges of a sheet. *)
LEMMA ChargeInvOne == ChargeInv => OneChargePerSheet
<1> SUFFICES ASSUME ChargeInv, NEW a \in Attempts
             PROVE  /\ Cardinality(HeardOf(a)) <= 1
                    /\ \A u \in HeardOf(a) : phase[u] = "posted" \/ stripeTokenId[a]
    BY DEF OneChargePerSheet
<1>1. \A u \in HeardOf(a) : u \in charged /\ Heard(u) /\ owner[u] = a
    BY DEF HeardOf, ChargesOf, Heard
<1>2. \A u, v \in HeardOf(a) : u = v
    BY <1>1 DEF ChargeInv, ChargesAcknowledged
<1>3. Cardinality(HeardOf(a)) <= 1
    BY <1>2, AtMostOne
<1>4. QED
    BY <1>1, <1>3 DEF ChargeInv, ChargesAcknowledged

(* A sheet is charged a second time only after a reply that was lost or     *)
(* ignored, although the donor may authorise again after every failure and  *)
(* the server may charge late; for any number of sheets and authorisations  *)
(* and any faults (PaymentManager.swift:53-82).                             *)
THEOREM PayOneCharge == PaySpec => []OneChargePerSheet
<1>1. PayInit => ChargeInv
    BY PayInitInv DEF PayInit, ChargeInv, SheetWaits, UnderWay, Heard,
                      ChargesAcknowledged
<1>2. QED
    BY <1>1, ChargeStep, ChargeInvOne, PTL DEF PaySpec

-----------------------------------------------------------------------------
(* No reply is lost or ignored on a network that loses and garbles none.    *)
EveryReplyHeard == \A u \in Requests : Heard(u)

(* On such a network a sheet charges at most once, timeouts of the sheet     *)
(* included (PaymentManager.swift:53-82, NetworkManager.swift:63-80).        *)
THEOREM PayReliableOneCharge ==
    ASSUME Faults \subseteq {"sheet_timeout"}
    PROVE  PaySpec => [](\A a \in Attempts : Cardinality(ChargesOf(a)) <= 1)
<1>1. PayInit => EveryReplyHeard
    BY DEF PayInit, EveryReplyHeard, Heard
<1>2. PayTypeOK /\ EveryReplyHeard /\ [PayNext]_payVars => EveryReplyHeard'
    BY DEF PayTypeOK, EveryReplyHeard, Heard, PayNext, RequestStep, SheetStep, Pay,
           Dismissed, DidFinish, DidAuthorizePayment, TokenRefused, TokenIssued,
           ServerCharges, PaymentSucceeds, PaymentFails, ReplyIgnored, payVars
<1>3. PayTypeOK /\ EveryReplyHeard /\ OneChargePerSheet
          => \A a \in Attempts : Cardinality(ChargesOf(a)) <= 1
    <2> SUFFICES ASSUME PayTypeOK, EveryReplyHeard, OneChargePerSheet,
                        NEW a \in Attempts
                 PROVE  Cardinality(ChargesOf(a)) <= 1
        OBVIOUS
    <2>1. ChargesOf(a) = HeardOf(a)
        BY DEF PayTypeOK, EveryReplyHeard, Heard, ChargesOf, HeardOf
    <2>2. QED
        BY <2>1 DEF OneChargePerSheet
<1>4. QED
    BY <1>1, <1>2, <1>3, PayTypes, PayOneCharge, PTL DEF PaySpec
=============================================================================
