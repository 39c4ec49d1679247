------------------------------ MODULE ApplePay ------------------------------
(***************************************************************************)
(* PaymentManager.swift and NetworkManager.swift: one charge through the   *)
(* Apple Pay sheet, a Stripe token and a POST to the payment server.       *)
(*                                                                         *)
(* Every press of "Complete checkout" that has to pay creates one          *)
(* PaymentManager, so a manager is named by its press, its attempt.  A     *)
(* manager presents one sheet.  On the sheet the user may authorise any    *)
(* number of times: each authorisation is one request, a token followed by *)
(* one POST.  The payment server, the sheet and Stripe are external; they  *)
(* are modelled by what the code can observe of them:                      *)
(*   "lost_reply"    the POST reports an error although the server has     *)
(*                   charged the card, or is still going to;               *)
(*   "odd_json"      the reply is JSON but no dictionary: the completion   *)
(*                   handler is not called at all;                         *)
(*   "sheet_timeout" the sheet closes while an authorisation is being      *)
(*                   handled.                                              *)
(***************************************************************************)
EXTENDS Integers, FiniteSets

CONSTANTS
    MaxAttempts,    \* bound: presses of "Complete checkout"
    MaxRequests,    \* bound: authorisations on all sheets together
    Faults          \* the faults of the outside world that can happen

Attempts == 1 .. MaxAttempts
Requests == 1 .. MaxRequests
AllFaults == {"lost_reply", "odd_json", "sheet_timeout"}

ASSUME BoundsAssumption == MaxAttempts \in Nat /\ MaxRequests \in Nat
ASSUME FaultsAssumption == Faults \subseteq AllFaults

VARIABLES
    sheet,          \* attempt -> what its PaymentManager's sheet is doing
    stripeTokenId,  \* attempt -> has the manager stored a paid token?
    owner,          \* request -> the attempt that made it, 0 for none
    phase,          \* request -> how far the client has got with it
    charged         \* the requests for which the server took the money

payVars == <<sheet, stripeTokenId, owner, phase, charged>>

SheetStates == {"none", "ready", "authorising", "authorised", "dismissing",
                "success", "failure"}
Phases == {"free", "token", "posted", "abandoned", "ignored", "answered"}

(* A sheet that is on the screen, its closing animation included. *)
OnScreen(a) == sheet[a] \in {"ready", "authorising", "authorised", "dismissing"}

ChargesOf(a) == {u \in charged : owner[u] = a}

(* The charges of a sheet whose reply was neither lost nor ignored. *)
HeardOf(a) == {u \in ChargesOf(a) : phase[u] \notin {"abandoned", "ignored"}}

(* The types of the payment: a sheet and a request are in one of the       *)
(* states that PaymentManager and NetworkManager lead to.                  *)
PayTypeOK ==
    /\ sheet \in [Attempts -> SheetStates]
    /\ stripeTokenId \in [Attempts -> BOOLEAN]
    /\ owner \in [Requests -> Attempts \cup {0}]
    /\ phase \in [Requests -> Phases]
    /\ charged \subseteq Requests

PayInit ==
    /\ sheet = [a \in Attempts |-> "none"]
    /\ stripeTokenId = [a \in Attempts |-> FALSE]
    /\ owner = [u \in Requests |-> 0]
    /\ phase = [u \in Requests |-> "free"]
    /\ charged = {}

-----------------------------------------------------------------------------
(* PaymentManager.pay: a new manager presents a new sheet. *)
Pay(a) ==
    /\ sheet[a] = "none"
    /\ \A b \in Attempts : ~OnScreen(b)
    /\ sheet' = [sheet EXCEPT ![a] = "ready"]
    /\ UNCHANGED <<stripeTokenId, owner, phase, charged>>

(* didAuthorizePayment: the user authorises and a token is asked for. *)
DidAuthorizePayment(a, u) ==
    /\ sheet[a] = "ready"
    /\ phase[u] = "free"
    /\ sheet' = [sheet EXCEPT ![a] = "authorising"]
    /\ owner' = [owner EXCEPT ![u] = a]
    /\ phase' = [phase EXCEPT ![u] = "token"]
    /\ UNCHANGED <<stripeTokenId, charged>>

(* The PKPaymentAuthorizationResult handed back to the sheet.  A sheet that *)
(* has stopped waiting for it takes no notice.  After a failure the sheet   *)
(* lets the user authorise again.                                           *)
Answer(u, next) ==
    LET a == owner[u]
    IN  sheet' = IF sheet[a] = "authorising"
                   THEN [sheet EXCEPT ![a] = next]
                   ELSE sheet

(* Stripe answers without a token. *)
TokenRefused(u) ==
    /\ phase[u] = "token"
    /\ phase' = [phase EXCEPT ![u] = "answered"]
    /\ Answer(u, "ready")
    /\ UNCHANGED <<stripeTokenId, owner, charged>>

(* Mutant of TokenIssued: the token is stored before the charge is made.   *)
TokenIssuedStoresIt(u, userLoaded) ==
    /\ phase[u] = "token"
    /\ \/ /\ userLoaded
          /\ phase' = [phase EXCEPT ![u] = "posted"]
          /\ UNCHANGED sheet
       \/ /\ ~userLoaded
          /\ phase' = [phase EXCEPT ![u] = "answered"]
          /\ Answer(u, "ready")
    /\ stripeTokenId' = [stripeTokenId EXCEPT ![owner[u]] = TRUE]
    /\ UNCHANGED <<owner, charged>>

(* Stripe answers with a token.  subscriptionPayment posts the charge, or  *)
(* fails at once when no profile of the user has been loaded.              *)
TokenIssued(u, userLoaded) ==
    /\ phase[u] = "token"
    /\ \/ /\ userLoaded
          /\ phase' = [phase EXCEPT ![u] = "posted"]
          /\ UNCHANGED sheet
       \/ /\ ~userLoaded
          /\ phase' = [phase EXCEPT ![u] = "answered"]
          /\ Answer(u, "ready")
    /\ UNCHANGED <<stripeTokenId, owner, charged>>

(* The payment server takes the money: while the client waits, or after the *)
(* client's request has failed on the way.                                  *)
ServerCharges(u) ==
    /\ phase[u] \in {"posted", "abandoned"}
    /\ u \notin charged
    /\ charged' = charged \cup {u}
    /\ UNCHANGED <<sheet, stripeTokenId, owner, phase>>

(* Mutant of PaymentSucceeds: the sheet is told, the token is not kept.    *)
PaymentSucceedsUnnoticed(u) ==
    /\ phase[u] = "posted"
    /\ u \in charged
    /\ phase' = [phase EXCEPT ![u] = "answered"]
    /\ Answer(u, "authorised")
    /\ UNCHANGED <<stripeTokenId, owner, charged>>

(* The reply says success = 1. *)
PaymentSucceeds(u) ==
    /\ phase[u] = "posted"
    /\ u \in charged
    /\ phase' = [phase EXCEPT ![u] = "answered"]
    /\ stripeTokenId' = [stripeTokenId EXCEPT ![owner[u]] = TRUE]
    /\ Answer(u, "authorised")
    /\ UNCHANGED <<owner, charged>>

(* An error, no data, no success = 1, or a body that is no JSON.  Without  *)
(* faults the server has refused the card; with "lost_reply" the client    *)
(* cannot know.                                                            *)
PaymentFails(u) ==
    /\ phase[u] = "posted"
    /\ \/ /\ u \notin charged
          /\ phase' = [phase EXCEPT ![u] = "answered"]
       \/ /\ "lost_reply" \in Faults
          /\ phase' = [phase EXCEPT ![u] = "abandoned"]
    /\ Answer(u, "ready")
    /\ UNCHANGED <<stripeTokenId, owner, charged>>

(* JSON that is no dictionary: the task's handler returns and calls nobody. *)
ReplyIgnored(u) ==
    /\ "odd_json" \in Faults
    /\ phase[u] = "posted"
    /\ phase' = [phase EXCEPT ![u] = "ignored"]
    /\ UNCHANGED <<sheet, stripeTokenId, owner, charged>>

(* paymentAuthorizationViewControllerDidFinish: the user has cancelled, the *)
(* payment is done, or the sheet has waited too long.  The sheet starts to  *)
(* close.                                                                   *)
DidFinish(a) ==
    /\ \/ sheet[a] \in {"ready", "authorised"}
       \/ sheet[a] = "authorising" /\ "sheet_timeout" \in Faults
    /\ sheet' = [sheet EXCEPT ![a] = "dismissing"]
    /\ UNCHANGED <<stripeTokenId, owner, phase, charged>>

(* Mutant of Outcome: a third result, which nobody handles. *)
OutcomeCancelled(a) == IF stripeTokenId[a] THEN "success" ELSE "cancelled"

(* What paymentCallback is told once the sheet has closed: the token is     *)
(* looked at only now.                                                      *)
Outcome(a) == IF stripeTokenId[a] THEN "success" ELSE "failure"

(* Mutant of Dismissed: no callback when there is no token. *)
DismissedSilently(a) ==
    /\ sheet[a] = "dismissing"
    /\ stripeTokenId[a]
    /\ sheet' = [sheet EXCEPT ![a] = "success"]
    /\ UNCHANGED <<stripeTokenId, owner, phase, charged>>

Dismissed(a) ==
    /\ sheet[a] = "dismissing"
    /\ sheet' = [sheet EXCEPT ![a] = Outcome(a)]
    /\ UNCHANGED <<stripeTokenId, owner, phase, charged>>

-----------------------------------------------------------------------------
(* What happens to a request, whoever looks at the screen. *)
RequestStep(userLoaded) ==
    \E u \in Requests :
        \/ TokenRefused(u)
        \/ TokenIssued(u, userLoaded)
        \/ ServerCharges(u)
        \/ PaymentSucceeds(u)
        \/ PaymentFails(u)
        \/ ReplyIgnored(u)

SheetStep ==
    \E a \in Attempts :
        \/ \E u \in Requests : DidAuthorizePayment(a, u)
        \/ DidFinish(a)

PayNext ==
    \/ \E loaded \in BOOLEAN : RequestStep(loaded)
    \/ SheetStep
    \/ \E a \in Attempts : Pay(a) \/ Dismissed(a)

(* Stripe and URLSession answer, an animation ends, and a sheet does not   *)
(* wait for ever: it closes when it is done or has timed out.              *)
PayFairness ==
    /\ \A u \in Requests :
          /\ WF_payVars(TokenRefused(u) \/ \E l \in BOOLEAN : TokenIssued(u, l))
          /\ WF_payVars(PaymentSucceeds(u) \/ PaymentFails(u) \/ ReplyIgnored(u))
    /\ \A a \in Attempts :
          /\ WF_payVars(Dismissed(a))
          /\ WF_payVars(sheet[a] # "ready" /\ DidFinish(a))

PaySpec == PayInit /\ [][PayNext]_payVars /\ PayFairness

-----------------------------------------------------------------------------
(* The app is told "success" only when the server has taken the money for  *)
(* that very sheet, however replies, retries, the sheet's timeout and its  *)
(* closing animation interleave (PaymentManager.swift:53-82).              *)
SuccessIsCharged ==
    \A a \in Attempts : sheet[a] = "success" => ChargesOf(a) # {}

(* The donor may authorise again after every failure, and the server may   *)
(* charge after the client has given up; still a sheet is charged a second *)
(* time only after a reply that was lost or ignored, and a charge whose    *)
(* reply arrives on a sheet that has failed finds its token stored         *)
(* (PaymentManager.swift:53-82).                                           *)
OneChargePerSheet ==
    \A a \in Attempts :
        /\ Cardinality(HeardOf(a)) <= 1
        /\ sheet[a] = "failure" =>
              \A u \in HeardOf(a) : phase[u] = "posted" \/ stripeTokenId[a]

(* A sheet that is handling an authorisation comes to an end: it offers    *)
(* another try or it closes and calls paymentCallback, even when           *)
(* NetworkManager never calls its completion (NetworkManager.swift:72-80). *)
SheetNeverHangs ==
    \A a \in Attempts :
        sheet[a] = "authorising" ~> sheet[a] \in {"ready", "success", "failure"}

=============================================================================
