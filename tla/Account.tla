------------------------------- MODULE Account -------------------------------
(***************************************************************************)
(* Who is signed in, and what the app keeps of that donor:                 *)
(*   MainViewController, OnboardingViewController   the start of the app    *)
(*   SignInViewController, SignUpViewController     the two forms           *)
(*   StartDonateViewController          the first monthly amount            *)
(*   SettingsViewController             logging out                         *)
(*   FirebaseManager, UserManager       the session and the cached profile  *)
(*                                                                          *)
(* Firebase answers on queues of its own and hands every callback to the    *)
(* main queue, which runs them one by one in the order they came in.  A     *)
(* request is therefore answered in two steps: Firebase settles it, and     *)
(* later the app runs its callback.                                         *)
(***************************************************************************)
EXTENDS Integers, SequencesExt

CONSTANTS
    Users,          \* accounts, each with its e-mail address
    None,           \* a missing value
    MaxAmount,      \* bound: the largest monthly amount
    MaxQueue,       \* bound: callbacks that wait on the main queue
    MaxWrites,      \* bound: writes the Firestore client has yet to send
    MaxRequests,    \* bound: other requests under way
    MaxForms,    \* bound: forms that are sent
    CanFail,        \* can Firebase fail to answer, or refuse a write?
    CanExpire       \* can Firebase end the session?

ASSUME NoneAssumption == None \notin Users \cup Int \cup [email : Users, default : Int]
ASSUME AccountBounds ==
    /\ MaxAmount \in Nat /\ MaxQueue \in Nat
    /\ MaxWrites \in Nat /\ MaxRequests \in Nat /\ MaxForms \in Nat \ {0}
ASSUME AccountSwitches == CanFail \in BOOLEAN /\ CanExpire \in BOOLEAN

minAmount == 1
Amounts == 0 .. MaxAmount

VARIABLES
    screen,             \* what the window shows
    onboardingFinished, \* Coordinator, in the UserDefaults
    currentUser,        \* Auth.currentUser
    accounts,           \* the accounts Firebase Auth knows
    docs,               \* account -> defaultDonateAmount of its Users document
    user,               \* UserManager.user
    completeDonation,   \* UserManager: who saved the bucket that is kept
    requests,           \* reads and Auth calls under way
    writes,             \* writes to Users that the server has not answered
    queue,              \* the main queue: callbacks that have yet to run
    donor,              \* the account whose session was the last to begin
    left,               \* accounts that left something behind when a session ended
    unsure,             \* accounts whose document may differ from the cache
    forms               \* forms sent so far, the kept session's included

appVars == <<screen, onboardingFinished, user, completeDonation>>
firebaseVars == <<currentUser, accounts, docs>>
ghostVars == <<donor, left, unsure, forms>>
vars == <<appVars, firebaseVars, requests, writes, queue, ghostVars>>

RequestKinds == {"signIn", "createUser", "commitChanges", "signInFetch", "fetch"}
WriteKinds == {"addUser", "default"}

(* here: the form that waits for the answer is still there.  waits: the     *)
(* app that made the write still runs.                                      *)
Request == [kind : RequestKinds, uid : Users, here : BOOLEAN]
Write == [kind : WriteKinds, uid : Users, by : Users \cup {None},
          amount : Amounts, here : BOOLEAN, waits : BOOLEAN]
Callback == [kind : RequestKinds \cup WriteKinds, uid : Users, ok : BOOLEAN,
             amount : Amounts, here : BOOLEAN]
LendUser == [email : Users, default : Amounts]

(* The types of the session, of UserManager and of the documents; amounts  *)
(* stay within what the sliders offer.                                     *)
TypeOK ==
    /\ screen \in {"main", "onboarding", "auth", "signIn", "signUp", "welcome",
                   "start", "letsGo", "tabs"}
    /\ onboardingFinished \in BOOLEAN
    /\ currentUser \in Users \cup {None}
    /\ accounts \subseteq Users
    /\ docs \in [Users -> Amounts \cup {None}]
    /\ user \in LendUser \cup {None}
    /\ completeDonation \in Users \cup {None}
    /\ requests \subseteq Request
    /\ writes \in Seq(Write) /\ queue \in Seq(Callback)
    /\ donor \in Users \cup {None}
    /\ left \subseteq Users /\ unsure \subseteq Users
    /\ forms \in 0 .. MaxForms

(* The session is kept in the keychain, which outlives the app and its      *)
(* UserDefaults: a new installation may start with one.                     *)
Init ==
    /\ screen = "main"
    /\ onboardingFinished \in BOOLEAN
    /\ accounts \in SUBSET Users
    /\ currentUser \in accounts \cup {None}
    /\ docs = [u \in Users |-> IF u \in accounts THEN 0 ELSE None]
    /\ user = None /\ completeDonation = None
    /\ requests = {} /\ writes = <<>> /\ queue = <<>>
    /\ donor = currentUser /\ left = {} /\ unsure = {}
    /\ forms = IF currentUser = None THEN 0 ELSE 1

-----------------------------------------------------------------------------
Requesting(kind, u, here) == [kind |-> kind, uid |-> u, here |-> here]

(* The view controllers a new root replaces are gone, and a form that the   *)
(* donor has left: their callbacks find nobody.                             *)
Gone(rs) == {[r EXCEPT !.here = FALSE] : r \in rs}
GoneAll(s) == [i \in DOMAIN s |-> [s[i] EXCEPT !.here = FALSE]]

(* The overlay of a form: it waits for an answer. *)
Busy ==
    \/ \E r \in requests : r.here
    \/ \E i \in DOMAIN writes : writes[i].here
    \/ \E i \in DOMAIN queue : queue[i].here

(* Accounts whose profile a callback may still put into the cache. *)
UnderWay ==
    {r.uid : r \in {q \in requests : q.kind # "signIn"}}
    \cup {queue[i].uid : i \in {j \in DOMAIN queue : queue[j].kind \in RequestKinds}}

(* The account of the cached profile, if it is another one than u. *)
CacheBut(u) == IF user = None THEN {} ELSE {user.email} \ {u}

(* What a session leaves behind that ends without a logout. *)
LeftOver ==
    UnderWay \cup ({donor, completeDonation} \ {None})
    \cup CacheBut(None)

(* redirectToAuth: the app goes to the login screen and keeps what it has. *)
RedirectToAuth(rs) ==
    /\ screen' = "auth"
    /\ requests' = Gone(rs)

(* The tab bar, or one of its screens, comes up and fetches the profile. *)
FetchUpdateUser(rs) ==
    /\ currentUser # None
    /\ screen' = "tabs"
    /\ requests' = rs \cup {Requesting("fetch", currentUser, FALSE)}
FetchOrRedirect(rs) ==
    \/ FetchUpdateUser(rs)
    \/ currentUser = None /\ RedirectToAuth(rs)

(* The tab bar comes up and makes the home screen, its first tab, active. *)
ShowRoot == FetchOrRedirect(Gone(requests))

-----------------------------------------------------------------------------
(* The start of the app. *)

(* checkAuth is answered at once: the session has been read from the disk. *)
CheckAuth == FetchOrRedirect(requests)

(* viewDidAppear of MainViewController. *)
Launch ==
    /\ screen = "main"
    /\ \/ ~onboardingFinished /\ screen' = "onboarding" /\ UNCHANGED requests
       \/ onboardingFinished /\ CheckAuth
    /\ UNCHANGED <<onboardingFinished, user, completeDonation, firebaseVars,
                   writes, queue, ghostVars>>

GetStartedButtonPressed ==
    /\ screen = "onboarding"
    /\ onboardingFinished' = TRUE
    /\ \/ FetchUpdateUser(Gone(requests))
       \/ currentUser = None /\ screen' = "auth" /\ UNCHANGED requests
    /\ UNCHANGED <<user, completeDonation, firebaseVars, writes, queue, ghostVars>>

(* The app is ended and started again.  The session and the writes are on   *)
(* disk; callbacks, the cache and the saved bucket are not.                 *)
Restart ==
    /\ screen # "main"
    /\ screen' = "main"
    /\ user' = None /\ completeDonation' = None
    /\ requests' = {} /\ queue' = <<>>
    /\ writes' = [i \in DOMAIN writes |->
                     [writes[i] EXCEPT !.here = FALSE, !.waits = FALSE]]
    /\ UNCHANGED <<onboardingFinished, firebaseVars, ghostVars>>

-----------------------------------------------------------------------------
(* The forms. *)
PresentForm(form) ==
    /\ screen \in {"auth", "signIn", "signUp"} \ {form}
    /\ ~Busy
    /\ screen' = form
    /\ UNCHANGED <<onboardingFinished, user, completeDonation, firebaseVars,
                   requests, writes, queue, ghostVars>>

(* Back to the login screen, by the swipe that works under the overlay too. *)
FormLeft ==
    /\ screen \in {"signIn", "signUp"}
    /\ RedirectToAuth(requests)
    /\ writes' = GoneAll(writes) /\ queue' = GoneAll(queue)
    /\ UNCHANGED <<onboardingFinished, user, completeDonation, firebaseVars,
                   ghostVars>>

(* signIn ends the session there is before it asks for a new one. *)
SignInButtonPressed(u) ==
    /\ screen = "signIn" /\ ~Busy
    /\ Cardinality(requests) < MaxRequests
    /\ forms < MaxForms /\ forms' = forms + 1
    /\ currentUser' = None
    /\ requests' = requests \cup {Requesting("signIn", u, TRUE)}
    /\ left' = IF currentUser = None THEN left ELSE left \cup LeftOver
    /\ UNCHANGED <<appVars, accounts, docs, writes, queue, donor, unsure>>

SignUpButtonPressed(u) ==
    /\ screen = "signUp" /\ ~Busy
    /\ Cardinality(requests) < MaxRequests
    /\ forms < MaxForms /\ forms' = forms + 1
    /\ requests' = requests \cup {Requesting("createUser", u, TRUE)}
    /\ UNCHANGED <<appVars, firebaseVars, writes, queue, donor, left, unsure>>

-----------------------------------------------------------------------------
(* Firebase. *)

(* What the client answers for a document: the server's, under the writes   *)
(* of the signed-in user that are under way.                                *)
Apply(doc, w) ==
    CASE w.kind = "addUser" -> 0
      [] w.kind = "default" /\ doc # None -> w.amount
      [] OTHER -> None
View(u) ==
    FoldLeft(LAMBDA doc, w : IF w.uid = u /\ w.by = currentUser THEN Apply(doc, w) ELSE doc,
             docs[u], writes)

Dispatch(kind, u, ok, amount, here) ==
    /\ Len(queue) < MaxQueue
    /\ queue' = Append(queue, [kind |-> kind, uid |-> u, ok |-> ok,
                               amount |-> amount, here |-> here])

(* Auth lets a donor in, and the new session takes the place of the old. *)
SessionBegins(u) ==
    /\ currentUser' = u
    /\ donor' = u
    /\ left' = IF currentUser \in {None, u} THEN left ELSE left \cup LeftOver

AuthAnswered(r) ==
    /\ r.kind \in {"signIn", "createUser"}
    /\ requests' = requests \ {r}
    /\ \E ok \in BOOLEAN :
          /\ Dispatch(r.kind, r.uid, ok, 0, r.here)
          /\ IF ok THEN SessionBegins(r.uid) ELSE UNCHANGED <<currentUser, donor, left>>
          /\ ok => (r.uid \in accounts) = (r.kind = "signIn")
          /\ accounts' = IF ok THEN accounts \cup {r.uid} ELSE accounts
    /\ UNCHANGED <<appVars, docs, writes, unsure, forms>>

CommitChangesAnswered(r) ==
    /\ r.kind = "commitChanges"
    /\ requests' = requests \ {r}
    /\ \E ok \in BOOLEAN : Dispatch(r.kind, r.uid, ok, 0, r.here)
    /\ UNCHANGED <<appVars, firebaseVars, writes, ghostVars>>

(* getDocument.  A document that is not there is no profile. *)
FetchAnswered(r) ==
    /\ r.kind \in {"fetch", "signInFetch"}
    /\ requests' = requests \ {r}
    /\ \/ /\ View(r.uid) # None
          /\ Dispatch(r.kind, r.uid, TRUE, View(r.uid), r.here)
          /\ unsure' = unsure \ {r.uid}
       \/ /\ View(r.uid) = None \/ CanFail
          /\ Dispatch(r.kind, r.uid, FALSE, 0, r.here)
          /\ UNCHANGED unsure
    /\ UNCHANGED <<appVars, firebaseVars, writes, donor, left, forms>>

(* The oldest write of the signed-in user is accepted or refused; an update *)
(* of a document that does not exist always is refused.                     *)
WriteAnswered(ok) ==
    LET i == SelectInSeq(writes, LAMBDA w : w.by = currentUser)
        w == writes[i]
        exists == w.kind = "addUser" \/ docs[w.uid] # None
    IN  /\ i > 0
        /\ IF ok THEN exists ELSE CanFail \/ ~exists
        /\ docs' = IF ok THEN [docs EXCEPT ![w.uid] = Apply(@, w)] ELSE docs
        /\ writes' = RemoveAt(writes, i)
        /\ IF w.waits THEN Dispatch(w.kind, w.uid, ok, w.amount, w.here)
                      ELSE UNCHANGED queue
        /\ unsure' = IF ok /\ w.waits /\ w.uid = currentUser THEN unsure
                     ELSE unsure \cup {w.uid}
        /\ UNCHANGED <<appVars, currentUser, accounts, requests, donor, left, forms>>

(* The account is disabled or its token revoked. *)
SessionEnds ==
    /\ CanExpire
    /\ currentUser # None
    /\ currentUser' = None
    /\ left' = left \cup LeftOver
    /\ UNCHANGED <<appVars, accounts, docs, requests, writes, queue, donor, unsure, forms>>

-----------------------------------------------------------------------------
(* The callbacks, on the main queue. *)
Event == Head(queue)

(* signIn: the profile of whoever is signed in now.  With nobody signed in  *)
(* the window goes to the login screen and then, if the form has not been   *)
(* freed with its window's root yet, to the welcome screen.                 *)
SignInReturned ==
    /\ Event.kind = "signIn"
    /\ \/ /\ ~Event.ok
          /\ UNCHANGED <<screen, requests>>
       \/ /\ Event.ok /\ currentUser # None
          /\ requests' = requests \cup {Requesting("signInFetch", currentUser, Event.here)}
          /\ UNCHANGED screen
       \/ /\ Event.ok /\ currentUser = None
          /\ requests' = Gone(requests)
          /\ screen' \in {"auth"} \cup (IF Event.here THEN {"welcome"} ELSE {})
    /\ UNCHANGED <<user, writes>>

(* Mutant of AddUser: the new profile has no amount. *)
AddUserNoAmount(u, here) ==
    /\ Len(writes) < MaxWrites
    /\ user' = [email |-> u, default |-> None]
    /\ writes' = Append(writes, [kind |-> "addUser", uid |-> u, by |-> currentUser,
                                 amount |-> 0, here |-> here, waits |-> TRUE])

(* addUserBlock: an empty profile, in the cache and to be written. *)
AddUser(u, here) ==
    /\ Len(writes) < MaxWrites
    /\ user' = [email |-> u, default |-> 0]
    /\ writes' = Append(writes, [kind |-> "addUser", uid |-> u, by |-> currentUser,
                                 amount |-> 0, here |-> here, waits |-> TRUE])

(* createUser: with a name, the name first; without one the profile.  The   *)
(* name is set through currentUser, and nothing is called if that is nil.   *)
CreateUserReturned ==
    /\ Event.kind = "createUser"
    /\ \/ /\ ~Event.ok
          /\ UNCHANGED <<requests, user, writes>>
       \/ /\ Event.ok /\ currentUser # None
          /\ requests' = requests \cup {Requesting("commitChanges", Event.uid, Event.here)}
          /\ UNCHANGED <<user, writes>>
       \/ /\ Event.ok /\ currentUser = None
          /\ UNCHANGED <<requests, user, writes>>
       \/ /\ Event.ok
          /\ AddUser(Event.uid, Event.here)
          /\ UNCHANGED requests
    /\ UNCHANGED screen

CommitChangesReturned ==
    /\ Event.kind = "commitChanges"
    /\ AddUser(Event.uid, Event.here)
    /\ UNCHANGED <<screen, requests>>

(* fetchUpdateUser.  signIn goes on whether or not it has a profile. *)
FetchReturned ==
    /\ Event.kind \in {"fetch", "signInFetch"}
    /\ user' = IF Event.ok THEN [email |-> Event.uid, default |-> Event.amount] ELSE user
    /\ screen' = IF Event.here THEN "welcome" ELSE screen
    /\ UNCHANGED <<requests, writes>>

(* signUp goes on whether or not the profile was stored. *)
AddUserReturned ==
    /\ Event.kind = "addUser"
    /\ screen' = IF Event.here THEN "start" ELSE screen
    /\ UNCHANGED <<user, requests, writes>>

(* Mutant of DefaultReturned: the cache is left as it was. *)
DefaultReturnedUncached ==
    /\ Event.kind = "default"
    /\ UNCHANGED <<user, screen, requests, writes>>

(* updateDefaultDonateAmount *)
DefaultReturned ==
    /\ Event.kind = "default"
    /\ user' = IF Event.ok /\ user # None THEN [user EXCEPT !.default = Event.amount]
               ELSE user
    /\ UNCHANGED <<screen, requests, writes>>

CallbackRuns ==
    /\ queue # <<>>
    /\ queue' = Tail(queue)
    /\ unsure' = IF Event.kind = "default" THEN unsure \cup CacheBut(Event.uid)
                 ELSE unsure
    /\ \/ SignInReturned
       \/ CreateUserReturned
       \/ CommitChangesReturned
       \/ FetchReturned
       \/ AddUserReturned
       \/ DefaultReturned
    /\ UNCHANGED <<onboardingFinished, completeDonation, firebaseVars, donor, left, forms>>

-----------------------------------------------------------------------------
(* The monthly amount, and the tab bar. *)

(* updateDefaultDonateAmount: nothing to do when the cache has the amount. *)
UpdateDefaultDonateAmount(v) ==
    \/ /\ currentUser # None
       /\ user # None => user.default # v
       /\ Len(writes) < MaxWrites
       /\ writes' = Append(writes, [kind |-> "default", uid |-> currentUser,
                                    by |-> currentUser, amount |-> v,
                                    here |-> FALSE, waits |-> TRUE])
    \/ /\ currentUser = None \/ (user # None /\ user.default = v)
       /\ UNCHANGED writes

(* "Continue" of StartDonate sets the cached amount at once. *)
StartContinue(v) ==
    /\ screen = "start"
    /\ UpdateDefaultDonateAmount(v)
    /\ user' = IF user = None THEN None ELSE [user EXCEPT !.default = v]
    /\ screen' = IF currentUser = None THEN "auth" ELSE "letsGo"
    /\ unsure' = unsure \cup CacheBut(currentUser)
    /\ UNCHANGED <<onboardingFinished, completeDonation, firebaseVars, requests,
                   queue, donor, left, forms>>

LetsGoBack ==
    /\ screen = "letsGo"
    /\ screen' = "start"
    /\ UNCHANGED <<onboardingFinished, user, completeDonation, firebaseVars,
                   requests, writes, queue, ghostVars>>

PresentRoot(from) ==
    /\ screen = from
    /\ ShowRoot
    /\ UNCHANGED <<onboardingFinished, user, completeDonation, firebaseVars,
                   writes, queue, ghostVars>>

(* "Get started" on the welcome screen, "See organisations", and "Continue" *)
(* on the badge that follows LetsGo.                                        *)
WelcomeGetStarted == PresentRoot("welcome")
SeeOrganisations == PresentRoot("start")
BadgeContinue == PresentRoot("letsGo")

(* The introduction's amount screen, on one of the tabs. *)
ChooseAmountContinue(v) ==
    /\ screen = "tabs"
    /\ UpdateDefaultDonateAmount(v)
    /\ screen' = IF currentUser = None THEN "auth" ELSE screen
    /\ UNCHANGED <<onboardingFinished, user, completeDonation, firebaseVars,
                   requests, queue, ghostVars>>

(* The impacts screen or the tips popup comes up and refreshes the profile. *)
ScreenRefreshes ==
    /\ screen = "tabs"
    /\ Cardinality(requests) < MaxRequests
    /\ FetchOrRedirect(requests)
    /\ UNCHANGED <<onboardingFinished, user, completeDonation, firebaseVars,
                   writes, queue, ghostVars>>

(* A bucket is saved, or dropped after its checkout. *)
BucketSaved ==
    /\ screen = "tabs"
    /\ completeDonation' \in {donor, None}
    /\ UNCHANGED <<screen, onboardingFinished, user, firebaseVars, requests,
                   writes, queue, ghostVars>>

(* Mutant of ResetUserData: the saved bucket is forgotten about. *)
ResetUserDataOnly == user' = None /\ UNCHANGED completeDonation

(* The bucket goes with its amount, tmpDonateAmount. *)
ResetUserData == user' = None /\ completeDonation' = None

(* What the donor has asked for before stays under way. *)
SignOut ==
    /\ currentUser' = None
    /\ left' = left \cup UnderWay

(* "Log out" in the settings; if Auth cannot, nothing changes. *)
LogoutButtonPressed ==
    /\ screen = "tabs"
    /\ SignOut
    /\ ResetUserData
    /\ RedirectToAuth(requests)
    /\ UNCHANGED <<onboardingFinished, accounts, docs, writes, queue, donor, unsure, forms>>

-----------------------------------------------------------------------------
Next ==
    \/ Launch \/ GetStartedButtonPressed \/ Restart
    \/ \E form \in {"signIn", "signUp"} : PresentForm(form)
    \/ FormLeft
    \/ \E u \in Users : SignInButtonPressed(u) \/ SignUpButtonPressed(u)
    \/ \E r \in requests : AuthAnswered(r) \/ CommitChangesAnswered(r) \/ FetchAnswered(r)
    \/ \E ok \in BOOLEAN : WriteAnswered(ok)
    \/ SessionEnds
    \/ CallbackRuns
    \/ \E v \in minAmount .. MaxAmount : StartContinue(v) \/ ChooseAmountContinue(v)
    \/ LetsGoBack \/ WelcomeGetStarted \/ SeeOrganisations \/ BadgeContinue
    \/ ScreenRefreshes \/ BucketSaved
    \/ LogoutButtonPressed

Spec == Init /\ [][Next]_vars

-----------------------------------------------------------------------------
(* A session sees the profile and the saved bucket of its own donor only.   *)
(* What the code does not clear are sessions that end without a logout, and *)
(* requests that are under way when one ends: their accounts are in left.   *)
(* A sign-in goes on without a profile when its fetch fails, so it is the   *)
(* reset at the logout that keeps the last donor's data away                *)
(* (SettingsViewController.swift:71-78, FirebaseManager.swift:61-74,135-149).*)
NothingOfOthers ==
    currentUser # None =>
        /\ user # None => user.email \in left \cup {currentUser}
        /\ completeDonation # None => completeDonation \in left \cup {currentUser}

(* When no write and no callback is under way, the cached amount is the     *)
(* stored one, however optimistic updates, acknowledged writes and fetches  *)
(* came in between.  The account is unsure, and nothing is said of it, when *)
(* since the last fetch of its profile a write was refused or lost its      *)
(* callback in a restart, or an amount was put into one donor's cached      *)
(* profile in another's session                                             *)
(* (StartDonateViewController.swift:39-41, FirebaseManager.swift:135-226).  *)
CacheIsStored ==
    /\ user # None /\ currentUser # None
    /\ user.email = currentUser /\ currentUser \notin unsure
    /\ queue = <<>> /\ \A i \in DOMAIN writes : writes[i].uid # currentUser
    => docs[currentUser] = user.default

=============================================================================
