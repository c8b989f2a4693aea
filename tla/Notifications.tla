---------------------------- MODULE Notifications ----------------------------
(***************************************************************************)
(* Notices to the customers: NotificationsService, the push provider, the    *)
(* SMS fallback, and the life of a device's push token in the application.   *)
(* A notice is written, then delivered by a detached task nobody awaits: it  *)
(* reads the tokens of the account, asks the provider, deletes the tokens    *)
(* the provider declares dead and, if no ticket was accepted, falls back to  *)
(* an SMS when the notice is worth one.  Meanwhile people sign in and out of *)
(* the same telephone, refuse the permission, and uninstall the application. *)
(***************************************************************************)
EXTENDS Naturals, FiniteSets

CONSTANTS
  Customers,     \* accounts
  Telephones,    \* installations, each with one push token
  Notices,       \* notices that may be written
  MaxMoves       \* bound: sessions opened and applications uninstalled

NoCustomer == "no customer"
ASSUME NoticeAssumption == NoCustomer \notin Customers /\ MaxMoves \in Nat

VARIABLES
  notice,      \* notification rows
  delivery,    \* deliver, the detached task of each notice
  pushToken,   \* pushToken rows: the account of each token
  telephone,   \* each installation: account signed in, registration under way, screen
  texted,      \* history: the notices whose SMS was asked for
  moves        \* number of moves

noticeVars == <<notice, delivery, pushToken, telephone, texted, moves>>

\* Of the types: one worth an SMS, one of information only, and the code.
Types == {"ORDER_DELIVERED", "ORDER_PREPARING", "DELIVERY_OTP"}
SMS_WORTHY == {"ORDER_DELIVERED"}

Unwritten == [status |-> "none", userId |-> NoCustomer, type |-> "none"]
NoTask == [at |-> "none", tokens |-> {}, invalid |-> {}, accepted |-> {}]

NoticeInit ==
  /\ notice = [n \in Notices |-> Unwritten]
  /\ delivery = [n \in Notices |-> NoTask]
  /\ pushToken = [t \in Telephones |-> NoCustomer]
  /\ telephone = [t \in Telephones |->
       [installed |-> TRUE, user |-> NoCustomer, resolving |-> FALSE, requests |-> {}, screen |-> {}]]
  /\ texted = {}
  /\ moves = 0

Move == moves < MaxMoves /\ moves' = moves + 1

-----------------------------------------------------------------------------
(* A notice and its detached delivery.                                     *)

notify(n, a, type) ==
  /\ notice[n] = Unwritten
  /\ notice' = [notice EXCEPT ![n] = [status |-> "unread", userId |-> a, type |-> type]]
  /\ delivery' = [delivery EXCEPT ![n].at = "written"]
  /\ UNCHANGED <<pushToken, telephone, texted, moves>>

Enters(n, stage) == delivery' = [delivery EXCEPT ![n].at = stage]

\* The tokens of the account; none, and nothing is pushed.
deliverReads(n) ==
  /\ delivery[n].at = "written"
  /\ LET tokens == {t \in Telephones : pushToken[t] = notice[n].userId} IN
     delivery' = [delivery EXCEPT ![n].at = IF tokens = {} THEN "fallback" ELSE "pushing",
                                  ![n].tokens = tokens]
  /\ UNCHANGED <<notice, pushToken, telephone, texted, moves>>

\* push.send: each token is accepted, dead, or failed with its batch; only an
\* uninstalled application is dead.
pushSend(n) ==
  /\ delivery[n].at = "pushing"
  /\ \E accepted, invalid \in SUBSET delivery[n].tokens :
       /\ \A t \in accepted : telephone[t].installed
       /\ \A t \in invalid : ~ telephone[t].installed
       /\ delivery' = [delivery EXCEPT ![n].at = "pushed", ![n].accepted = accepted,
                                       ![n].invalid = invalid]
  /\ UNCHANGED <<notice, pushToken, telephone, texted, moves>>

\* The dead tokens are deleted, whoever has them by now; a failure is swallowed.
purgeInvalid(n) ==
  /\ delivery[n].at = "pushed"
  /\ \E failed \in BOOLEAN :
       pushToken' = [t \in Telephones |->
         IF t \in delivery[n].invalid /\ ~ failed THEN NoCustomer ELSE pushToken[t]]
  /\ Enters(n, "fallback")
  /\ UNCHANGED <<notice, telephone, texted, moves>>

\* Faulty variant: an account that has a token is never sent an SMS.
deliverEndsTokenless(n) ==
  /\ delivery[n].at = "fallback"
  /\ texted' = IF delivery[n].tokens = {} /\ notice[n].type \in SMS_WORTHY THEN texted \cup {n} ELSE texted
  /\ Enters(n, "done")
  /\ UNCHANGED <<notice, pushToken, telephone, moves>>

\* meriteUnSms, envoyerSms: asked once, whether it leaves or not.
deliverEnds(n) ==
  /\ delivery[n].at = "fallback"
  /\ texted' = IF delivery[n].accepted = {} /\ notice[n].type \in SMS_WORTHY THEN texted \cup {n} ELSE texted
  /\ Enters(n, "done")
  /\ UNCHANGED <<notice, pushToken, telephone, moves>>

\* The process is recycled: nothing remembers that the delivery was not over.
deliverLost(n) ==
  /\ delivery[n].at \notin {"none", "done", "lost"}
  /\ Enters(n, "lost")
  /\ UNCHANGED <<notice, pushToken, telephone, texted, moves>>

-----------------------------------------------------------------------------
(* The application (usePushRegistration).                                   *)

\* Signed in: the permission is asked for and the token resolved.
signsIn(t, a) ==
  /\ Move
  /\ telephone[t].installed /\ telephone[t].user = NoCustomer
  /\ telephone' = [telephone EXCEPT ![t].user = a, ![t].resolving = TRUE]
  /\ UNCHANGED <<notice, delivery, pushToken, texted>>

\* The token is there and the session still open: it is sent; refused, it is not.
resolveToken(t) ==
  /\ telephone[t].resolving
  /\ \E granted \in BOOLEAN :
       telephone' = [telephone EXCEPT ![t].resolving = FALSE,
         ![t].requests = IF granted THEN @ \cup {telephone[t].user} ELSE @]
  /\ UNCHANGED <<notice, delivery, pushToken, texted, moves>>

\* The server gives the token to the account that asks; or the request is lost.
registerToken(t, a) ==
  /\ a \in telephone[t].requests
  /\ \E lost \in BOOLEAN :
       pushToken' = IF lost THEN pushToken ELSE [pushToken EXCEPT ![t] = a]
  /\ telephone' = [telephone EXCEPT ![t].requests = @ \ {a}]
  /\ UNCHANGED <<notice, delivery, texted, moves>>

\* Signed out: a token being resolved is not sent any more, a request that has
\* left goes on.  The removal leaves without an access token and is refused.
signsOut(t) ==
  /\ telephone[t].user # NoCustomer
  /\ telephone' = [telephone EXCEPT ![t].user = NoCustomer, ![t].screen = {},
                                    ![t].resolving = FALSE]
  /\ UNCHANGED <<notice, delivery, pushToken, texted, moves>>

Uninstalled(t) ==
  /\ Move
  /\ telephone[t].installed
  /\ telephone' = [telephone EXCEPT
       ![t] = [installed |-> FALSE, user |-> NoCustomer, resolving |-> FALSE,
               requests |-> {}, screen |-> {}]]
  /\ UNCHANGED <<notice, delivery, pushToken, texted>>

\* The screen shows the notices of the account; `screen` keeps the unread ones.
list(t) ==
  /\ telephone[t].user # NoCustomer
  /\ telephone' = [telephone EXCEPT ![t].screen =
       {n \in Notices : notice[n].userId = telephone[t].user /\ notice[n].status = "unread"}]
  /\ UNCHANGED <<notice, delivery, pushToken, texted, moves>>

\* It is left after it showed an unread notice: all are marked, shown or not.
markRead(t) ==
  /\ telephone[t].screen # {}
  /\ telephone' = [telephone EXCEPT ![t].screen = {}]
  /\ notice' = [n \in Notices |->
       IF notice[n].userId = telephone[t].user THEN [notice[n] EXCEPT !.status = "read"] ELSE notice[n]]
  /\ UNCHANGED <<delivery, pushToken, texted, moves>>

NoticeNext ==
  \/ \E n \in Notices :
       \/ \E a \in Customers, type \in Types : notify(n, a, type)
       \/ deliverReads(n) \/ pushSend(n) \/ purgeInvalid(n) \/ deliverEnds(n) \/ deliverLost(n)
  \/ \E t \in Telephones :
       \/ \E a \in Customers : signsIn(t, a) \/ registerToken(t, a)
       \/ resolveToken(t) \/ signsOut(t) \/ Uninstalled(t)
       \/ list(t) \/ markRead(t)

NoticeSpec == NoticeInit /\ [][NoticeNext]_noticeVars

-----------------------------------------------------------------------------
(* Properties.                                                             *)

(* Dead tokens, refused permissions, shared telephones and a silent provider *)
(* leave no customer without news: the delivery of a notice that calls for   *)
(* his attention, once over, was accepted for an application still installed *)
(* when it was asked, or an SMS was asked for; and a customer is never sent  *)
(* both, nor an SMS for a code or a mere step of his order.                  *)
CriticalNoticeIsHeard ==
  \A n \in Notices :
    /\ delivery[n].at = "done" /\ notice[n].type \in SMS_WORTHY
         => delivery[n].accepted # {} \/ n \in texted
    /\ n \in texted => delivery[n].accepted = {} /\ notice[n].type \in SMS_WORTHY
=============================================================================
