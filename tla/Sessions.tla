------------------------------ MODULE Sessions ------------------------------
(***************************************************************************)
(* The sessions of one account: AuthService on the server, the HTTP client  *)
(* and the session store of the application on the devices.                 *)
(*                                                                          *)
(* An access token dies quickly; a request refused with 401 renews it with  *)
(* the refresh token, which the server rotates: the token presented is      *)
(* revoked and a new one issued.  A revoked token that comes back is taken  *)
(* for a stolen one and closes every session.  The server reads the token,  *)
(* then writes, in separate statements; the answer may be lost, the request *)
(* time out on the device only, the application be killed, and the vault of *)
(* the device refuse to be written (the browser has none, so it always      *)
(* refuses): the session then lives in memory only.                         *)
(***************************************************************************)
EXTENDS Integers, FiniteSets

CONSTANTS
  Devices,       \* the devices the account is used on
  Slots,         \* the requests a device may have under way
  MaxTokens,     \* bound: refresh tokens issued
  MaxChanges     \* bound: password changes and closures of the account

ASSUME SessionBounds == MaxTokens \in Nat /\ MaxChanges \in Nat

VARIABLES
  token,        \* refreshToken rows: state; history: what revoked it, the password its
                \* session was opened with, the changes of password it was served across
  issued,       \* number of tokens issued
  epoch,        \* history: password changes, resets and closure so far
  isActive,     \* user.isActive
  app,          \* each device: state of the application, session in memory and in the vault
  call,         \* the requests of each device
  alarmed,      \* history: devices whose rotated token was taken for a stolen one
  answerLost,   \* history: devices that missed the answer of a renewal
  unsaved       \* history: devices whose vault refused the token of a renewal

tokenVars == <<token, issued, epoch, isActive>>
deviceVars == <<app, call, alarmed, answerLost, unsaved>>
sessionVars == <<tokenVars, deviceVars>>

None == 0
Token == 1 .. MaxTokens
Unissued == [state |-> "unissued", by |-> "nobody", since |-> 0, crossed |-> {}]
Idle == [at |-> "idle", kind |-> "none", token |-> None, since |-> 0, crossed |-> {},
         deaf |-> FALSE]

SessionInit ==
  /\ token = [t \in Token |-> Unissued]
  /\ issued = 0
  /\ epoch = 0
  /\ isActive = TRUE
  /\ app = [d \in Devices |-> [state |-> "closed", memory |-> None, vault |-> None]]
  /\ call = [d \in Devices |-> [q \in Slots |-> Idle]]
  /\ alarmed = {}
  /\ answerLost = {}
  /\ unsaved = {}

-----------------------------------------------------------------------------
(* The server.                                                             *)

\* updateMany({userId, revokedAt: null}): every session is closed.
RevokeAll(reason) ==
  [t \in Token |->
     IF token[t].state = "live" THEN [token[t] EXCEPT !.state = "revoked", !.by = reason]
     ELSE token[t]]

At(d, q, at) == call' = [call EXCEPT ![d][q].at = at]

\* login checks the password: what follows belongs to that password.
loginChecks(d, q) ==
  /\ call[d][q].at = "sent" /\ call[d][q].kind = "login"
  /\ IF isActive
     THEN call' = [call EXCEPT ![d][q].at = "checked", ![d][q].since = epoch]
     ELSE At(d, q, "denied")
  /\ UNCHANGED <<tokenVars, app, alarmed, answerLost, unsaved>>

\* refresh reads the token presented and finds it live: the session goes on.
refreshChecks(d, q) ==
  LET c == call[d][q] IN
  /\ c.at = "sent" /\ c.kind \in {"refresh", "restore"}
  /\ token[c.token].state = "live"
  /\ IF isActive
     THEN call' = [call EXCEPT ![d][q] = [c EXCEPT !.at = "checked",
                     !.since = token[c.token].since, !.crossed = token[c.token].crossed]]
     ELSE At(d, q, "denied")
  /\ UNCHANGED <<tokenVars, app, alarmed, answerLost, unsaved>>

\* It finds it revoked: taken for stolen, every session is closed.
refreshAlarms(d, q) ==
  LET c == call[d][q] IN
  /\ c.at = "sent" /\ c.kind \in {"refresh", "restore"}
  /\ token[c.token].state = "revoked"
  /\ token' = RevokeAll("alarm")
  /\ alarmed' = IF token[c.token].by = "rotation" THEN alarmed \cup {d} ELSE alarmed
  /\ At(d, q, "denied")
  /\ UNCHANGED <<issued, epoch, isActive, app, answerLost, unsaved>>

\* It is past its expiry.
refreshExpired(d, q) ==
  /\ call[d][q].at = "sent" /\ call[d][q].kind \in {"refresh", "restore"}
  /\ At(d, q, "denied")
  /\ UNCHANGED <<tokenVars, app, alarmed, answerLost, unsaved>>

\* The token presented, revoked by its renewal, whatever it has become.
Rotated(c) ==
  IF c.kind = "login" THEN token
  ELSE [token EXCEPT ![c.token].state = "revoked", ![c.token].by = "rotation"]

\* issueTokens, after the rotation of the token presented.
issueTokens(d, q) ==
  LET c == call[d][q] IN
  /\ c.at = "checked"
  /\ issued < MaxTokens
  /\ issued' = issued + 1
  /\ token' = [Rotated(c) EXCEPT
                 ![issued + 1] = [state |-> "live", by |-> "nobody", since |-> c.since,
                                  crossed |-> c.crossed]]
  /\ call' = [call EXCEPT ![d][q].at = "renewed", ![d][q].token = issued + 1]
  /\ UNCHANGED <<epoch, isActive, app, alarmed, answerLost, unsaved>>

\* The process is recycled between the revocation and the issue.
refreshDies(d, q) ==
  /\ call[d][q].at = "checked"
  /\ token' = Rotated(call[d][q])
  /\ At(d, q, "failed")
  /\ answerLost' = answerLost \cup {d}
  /\ UNCHANGED <<issued, epoch, isActive, app, alarmed, unsaved>>

\* The guard refuses a logout that carries no access token: nothing is revoked.
logoutRefused(d, q) ==
  LET c == call[d][q] IN
  /\ c.at = "sent" /\ c.kind = "logout"
  /\ At(d, q, "denied")
  /\ UNCHANGED <<tokenVars, app, alarmed, answerLost, unsaved>>

\* A change of password finds handlers between their check and their write.
CrossesHandlers ==
  call' = [d \in Devices |-> [q \in Slots |->
    IF call[d][q].at = "checked"
    THEN [call[d][q] EXCEPT !.crossed = @ \cup {epoch + 1}] ELSE call[d][q]]]

\* Faulty variant: the sessions opened with the old password stay.
ClosesSessionsKept ==
  /\ epoch < MaxChanges
  /\ epoch' = epoch + 1
  /\ CrossesHandlers
  /\ UNCHANGED token

\* Every session is closed with the password that opened it.
ClosesSessions ==
  /\ epoch < MaxChanges
  /\ epoch' = epoch + 1
  /\ CrossesHandlers
  /\ token' = RevokeAll("password")

\* changePassword, on a device whose access token is accepted.
changePassword(d) ==
  /\ isActive
  /\ app[d].state = "open" /\ app[d].memory # None
  /\ ClosesSessions
  /\ UNCHANGED <<issued, isActive, app, alarmed, answerLost, unsaved>>

\* resetPassword, by the code sent to the telephone, on a device or elsewhere.
resetPassword ==
  /\ isActive
  /\ ClosesSessions
  /\ UNCHANGED <<issued, isActive, app, alarmed, answerLost, unsaved>>

\* clearStoredSession and the memory: a vault that refuses keeps what it has.
Forgets(d) ==
  \E left \in {None, app[d].vault} :
    app' = [app EXCEPT ![d] = [state |-> "open", memory |-> None, vault |-> left]]

\* deleteAccount; the device forgets its session if it hears the answer.
deleteAccount(d) ==
  /\ isActive
  /\ app[d].state = "open" /\ app[d].memory # None
  /\ ClosesSessions
  /\ isActive' = FALSE
  /\ Forgets(d) \/ UNCHANGED app
  /\ UNCHANGED <<issued, alarmed, answerLost, unsaved>>

-----------------------------------------------------------------------------
(* The devices.                                                            *)

\* Stages of a renewal that somebody on the device awaits.
Renewing == {"sent", "checked", "renewed", "denied", "failed"}

\* Faulty variant: every refused request renews by itself.
RefreshingAlone(d) == d \notin Devices

\* inFlightRefresh: a renewal is under way and its promise is shared.
Refreshing(d) ==
  \E q \in Slots : call[d][q].kind = "refresh" /\ call[d][q].at \in Renewing /\ ~ call[d][q].deaf

\* A request leaves with an access token that has expired.
apiRequest(d, q) ==
  /\ app[d].state = "open" /\ app[d].memory # None
  /\ call[d][q] = Idle
  /\ At(d, q, "asked")
  /\ UNCHANGED <<tokenVars, app, alarmed, answerLost, unsaved>>

\* refreshOnce: it is refused; it joins the renewal under way or starts one.
refreshOnce(d, q) ==
  /\ call[d][q].at = "asked"
  /\ call' = [call EXCEPT ![d][q] =
       IF Refreshing(d) THEN [@ EXCEPT !.at = "joined"]
       ELSE IF app[d].memory = None THEN Idle
       ELSE [Idle EXCEPT !.at = "sent", !.kind = "refresh", !.token = app[d].memory]]
  /\ UNCHANGED <<tokenVars, app, alarmed, answerLost, unsaved>>

\* signIn and signUp.
signIn(d, q) ==
  /\ app[d].state = "open" /\ app[d].memory = None
  /\ call[d][q] = Idle
  /\ \A p \in Slots : call[d][p].kind # "login"
  /\ call' = [call EXCEPT ![d][q] = [Idle EXCEPT !.at = "sent", !.kind = "login"]]
  /\ UNCHANGED <<tokenVars, app, alarmed, answerLost, unsaved>>

\* The requests that shared the renewal of q go on, and q is over.
Settled(d, q) ==
  [p \in Slots |->
     IF p = q \/ (call[d][p].at = "joined" /\ call[d][q].kind = "refresh") THEN Idle
     ELSE call[d][p]]

\* The new session arrives: the vault if it can be written, then the memory.
saveSession(d, q) ==
  LET c == call[d][q] IN
  /\ c.at = "renewed" /\ ~ c.deaf
  /\ \/ /\ app' = [app EXCEPT ![d] = [state |-> "open", memory |-> c.token, vault |-> c.token]]
        /\ UNCHANGED unsaved
     \/ /\ app' = [app EXCEPT ![d].state = "open", ![d].memory = c.token]
        /\ unsaved' = IF c.kind = "login" THEN unsaved ELSE unsaved \cup {d}
  /\ call' = [call EXCEPT ![d] = Settled(d, q)]
  /\ UNCHANGED <<tokenVars, alarmed, answerLost>>

\* A 401 to a renewal: the session is dead and forgotten; to others it changes nothing.
sessionDenied(d, q) ==
  LET c == call[d][q] IN
  /\ c.at = "denied" /\ ~ c.deaf
  /\ IF c.kind \in {"login", "logout"} THEN UNCHANGED app ELSE Forgets(d)
  /\ call' = [call EXCEPT ![d] = Settled(d, q)]
  /\ UNCHANGED <<tokenVars, alarmed, answerLost, unsaved>>

\* restoreLocalSession: what the vault holds, if it holds the profile as well.
RestoresLocally(d) ==
  \E kept \in {None, app[d].vault} :
    app' = [app EXCEPT ![d].state = "open", ![d].memory = kept]

\* Any other failure keeps the session; at the start the vault gives it back.
KeepsSession(d, q) ==
  IF call[d][q].kind = "restore" THEN RestoresLocally(d) ELSE UNCHANGED app

sessionUnanswered(d, q) ==
  /\ call[d][q].at = "failed" /\ ~ call[d][q].deaf
  /\ KeepsSession(d, q)
  /\ call' = [call EXCEPT ![d] = Settled(d, q)]
  /\ UNCHANGED <<tokenVars, alarmed, answerLost, unsaved>>

\* Faulty variant: no timer aborts the request.
timesOutNever(d, q) ==
  /\ FALSE
  /\ UNCHANGED sessionVars

\* The request is aborted on the device; the server may still be at it.
timesOut(d, q) ==
  LET c == call[d][q] IN
  /\ c.at \in Renewing /\ ~ c.deaf
  /\ KeepsSession(d, q)
  /\ call' = [call EXCEPT
       ![d] = [Settled(d, q) EXCEPT
                 ![q] = IF c.at \in {"sent", "checked"} THEN [c EXCEPT !.deaf = TRUE] ELSE Idle]]
  /\ answerLost' = IF c.kind \in {"login", "logout"} THEN answerLost ELSE answerLost \cup {d}
  /\ UNCHANGED <<tokenVars, alarmed, unsaved>>

\* A request nobody awaits any more is lost on its way, or its answer is.
forgotten(d, q) ==
  /\ call[d][q].deaf
  /\ call[d][q].at # "checked"
  /\ call' = [call EXCEPT ![d][q] = Idle]
  /\ UNCHANGED <<tokenVars, app, alarmed, answerLost, unsaved>>

\* signOut: the device forgets first, then tells the server without an access token.
signOut(d, q) ==
  /\ app[d].state = "open" /\ app[d].memory # None
  /\ call[d][q] = Idle
  /\ Forgets(d)
  /\ call' = [call EXCEPT ![d][q] =
       [Idle EXCEPT !.at = "sent", !.kind = "logout", !.token = app[d].memory]]
  /\ UNCHANGED <<tokenVars, alarmed, answerLost, unsaved>>

\* The application is killed: what it awaited goes on without it.
killed(d) ==
  /\ app[d].state # "closed"
  /\ app' = [app EXCEPT ![d].state = "closed", ![d].memory = None]
  /\ call' = [call EXCEPT ![d] = [q \in Slots |->
       IF call[d][q].at \in {"sent", "checked"} THEN [call[d][q] EXCEPT !.deaf = TRUE] ELSE Idle]]
  /\ answerLost' = IF \E q \in Slots : call[d][q].at \in Renewing /\ call[d][q].kind \in {"refresh", "restore"}
                   THEN answerLost \cup {d} ELSE answerLost
  /\ UNCHANGED <<tokenVars, alarmed, unsaved>>

(* restore: the session of the vault is renewed; offline it is taken as it   *)
(* is, and where the vault cannot be read the application opens without one. *)
restore(d, q) ==
  /\ app[d].state = "closed"
  /\ call[d][q] = Idle
  /\ \/ /\ app[d].vault # None
        /\ app' = [app EXCEPT ![d].state = "restoring"]
        /\ call' = [call EXCEPT ![d][q] =
             [Idle EXCEPT !.at = "sent", !.kind = "restore", !.token = app[d].vault]]
     \/ RestoresLocally(d) /\ UNCHANGED call
  /\ UNCHANGED <<tokenVars, alarmed, answerLost, unsaved>>

-----------------------------------------------------------------------------
Serves(d, q) ==
  \/ loginChecks(d, q) \/ refreshChecks(d, q) \/ refreshAlarms(d, q)
  \/ issueTokens(d, q) \/ logoutRefused(d, q) \/ forgotten(d, q)

Settles(d, q) ==
  \/ refreshOnce(d, q) \/ saveSession(d, q) \/ sessionDenied(d, q)
  \/ sessionUnanswered(d, q) \/ timesOut(d, q)

SessionNext ==
  \/ \E d \in Devices, q \in Slots :
       \/ Serves(d, q) \/ Settles(d, q)
       \/ refreshExpired(d, q) \/ refreshDies(d, q)
       \/ apiRequest(d, q) \/ signIn(d, q) \/ signOut(d, q) \/ restore(d, q)
  \/ \E d \in Devices :
       changePassword(d) \/ deleteAccount(d) \/ killed(d)
  \/ resetPassword

(* The timer of a request always fires, and answers that arrive are handled. *)
SessionFairness == \A d \in Devices, q \in Slots : WF_sessionVars(Settles(d, q))

SessionSpec == SessionInit /\ [][SessionNext]_sessionVars /\ SessionFairness

-----------------------------------------------------------------------------
(* Properties.                                                             *)

(* A device that hears its renewals, and whose vault takes their tokens,     *)
(* never gives the server reason to believe its session stolen, however many *)
(* of its requests are refused at once and whenever it is killed: they share *)
(* one renewal, and its token replaces the old one, in the vault as well,     *)
(* before another starts.                                                   *)
NoSelfInflictedAlarm == alarmed \subseteq answerLost \cup unsaved

(* "Un changement de mot de passe invalide les sessions existantes": a       *)
(* session, through all its renewals, outlives a change of password, a reset *)
(* or a closure in one way only: at each of them a handler of this session   *)
(* (its login or its renewal) had checked and had not written yet.           *)
NoSessionOutlivesThePassword ==
  \A t \in Token : token[t].state = "live" =>
    \A k \in (token[t].since + 1) .. epoch : k \in token[t].crossed

(* Every request of an open application ends, although the server may die   *)
(* and its answers be lost: the renewal shared by many is given up for all. *)
EveryRequestEnds ==
  \A d \in Devices, q \in Slots :
    (call[d][q].at = "joined" \/ (call[d][q].at \in Renewing /\ ~ call[d][q].deaf))
      ~> (call[d][q].at = "idle" \/ call[d][q].deaf)
=============================================================================
