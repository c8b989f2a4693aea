----------------------------- MODULE PromoAdmin -----------------------------
(***************************************************************************)
(* A promotion code between its administrators (direction/promotions and     *)
(* PromoCodesService): each of them reads the list, fills the one form of    *)
(* his screen, edits, publishes and withdraws the code.  An edition, a       *)
(* publication and a withdrawal are one partial update: the server reads the *)
(* row, checks the values it would have, and writes the fields that came,     *)
(* while another administrator does the same.  The dates of the code and its *)
(* limits of use are left out.                                              *)
(***************************************************************************)
EXTENDS Naturals, FiniteSets

CONSTANTS
  Admins,        \* administrators, each with one request at a time
  Discount,      \* values of a discount; those above MaxPercent are no percentage
  MaxPercent,    \* 100
  MaxSaves       \* bound: forms sent; none is filled that could not be

NoTerms == [type |-> "none", value |-> 0]
PROMO_DISCOUNT_TYPES == {"PERCENT", "FIXED"}

ASSUME PromoAssumption ==
  Discount \subseteq Nat \ {0} /\ MaxPercent \in Nat /\ MaxSaves \in Nat

VARIABLES
  code,       \* the row of the code: none, or its rule
  desk,       \* the screen of each administrator: the list it shows, its form
  request,    \* the update of each administrator, and whether it has read a published row
  decided,    \* history: whether the last decision written is a publication
  saves       \* number of forms sent

promoVars == <<code, desk, request, decided, saves>>

NoRule == [exists |-> FALSE, terms |-> NoTerms, active |-> FALSE]
EmptyForm == [editing |-> FALSE, terms |-> NoTerms]
NoUpdate == [at |-> "idle", value |-> 0, isActive |-> "kept", wasActive |-> FALSE]

PromoInit ==
  /\ code = NoRule
  /\ desk = [a \in Admins |-> [list |-> NoRule, form |-> EmptyForm]]
  /\ request = [a \in Admins |-> NoUpdate]
  /\ decided = FALSE
  /\ saves = 0

assertValues(type, value) == type = "PERCENT" => value <= MaxPercent

\* What the form lets through: its own type decides, which an edition does not send.
FormComplete(form) == form.terms # NoTerms /\ assertValues(form.terms.type, form.terms.value)

-----------------------------------------------------------------------------
(* The screen.                                                             *)

listCodes(a) ==
  /\ desk' = [desk EXCEPT ![a].list = code]
  /\ UNCHANGED <<code, request, decided, saves>>

\* The form takes over the rule the list shows.
editer(a) ==
  LET shown == desk[a].list IN
  /\ shown.exists /\ saves < MaxSaves
  /\ desk' = [desk EXCEPT ![a].form = [editing |-> TRUE, terms |-> shown.terms]]
  /\ UNCHANGED <<code, request, decided, saves>>

reinitialiser(a) ==
  /\ desk' = [desk EXCEPT ![a].form = EmptyForm]
  /\ UNCHANGED <<code, request, decided, saves>>

fills(a) ==
  /\ saves < MaxSaves
  /\ \E type \in PROMO_DISCOUNT_TYPES, value \in Discount :
       desk' = [desk EXCEPT ![a].form.terms = [type |-> type, value |-> value]]
  /\ UNCHANGED <<code, request, decided, saves>>

\* The buttons of the screen: the fields that are sent, 0 and "kept" for none.
Sends(a, value, flag) ==
  /\ request[a].at = "idle"
  /\ request' = [request EXCEPT ![a] = [NoUpdate EXCEPT !.at = "sent", !.value = value, !.isActive = flag]]
  /\ UNCHANGED <<code, desk, decided>>

enregistrer(a) ==
  LET form == desk[a].form IN
  /\ form.editing /\ FormComplete(form)
  /\ saves < MaxSaves /\ saves' = saves + 1
  /\ Sends(a, form.terms.value, "kept")

publier(a) ==
  /\ desk[a].list.exists /\ ~ desk[a].list.active
  /\ Sends(a, 0, "on") /\ UNCHANGED saves

desactiver(a) ==
  /\ desk[a].list.active
  /\ Sends(a, 0, "off") /\ UNCHANGED saves

\* The answer empties the form that was sent and has the list read again; the
\* answer may be lost, and so may what is read again.
Answered(a, row, form) ==
  \/ \E list \in {row, desk[a].list} : desk' = [desk EXCEPT ![a] = [list |-> list, form |-> form]]
  \/ UNCHANGED desk

-----------------------------------------------------------------------------
(* The service.                                                            *)

\* A new code is not published; its name is unique.
createCode(a) ==
  LET form == desk[a].form
      row  == [exists |-> TRUE, terms |-> form.terms, active |-> FALSE]
  IN
  /\ ~ form.editing /\ FormComplete(form) /\ ~ code.exists
  /\ saves < MaxSaves /\ saves' = saves + 1
  /\ code' = row
  /\ Answered(a, row, EmptyForm)
  /\ UNCHANGED <<request, decided>>

\* update and deactivate: the row is found, and the values it would have checked.
updateReads(a) ==
  LET asked == request[a]
      value == IF asked.value = 0 THEN code.terms.value ELSE asked.value
  IN
  /\ asked.at = "sent"
  /\ request' = [request EXCEPT ![a] =
       IF code.exists /\ assertValues(code.terms.type, value)
       THEN [asked EXCEPT !.at = "read", !.wasActive = code.active] ELSE NoUpdate]
  /\ UNCHANGED <<code, desk, decided, saves>>

\* The row a request writes upon: the one it finds there, field by field.
Patched(row, asked) ==
  [row EXCEPT !.terms.value = IF asked.value = 0 THEN @ ELSE asked.value,
              !.active = IF asked.isActive = "kept" THEN @ ELSE asked.isActive = "on"]

\* Faulty variant: the flag is written too, as the handler had read it.
updateCodeWhole(a) ==
  LET asked == request[a]
      row   == Patched([code EXCEPT !.active = asked.wasActive], asked)
      form  == IF asked.isActive = "kept" THEN EmptyForm ELSE desk[a].form
  IN
  /\ asked.at = "read"
  /\ code' = row
  /\ decided' = IF asked.isActive = "kept" THEN decided ELSE asked.isActive = "on"
  /\ request' = [request EXCEPT ![a] = NoUpdate]
  /\ Answered(a, row, form)
  /\ UNCHANGED saves

\* Only the fields that came are written.
updateCode(a) ==
  LET asked == request[a]
      row   == Patched(code, asked)
      form  == IF asked.isActive = "kept" THEN EmptyForm ELSE desk[a].form
  IN
  /\ asked.at = "read"
  /\ code' = row
  /\ decided' = IF asked.isActive = "kept" THEN decided ELSE asked.isActive = "on"
  /\ request' = [request EXCEPT ![a] = NoUpdate]
  /\ Answered(a, row, form)
  /\ UNCHANGED saves

PromoNext ==
  \E a \in Admins :
    \/ listCodes(a) \/ editer(a) \/ reinitialiser(a) \/ fills(a)
    \/ enregistrer(a) \/ publier(a) \/ desactiver(a)
    \/ createCode(a) \/ updateReads(a) \/ updateCode(a)

PromoSpec == PromoInit /\ [][PromoNext]_promoVars

-----------------------------------------------------------------------------
(* Properties.                                                             *)

(* A code gives what was decided.  However editions, publications and        *)
(* withdrawals of several administrators cross between the reading of the   *)
(* row and its writing, the code is on exactly when the last decision       *)
(* written is a publication, and an edition neither revives a code withdrawn *)
(* meanwhile nor stops one published meanwhile; and no percentage goes above *)
(* a hundred, though the form that was filled was checked as a fixed amount. *)
CodeGivesWhatWasDecided ==
  /\ code.active <=> decided
  /\ assertValues(code.terms.type, code.terms.value)
=============================================================================
