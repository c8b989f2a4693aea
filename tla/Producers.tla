------------------------------ MODULE Producers ------------------------------
(***************************************************************************)
(* The farms of a producer and the harvests he declares (ProducersService),  *)
(* the decisions of the cooperative on them.  Every handler reads the row,   *)
(* decides, and writes by its identifier in a second statement; deleting a   *)
(* farm takes its declarations with it (onDelete: Cascade).  The producer    *)
(* declares from a form, app/exploitation/production, whose request has no   *)
(* idempotency key.                                                         *)
(***************************************************************************)
EXTENDS Naturals, FiniteSetsExt

CONSTANTS
  Farms,        \* farms of the producer
  Harvests,     \* declarations that may be made
  Quantities,   \* kilograms declared
  Visits        \* request contexts

ASSUME ProducerAssumption == Quantities \subseteq Nat \ {0}

VARIABLES
  farm,        \* farm rows: "none", "active", "inactive" or "deleted"
  production,  \* production rows
  visit,       \* the handlers under way, and what they have read
  form,        \* the form of a declaration, and what was typed in it
  examined,    \* history: the quantity and the decision, when the cooperative last decided
  disturbed    \* history: rows written by a handler that had read them otherwise

producerVars == <<farm, production, visit, form, examined, disturbed>>

PRODUCTION_TRANSITIONS ==
  [s \in {"DECLARED", "CONFIRMED", "RECEIVED", "REJECTED"} |->
     CASE s = "DECLARED"  -> {"CONFIRMED", "REJECTED"}
       [] s = "CONFIRMED" -> {"RECEIVED", "REJECTED"}
       [] OTHER           -> {}]

Decisions == {"CONFIRMED", "RECEIVED", "REJECTED"}

\* The queue of the cooperative lists what is not decided for good.
listReviewable == {"DECLARED", "CONFIRMED"}

\* app/gestion/recoltes: the next step, if there is one, and the refusal.
nextStatus(s) ==
  IF "CONFIRMED" \in PRODUCTION_TRANSITIONS[s] THEN {"CONFIRMED"}
  ELSE PRODUCTION_TRANSITIONS[s] \cap {"RECEIVED"}

ReviewButtons(s) == IF s \in listReviewable THEN nextStatus(s) \cup {"REJECTED"} ELSE {}

\* Faulty variant: whatever is not final may still be corrected.
isProductionOpen(s) == PRODUCTION_TRANSITIONS[s] # {}

isProductionEditable(s) == s = "DECLARED"

Absent == [status |-> "none", farm |-> "none", quantity |-> 0]
Undecided == [quantity |-> 0, decision |-> "none"]
NoForm == [at |-> "closed", farm |-> "none", quantity |-> 0]
NoVisit == [at |-> "idle", farm |-> "none", harvest |-> "none", arg |-> 0, row |-> Absent,
            history |-> {}]

exists(p) == production[p].status \in DOMAIN PRODUCTION_TRANSITIONS
farmExists(f) == farm[f] \in {"active", "inactive"}
ProductionsOf(f) == {p \in Harvests : exists(p) /\ production[p].farm = f}

ProducerInit ==
  /\ farm = [f \in Farms |-> "none"]
  /\ production = [p \in Harvests |-> Absent]
  /\ visit = [v \in Visits |-> NoVisit]
  /\ form = NoForm
  /\ examined = [p \in Harvests |-> Undecided]
  /\ disturbed = {}

Reads(v, context) ==
  /\ visit[v].at = "idle"
  /\ visit' = [visit EXCEPT ![v] = context]
  /\ UNCHANGED <<farm, production, form, examined, disturbed>>

Ends(v) == visit' = [visit EXCEPT ![v] = NoVisit]

\* The row is not the one the handler has read.
Overtaken(v, p) == IF production[p] # visit[v].row THEN {p} ELSE {}

-----------------------------------------------------------------------------
(* Farms.                                                                  *)

createFarm(f) ==
  /\ farm[f] = "none"
  /\ farm' = [farm EXCEPT ![f] = "active"]
  /\ UNCHANGED <<production, visit, form, examined, disturbed>>

\* The farm is laid fallow or taken up again.
updateFarm(f, state) ==
  /\ farmExists(f)
  /\ farm' = [farm EXCEPT ![f] = state]
  /\ UNCHANGED <<production, visit, form, examined, disturbed>>

\* deleteFarm counts the declarations of the farm.
deleteFarmReads(v, f) ==
  /\ farmExists(f)
  /\ Reads(v, [NoVisit EXCEPT !.at = "deleteFarm", !.farm = f, !.history = ProductionsOf(f)])

\* With a history it is laid fallow, else the row goes, and what it now holds.
deleteFarm(v) ==
  LET f == visit[v].farm
      taken == ProductionsOf(f)
  IN
  /\ visit[v].at = "deleteFarm" /\ farmExists(f)
  /\ IF visit[v].history # {}
     THEN /\ farm' = [farm EXCEPT ![f] = "inactive"]
          /\ UNCHANGED <<production, disturbed>>
     ELSE /\ farm' = [farm EXCEPT ![f] = "deleted"]
          /\ production' = [p \in Harvests |->
               IF p \in taken THEN [production[p] EXCEPT !.status = "deleted"] ELSE production[p]]
          /\ disturbed' = disturbed \cup (taken \ visit[v].history)
  /\ Ends(v)
  /\ UNCHANGED <<form, examined>>

-----------------------------------------------------------------------------
(* Declarations of the producer.                                           *)

\* The form proposes the active farms; the only one is chosen for the producer.
OpensForm(f) ==
  /\ form.at = "closed" /\ farm[f] = "active"
  /\ form' = [NoForm EXCEPT !.at = "open", !.farm = f]
  /\ UNCHANGED <<farm, production, visit, examined, disturbed>>

\* One press at a time: the button waits for the answer.
onSubmit(q) ==
  /\ form.at = "open"
  /\ form' = [form EXCEPT !.at = "asked", !.quantity = q]
  /\ UNCHANGED <<farm, production, visit, examined, disturbed>>

\* The farm must be active when it is read.
createProductionReads(v, p) ==
  /\ form.at = "asked" /\ visit[v].at = "idle"
  /\ production[p] = Absent
  /\ IF farm[form.farm] = "active"
     THEN /\ visit' = [visit EXCEPT ![v] = [NoVisit EXCEPT !.at = "create",
                         !.farm = form.farm, !.harvest = p, !.arg = form.quantity]]
          /\ form' = [form EXCEPT !.at = "served"]
     ELSE form' = [form EXCEPT !.at = "open"] /\ UNCHANGED visit
  /\ UNCHANGED <<farm, production, examined, disturbed>>

\* The farm may be fallow by now; deleted, the foreign key refuses.
createProduction(v) ==
  LET w == visit[v] IN
  /\ w.at = "create" /\ farmExists(w.farm) /\ production[w.harvest] = Absent
  /\ production' = [production EXCEPT ![w.harvest] =
       [status |-> "DECLARED", farm |-> w.farm, quantity |-> w.arg]]
  /\ form' = IF form.at = "served" THEN [form EXCEPT !.at = "made"] ELSE form
  /\ Ends(v)
  /\ UNCHANGED <<farm, examined, disturbed>>

\* The answer closes the form; without one it stays filled, and may be sent again
\* while the first request is still served; it may be left meanwhile.
DeclarationEnds ==
  /\ \/ form.at \in {"made", "open"} /\ form' = NoForm
     \/ form.at \in {"asked", "served", "made"} /\ form' = [form EXCEPT !.at = "open"]
  /\ UNCHANGED <<farm, production, visit, examined, disturbed>>

\* updateProduction and deleteProduction read the row: only one not examined.  A
\* correction may name another farm, which is looked up.
editReads(v, p, at, q, f) ==
  /\ exists(p) /\ isProductionEditable(production[p].status)
  /\ f # "none" => farmExists(f)
  /\ Reads(v, [NoVisit EXCEPT !.at = at, !.farm = f, !.harvest = p, !.arg = q,
                              !.row = production[p]])

\* They write it by its identifier, whatever it has become.
updateProduction(v) ==
  LET p == visit[v].harvest
      f == visit[v].farm
  IN
  /\ visit[v].at = "update" /\ exists(p)
  /\ f # "none" => farmExists(f)
  /\ production' = [production EXCEPT ![p].quantity = visit[v].arg,
                                     ![p].farm = IF f = "none" THEN @ ELSE f]
  /\ disturbed' = disturbed \cup Overtaken(v, p)
  /\ Ends(v)
  /\ UNCHANGED <<farm, form, examined>>

deleteProduction(v) ==
  LET p == visit[v].harvest IN
  /\ visit[v].at = "delete" /\ exists(p)
  /\ production' = [production EXCEPT ![p].status = "deleted"]
  /\ disturbed' = disturbed \cup Overtaken(v, p)
  /\ Ends(v)
  /\ UNCHANGED <<farm, form, examined>>

-----------------------------------------------------------------------------
(* Decisions of the cooperative.                                           *)

reviewReads(v, p, decision) ==
  /\ exists(p) /\ decision \in PRODUCTION_TRANSITIONS[production[p].status]
  /\ Reads(v, [NoVisit EXCEPT !.at = decision, !.harvest = p, !.row = production[p]])

reviewProduction(v) ==
  LET p == visit[v].harvest IN
  /\ visit[v].at \in Decisions /\ exists(p)
  /\ production' = [production EXCEPT ![p].status = visit[v].at]
  /\ examined' = [examined EXCEPT ![p] =
       [quantity |-> production[p].quantity, decision |-> visit[v].at]]
  /\ disturbed' = disturbed \cup Overtaken(v, p)
  /\ Ends(v)
  /\ UNCHANGED <<farm, form>>

\* The row or the farm has gone (P2025, P2003), or the process is recycled.
visitFails(v) ==
  /\ visit[v].at # "idle"
  /\ Ends(v)
  /\ UNCHANGED <<farm, production, form, examined, disturbed>>

ProducerNext ==
  \/ \E f \in Farms :
       createFarm(f) \/ updateFarm(f, "active") \/ updateFarm(f, "inactive") \/ OpensForm(f)
  \/ \E q \in Quantities : onSubmit(q)
  \/ DeclarationEnds
  \/ \E v \in Visits :
       \/ \E f \in Farms : deleteFarmReads(v, f)
       \/ \E p \in Harvests : createProductionReads(v, p)
       \/ \E p \in Harvests, q \in Quantities, f \in Farms \cup {"none"} :
            editReads(v, p, "update", q, f)
       \/ \E p \in Harvests : editReads(v, p, "delete", 0, "none")
       \/ \E p \in Harvests, decision \in Decisions : reviewReads(v, p, decision)
       \/ deleteFarm(v) \/ createProduction(v) \/ updateProduction(v) \/ deleteProduction(v)
       \/ reviewProduction(v) \/ visitFails(v)

\* The figures of the producer: active farms, kilograms received, declarations
\* awaited.  (Three statements; what they count is read here at one instant.)
overview ==
  [farmCount    |-> Cardinality({f \in Farms : farm[f] = "active"}),
   receivedKg   |-> MapThenSumSet(LAMBDA p : production[p].quantity,
                                  {p \in Harvests : production[p].status = "RECEIVED"}),
   pendingCount |-> Cardinality({p \in Harvests : production[p].status = "DECLARED"})]

ProducerSpec == ProducerInit /\ [][ProducerNext]_producerVars

-----------------------------------------------------------------------------
(* Properties.                                                             *)

(* What the cooperative has examined stays as it examined it: its quantity,  *)
(* its decision, the row itself, although its producer edits and deletes,    *)
(* its farm is retired and several people decide.  Only a handler that had   *)
(* read the row before another wrote it can spoil it, and none that reads    *)
(* it afterwards; a first decision is replaced by a permitted one only.  The *)
(* kilograms announced to the producer are then those examined as received,  *)
(* and the queue of the cooperative offers every decision still open, and no *)
(* other.                                                                   *)
ExaminedIsKept ==
  /\ \A p \in Harvests :
       examined[p] # Undecided /\ p \notin disturbed =>
         /\ production[p].status = examined[p].decision
         /\ production[p].quantity = examined[p].quantity
  /\ disturbed = {} =>
       overview.receivedKg = MapThenSumSet(LAMBDA p : examined[p].quantity,
                               {p \in Harvests : examined[p].decision = "RECEIVED"})
  /\ \A p \in Harvests : exists(p) =>
       PRODUCTION_TRANSITIONS[production[p].status] = ReviewButtons(production[p].status)
=============================================================================
