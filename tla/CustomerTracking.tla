--------------------------- MODULE CustomerTracking ---------------------------
(***************************************************************************)
(* The card "Livraison en cours" of a customer and what the server reads     *)
(* for it (TrackingService.getTracking), while the courier fails, another is *)
(* given the run, and the telephone of the first still measures and sends.   *)
(* A delivery keeps one row, and one trace, from one attempt to the next;    *)
(* the positions are numbered in the order of their measure.  (A trace is    *)
(* purged thirty days after its run, when no card shows it any more.)        *)
(***************************************************************************)
EXTENDS Naturals, Sequences, FiniteSetsExt

CONSTANTS
  Riders,       \* couriers
  MaxFixes,     \* bound: positions measured
  MaxAttempts   \* bound: assignments of the delivery

Nowhere == 0
NoRider == "no rider"

ASSUME LiveBounds == MaxFixes \in Nat /\ MaxAttempts \in Nat /\ NoRider \notin Riders

VARIABLES
  tracked,     \* the row: status and courier (the order follows the status)
  outing,      \* assignments made
  emitting,    \* couriers whose telephone may still measure
  fixes,       \* the courier of each measure
  stored,      \* deliveryLocation rows: numbers of measures
  stale,       \* measures older than stalePositionSeconds: all up to this one
  card,        \* the screen: whether its order is out, whether a reading is due, the last answer
  reading,     \* the request of the card under way
  heard        \* history: measures made before this attempt left; when the last answer
               \* was read, its courier still had the run and had been heard in this
               \* attempt; the furthest position shown

liveVars == <<tracked, outing, emitting, fixes, stored, stale, card, reading, heard>>

TRACKABLE_DELIVERY_STATUSES == {"IN_TRANSIT", "ARRIVED"}
UnderWay(status) == status \in TRACKABLE_DELIVERY_STATUSES

NoAnswer == [position |-> Nowhere, isLive |-> FALSE, courier |-> NoRider]
NoReading == [at |-> "idle", underWay |-> FALSE, courier |-> NoRider, answer |-> NoAnswer,
              own |-> FALSE]

LiveInit ==
  /\ tracked = [status |-> "ASSIGNED", courier |-> CHOOSE r \in Riders : TRUE]
  /\ outing = 1
  /\ emitting = {}
  /\ fixes = <<>>
  /\ stored = {}
  /\ stale = Nowhere
  /\ card = [out |-> FALSE, due |-> FALSE, answer |-> NoAnswer]
  /\ reading = NoReading
  /\ heard = [since |-> 0, own |-> FALSE, furthest |-> Nowhere]

-----------------------------------------------------------------------------
(* The run.                                                                *)

\* The statuses a courier gives to his run; the code, then the closing, end it.
runMoves ==
  [ASSIGNED     |-> {"ACCEPTED"},                            ACCEPTED  |-> {"IN_TRANSIT", "FAILED"},
   IN_TRANSIT   |-> {"ARRIVED", "FAILED"},                   DELIVERED |-> {},
   ARRIVED      |-> {"OTP_VERIFIED", "DELIVERED", "FAILED"}, FAILED    |-> {},
   OTP_VERIFIED |-> {"DELIVERED"}]

\* ORDER_STATUS_FOR_DELIVERY: the order leaves with the run and waits for its end.
OrderIsOut == tracked.status \in TRACKABLE_DELIVERY_STATUSES \cup {"OTP_VERIFIED"}

CourierMoves ==
  /\ \E status \in runMoves[tracked.status] :
       /\ tracked' = [tracked EXCEPT !.status = status]
       /\ emitting' = IF UnderWay(status) THEN emitting \cup {tracked.courier} ELSE emitting
       /\ heard' = IF status = "IN_TRANSIT" THEN [heard EXCEPT !.since = Len(fixes)] ELSE heard
  /\ UNCHANGED <<outing, fixes, stored, stale, card, reading>>

\* A second attempt, or another courier before the first leaves: the same row.
AssignAgain(r) ==
  /\ tracked.status \in {"ASSIGNED", "FAILED"}
  /\ outing < MaxAttempts
  /\ tracked' = [status |-> "ASSIGNED", courier |-> r]
  /\ outing' = outing + 1
  /\ UNCHANGED <<emitting, fixes, stored, stale, card, reading, heard>>

\* A telephone measures until its screen knows that the run is over, or is left,
\* and may stop before: no step obliges it to measure.
Measures(r) ==
  /\ r \in emitting /\ Len(fixes) < MaxFixes
  /\ fixes' = Append(fixes, r)
  /\ UNCHANGED <<tracked, outing, emitting, stored, stale, card, reading, heard>>

Storing(batch) ==
  /\ stored' = stored \cup batch
  /\ UNCHANGED <<tracked, outing, emitting, fixes, stale, card, reading, heard>>

\* Faulty variant: whoever sends it, the batch joins the road of the run.
StoresFromAnyone(r, batch) ==
  /\ batch # {} /\ \A n \in batch : fixes[n] = r
  /\ UnderWay(tracked.status)
  /\ Storing(batch)

\* pushLocations: his run, under way; a batch may be late, or sent again.
StoresBatch(r, batch) ==
  /\ batch # {} /\ \A n \in batch : fixes[n] = r
  /\ tracked.courier = r /\ UnderWay(tracked.status)
  /\ Storing(batch)

TwoMinutesPass ==
  /\ stale < Len(fixes)
  /\ stale' = Len(fixes)
  /\ UNCHANGED <<tracked, outing, emitting, fixes, stored, card, reading, heard>>

-----------------------------------------------------------------------------
(* The card.                                                               *)

shouldTrack == card.out

\* The screen reads its order again; the card asks as soon as it appears.
useOrderAgain ==
  /\ card.out # OrderIsOut
  /\ card' = [card EXCEPT !.out = OrderIsOut, !.due = OrderIsOut]
  /\ UNCHANGED <<tracked, outing, emitting, fixes, stored, stale, reading, heard>>

\* The screen is opened again: an answer may be missing or old.
CardReturns ==
  /\ shouldTrack /\ ~ card.due
  /\ card' = [card EXCEPT !.due = TRUE]
  /\ UNCHANGED <<tracked, outing, emitting, fixes, stored, stale, reading, heard>>

\* It asks when it appears, then every clientPollSeconds while the answer is live;
\* getTracking reads the order with its delivery,
useDeliveryTracking ==
  /\ shouldTrack /\ reading.at = "idle"
  /\ card.due \/ card.answer.isLive
  /\ card' = [card EXCEPT !.due = FALSE]
  /\ reading' = [NoReading EXCEPT !.at = "located", !.courier = tracked.courier,
                   !.underWay = UnderWay(tracked.status)]
  /\ UNCHANGED <<tracked, outing, emitting, fixes, stored, stale, heard>>

\* then, of a run under way, the last measure, live when younger than two minutes.
getTracking ==
  LET last == IF reading.underWay /\ stored # {} THEN Max(stored) ELSE Nowhere IN
  /\ reading.at = "located"
  /\ reading' = [NoReading EXCEPT !.at = "answered",
       !.answer = [position |-> last, isLive |-> last > stale, courier |-> reading.courier],
       !.own = /\ tracked.courier = reading.courier
               /\ \E n \in stored : n > heard.since /\ fixes[n] = reading.courier]
  /\ UNCHANGED <<tracked, outing, emitting, fixes, stored, stale, card, heard>>

AnswerShown ==
  /\ reading.at = "answered"
  /\ card' = [card EXCEPT !.answer = reading.answer]
  /\ heard' = [heard EXCEPT !.own = reading.own,
                  !.furthest = Max({@, reading.answer.position})]
  /\ reading' = NoReading
  /\ UNCHANGED <<tracked, outing, emitting, fixes, stored, stale>>

\* The request fails: what was shown stays, and a live answer is asked again.
ReadingFails ==
  /\ reading.at # "idle"
  /\ reading' = NoReading
  /\ UNCHANGED <<tracked, outing, emitting, fixes, stored, stale, card, heard>>

LiveNext ==
  \/ CourierMoves \/ TwoMinutesPass
  \/ \E r \in Riders :
       \/ AssignAgain(r) \/ Measures(r)
       \/ \E batch \in SUBSET DOMAIN fixes : StoresBatch(r, batch)
  \/ useOrderAgain \/ CardReturns \/ useDeliveryTracking
  \/ getTracking \/ AnswerShown \/ ReadingFails

LiveSpec == LiveInit /\ [][LiveNext]_liveVars

-----------------------------------------------------------------------------
(* Properties.                                                             *)

(* The customer follows one courier, forward: batches sent late or twice,    *)
(* answers read in two steps and a change of courier never take the marker   *)
(* back along the road; and once the courier the card names has been heard   *)
(* in this attempt, no position of another is shown under his name, though   *)
(* another telephone still measures.  (Before he is heard, the last position *)
(* of the attempt before him is.)                                           *)
CustomerSeesTheRun ==
  LET shown == card.answer IN
  shown.position # Nowhere =>
    /\ shown.position = heard.furthest
    /\ heard.own => fixes[shown.position] = shown.courier
=============================================================================
