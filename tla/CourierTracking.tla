--------------------------- MODULE CourierTracking ---------------------------
(***************************************************************************)
(* The positions of a courier during one run: the hook useCourierTracking    *)
(* of the screen of the run, and TrackingService on the server.             *)
(*                                                                          *)
(* Measures wait in a bounded queue, leave in batches and are sent again    *)
(* when a request failed; the server ignores those it already has.  Points  *)
(* are numbered in the order of their measure.  The screen starts the       *)
(* watch from an effect that runs again whenever the function `start`       *)
(* changes, which every rendering does (useMutation returns a new object).  *)
(* The queue is a reference of the hook: it is reached as long as the screen *)
(* is there, or one of its watches, and goes away with the last of them.     *)
(***************************************************************************)
EXTENDS Integers, Sequences, SequencesExt, FiniteSets

CONSTANTS
  offlineQueueMaxPoints,  \* points kept on the phone (500)
  BatchSize,              \* points of a request (100)
  MaxPoints,              \* bound: points measured
  MaxStarts               \* bound: calls of start()

ASSUME TrackingBounds ==
  /\ offlineQueueMaxPoints \in Nat \ {0} /\ BatchSize \in Nat \ {0}
  /\ MaxPoints \in Nat /\ MaxStarts \in Nat

VARIABLES
  run,        \* delivery.status on the server, whose it is, and what the screen shows
  gps,        \* the screen: start() calls awaited, live watches, the watch in `subscription`, isTracking
  measured,   \* number of points measured
  queue,      \* queue.current
  push,       \* the request under way: its state and its batch (isFlushing while not idle)
  trace,      \* deliveryLocation rows
  overflowed, \* history: points dropped because the queue was full
  forgotten   \* history: points that went away with a screen that was left

trackingVars == <<run, gps, measured, queue, push, trace, overflowed, forgotten>>

TRACKABLE == {"IN_TRANSIT", "ARRIVED"}
ENDED == {"DELIVERED", "FAILED"}
CourierStatuses == {"ACCEPTED", "OTP_VERIFIED"} \cup TRACKABLE \cup ENDED

isTrackable(status) == status \in TRACKABLE

Points == 1 .. MaxPoints
NoPush == [at |-> "idle", batch |-> <<>>]

TrackingInit ==
  /\ run = [status |-> "ACCEPTED", mine |-> TRUE, seen |-> "ACCEPTED"]
  /\ gps = [open |-> TRUE, starts |-> 0, awaited |-> 0, watches |-> {}, current |-> 0,
            isTracking |-> FALSE]
  /\ measured = 0
  /\ queue = <<>>
  /\ push = NoPush
  /\ trace = {}
  /\ overflowed = {}
  /\ forgotten = {}

\* The first and the last n elements of a sequence.
Keep(s, n) == SubSeq(s, 1, IF Len(s) < n THEN Len(s) ELSE n)
KeepLast(s, n) == SubSeq(s, IF Len(s) < n THEN 1 ELSE Len(s) - n + 1, Len(s))
Dropped(all, kept) == ToSet(all) \ ToSet(kept)

-----------------------------------------------------------------------------
(* The run: its status moves on the server, the screen learns it later.    *)

CourierStatusMoves ==
  /\ run.mine
  /\ \E status \in CourierStatuses :
       /\ \/ run.status = "ACCEPTED" /\ status \in {"IN_TRANSIT", "FAILED"}
          \/ run.status = "IN_TRANSIT" /\ status \in {"ARRIVED", "FAILED"}
          \/ run.status = "ARRIVED" /\ status \in {"OTP_VERIFIED"} \cup ENDED
          \/ run.status = "OTP_VERIFIED" /\ status = "DELIVERED"
       /\ run' = [run EXCEPT !.status = status]
  /\ UNCHANGED <<gps, measured, queue, push, trace, overflowed, forgotten>>

\* A manager gives the run that failed to another courier.
RunReassigned ==
  /\ run.mine /\ run.status = "FAILED"
  /\ run' = [run EXCEPT !.mine = FALSE]
  /\ UNCHANGED <<gps, measured, queue, push, trace, overflowed, forgotten>>

useDelivery ==
  /\ gps.open
  /\ run.mine /\ run.seen # run.status
  /\ run' = [run EXCEPT !.seen = run.status]
  /\ UNCHANGED <<gps, measured, queue, push, trace, overflowed, forgotten>>

-----------------------------------------------------------------------------
(* The watch.                                                              *)

isRolling == isTrackable(run.seen)

\* The effect calls start(), whose permission and watch are awaited.
startTracking ==
  /\ gps.open /\ isRolling /\ ~ gps.isTracking
  /\ gps.starts < MaxStarts
  /\ gps' = [gps EXCEPT !.starts = @ + 1, !.awaited = @ + 1]
  /\ UNCHANGED <<run, measured, queue, push, trace, overflowed, forgotten>>

\* watchPositionAsync answers one of them: `subscription` is overwritten.
watchPosition ==
  /\ gps.awaited > 0
  /\ LET w == Cardinality(gps.watches) + 1 IN
     gps' = [gps EXCEPT !.awaited = @ - 1, !.watches = @ \cup {w}, !.current = w,
                        !.isTracking = gps.open]
  /\ UNCHANGED <<run, measured, queue, push, trace, overflowed, forgotten>>

\* Whether the queue of the hook is still reached.
Reached(g) == g.open \/ g.awaited > 0 \/ g.watches # {}

Releases(g) ==
  /\ gps' = g
  /\ queue' = IF Reached(g) THEN queue ELSE <<>>
  /\ forgotten' = IF Reached(g) THEN forgotten ELSE forgotten \cup ToSet(queue)
  /\ UNCHANGED <<run, measured, push, trace, overflowed>>

\* The permission is refused, or the watch cannot start.
startFails ==
  /\ gps.awaited > 0
  /\ Releases([gps EXCEPT !.awaited = @ - 1])

Stopped == [gps EXCEPT !.watches = @ \ {gps.current}, !.current = 0, !.isTracking = FALSE]

stopTracking ==
  /\ gps.open /\ ~ isRolling /\ gps.isTracking
  /\ gps' = Stopped
  /\ UNCHANGED <<run, measured, queue, push, trace, overflowed, forgotten>>

\* The screen is left: the watch of `subscription` is removed, and no other.
unmount ==
  /\ gps.open
  /\ Releases([Stopped EXCEPT !.open = FALSE])

\* The application is closed; its request goes on without it.
applicationKilled ==
  /\ Reached(gps)
  /\ Releases([gps EXCEPT !.open = FALSE, !.awaited = 0, !.watches = {}, !.current = 0,
                           !.isTracking = FALSE])

\* The courier comes back to the screen of his run, with a new queue.
CourseScreen ==
  /\ ~ Reached(gps) /\ push.at = "idle"
  /\ gps' = [gps EXCEPT !.open = TRUE, !.current = 0, !.isTracking = FALSE]
  /\ UNCHANGED <<run, measured, queue, push, trace, overflowed, forgotten>>

-----------------------------------------------------------------------------
(* The queue.                                                              *)

\* flush: unless a request is under way, the oldest points leave.
flush(q) ==
  IF push.at # "idle" \/ q = <<>>
  THEN queue' = q /\ push' = push
  ELSE LET batch == Keep(q, BatchSize) IN
       /\ queue' = SubSeq(q, Len(batch) + 1, Len(q))
       /\ push' = [at |-> "sent", batch |-> batch]

\* A watch reports a position: it is queued, the oldest gives way, and flush runs.
positionMeasured ==
  /\ gps.watches # {}
  /\ measured < MaxPoints
  /\ measured' = measured + 1
  /\ LET all == Append(queue, measured + 1)
         kept == KeepLast(all, offlineQueueMaxPoints)
     IN /\ overflowed' = overflowed \cup Dropped(all, kept)
        /\ flush(kept)
  /\ UNCHANGED <<run, gps, trace, forgotten>>

\* The server: the run of this courier, under way; points it has are skipped.
pushLocations ==
  /\ push.at = "sent"
  /\ IF run.mine /\ isTrackable(run.status)
     THEN /\ trace' = trace \cup ToSet(push.batch)
          /\ push' = [push EXCEPT !.at = "accepted"]
     ELSE /\ push' = [push EXCEPT !.at = "refused"]
          /\ UNCHANGED trace
  /\ UNCHANGED <<run, gps, measured, queue, overflowed, forgotten>>

flushSucceeds ==
  /\ push.at = "accepted"
  /\ push' = NoPush
  /\ UNCHANGED <<run, gps, measured, queue, trace, overflowed, forgotten>>

\* Faulty variant: the batch goes to the end of the queue.
flushFailsLast ==
  /\ push.at \in {"sent", "accepted", "refused"} /\ Reached(gps)
  /\ LET all == queue \o push.batch
         kept == Keep(all, offlineQueueMaxPoints)
     IN queue' = kept /\ overflowed' = overflowed \cup Dropped(all, kept)
  /\ push' = NoPush
  /\ UNCHANGED <<run, gps, measured, trace, forgotten>>

\* Refused, timed out, or the answer lost: the batch goes back to the head of
\* the queue, and the newest points give way.  A queue nothing reaches any more
\* takes the batch away with it.
flushFails ==
  /\ push.at \in {"sent", "accepted", "refused"}
  /\ LET all == push.batch \o queue
         kept == IF Reached(gps) THEN Keep(all, offlineQueueMaxPoints) ELSE <<>>
     IN /\ queue' = kept
        /\ IF Reached(gps)
           THEN overflowed' = overflowed \cup Dropped(all, kept) /\ UNCHANGED forgotten
           ELSE forgotten' = forgotten \cup ToSet(all) /\ UNCHANGED overflowed
  /\ push' = NoPush
  /\ UNCHANGED <<run, gps, measured, trace>>

\* purgeOldTraces, long after the run was closed.
purgeOldTraces ==
  /\ run.status \in ENDED
  /\ trace' = {}
  /\ UNCHANGED <<run, gps, measured, queue, push, overflowed, forgotten>>

TrackingNext ==
  \/ CourierStatusMoves \/ RunReassigned \/ useDelivery
  \/ startTracking \/ watchPosition \/ startFails \/ stopTracking \/ unmount
  \/ applicationKilled \/ CourseScreen
  \/ positionMeasured \/ pushLocations \/ flushSucceeds \/ flushFails
  \/ purgeOldTraces

TrackingSpec == TrackingInit /\ [][TrackingNext]_trackingVars

-----------------------------------------------------------------------------
(* Properties.                                                             *)

Increasing(s) == \A i, j \in DOMAIN s : i < j => s[i] < s[j]

(* The road is never shuffled and never silently lost: through failures,    *)
(* lost answers, new measures, screens left and opened again, what is in     *)
(* flight and in the queue stays in the order it was measured, within the    *)
(* bound, and while the run is open every point is there, on the server, was *)
(* dropped by a full queue, or was still unsent when the last thing that      *)
(* could send it went away.  So nothing is lost to a courier who stays on the *)
(* screen of his run with room in the queue (useCourierTracking.flush).      *)
RoadIsKept ==
  /\ Increasing(push.batch \o queue)
  /\ Len(queue) <= offlineQueueMaxPoints
  /\ run.status \notin ENDED =>
       1 .. measured \subseteq ToSet(push.batch \o queue) \cup trace \cup overflowed \cup forgotten
=============================================================================
