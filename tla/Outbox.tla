------------------------------- MODULE Outbox -------------------------------
(***************************************************************************)
(* The outbox: events written with the business rows they announce, and    *)
(* drained towards the channels of the customer (push, WhatsApp, e-mail).  *)
(* Drains run at once: after a commit in each process (kickOutboxDrain),   *)
(* and from the cron, under the lease of CronLocks.                        *)
(*                                                                          *)
(* One type of event is modelled, with all its channels: drainOutbox does  *)
(* the same for each routed type in turn.  Claiming an event is one        *)
(* statement, so the row locks it skips are never seen between two steps.  *)
(***************************************************************************)
EXTENDS CronLocks

CONSTANTS
  Kicks,       \* the processes, each with its post-commit drain
  Events,      \* the events, numbered in the order of their creation
  Channels,    \* the channels the type is routed to
  Keyed,       \* those whose gateway recognises a key it has already served (WhatsApp)
  MaxAttempts  \* OUTBOX_MAX_ATTEMPTS

ASSUME EventsAssumption == Events \subseteq Nat
ASSUME KeyedAssumption == Keyed \subseteq Channels
ASSUME MaxAttemptsAssumption == MaxAttempts \in Nat \ {0}
ASSUME DrainsAssumption == Runs \cap Kicks = {}

Drains == Runs \cup Kicks
NoEvent == 0
ASSUME NoEventAssumption == NoEvent \notin Events

VARIABLES
  event,      \* the rows: status, attempts, due (availableAt has passed)
  drain,      \* each drain: where it is, the event it holds, what it tried
  delivered,  \* history: messages the channel accepted, per event and channel
  misreported,  \* history: those of them whose send was reported as failed
  unlogged    \* history: the database refused a write after a message left

outboxVars == <<event, drain, delivered, misreported, unlogged>>
jobVars == <<lockVars, outboxVars>>

Off == [at |-> "off", event |-> NoEvent, left |-> {}, sent |-> FALSE, tried |-> FALSE]
Looking == [Off EXCEPT !.at = "claim"]

EventRow ==
  [status : {"NONE", "PENDING", "PROCESSING", "DONE", "FAILED"},
   attempts : 0 .. MaxAttempts, due : BOOLEAN]

DrainContext ==
  [at : {"off", "claim", "send", "mark", "retry"}, event : Events \cup {NoEvent},
   left : SUBSET Channels, sent : BOOLEAN, tried : BOOLEAN]

OutboxInit ==
  /\ LockInit
  /\ event = [e \in Events |-> [status |-> "NONE", attempts |-> 0, due |-> TRUE]]
  /\ drain = [d \in Drains |-> Off]
  /\ delivered = [e \in Events |-> [c \in Channels |-> 0]]
  /\ misreported = [e \in Events |-> [c \in Channels |-> 0]]
  /\ unlogged = [e \in Events |-> FALSE]

-----------------------------------------------------------------------------
(* Events and the starts of drains.                                        *)

\* A business transaction commits with its event.
Emit(e) ==
  /\ event[e].status = "NONE"
  /\ \A f \in Events : f < e => event[f].status # "NONE"
  /\ event' = [event EXCEPT ![e].status = "PENDING"]
  /\ UNCHANGED <<lockVars, drain, delivered, misreported, unlogged>>

\* kickOutboxDrain: one post-commit drain at a time in a process.
Kick(k) ==
  /\ drain[k].at = "off"
  /\ drain' = [drain EXCEPT ![k] = Looking]
  /\ UNCHANGED <<lockVars, event, delivered, misreported, unlogged>>

\* The cron calls the job `outbox-drain` and gets the lease.
CronDrains(r) ==
  /\ acquire(r)
  /\ drain' = [drain EXCEPT ![r] = Looking]
  /\ UNCHANGED <<event, delivered, misreported, unlogged>>

BackoffElapses(e) ==
  /\ ~ event[e].due
  /\ event' = [event EXCEPT ![e].due = TRUE]
  /\ UNCHANGED <<lockVars, drain, delivered, misreported, unlogged>>

-----------------------------------------------------------------------------
(* A drain.                                                                *)

Claimable(e) == event[e].status = "PENDING" /\ event[e].due

\* Faulty variant: read, then marked: an event being processed is taken too.
ClaimStale(d) ==
  /\ drain[d].at = "claim"
  /\ \E e \in Events :
       /\ event[e].status \in {"PENDING", "PROCESSING"} /\ event[e].due
       /\ event' = [event EXCEPT ![e].status = "PROCESSING", ![e].attempts = @ + 1]
       /\ drain' = [drain EXCEPT ![d] = [Off EXCEPT !.at = "send", !.event = e,
                                                    !.left = Channels]]
  /\ UNCHANGED <<lockVars, delivered, misreported, unlogged>>

\* The oldest event that is due is claimed, its attempt counted.
claimOne(d) ==
  /\ drain[d].at = "claim"
  /\ \E e \in Events :
       /\ Claimable(e)
       /\ \A f \in Events : Claimable(f) => e <= f
       /\ event' = [event EXCEPT ![e].status = "PROCESSING", ![e].attempts = @ + 1]
       /\ drain' = [drain EXCEPT ![d] = [Off EXCEPT !.at = "send", !.event = e,
                                                    !.left = Channels]]
  /\ UNCHANGED <<lockVars, delivered, misreported, unlogged>>

\* The end of a drain: the cron gives its lease back.
Stops(d) ==
  /\ drain' = [drain EXCEPT ![d] = Off]
  /\ IF d \in Runs THEN release(d) ELSE UNCHANGED lockVars

DrainEnds(d) ==
  /\ drain[d].at = "claim"
  /\ \A e \in Events : ~ Claimable(e)
  /\ Stops(d)
  /\ UNCHANGED <<event, delivered, misreported, unlogged>>

\* The gateway has already accepted this message and knows its key again.
Recognised(e, c) == c \in Keyed /\ delivered[e][c] > 0

(* A channel is tried.  It is skipped (not configured, no address), sent (or  *)
(* known as sent already), or failed; and a message may be accepted by the   *)
(* gateway while the send is reported as failed: the answer came after the   *)
(* 15 s of WhatsApp, or the connection to SMTP broke before it.              *)
sendOn(d, c) ==
  LET e == drain[d].event
      ctx == [drain[d] EXCEPT !.left = @ \ {c}] IN
  /\ drain[d].at = "send"
  /\ c \in drain[d].left
  /\ \/ /\ drain' = [drain EXCEPT ![d] = ctx]
        /\ UNCHANGED <<delivered, misreported>>
     \/ /\ drain' = [drain EXCEPT ![d] = [ctx EXCEPT !.sent = TRUE, !.tried = TRUE]]
        /\ IF Recognised(e, c) THEN UNCHANGED delivered
           ELSE delivered' = [delivered EXCEPT ![e][c] = @ + 1]
        /\ UNCHANGED misreported
     \/ /\ drain' = [drain EXCEPT ![d] = [ctx EXCEPT !.tried = TRUE]]
        /\ \/ UNCHANGED <<delivered, misreported>>
           \/ /\ ~ Recognised(e, c)
              /\ delivered' = [delivered EXCEPT ![e][c] = @ + 1]
              /\ misreported' = [misreported EXCEPT ![e][c] = @ + 1]
  /\ UNCHANGED <<lockVars, event, unlogged>>

\* All channels were tried: the event is tried again only if none passed.
HandleEnds(d) ==
  /\ drain[d].at = "send"
  /\ drain[d].left = {}
  /\ drain' = [drain EXCEPT ![d].at =
                 IF drain[d].tried /\ ~ drain[d].sent THEN "retry" ELSE "mark"]
  /\ UNCHANGED <<lockVars, event, delivered, misreported, unlogged>>

\* A line of MessageLog is refused, and the line that says so as well.
JournalFails(d) ==
  /\ drain[d].at = "send"
  /\ drain[d].left # Channels
  /\ drain' = [drain EXCEPT ![d].at = "retry"]
  /\ unlogged' = [unlogged EXCEPT ![drain[d].event] = TRUE]
  /\ UNCHANGED <<lockVars, event, delivered, misreported>>

markDone(d) ==
  /\ drain[d].at = "mark"
  /\ event' = [event EXCEPT ![drain[d].event].status = "DONE"]
  /\ drain' = [drain EXCEPT ![d] = Looking]
  /\ UNCHANGED <<lockVars, delivered, misreported, unlogged>>

\* markDone is refused inside the try: the event is handled as a failure.
MarkDoneFails(d) ==
  /\ drain[d].at = "mark"
  /\ drain' = [drain EXCEPT ![d].at = "retry"]
  /\ unlogged' = [unlogged EXCEPT ![drain[d].event] = TRUE]
  /\ UNCHANGED <<lockVars, event, delivered, misreported>>

\* Back to PENDING after a back-off, or FAILED at the cap of attempts.
markRetryOrFail(d) ==
  /\ drain[d].at = "retry"
  /\ event' = [event EXCEPT ![drain[d].event] =
                 IF @.attempts >= MaxAttempts THEN [@ EXCEPT !.status = "FAILED"]
                 ELSE [@ EXCEPT !.status = "PENDING", !.due = FALSE]]
  /\ drain' = [drain EXCEPT ![d] = Looking]
  /\ UNCHANGED <<lockVars, delivered, misreported, unlogged>>

\* The database refuses a statement of the drain itself: the drain stops.
DrainThrows(d) ==
  /\ drain[d].at \in {"claim", "retry"}
  /\ Stops(d)
  /\ UNCHANGED <<event, delivered, misreported, unlogged>>

\* The process is recycled: the drain is gone, a lease stays taken.
ProcessDies(d) ==
  /\ drain[d].at # "off"
  /\ drain' = [drain EXCEPT ![d] = Off]
  /\ IF d \in Runs THEN RunDies(d) ELSE UNCHANGED lockVars
  /\ UNCHANGED <<event, delivered, misreported, unlogged>>

DrainStep(d) ==
  \/ claimOne(d) \/ DrainEnds(d) \/ HandleEnds(d) \/ markDone(d) \/ markRetryOrFail(d)
  \/ \E c \in Channels : sendOn(d, c)

OutboxNext ==
  \/ Tick /\ UNCHANGED outboxVars
  \/ \E e \in Events : Emit(e) \/ BackoffElapses(e)
  \/ \E k \in Kicks : Kick(k)
  \/ \E r \in Runs : CronDrains(r)
  \/ \E d \in Drains :
       DrainStep(d) \/ JournalFails(d) \/ MarkDoneFails(d) \/ DrainThrows(d) \/ ProcessDies(d)

OutboxSpec == OutboxInit /\ [][OutboxNext]_jobVars

(* The clock runs, the cron keeps calling, a drain that is served goes on,   *)
(* and the hosting does not recycle every drain before its first statement. *)
FairOutboxSpec ==
  /\ OutboxSpec
  /\ WF_jobVars(Tick /\ UNCHANGED outboxVars)
  /\ \A e \in Events : WF_jobVars(BackoffElapses(e))
  /\ WF_jobVars(\E r \in Runs : CronDrains(r))
  /\ \A d \in Drains : WF_jobVars(DrainStep(d))
  /\ SF_jobVars(\E r \in Runs : claimOne(r))

-----------------------------------------------------------------------------
(* Properties.                                                             *)

Holds(d, e) == drain[d].at \in {"send", "mark", "retry"} /\ drain[d].event = e

(* "Rejouer ré-aurait envoyé deux fois les canaux déjà partis": although     *)
(* drains run together, fail and try again, a channel carries an event again *)
(* only where the send before was reported as failed (or the database        *)
(* refused to record what had left); never more often than the event was     *)
(* claimed; and once at most where the gateway recognises the key.           *)
NoDoubleDelivery ==
  \A e \in Events : \A c \in Channels :
    /\ delivered[e][c] <= event[e].attempts
    /\ unlogged[e] \/ delivered[e][c] <= misreported[e][c] + 1
    /\ c \in Keyed => delivered[e][c] <= 1

(* An event is abandoned exactly at the cap of attempts: one that waits can  *)
(* still be tried, one that failed has used them all.                       *)
AbandonedAtTheCap ==
  \A e \in Events :
    /\ event[e].status = "PENDING" => event[e].attempts < MaxAttempts
    /\ event[e].status = "FAILED" => event[e].attempts = MaxAttempts

\* Nothing takes an event back from a drain that has died.
Orphan(e) == event[e].status = "PROCESSING" /\ \A d \in Drains : ~ Holds(d, e)

(* "Le cron outbox-drain rattrape": every event that waits is sent, or given  *)
(* up at the cap, although post-commit drains never run and crons die with    *)
(* the lease; the only other end is the death of the drain that held it.     *)
EventSettles ==
  \A e \in Events :
    event[e].status = "PENDING" ~> event[e].status \in {"DONE", "FAILED"} \/ Orphan(e)

=============================================================================
