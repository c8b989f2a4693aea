--------------------------- MODULE ServerProofs ---------------------------
(***************************************************************************)
(* What CronLocks, Outbox, Sessions, Notifications, PromoAdmin, Producers, *)
(* SiteCatalogue and Screens guarantee for any number of cron calls,       *)
(* processes, events, channels, devices, notices, telephones,              *)
(* administrators, visits, harvests, references, synchronisations,         *)
(* couriers and transfers, and any lease, cap, discount, quantity and      *)
(* price.                                                                  *)
(*                                                                         *)
(* LockInv says that, until a job overruns, the row of the lock outlives   *)
(* the lease of the one run that executes. DrainInv says who holds an      *)
(* event and, for each state of an event, what may already have left.      *)
(* SessionInv says where each token of a device is, and what a device that *)
(* has heard every renewal may hold. DeliveryInv says what each step of a  *)
(* delivery knows of its notice. PromoInv adds to the property the shape   *)
(* of the rows. HarvestInv says that what was examined is the row itself,  *)
(* RepeatInv what a synchronisation has written of its feed, and AgreeInv  *)
(* which feed the runs carry once the two catalogues agree. ScreensInv     *)
(* says how the order, its payment and its delivery go together, and what  *)
(* an old view can be old about.                                           *)
(***************************************************************************)
EXTENDS Outbox, Sessions, Notifications, PromoAdmin, Producers, SiteCatalogue,
        Screens, TLAPS

-----------------------------------------------------------------------------
(* The lease.                                                              *)

Covered(r) == run[r].left > 0 /\ lock.held /\ lock.left >= run[r].left

LockInv ==
  ~ overran =>
    /\ \A r \in Runs : run[r].running => Covered(r)
    /\ \A r, q \in Runs : run[r].running /\ run[q].running => r = q

LockIInv == LockTypeOK /\ LockInv

(* An acquisition finds no other run executing within its lease: the row    *)
(* would still be held.                                                    *)
LEMMA AcquireKeeps ==
  ASSUME LockIInv, NEW r \in Runs, acquire(r)
  PROVE  LockIInv'
<1>1. LockTypeOK'
  BY TTLAssumption DEF LockIInv, LockTypeOK, acquire
<1>2. ASSUME ~ overran PROVE \A q \in Runs : ~ run[q].running
  BY <1>2, TTLAssumption DEF LockIInv, LockInv, LockTypeOK, acquire, Covered, Free
<1>3. LockInv'
  BY <1>2, TTLAssumption DEF LockIInv, LockInv, LockTypeOK, acquire, Covered
<1> QED
  BY <1>1, <1>3 DEF LockIInv

LEMMA ReleaseKeeps ==
  ASSUME LockIInv, NEW r \in Runs, release(r)
  PROVE  LockIInv'
<1>1. LockTypeOK'
  BY TTLAssumption DEF LockIInv, LockTypeOK, release, Stopped
<1>2. ASSUME ~ overran PROVE \A q \in Runs : ~ run'[q].running
  BY <1>2 DEF LockIInv, LockInv, LockTypeOK, release, Stopped
<1> QED
  BY <1>1, <1>2 DEF LockIInv, LockInv, release

LEMMA RunDiesKeeps ==
  ASSUME LockIInv, NEW r \in Runs, RunDies(r)
  PROVE  LockIInv'
<1>1. LockTypeOK'
  BY TTLAssumption DEF LockIInv, LockTypeOK, RunDies, Stopped
<1>2. \A q \in Runs : run'[q].running => q # r /\ run'[q] = run[q]
  BY DEF LockIInv, LockTypeOK, RunDies, Stopped
<1> QED
  BY <1>1, <1>2 DEF LockIInv, LockInv, RunDies, Covered

(* The clock brings the row and the leases down together; a run that meets  *)
(* the end of its lease is an overrun.                                     *)
LEMMA TickKeeps ==
  ASSUME LockIInv, Tick
  PROVE  LockIInv'
<1>1. LockTypeOK'
  BY TTLAssumption DEF LockIInv, LockTypeOK, Tick, OneTickLess
<1>2. ASSUME ~ overran', NEW r \in Runs, run'[r].running
      PROVE  run[r].running /\ Covered(r)'
  <2>1. ~ overran /\ run[r].running /\ run[r].left # 1
    BY <1>2 DEF LockIInv, LockTypeOK, Tick
  <2>2. Covered(r)
    BY <2>1 DEF LockIInv, LockInv
  <2> QED
    BY <2>1, <2>2, TTLAssumption DEF LockIInv, LockTypeOK, Tick, OneTickLess, Covered
<1>3. ~ overran' => ~ overran
  BY DEF Tick
<1> QED
  BY <1>1, <1>2, <1>3 DEF LockIInv, LockInv

LEMMA LockStepKeeps ==
  ASSUME LockIInv, LockNext \/ UNCHANGED lockVars
  PROVE  LockIInv'
<1>1. CASE LockNext
  BY <1>1, AcquireKeeps, ReleaseKeeps, RunDiesKeeps, TickKeeps DEF LockNext
<1>2. CASE UNCHANGED lockVars
  BY <1>2 DEF lockVars, LockIInv, LockTypeOK, LockInv, Covered
<1> QED
  BY <1>1, <1>2

LEMMA LockInitHolds == LockInit => LockIInv
<1> SUFFICES ASSUME LockInit PROVE LockIInv
  OBVIOUS
<1>1. LockTypeOK
  <2>1. 0 \in 0 .. TTL
    BY TTLAssumption
  <2>2. lock \in [held : BOOLEAN, left : 0 .. TTL] /\ overran \in BOOLEAN
    BY <2>1 DEF LockInit
  <2>3. Stopped \in [running : BOOLEAN, left : 0 .. TTL]
    BY <2>1 DEF Stopped
  <2>4. run \in [Runs -> [running : BOOLEAN, left : 0 .. TTL]]
    BY <2>3 DEF LockInit
  <2> QED
    BY <2>2, <2>4 DEF LockTypeOK
<1>2. \A r \in Runs : ~ run[r].running
  BY DEF LockInit, Stopped
<1> QED
  BY <1>1, <1>2 DEF LockIInv, LockInv

(* Whatever a drain does to the lock is a step of CronLocks.               *)
LEMMA DrainsUseTheLock ==
  ASSUME OutboxNext
  PROVE  LockNext \/ UNCHANGED lockVars
<1>1. ASSUME NEW d \in Drains, Stops(d)
      PROVE  LockNext \/ UNCHANGED lockVars
  BY <1>1 DEF Stops, LockNext, Drains
<1>2. ASSUME NEW d \in Drains, ProcessDies(d)
      PROVE  LockNext \/ UNCHANGED lockVars
  BY <1>2 DEF ProcessDies, LockNext, Drains
<1>3. ASSUME NEW d \in Drains, DrainStep(d)
      PROVE  LockNext \/ UNCHANGED lockVars
  BY <1>1, <1>3 DEF DrainStep, claimOne, DrainEnds, HandleEnds, markDone, markRetryOrFail, sendOn
<1>4. ASSUME NEW r \in Runs, CronDrains(r)
      PROVE  LockNext
  BY <1>4 DEF CronDrains, LockNext
<1> QED
  BY <1>1, <1>2, <1>3, <1>4
     DEF OutboxNext, LockNext, Emit, BackoffElapses, Kick, JournalFails, MarkDoneFails, DrainThrows

(* Executions of the drain job never overlap before some execution outlives *)
(* its lease (CronLocksService.runExclusive).                               *)
THEOREM LeasesNeverOverlap == OutboxSpec => []ExclusiveUnlessOverrun
<1>1. OutboxInit => LockIInv
  BY LockInitHolds DEF OutboxInit
<1>2. LockIInv /\ [OutboxNext]_jobVars => LockIInv'
  <2> SUFFICES ASSUME LockIInv, [OutboxNext]_jobVars PROVE LockIInv'
    OBVIOUS
  <2>1. LockNext \/ UNCHANGED lockVars
    BY DrainsUseTheLock DEF jobVars
  <2> QED
    BY <2>1, LockStepKeeps
<1>3. LockIInv => ExclusiveUnlessOverrun
  BY DEF LockIInv, LockInv, ExclusiveUnlessOverrun
<1> QED
  BY <1>1, <1>2, <1>3, PTL DEF OutboxSpec

-----------------------------------------------------------------------------
(* The drains.                                                             *)

\* Nothing of the event is known to have left: what was accepted was misreported.
Nothing(e) == \A c \in Channels : delivered[e][c] = misreported[e][c]

DrainTypeOK ==
  /\ event \in [Events -> EventRow]
  /\ drain \in [Drains -> DrainContext]
  /\ delivered \in [Events -> [Channels -> Nat]]
  /\ misreported \in [Events -> [Channels -> Nat]]
  /\ unlogged \in [Events -> BOOLEAN]

\* The drain that has an event is alone, and the event is in PROCESSING.
OneHolder ==
  \A d \in Drains : drain[d].at \in {"send", "mark", "retry"} =>
    /\ drain[d].event \in Events
    /\ event[drain[d].event].status = "PROCESSING"
    /\ \A g \in Drains : Holds(g, drain[d].event) => g = d

CapInv ==
  \A e \in Events :
    /\ event[e].status \in {"NONE", "PENDING"} => event[e].attempts < MaxAttempts
    /\ event[e].status = "FAILED" => event[e].attempts = MaxAttempts

\* What has left, by the state of the event and of the drain that holds it.
SentInv ==
  \A e \in Events : ~ unlogged[e] =>
    /\ \A c \in Channels : delivered[e][c] <= misreported[e][c] + 1
    /\ event[e].status \in {"NONE", "PENDING", "FAILED"} => Nothing(e)
    /\ \A d \in Drains : Holds(d, e) =>
         /\ ~ drain[d].sent \/ drain[d].at = "retry" => Nothing(e)
         /\ \A c \in drain[d].left : delivered[e][c] = misreported[e][c]

\* Each claim sends by a channel once at most, and a known key is not served again.
ClaimInv ==
  /\ \A e \in Events, c \in Channels :
       /\ delivered[e][c] <= event[e].attempts
       /\ c \in Keyed => delivered[e][c] <= 1
  /\ \A e \in Events, d \in Drains : Holds(d, e) =>
       \A c \in drain[d].left : delivered[e][c] < event[e].attempts

DrainInv == DrainTypeOK /\ OneHolder /\ CapInv /\ SentInv /\ ClaimInv

LEMMA ContextsExist ==
  /\ Off \in DrainContext /\ Looking \in DrainContext
  /\ Off.at = "off" /\ Looking.at = "claim"
BY DEF Off, Looking, DrainContext

LEMMA DrainInitHolds == OutboxInit => DrainInv
<1> SUFFICES ASSUME OutboxInit PROVE DrainInv
  OBVIOUS
<1>1. DrainTypeOK
  <2>1. 0 \in 0 .. MaxAttempts
    BY MaxAttemptsAssumption
  <2>2. [status |-> "NONE", attempts |-> 0, due |-> TRUE] \in EventRow
    BY <2>1 DEF EventRow
  <2> QED
    BY <2>2, ContextsExist DEF OutboxInit, DrainTypeOK
<1>2. \A d \in Drains : drain[d].at = "off"
  BY DEF OutboxInit, Off
<1>3. CapInv
  BY MaxAttemptsAssumption DEF OutboxInit, CapInv
<1>4. OneHolder
  BY <1>2 DEF OneHolder
<1>5. SentInv
  BY <1>2 DEF OutboxInit, SentInv, Nothing, Holds
<1>6. ClaimInv
  BY <1>2 DEF OutboxInit, ClaimInv, Holds
<1> QED
  BY <1>1, <1>3, <1>4, <1>5, <1>6 DEF DrainInv

(* A step that leaves events, deliveries and journal alone and takes drains  *)
(* only away from events keeps the invariant.                              *)
LEMMA LettingGoKeeps ==
  ASSUME DrainInv, NEW d \in Drains,
         drain' = [drain EXCEPT ![d] = Off] \/ drain' = [drain EXCEPT ![d] = Looking],
         UNCHANGED <<event, delivered, misreported, unlogged>>
  PROVE  DrainInv'
<1>1. DrainTypeOK'
  BY ContextsExist DEF DrainInv, DrainTypeOK
<1>2. \A g \in Drains : drain'[g].at \in {"send", "mark", "retry"} => drain'[g] = drain[g]
  BY ContextsExist DEF DrainInv, DrainTypeOK
<1>3. OneHolder'
  BY <1>2 DEF DrainInv, OneHolder, Holds
<1>4. CapInv'
  BY DEF DrainInv, CapInv
<1>5. SentInv'
  BY <1>2 DEF DrainInv, SentInv, Nothing, Holds
<1>6. ClaimInv'
  BY <1>2 DEF DrainInv, ClaimInv, Holds
<1> QED
  BY <1>1, <1>3, <1>4, <1>5, <1>6 DEF DrainInv

\* An event appears, or its back-off ends.
LEMMA EventMovesKeep ==
  ASSUME DrainInv, NEW e \in Events, Emit(e) \/ BackoffElapses(e)
  PROVE  DrainInv'
<1>1. event[e] \in EventRow /\ DrainTypeOK
  BY DEF DrainInv, DrainTypeOK
<1>2. PICK entry \in EventRow :
        /\ event' = [event EXCEPT ![e] = entry]
        /\ entry.attempts = event[e].attempts
        /\ entry.status = event[e].status \/ (event[e].status = "NONE" /\ entry.status = "PENDING")
  <2>1. CASE Emit(e)
    <3> DEFINE entry == [event[e] EXCEPT !.status = "PENDING"]
    <3>1. entry \in EventRow
      BY <1>1 DEF EventRow
    <3>2. /\ event' = [event EXCEPT ![e] = entry]
          /\ event[e].status = "NONE"
      BY <2>1 DEF Emit
    <3>3. entry.attempts = event[e].attempts /\ entry.status = "PENDING"
      BY <1>1 DEF EventRow
    <3> HIDE DEF entry
    <3> QED
      BY <3>1, <3>2, <3>3
  <2>2. CASE BackoffElapses(e)
    <3> DEFINE entry == [event[e] EXCEPT !.due = TRUE]
    <3>1. entry \in EventRow
      BY <1>1 DEF EventRow
    <3>2. event' = [event EXCEPT ![e] = entry]
      BY <2>2 DEF BackoffElapses
    <3>3. entry.attempts = event[e].attempts /\ entry.status = event[e].status
      BY <1>1 DEF EventRow
    <3> HIDE DEF entry
    <3> WITNESS entry \in EventRow
    <3> QED
      BY <3>1, <3>2, <3>3
  <2> QED
    BY <2>1, <2>2
<1>3. \A f \in Events :
        /\ event'[f].attempts = event[f].attempts
        /\ \/ event'[f].status = event[f].status
           \/ event[f].status = "NONE" /\ event'[f].status = "PENDING"
  BY <1>1, <1>2 DEF DrainTypeOK
<1>4. UNCHANGED <<drain, delivered, misreported, unlogged>>
  BY DEF Emit, BackoffElapses
<1>5. OneHolder'
  BY <1>3, <1>4 DEF DrainInv, OneHolder, Holds
<1>6. CapInv'
  BY <1>3 DEF DrainInv, CapInv
<1>7. SentInv'
  BY <1>3, <1>4 DEF DrainInv, SentInv, Nothing, Holds
<1>8. DrainTypeOK'
  BY <1>1, <1>2, <1>4 DEF DrainTypeOK
<1>9. ClaimInv'
  BY <1>3, <1>4 DEF DrainInv, ClaimInv, Holds
<1> QED
  BY <1>5, <1>6, <1>7, <1>8, <1>9 DEF DrainInv

\* The event claimed waited: nobody held it, and nothing of it had left.
LEMMA ClaimKeeps ==
  ASSUME DrainInv, NEW d \in Drains, claimOne(d)
  PROVE  DrainInv'
<1>1. PICK e \in Events :
        /\ event[e].status = "PENDING"
        /\ event' = [event EXCEPT ![e].status = "PROCESSING", ![e].attempts = @ + 1]
        /\ drain' = [drain EXCEPT ![d] = [Off EXCEPT !.at = "send", !.event = e,
                                                     !.left = Channels]]
  BY DEF claimOne, Claimable
<1>2. UNCHANGED <<delivered, misreported, unlogged>>
  BY DEF claimOne
<1>3. DrainTypeOK /\ OneHolder /\ CapInv /\ SentInv /\ ClaimInv
  BY DEF DrainInv
<1>4. event[e].attempts \in Nat /\ event[e].attempts < MaxAttempts
  BY <1>1, <1>3, MaxAttemptsAssumption DEF DrainTypeOK, CapInv, EventRow
<1>5. DrainTypeOK'
  <2>1. [event[e] EXCEPT !.status = "PROCESSING", !.attempts = @ + 1] \in EventRow
    <3>1. event[e] \in EventRow
      BY <1>3 DEF DrainTypeOK
    <3>2. event[e].attempts + 1 \in 0 .. MaxAttempts
      BY <1>4, MaxAttemptsAssumption
    <3> QED
      BY <3>1, <3>2 DEF EventRow
  <2>2. [Off EXCEPT !.at = "send", !.event = e, !.left = Channels] \in DrainContext
    BY DEF Off, DrainContext
  <2>3. event' = [event EXCEPT ![e] = [event[e] EXCEPT !.status = "PROCESSING",
                                                      !.attempts = @ + 1]]
    BY <1>1
  <2> QED
    BY <1>1, <1>2, <1>3, <2>1, <2>2, <2>3 DEF DrainTypeOK
<1>6. \A g \in Drains : ~ Holds(g, e)
  BY <1>1, <1>3 DEF OneHolder, Holds
<1>7. \A f \in Events \ {e} : event'[f] = event[f]
  BY <1>1, <1>3 DEF DrainTypeOK
<1>8. /\ event'[e].status = "PROCESSING"
      /\ drain'[d].at = "send" /\ drain'[d].event = e
      /\ \A g \in Drains \ {d} : drain'[g] = drain[g]
  BY <1>1, <1>3 DEF DrainTypeOK, EventRow, Off
<1>9. OneHolder'
  BY <1>3, <1>6, <1>7, <1>8 DEF OneHolder, Holds
<1>10. CapInv'
  BY <1>3, <1>7, <1>8 DEF CapInv
<1>11. SentInv'
  <2> SUFFICES ASSUME NEW f \in Events, ~ unlogged'[f]
               PROVE  /\ \A c \in Channels : delivered'[f][c] <= misreported'[f][c] + 1
                      /\ event'[f].status \in {"NONE", "PENDING", "FAILED"} => Nothing(f)'
                      /\ \A g \in Drains : Holds(g, f)' =>
                           /\ ~ drain'[g].sent \/ drain'[g].at = "retry" => Nothing(f)'
                           /\ \A c \in drain'[g].left : delivered'[f][c] = misreported'[f][c]
    BY DEF SentInv
  <2>1. CASE f = e
    <3>1. Nothing(e)
      BY <1>1, <1>2, <1>3, <2>1 DEF SentInv
    <3>2. \A g \in Drains : drain'[g].left \subseteq Channels
      BY <1>5 DEF DrainTypeOK, DrainContext
    <3>3. \A c \in Channels : delivered[e][c] <= misreported[e][c] + 1
      BY <1>2, <1>3, <2>1 DEF SentInv
    <3> QED
      BY <3>1, <3>2, <3>3, <1>2, <2>1 DEF Nothing
  <2>2. CASE f # e
    BY <1>2, <1>3, <1>7, <1>8, <2>2 DEF SentInv, Nothing, Holds
  <2> QED
    BY <2>1, <2>2
<1>12. ClaimInv'
  <2>1. event'[e].attempts = event[e].attempts + 1
    BY <1>1, <1>3 DEF DrainTypeOK, EventRow
  <2>2. \A c \in Channels : /\ delivered[e][c] \in Nat
                            /\ delivered[e][c] <= event[e].attempts
    BY <1>3 DEF ClaimInv, DrainTypeOK
  <2>3. \A f \in Events, c \in Channels :
          /\ delivered'[f][c] <= event'[f].attempts
          /\ c \in Keyed => delivered'[f][c] <= 1
    BY <1>2, <1>3, <1>4, <1>7, <2>1, <2>2 DEF ClaimInv
  <2>4. drain'[d].left \subseteq Channels
    BY <1>5 DEF DrainTypeOK, DrainContext
  <2>5. \A c \in drain'[d].left : delivered'[e][c] < event'[e].attempts
    BY <1>2, <1>4, <2>1, <2>2, <2>4
  <2>6. \A f \in Events, g \in Drains : Holds(g, f)' => \/ f = e /\ g = d
                                                        \/ f # e /\ Holds(g, f) /\ drain'[g] = drain[g]
    BY <1>6, <1>8 DEF Holds
  <2> QED
    BY <1>2, <1>3, <1>7, <2>3, <2>5, <2>6 DEF ClaimInv
<1> QED
  BY <1>5, <1>9, <1>10, <1>11, <1>12 DEF DrainInv

(* A drain that holds an event and tries a channel that is left: nothing was  *)
(* known to have left by that channel, and this claim has not tried it.      *)
LEMMA SendKeeps ==
  ASSUME DrainInv, NEW d \in Drains, NEW c \in Channels, sendOn(d, c)
  PROVE  DrainInv'
<1> DEFINE e == drain[d].event
<1>1. DrainTypeOK /\ OneHolder /\ CapInv /\ SentInv /\ ClaimInv
  BY DEF DrainInv
<1>2. /\ drain[d].at = "send" /\ c \in drain[d].left /\ Holds(d, e)
      /\ e \in Events
      /\ UNCHANGED <<event, unlogged>>
  BY <1>1 DEF sendOn, OneHolder, Holds
<1>3. drain[d] \in DrainContext
  BY <1>1 DEF DrainTypeOK
<1>4. PICK ctx \in DrainContext :
        /\ drain' = [drain EXCEPT ![d] = ctx]
        /\ ctx.at = "send" /\ ctx.event = e /\ ctx.left = drain[d].left \ {c}
        /\ \/ ctx.sent /\ UNCHANGED <<delivered, misreported>>
           \/ /\ ctx.sent /\ ~ Recognised(e, c)
              /\ delivered' = [delivered EXCEPT ![e][c] = @ + 1]
              /\ UNCHANGED misreported
           \/ (ctx.sent <=> drain[d].sent) /\ UNCHANGED <<delivered, misreported>>
           \/ /\ (ctx.sent <=> drain[d].sent) /\ ~ Recognised(e, c)
              /\ delivered' = [delivered EXCEPT ![e][c] = @ + 1]
              /\ misreported' = [misreported EXCEPT ![e][c] = @ + 1]
  <2> DEFINE less == [drain[d] EXCEPT !.left = @ \ {c}]
             passed == [less EXCEPT !.sent = TRUE, !.tried = TRUE]
             failed == [less EXCEPT !.tried = TRUE]
  <2>1. /\ less \in DrainContext /\ passed \in DrainContext /\ failed \in DrainContext
        /\ less.at = "send" /\ passed.at = "send" /\ failed.at = "send"
        /\ less.event = e /\ passed.event = e /\ failed.event = e
        /\ less.left = drain[d].left \ {c} /\ passed.left = less.left /\ failed.left = less.left
        /\ less.sent = drain[d].sent /\ passed.sent /\ failed.sent = drain[d].sent
    BY <1>2, <1>3 DEF DrainContext
  <2>2. \/ drain' = [drain EXCEPT ![d] = less] /\ UNCHANGED <<delivered, misreported>>
        \/ /\ drain' = [drain EXCEPT ![d] = passed]
           /\ \/ UNCHANGED delivered
              \/ ~ Recognised(e, c) /\ delivered' = [delivered EXCEPT ![e][c] = @ + 1]
           /\ UNCHANGED misreported
        \/ /\ drain' = [drain EXCEPT ![d] = failed]
           /\ \/ UNCHANGED <<delivered, misreported>>
              \/ /\ ~ Recognised(e, c)
                 /\ delivered' = [delivered EXCEPT ![e][c] = @ + 1]
                 /\ misreported' = [misreported EXCEPT ![e][c] = @ + 1]
    BY DEF sendOn
  <2> HIDE DEF less, passed, failed
  <2> QED
    BY <2>1, <2>2
<1>5. drain'[d] = ctx /\ \A g \in Drains \ {d} : drain'[g] = drain[g]
  BY <1>1, <1>4 DEF DrainTypeOK
<1>6. DrainTypeOK'
  <2>1. ASSUME NEW table, table \in [Events -> [Channels -> Nat]]
        PROVE  [table EXCEPT ![e][c] = @ + 1] \in [Events -> [Channels -> Nat]]
    <3>1. table[e] \in [Channels -> Nat] /\ table[e][c] + 1 \in Nat
      BY <1>2, <2>1
    <3>2. [table[e] EXCEPT ![c] = table[e][c] + 1] \in [Channels -> Nat]
      BY <3>1
    <3> QED
      BY <2>1, <3>2
  <2>2. delivered' \in [Events -> [Channels -> Nat]]
    <3>1. delivered \in [Events -> [Channels -> Nat]]
      BY <1>1 DEF DrainTypeOK
    <3>2. [delivered EXCEPT ![e][c] = @ + 1] \in [Events -> [Channels -> Nat]]
      BY <2>1, <3>1
    <3>3. delivered' = delivered \/ delivered' = [delivered EXCEPT ![e][c] = @ + 1]
      BY <1>4
    <3> QED
      BY <3>1, <3>2, <3>3
  <2>3. misreported' \in [Events -> [Channels -> Nat]]
    <3>1. misreported \in [Events -> [Channels -> Nat]]
      BY <1>1 DEF DrainTypeOK
    <3>2. [misreported EXCEPT ![e][c] = @ + 1] \in [Events -> [Channels -> Nat]]
      BY <2>1, <3>1
    <3>3. misreported' = misreported \/ misreported' = [misreported EXCEPT ![e][c] = @ + 1]
      BY <1>4
    <3> QED
      BY <3>1, <3>2, <3>3
  <2>4. drain' \in [Drains -> DrainContext]
    BY <1>1, <1>4 DEF DrainTypeOK
  <2> QED
    BY <1>1, <1>2, <2>2, <2>3, <2>4 DEF DrainTypeOK
<1>7. OneHolder'
  BY <1>1, <1>2, <1>4, <1>5 DEF OneHolder, Holds
<1>8. CapInv'
  BY <1>1, <1>2 DEF CapInv
<1>9. /\ \A f \in Events, ch \in Channels : f # e \/ ch # c =>
           delivered'[f][ch] = delivered[f][ch] /\ misreported'[f][ch] = misreported[f][ch]
      /\ \/ /\ delivered'[e][c] = delivered[e][c]
            /\ misreported'[e][c] = misreported[e][c]
            /\ ctx.sent \/ (ctx.sent <=> drain[d].sent)
         \/ /\ ~ Recognised(e, c)
            /\ delivered'[e][c] = delivered[e][c] + 1
            /\ \/ misreported'[e][c] = misreported[e][c] /\ ctx.sent
               \/ misreported'[e][c] = misreported[e][c] + 1 /\ (ctx.sent <=> drain[d].sent)
  BY <1>1, <1>2, <1>4 DEF DrainTypeOK
<1>10. /\ delivered[e][c] \in Nat /\ misreported[e][c] \in Nat /\ event[e].attempts \in Nat
       /\ ctx.left \subseteq drain[d].left /\ c \notin ctx.left
       /\ drain[d].left \subseteq Channels
  BY <1>1, <1>2, <1>3, <1>4, MaxAttemptsAssumption DEF DrainTypeOK, EventRow, DrainContext
<1>11. \A f \in Events, g \in Drains : Holds(g, f)' =>
         /\ Holds(g, f)
         /\ f = e => g = d
         /\ f # e => g # d /\ drain'[g] = drain[g]
  BY <1>1, <1>2, <1>4, <1>5 DEF OneHolder, Holds
<1>12. SentInv'
  <2> SUFFICES ASSUME NEW f \in Events, ~ unlogged[f]
               PROVE  /\ \A ch \in Channels : delivered'[f][ch] <= misreported'[f][ch] + 1
                      /\ event[f].status \in {"NONE", "PENDING", "FAILED"} => Nothing(f)'
                      /\ \A g \in Drains : Holds(g, f)' =>
                           /\ ~ drain'[g].sent \/ drain'[g].at = "retry" => Nothing(f)'
                           /\ \A ch \in drain'[g].left : delivered'[f][ch] = misreported'[f][ch]
    BY <1>2 DEF SentInv
  <2>1. CASE f # e
    <3>1. \A ch \in Channels : /\ delivered'[f][ch] = delivered[f][ch]
                               /\ misreported'[f][ch] = misreported[f][ch]
      BY <1>9, <2>1
    <3>2. \A g \in Drains : drain[g].left \subseteq Channels
      BY <1>1 DEF DrainTypeOK, DrainContext
    <3>3. /\ \A ch \in Channels : delivered[f][ch] <= misreported[f][ch] + 1
          /\ event[f].status \in {"NONE", "PENDING", "FAILED"} => Nothing(f)
          /\ \A g \in Drains : Holds(g, f) =>
               /\ ~ drain[g].sent \/ drain[g].at = "retry" => Nothing(f)
               /\ \A ch \in drain[g].left : delivered[f][ch] = misreported[f][ch]
      BY <1>1 DEF SentInv
    <3>4. Nothing(f) => Nothing(f)'
      BY <3>1 DEF Nothing
    <3> QED
      BY <1>11, <2>1, <3>1, <3>2, <3>3, <3>4
  <2>2. CASE f = e
    <3>1. event[f].status = "PROCESSING"
      BY <1>1, <1>2, <2>2 DEF OneHolder
    <3>2. /\ \A ch \in Channels : delivered[e][ch] <= misreported[e][ch] + 1
          /\ ~ drain[d].sent => Nothing(e)
          /\ \A ch \in drain[d].left : delivered[e][ch] = misreported[e][ch]
      BY <1>1, <1>2, <2>2 DEF SentInv
    <3>3. \A ch \in Channels : delivered'[e][ch] <= misreported'[e][ch] + 1
      BY <1>2, <1>9, <1>10, <3>2
    <3>4. ~ ctx.sent => Nothing(e)'
      <4> SUFFICES ASSUME ~ ctx.sent, NEW ch \in Channels
                   PROVE  delivered'[e][ch] = misreported'[e][ch]
        BY <1>2, <1>4 DEF Nothing
      <4>1. ~ drain[d].sent /\ delivered[e][ch] = misreported[e][ch]
        BY <1>9, <3>2 DEF Nothing
      <4> QED
        BY <1>2, <1>9, <1>10, <4>1
    <3>5. \A ch \in ctx.left : delivered'[e][ch] = misreported'[e][ch]
      BY <1>2, <1>9, <1>10, <3>2
    <3> QED
      BY <1>4, <1>5, <1>11, <2>2, <3>1, <3>3, <3>4, <3>5
  <2> QED
    BY <2>1, <2>2
<1>13. ClaimInv'
  <2>1. delivered[e][c] < event[e].attempts
    BY <1>1, <1>2 DEF ClaimInv
  <2>2. ASSUME NEW f \in Events, NEW ch \in Channels
        PROVE  /\ delivered'[f][ch] <= event'[f].attempts
               /\ ch \in Keyed => delivered'[f][ch] <= 1
    <3>1. delivered[f][ch] <= event[f].attempts /\ (ch \in Keyed => delivered[f][ch] <= 1)
      BY <1>1 DEF ClaimInv
    <3>2. CASE f = e /\ ch = c
      BY <1>2, <1>9, <1>10, <2>1, <3>1, <3>2 DEF Recognised
    <3>3. CASE f # e \/ ch # c
      BY <1>2, <1>9, <3>1, <3>3
    <3> QED
      BY <3>2, <3>3
  <2>3. ASSUME NEW f \in Events, NEW g \in Drains, Holds(g, f)', NEW ch \in drain'[g].left
        PROVE  delivered'[f][ch] < event'[f].attempts
    <3>1. Holds(g, f) /\ ch \in drain[g].left /\ (f # e \/ ch # c)
      BY <1>4, <1>5, <1>10, <1>11, <2>3
    <3>2. ch \in Channels
      BY <1>1, <3>1 DEF DrainTypeOK, DrainContext
    <3> QED
      BY <1>1, <1>2, <1>9, <3>1, <3>2 DEF ClaimInv
  <2> QED
    BY <2>2, <2>3 DEF ClaimInv
<1> QED
  BY <1>6, <1>7, <1>8, <1>12, <1>13 DEF DrainInv

(* The drain goes on with the same event, which stays in PROCESSING: towards *)
(* another attempt only if nothing has left, or if the journal is marked.   *)
LEMMA MovesKeep ==
  ASSUME DrainInv, NEW d \in Drains, HandleEnds(d) \/ JournalFails(d) \/ MarkDoneFails(d)
  PROVE  DrainInv'
<1> DEFINE e == drain[d].event
<1>1. DrainTypeOK /\ OneHolder /\ CapInv /\ SentInv /\ ClaimInv
  BY DEF DrainInv
<1>2. /\ drain[d].at \in {"send", "mark"} /\ Holds(d, e) /\ e \in Events
      /\ UNCHANGED <<event, delivered, misreported>>
  BY <1>1 DEF HandleEnds, JournalFails, MarkDoneFails, OneHolder, Holds
<1>3. PICK p \in {"mark", "retry"} :
        /\ drain' = [drain EXCEPT ![d].at = p]
        /\ \/ unlogged' = unlogged /\ (p = "retry" => ~ drain[d].sent)
           \/ unlogged' = [unlogged EXCEPT ![e] = TRUE]
  BY DEF HandleEnds, JournalFails, MarkDoneFails
<1>4. /\ drain'[d].at = p /\ drain'[d].event = e
      /\ drain'[d].left = drain[d].left /\ drain'[d].sent = drain[d].sent
      /\ drain'[d] \in DrainContext
      /\ \A g \in Drains \ {d} : drain'[g] = drain[g]
  <2>1. drain[d] \in DrainContext
    BY <1>1 DEF DrainTypeOK
  <2>2. [drain[d] EXCEPT !.at = p] \in DrainContext
    BY <2>1 DEF DrainContext
  <2>3. drain' = [drain EXCEPT ![d] = [drain[d] EXCEPT !.at = p]]
    BY <1>3
  <2>4. drain'[d] = [drain[d] EXCEPT !.at = p] /\ \A g \in Drains \ {d} : drain'[g] = drain[g]
    BY <1>1, <2>3 DEF DrainTypeOK
  <2> QED
    BY <2>1, <2>2, <2>4 DEF DrainContext
<1>5. /\ DrainTypeOK'
      /\ \A f \in Events : ~ unlogged'[f] => ~ unlogged[f]
      /\ unlogged'[e] \/ (p = "retry" => ~ drain[d].sent)
  BY <1>1, <1>2, <1>3, <1>4 DEF DrainTypeOK
<1>6. \A g \in Drains, f \in Events : Holds(g, f)' <=> Holds(g, f)
  BY <1>2, <1>4 DEF Holds
<1>7. OneHolder'
  BY <1>1, <1>2, <1>4, <1>6 DEF OneHolder, Holds
<1>8. CapInv'
  BY <1>1, <1>2 DEF CapInv
<1>9. SentInv'
  BY <1>1, <1>2, <1>4, <1>5, <1>6 DEF SentInv, Nothing, Holds
<1>10. ClaimInv'
  <2>1. \A g \in Drains : drain'[g].left = drain[g].left
    BY <1>4
  <2> QED
    BY <1>1, <1>2, <1>6, <2>1 DEF ClaimInv
<1> QED
  BY <1>5, <1>7, <1>8, <1>9, <1>10 DEF DrainInv

\* The outcome is written: the event leaves PROCESSING and the drain lets go.
LEMMA OutcomeKeeps ==
  ASSUME DrainInv, NEW d \in Drains, markDone(d) \/ markRetryOrFail(d)
  PROVE  DrainInv'
<1> DEFINE e == drain[d].event
<1>1. DrainTypeOK /\ OneHolder /\ CapInv /\ SentInv /\ ClaimInv
  BY DEF DrainInv
<1>2. /\ drain[d].at \in {"mark", "retry"} /\ Holds(d, e) /\ e \in Events
      /\ drain' = [drain EXCEPT ![d] = Looking]
      /\ UNCHANGED <<delivered, misreported, unlogged>>
  BY <1>1 DEF markDone, markRetryOrFail, OneHolder, Holds
<1>3. /\ event[e] \in EventRow /\ event[e].attempts \in 0 .. MaxAttempts
  BY <1>1, <1>2 DEF DrainTypeOK, EventRow
<1>4. PICK entry \in EventRow :
        /\ event' = [event EXCEPT ![e] = entry]
        /\ entry.attempts = event[e].attempts
        /\ \/ entry.status = "DONE"
           \/ drain[d].at = "retry" /\ entry.status = "FAILED" /\ entry.attempts = MaxAttempts
           \/ drain[d].at = "retry" /\ entry.status = "PENDING" /\ entry.attempts < MaxAttempts
  <2>1. CASE markDone(d)
    <3> DEFINE entry == [event[e] EXCEPT !.status = "DONE"]
    <3>1. entry \in EventRow
      BY <1>3 DEF EventRow
    <3>2. /\ entry.status = "DONE" /\ entry.attempts = event[e].attempts
          /\ event' = [event EXCEPT ![e] = entry]
      BY <1>3, <2>1 DEF markDone, EventRow
    <3> HIDE DEF entry
    <3> WITNESS entry \in EventRow
    <3> QED
      BY <3>1, <3>2
  <2>2. CASE markRetryOrFail(d) /\ event[e].attempts >= MaxAttempts
    <3> DEFINE entry == [event[e] EXCEPT !.status = "FAILED"]
    <3>1. entry \in EventRow
      BY <1>3 DEF EventRow
    <3>2. /\ entry.status = "FAILED" /\ entry.attempts = event[e].attempts
          /\ event' = [event EXCEPT ![e] = entry]
      BY <1>3, <2>2 DEF markRetryOrFail, EventRow
    <3>3. entry.attempts = MaxAttempts /\ drain[d].at = "retry"
      BY <1>3, <2>2, MaxAttemptsAssumption DEF markRetryOrFail, EventRow
    <3> HIDE DEF entry
    <3> WITNESS entry \in EventRow
    <3> QED
      BY <3>1, <3>2, <3>3
  <2>3. CASE markRetryOrFail(d) /\ ~ (event[e].attempts >= MaxAttempts)
    <3> DEFINE entry == [event[e] EXCEPT !.status = "PENDING", !.due = FALSE]
    <3>1. entry \in EventRow
      BY <1>3 DEF EventRow
    <3>2. /\ entry.status = "PENDING" /\ entry.attempts = event[e].attempts
          /\ event' = [event EXCEPT ![e] = entry]
      BY <1>3, <2>3 DEF markRetryOrFail, EventRow
    <3>3. entry.attempts < MaxAttempts /\ drain[d].at = "retry"
      BY <1>3, <2>3, MaxAttemptsAssumption DEF markRetryOrFail, EventRow
    <3> HIDE DEF entry
    <3> WITNESS entry \in EventRow
    <3> QED
      BY <3>1, <3>2, <3>3
  <2> QED
    BY <2>1, <2>2, <2>3
<1>5. /\ drain'[d].at = "claim"
      /\ \A g \in Drains \ {d} : drain'[g] = drain[g]
      /\ event'[e] = entry /\ \A f \in Events \ {e} : event'[f] = event[f]
  BY <1>1, <1>2, <1>4, ContextsExist DEF DrainTypeOK
<1>6. DrainTypeOK'
  BY <1>1, <1>2, <1>4, ContextsExist DEF DrainTypeOK
<1>7. \A g \in Drains, f \in Events : Holds(g, f)' => Holds(g, f) /\ g # d /\ f # e
  BY <1>1, <1>2, <1>5 DEF OneHolder, Holds
<1>8. OneHolder'
  BY <1>1, <1>5, <1>7 DEF OneHolder, Holds
<1>9. CapInv'
  BY <1>1, <1>4, <1>5 DEF CapInv
<1>10. SentInv'
  <2>1. drain[d].at = "retry" /\ ~ unlogged[e] => Nothing(e)
    BY <1>1, <1>2 DEF SentInv
  <2> QED
    BY <1>1, <1>2, <1>4, <1>5, <1>7, <2>1 DEF SentInv, Nothing
<1>11. ClaimInv'
  <2>1. \A f \in Events : event'[f].attempts = event[f].attempts
    BY <1>4, <1>5
  <2> QED
    BY <1>1, <1>2, <1>5, <1>7, <2>1 DEF ClaimInv
<1> QED
  BY <1>6, <1>8, <1>9, <1>10, <1>11 DEF DrainInv

LEMMA DrainStepKeeps ==
  ASSUME DrainInv, [OutboxNext]_jobVars
  PROVE  DrainInv'
<1>1. CASE UNCHANGED outboxVars
  BY <1>1 DEF outboxVars, DrainInv, DrainTypeOK, OneHolder, CapInv, SentInv, ClaimInv, Nothing, Holds
<1>2. ASSUME NEW k \in Kicks, Kick(k) PROVE DrainInv'
  BY <1>2, LettingGoKeeps DEF Kick, Drains
<1>3. ASSUME NEW r \in Runs, CronDrains(r) PROVE DrainInv'
  BY <1>3, LettingGoKeeps DEF CronDrains, Drains
<1>4. ASSUME NEW d \in Drains, DrainStep(d) PROVE DrainInv'
  BY <1>4, LettingGoKeeps, ClaimKeeps, SendKeeps, MovesKeep, OutcomeKeeps
     DEF DrainStep, DrainEnds, Stops
<1>5. ASSUME NEW d \in Drains, JournalFails(d) \/ MarkDoneFails(d) PROVE DrainInv'
  BY <1>5, MovesKeep
<1>6. ASSUME NEW d \in Drains, DrainThrows(d) \/ ProcessDies(d) PROVE DrainInv'
  BY <1>6, LettingGoKeeps DEF DrainThrows, Stops, ProcessDies
<1> QED
  BY <1>1, <1>2, <1>3, <1>4, <1>5, <1>6, EventMovesKeep DEF OutboxNext, jobVars, outboxVars

LEMMA DrainInvariant == OutboxSpec => []DrainInv
<1>1. DrainInv /\ [OutboxNext]_jobVars => DrainInv'
  BY DrainStepKeeps
<1> QED
  BY <1>1, DrainInitHolds, PTL DEF OutboxSpec

(* A channel carries an event again only where the send before was reported  *)
(* as failed though the gateway had accepted it (or the database refused to   *)
(* record it), never oftener than it was claimed, and never by a gateway      *)
(* that recognises the key: claimOne, MessagingDispatcher.handle and sendOn.  *)
THEOREM EventsLeaveOnce == OutboxSpec => []NoDoubleDelivery
<1>1. DrainInv => NoDoubleDelivery
  BY DEF DrainInv, SentInv, ClaimInv, NoDoubleDelivery
<1> QED
  BY <1>1, DrainInvariant, PTL

(* An event is given up exactly when its attempts are used up               *)
(* (markRetryOrFail).                                                      *)
THEOREM AttemptsAreCapped == OutboxSpec => []AbandonedAtTheCap
<1>1. DrainInv => AbandonedAtTheCap
  BY DEF DrainInv, CapInv, AbandonedAtTheCap
<1> QED
  BY <1>1, DrainInvariant, PTL

-----------------------------------------------------------------------------
(* Sessions.                                                               *)

TokenRow ==
  [state : {"unissued", "live", "revoked"}, by : {"nobody", "rotation", "alarm", "password"},
   since : Nat, crossed : SUBSET Nat]
SomeToken == Token \cup {None}
AppRecord == [state : {"closed", "restoring", "open"}, memory : SomeToken, vault : SomeToken]
CallRecord ==
  [at : {"idle", "asked", "joined"} \cup Renewing,
   kind : {"none", "login", "refresh", "restore", "logout"}, token : SomeToken, since : Nat,
   crossed : SUBSET Nat, deaf : BOOLEAN]

SessionTypeOK ==
  /\ token \in [Token -> TokenRow]
  /\ issued \in 0 .. MaxTokens
  /\ epoch \in Nat
  /\ isActive \in BOOLEAN
  /\ app \in [Devices -> AppRecord]
  /\ call \in [Devices -> [Slots -> CallRecord]]

Renews(c) == c.kind \in {"refresh", "restore"} /\ c.at \in Renewing

\* A device has a token in its memory, in its vault, or in a request.
Has(d, t) == app[d].memory = t \/ app[d].vault = t \/ \E q \in Slots : call[d][q].token = t

\* A token was rotated away: whoever presents it is taken for a thief.
IsRotated(t) == t # None /\ token[t].by = "rotation"

\* A token is known to one device.
Owner(d) ==
  \A t \in Token : Has(d, t) => t <= issued /\ \A e \in Devices \ {d} : ~ Has(e, t)

\* The state of the application tells which requests it awaits.
Awaits(d) ==
  \A q \in Slots :
    LET c == call[d][q] IN
    /\ c.kind = "none" <=> c.at \in {"idle", "asked", "joined"}
    /\ c.at \in {"checked", "renewed"} => c.kind \in {"login", "refresh", "restore"}
    /\ Renews(c) => c.token # None
    /\ c.deaf => c.at \in Renewing
    /\ ~ c.deaf /\ c.at # "idle" =>
         app[d].state = IF c.kind = "restore" THEN "restoring" ELSE "open"
    /\ ~ c.deaf /\ c.kind = "restore" =>
         \A p \in Slots \ {q} : call[d][p].kind = "restore" => call[d][p].deaf

\* The token of a renewal is in the answer only.
Fresh(d) ==
  \A q \in Slots :
    LET t == call[d][q].token IN
    call[d][q].at = "renewed" =>
      /\ t # None /\ app[d].memory # t /\ app[d].vault # t
      /\ \A p \in Slots \ {q} : call[d][p].token # t

\* The devices a renewal has not reached, or has not reached for good.
Excused == answerLost \cup unsaved

\* A device that has heard every renewal has one under way at most, and holds a
\* token rotated away only while the answer that replaces it is arriving.
Heard(d) ==
  /\ \A q \in Slots :
       /\ Renews(call[d][q]) =>
            /\ ~ call[d][q].deaf /\ call[d][q].at # "failed"
            /\ ~ IsRotated(call[d][q].token)
            /\ \A p \in Slots \ {q} : ~ Renews(call[d][p])
       /\ call[d][q].at = "renewed" => ~ IsRotated(call[d][q].token)
  /\ IsRotated(app[d].memory) \/ IsRotated(app[d].vault) =>
       \E q \in Slots : Renews(call[d][q]) /\ call[d][q].at = "renewed"

DeviceOK(d) == Owner(d) /\ Awaits(d) /\ Fresh(d) /\ (d \notin Excused => Heard(d))

SessionInv ==
  /\ SessionTypeOK
  /\ \A d \in Devices : DeviceOK(d)
  /\ NoSelfInflictedAlarm
 

\* What one device does leaves the others alone.
LEMMA OneDevice ==
  ASSUME SessionInv, SessionTypeOK', NEW d \in Devices,
         \A e \in Devices \ {d} : app'[e] = app[e] /\ call'[e] = call[e],
         Excused \subseteq Excused', Excused' \subseteq Excused \cup {d},
         issued <= issued',
         \A t \in Token : Has(d, t)' => Has(d, t) \/ (t = issued + 1 /\ issued' = t),
         \A t \in Token : IsRotated(t)' => IsRotated(t) \/ Has(d, t),
         Awaits(d)', Fresh(d)', d \notin Excused' => Heard(d)',
         alarmed' \subseteq alarmed \cup Excused'
  PROVE  SessionInv'
  <1>0. /\ SessionTypeOK /\ NoSelfInflictedAlarm
        /\ \A e \in Devices : Owner(e) /\ Awaits(e) /\ Fresh(e) /\ (e \notin Excused => Heard(e))
    BY DEF SessionInv, DeviceOK
  <1>1. \A e \in Devices \ {d} : \A t : Has(e, t)' = Has(e, t)
    BY DEF Has
  <1>2. ASSUME NEW e \in Devices PROVE Owner(e)'
    <2>1. CASE e = d
      BY <1>0, <1>1, <2>1 DEF Owner, SessionTypeOK, Token
    <2>2. CASE e # d
      BY <1>0, <1>1, <2>2 DEF Owner, SessionTypeOK, Token
    <2>3. QED BY <2>1, <2>2
  <1>3. ASSUME NEW e \in Devices \ {d}
        PROVE  Awaits(e)' /\ Fresh(e)' /\ (e \notin Excused' => Heard(e)')
    <2>1. Awaits(e)' /\ Fresh(e)'
      BY <1>0 DEF Awaits, Fresh
    <2>2. ASSUME NEW t \in SomeToken, IsRotated(t)', Has(e, t) PROVE IsRotated(t)
      <3>1. t \in Token
        BY <2>2 DEF SomeToken, IsRotated
      <3>2. ~ Has(d, t)
        BY <1>0, <2>2, <3>1 DEF Owner
      <3>3. QED BY <2>2, <3>1, <3>2
    <2>3. ASSUME e \notin Excused' PROVE Heard(e)'
      <3>1. Heard(e)
        BY <1>0, <2>3
      <3>2. /\ app[e].memory \in SomeToken /\ app[e].vault \in SomeToken
            /\ \A q \in Slots : call[e][q].token \in SomeToken
        BY <1>0 DEF SessionTypeOK, AppRecord, CallRecord
      <3>3. /\ app'[e] = app[e] /\ call'[e] = call[e]
            /\ IsRotated(app[e].memory)' => IsRotated(app[e].memory)
            /\ IsRotated(app[e].vault)' => IsRotated(app[e].vault)
            /\ \A q \in Slots : IsRotated(call[e][q].token)' => IsRotated(call[e][q].token)
        BY <2>2, <3>2 DEF Has, IsRotated
      <3>4. QED BY <3>1, <3>3 DEF Heard, Renews
    <2>4. QED BY <2>1, <2>3
  <1>4. NoSelfInflictedAlarm'
    BY <1>0 DEF NoSelfInflictedAlarm, Excused
  <1>5. QED BY <1>2, <1>3, <1>4 DEF SessionInv, DeviceOK

\* A request of a device becomes c; nothing else of the device changes.
Becomes(d, q, c) ==
  /\ call' = [call EXCEPT ![d] = [call[d] EXCEPT ![q] = c]]
  /\ app' = app

LEMMA OneRequest ==
  ASSUME SessionTypeOK, NEW d \in Devices, NEW q \in Slots, NEW c \in CallRecord, Becomes(d, q, c)
  PROVE  /\ call' \in [Devices -> [Slots -> CallRecord]]
         /\ app' \in [Devices -> AppRecord]
         /\ \A e \in Devices \ {d} : app'[e] = app[e] /\ call'[e] = call[e]
         /\ app'[d] = app[d]
         /\ \A p \in Slots : call'[d][p] = IF p = q THEN c ELSE call[d][p]
  BY DEF SessionTypeOK, Becomes

\* No token is issued and none is rotated.
TokensKept ==
  /\ token' \in [Token -> TokenRow]
  /\ \A t \in Token : token'[t].by = "rotation" => token[t].by = "rotation"
  /\ issued' = issued /\ epoch' \in Nat /\ isActive' \in BOOLEAN

LEMMA OneDeviceNoRotation ==
  ASSUME SessionInv, TokensKept, NEW d \in Devices,
         NEW a \in AppRecord, app' = [app EXCEPT ![d] = a],
         NEW f \in [Slots -> CallRecord], call' = [call EXCEPT ![d] = f],
         Excused \subseteq Excused', Excused' \subseteq Excused \cup {d},
         \A t \in Token : Has(d, t)' => Has(d, t),
         Awaits(d)', Fresh(d)', d \notin Excused' => Heard(d)',
         alarmed' \subseteq alarmed \cup Excused'
  PROVE  SessionInv'
  <1>1. SessionTypeOK /\ issued \in Nat
    BY SessionBounds DEF SessionInv, SessionTypeOK
  <1>2. SessionTypeOK' /\ \A e \in Devices \ {d} : app'[e] = app[e] /\ call'[e] = call[e]
    BY <1>1 DEF SessionTypeOK, TokensKept
  <1>3. \A t \in Token : IsRotated(t)' => IsRotated(t)
    BY DEF TokensKept, IsRotated
  <1>4. issued <= issued'
    BY <1>1 DEF TokensKept
  <1>5. QED BY <1>2, <1>3, <1>4, OneDevice

LEMMA NothingWritten ==
  ASSUME SessionInv, UNCHANGED <<token, issued, epoch, isActive>>
  PROVE  TokensKept
  BY DEF SessionInv, SessionTypeOK, TokensKept

LEMMA EveryoneRevoked ==
  ASSUME SessionInv, NEW reason \in {"alarm", "password"}, token' = RevokeAll(reason),
         issued' = issued, epoch' \in Nat, isActive' \in BOOLEAN
  PROVE  TokensKept
  <1>1. token \in [Token -> TokenRow]
    BY DEF SessionInv, SessionTypeOK
  <1>2. \A t \in Token : /\ token'[t] \in TokenRow /\ token'[t].state # "live"
                         /\ token'[t].by = "rotation" => token[t].by = "rotation"
    BY <1>1 DEF RevokeAll, TokenRow
  <1>3. QED BY <1>2 DEF RevokeAll, TokensKept

\* A handler answers, or the request is lost, and no token is issued.
LEMMA RequestAnswered ==
  ASSUME SessionInv, TokensKept, NEW d \in Devices, NEW q \in Slots, NEW c \in CallRecord,
         Becomes(d, q, c), Excused' = Excused, alarmed' \subseteq alarmed \cup Excused,
         \/ /\ call[d][q].at = "sent"
            /\ c.at \in {"checked", "denied"} /\ c.kind = call[d][q].kind
            /\ c.token = call[d][q].token /\ c.deaf = call[d][q].deaf
            /\ c.at = "checked" => c.kind # "logout"
         \/ c = Idle /\ call[d][q].deaf
  PROVE  SessionInv'
  <1>0. SessionTypeOK /\ DeviceOK(d) /\ call[d][q] \in CallRecord
    BY DEF SessionInv, SessionTypeOK
  <1>1. /\ call' \in [Devices -> [Slots -> CallRecord]]
        /\ app'[d] = app[d] /\ app[d] \in AppRecord
        /\ \A p \in Slots : call'[d][p] = IF p = q THEN c ELSE call[d][p]
    BY <1>0, OneRequest DEF SessionTypeOK
  <1>2. Awaits(d)'
    <2>0. Awaits(d)
      BY <1>0 DEF DeviceOK
    <2>1. SUFFICES ASSUME NEW p \in Slots
          PROVE  LET b == call'[d][p] IN
                 /\ b.kind = "none" <=> b.at \in {"idle", "asked", "joined"}
                 /\ b.at \in {"checked", "renewed"} => b.kind \in {"login", "refresh", "restore"}
                 /\ Renews(b) => b.token # None
                 /\ b.deaf => b.at \in Renewing
                 /\ ~ b.deaf /\ b.at # "idle" =>
                      app[d].state = IF b.kind = "restore" THEN "restoring" ELSE "open"
                 /\ ~ b.deaf /\ b.kind = "restore" =>
                      \A r \in Slots \ {p} : call'[d][r].kind = "restore" => call'[d][r].deaf
      BY <1>1 DEF Awaits, Renews
    <2>2. CASE c = Idle /\ call[d][q].deaf
      BY <1>1, <2>0, <2>2 DEF Awaits, Renews, Renewing, Idle
    <2>3. CASE /\ call[d][q].at = "sent"
               /\ c.at \in {"checked", "denied"} /\ c.kind = call[d][q].kind
               /\ c.token = call[d][q].token /\ c.deaf = call[d][q].deaf
               /\ c.at = "checked" => c.kind # "logout"
      <3>1. call[d][q].kind # "none"
        BY <2>0, <2>3 DEF Awaits
      <3>2. CASE p = q
        <4>1. call'[d][p] = c
          BY <1>1, <3>2
        <4>2. \A r \in Slots \ {p} : call'[d][r] = call[d][r]
          BY <1>1, <3>2
        <4>3. /\ call[d][q].token # None \/ ~ Renews(call[d][q])
              /\ ~ call[d][q].deaf =>
                   app[d].state = IF call[d][q].kind = "restore" THEN "restoring" ELSE "open"
              /\ ~ call[d][q].deaf /\ call[d][q].kind = "restore" =>
                   \A r \in Slots \ {q} : call[d][r].kind = "restore" => call[d][r].deaf
              /\ call[d][q].kind \in {"none", "login", "refresh", "restore", "logout"}
          BY <1>0, <2>0, <2>3 DEF Awaits, CallRecord
        <4>4. c.kind # "none" /\ (Renews(c) => c.token # None)
          BY <2>3, <3>1, <4>3 DEF Renews, Renewing
        <4>5. c.at = "checked" => c.kind \in {"login", "refresh", "restore"}
          BY <2>3, <3>1, <4>3
        <4>6. c.at \in Renewing /\ c.at \notin {"idle", "asked", "joined", "renewed"}
          BY <2>3 DEF Renewing
        <4>7. ~ c.deaf /\ c.kind = "restore" =>
                \A r \in Slots \ {p} : call'[d][r].kind = "restore" => call'[d][r].deaf
          BY <2>3, <3>2, <4>2, <4>3
        <4>8. QED BY <2>3, <4>1, <4>3, <4>4, <4>5, <4>6, <4>7
      <3>3. CASE p # q
        BY <1>1, <2>0, <2>3, <3>3 DEF Awaits, Renews
      <3>4. QED BY <3>2, <3>3
    <2>4. QED BY <2>2, <2>3
  <1>3. Fresh(d)'
    BY <1>0, <1>1 DEF DeviceOK, Fresh, Idle, None
  <1>4. ASSUME d \notin Excused PROVE Heard(d)'
    <2>0. Heard(d) /\ Awaits(d)
      BY <1>0, <1>4 DEF DeviceOK
    <2>1. \A p \in Slots :
            Renews(call'[d][p]) =>
              /\ Renews(call[d][p])
              /\ call'[d][p].token = call[d][p].token /\ call'[d][p].deaf = call[d][p].deaf
              /\ p = q => call'[d][p].at # "failed"
      BY <1>1 DEF Renews, Renewing, Idle
    <2>2. \A p \in Slots : call[d][p].at = "renewed" /\ Renews(call[d][p]) => call'[d][p] = call[d][p]
      BY <1>1, <2>0 DEF Heard
    <2>3. \A p \in Slots : call'[d][p].at = "renewed" => call'[d][p] = call[d][p]
      BY <1>1 DEF Idle
    <2>4. ASSUME NEW t \in SomeToken, IsRotated(t)' PROVE IsRotated(t)
      BY <2>4 DEF IsRotated, TokensKept, SomeToken, None
    <2>5. /\ app[d].memory \in SomeToken /\ app[d].vault \in SomeToken
          /\ \A p \in Slots : call[d][p].token \in SomeToken
      BY <1>0 DEF SessionTypeOK, AppRecord, CallRecord
    <2>6. /\ IsRotated(app[d].memory)' => IsRotated(app[d].memory)
          /\ IsRotated(app[d].vault)' => IsRotated(app[d].vault)
          /\ \A p \in Slots : call'[d][p].token = call[d][p].token /\ IsRotated(call[d][p].token)'
               => IsRotated(call[d][p].token)
      BY <1>1, <2>4, <2>5 DEF IsRotated
    <2>7. QED BY <1>1, <2>0, <2>1, <2>2, <2>3, <2>6 DEF Heard
  <1>5. \A t \in Token : Has(d, t)' => Has(d, t)
    BY <1>1 DEF Has, Idle, None, Token
  <1>6. app' = [app EXCEPT ![d] = app[d]]
    BY <1>0 DEF Becomes, SessionTypeOK
  <1>7. [call[d] EXCEPT ![q] = c] \in [Slots -> CallRecord]
    BY <1>0 DEF SessionTypeOK
  <1>8. QED BY <1>1, <1>2, <1>3, <1>4, <1>5, <1>6, <1>7, OneDeviceNoRotation DEF Becomes

LEMMA CallChanges ==
  ASSUME SessionTypeOK, NEW d \in Devices, NEW q \in Slots, NEW at
  PROVE  /\ call[d][q] \in CallRecord
         /\ [call EXCEPT ![d][q].at = at]
              = [call EXCEPT ![d] = [call[d] EXCEPT ![q] = [call[d][q] EXCEPT !.at = at]]]
         /\ [call EXCEPT ![d][q].at = "checked", ![d][q].since = epoch]
              = [call EXCEPT ![d] = [call[d] EXCEPT ![q] = [call[d][q] EXCEPT !.at = "checked", !.since = epoch]]]
  BY DEF SessionTypeOK, CallRecord

\* What refresh has read of the row of the token presented.
Continued(c) ==
  [c EXCEPT !.at = "checked", !.since = token[c.token].since, !.crossed = token[c.token].crossed]

LEMMA AnsweringKeeps ==
  ASSUME SessionInv, NEW d \in Devices, NEW q \in Slots,
         \/ loginChecks(d, q) \/ refreshChecks(d, q) \/ refreshAlarms(d, q)
         \/ refreshExpired(d, q) \/ logoutRefused(d, q) \/ forgotten(d, q)
  PROVE  SessionInv'
  <1> DEFINE old == call[d][q]
  <1>0. SessionTypeOK /\ DeviceOK(d) /\ old \in CallRecord /\ epoch \in Nat
    BY DEF SessionInv, SessionTypeOK
  <1>5. refreshAlarms(d, q) \/ forgotten(d, q) => Excused' = Excused
    BY DEF refreshAlarms, forgotten, Excused
  <1>1. CASE refreshAlarms(d, q)
    <2> DEFINE c == [old EXCEPT !.at = "denied"]
    <2>1. c \in CallRecord /\ Becomes(d, q, c) /\ old.at = "sent"
      BY <1>0, <1>1, CallChanges DEF refreshAlarms, At, Becomes, CallRecord, Renewing
    <2>2. /\ c.at = "denied" /\ c.kind = old.kind /\ c.token = old.token /\ c.deaf = old.deaf
      BY <1>0 DEF CallRecord
    <2>3. TokensKept
      BY <1>0, <1>1, EveryoneRevoked DEF refreshAlarms, SessionInv, SessionTypeOK
    <2>4. alarmed' \subseteq alarmed \cup Excused
      <3>1. CASE d \in Excused
        BY <1>1, <3>1 DEF refreshAlarms, Excused
      <3>2. CASE d \notin Excused
        <4>1. Renews(old) /\ ~ IsRotated(old.token) /\ old.token # None
          BY <1>0, <1>1, <3>2 DEF refreshAlarms, DeviceOK, Heard, Awaits, Renews, Renewing
        <4>2. QED BY <1>1, <4>1 DEF refreshAlarms, IsRotated
      <3>3. QED BY <3>1, <3>2
    <2> HIDE DEF c
    <2>5. QED BY <1>1, <1>5, <2>1, <2>2, <2>3, <2>4, RequestAnswered DEF refreshAlarms
  <1>2. CASE forgotten(d, q)
    <2>1. Idle \in CallRecord /\ Becomes(d, q, Idle)
      BY <1>0, <1>2 DEF forgotten, Becomes, Idle, CallRecord, SomeToken, SessionTypeOK
    <2>2. TokensKept
      BY <1>2, NothingWritten DEF forgotten, tokenVars
    <2>3. QED BY <1>2, <1>5, <2>1, <2>2, RequestAnswered DEF forgotten
  <1>3. CASE loginChecks(d, q) \/ refreshChecks(d, q) \/ refreshExpired(d, q) \/ logoutRefused(d, q)
    <2>1. PICK c \in {[old EXCEPT !.at = "denied"], [old EXCEPT !.at = "checked", !.since = epoch],
                      Continued(old)} :
            /\ Becomes(d, q, c) /\ (old.kind = "logout" => c = [old EXCEPT !.at = "denied"])
            /\ \/ c = [old EXCEPT !.at = "denied"] \/ c = [old EXCEPT !.at = "checked", !.since = epoch]
               \/ c = Continued(old) /\ old.kind \in {"refresh", "restore"}
      <3>1. CASE At(d, q, "denied") /\ app' = app
        BY <1>0, <3>1, CallChanges DEF At, Becomes
      <3>2. CASE call' = [call EXCEPT ![d][q].at = "checked", ![d][q].since = epoch] /\ app' = app
                 /\ old.kind # "logout"
        <4>1. Becomes(d, q, [old EXCEPT !.at = "checked", !.since = epoch])
          BY <1>0, <3>2, CallChanges DEF Becomes
        <4>2. QED BY <3>2, <4>1
      <3>3. CASE call' = [call EXCEPT ![d][q] = Continued(old)] /\ app' = app
                 /\ old.kind \in {"refresh", "restore"}
        <4>1. Becomes(d, q, Continued(old))
          BY <1>0, <3>3 DEF Becomes, SessionTypeOK
        <4>2. QED BY <3>3, <4>1
      <3>4. QED BY <1>3, <3>1, <3>2, <3>3
                   DEF loginChecks, refreshChecks, refreshExpired, logoutRefused, Continued
    <2>2. /\ c \in CallRecord /\ c.at \in {"checked", "denied"} /\ c.kind = old.kind
          /\ c.token = old.token /\ c.deaf = old.deaf
          /\ c.at = "checked" => c.kind # "logout"
      <3>1. CASE c = [old EXCEPT !.at = "denied"] \/ c = [old EXCEPT !.at = "checked", !.since = epoch]
        BY <1>0, <2>1, <3>1 DEF CallRecord, Renewing
      <3>2. CASE c = Continued(old) /\ old.kind \in {"refresh", "restore"}
        <4>1. old.token \in Token
          BY <1>0, <1>3, <3>2 DEF DeviceOK, Awaits, Renews, Renewing, CallRecord, SomeToken,
                                  loginChecks, refreshChecks, refreshExpired, logoutRefused
        <4>2. token[old.token] \in TokenRow
          BY <1>0, <4>1 DEF SessionTypeOK
        <4>3. QED BY <1>0, <3>2, <4>2 DEF Continued, CallRecord, TokenRow, Renewing
      <3>3. QED BY <2>1, <3>1, <3>2
    <2>3. /\ old.at = "sent" /\ UNCHANGED <<token, issued, epoch, isActive, alarmed, Excused>>
      BY <1>3 DEF loginChecks, refreshChecks, refreshExpired, logoutRefused, tokenVars, Excused
    <2>4. TokensKept
      BY <2>3, NothingWritten
    <2>5. QED BY <2>1, <2>2, <2>3, <2>4, RequestAnswered
  <1>4. QED BY <1>1, <1>2, <1>3

\* The token presented is rotated away, and only this one.
LEMMA RotationOfOne ==
  ASSUME SessionInv, NEW d \in Devices, NEW q \in Slots, call[d][q].at = "checked"
  PROVE  /\ Rotated(call[d][q]) \in [Token -> TokenRow]
         /\ \A t \in Token : Rotated(call[d][q])[t].state = "live" => Rotated(call[d][q])[t] = token[t]
         /\ \A t \in Token : Rotated(call[d][q])[t].by = "rotation" =>
              token[t].by = "rotation" \/ (Renews(call[d][q]) /\ t = call[d][q].token)
  <1> DEFINE c == call[d][q]
  <1>1. /\ token \in [Token -> TokenRow] /\ c.at = "checked" /\ c.token \in SomeToken
        /\ c.kind \in {"login", "refresh", "restore"} /\ (Renews(c) => c.token # None)
    BY DEF SessionInv, SessionTypeOK, DeviceOK, Awaits, CallRecord
  <1> HIDE DEF c
  <1>2. CASE c.kind = "login"
    BY <1>1, <1>2 DEF Rotated, c
  <1>3. CASE c.kind # "login"
    <2>1. Renews(c) /\ c.token \in Token
      BY <1>1, <1>3 DEF Renews, Renewing, SomeToken
    <2>2. token[c.token] \in TokenRow
      BY <1>1, <2>1
    <2>3. \A t \in Token : Rotated(c)[t] =
            IF t = c.token THEN [token[t] EXCEPT !.state = "revoked", !.by = "rotation"] ELSE token[t]
      BY <1>1, <1>3, <2>1, <2>2 DEF Rotated
    <2>4. Rotated(c) \in [Token -> TokenRow]
      BY <1>1, <1>3, <2>1, <2>2 DEF Rotated, TokenRow
    <2>5. QED BY <1>1, <2>1, <2>2, <2>3, <2>4 DEF c, TokenRow
  <1>4. QED BY <1>2, <1>3

LEMMA IssueKeeps ==
  ASSUME SessionInv, NEW d \in Devices, NEW q \in Slots, issueTokens(d, q)
  PROVE  SessionInv'
  <1> DEFINE c == call[d][q]
             n == issued + 1
             b == [c EXCEPT !.at = "renewed", !.token = n]
  <1>0. /\ SessionTypeOK /\ DeviceOK(d)
        /\ c \in CallRecord /\ app[d] \in AppRecord
        /\ issued \in 0 .. MaxTokens /\ MaxTokens \in Nat
    BY SessionBounds DEF SessionInv, SessionTypeOK
  <1>1. /\ c.at = "checked" /\ issued < MaxTokens /\ issued' = n
        /\ call' = [call EXCEPT ![d][q].at = "renewed", ![d][q].token = n]
        /\ UNCHANGED <<epoch, isActive, app, alarmed, Excused>>
    BY DEF issueTokens, Excused
  <1>2. n \in Token /\ n # None /\ issued <= n /\ issued \in Nat
    BY <1>0, <1>1 DEF Token, None
  <1>3. b \in CallRecord /\ Becomes(d, q, b)
    BY <1>0, <1>1, <1>2 DEF Becomes, CallRecord, SessionTypeOK, SomeToken, Renewing
  <1>4. b.at = "renewed" /\ b.token = n /\ b.kind = c.kind /\ b.deaf = c.deaf
    BY <1>0 DEF CallRecord
  <1> HIDE DEF b
  <1>5. /\ call' \in [Devices -> [Slots -> CallRecord]] /\ app' \in [Devices -> AppRecord]
        /\ \A e \in Devices \ {d} : app'[e] = app[e] /\ call'[e] = call[e]
        /\ app'[d] = app[d]
        /\ \A p \in Slots : call'[d][p] = IF p = q THEN b ELSE call[d][p]
    BY <1>0, <1>3, OneRequest
  <1>6. /\ token'[n].by = "nobody" /\ token' \in [Token -> TokenRow]
        /\ \A t \in Token : token'[t].by = "rotation" =>
             t # n /\ (token[t].by = "rotation" \/ (Renews(c) /\ t = c.token))
    <2> DEFINE r == [state |-> "live", by |-> "nobody", since |-> c.since, crossed |-> c.crossed]
    <2>1. /\ Rotated(c) \in [Token -> TokenRow]
          /\ \A t \in Token : Rotated(c)[t].by = "rotation" =>
               token[t].by = "rotation" \/ (Renews(c) /\ t = c.token)
      BY <1>1, RotationOfOne
    <2>2. r \in TokenRow /\ r.by = "nobody"
      BY <1>0 DEF TokenRow, CallRecord
    <2>3. token' = [Rotated(c) EXCEPT ![n] = r]
      BY DEF issueTokens
    <2> HIDE DEF r
    <2>4. QED BY <1>2, <2>1, <2>2, <2>3
  <1>7. SessionTypeOK'
    BY <1>0, <1>1, <1>2, <1>5, <1>6 DEF SessionTypeOK, Token
  <1>8. \A t \in Token : Has(d, t)' => Has(d, t) \/ t = n
    BY <1>4, <1>5 DEF Has
  <1>9. \A t \in Token : IsRotated(t)' => t # n /\ (IsRotated(t) \/ (Renews(c) /\ t = c.token))
    BY <1>6 DEF IsRotated
  <1>10. \A t \in Token : Has(d, t) => t # n
    BY <1>0, <1>2 DEF DeviceOK, Owner
  <1>11. Awaits(d)'
    <2>1. Awaits(d) /\ c.kind \in {"login", "refresh", "restore"}
      BY <1>0, <1>1 DEF DeviceOK, Awaits
    <2>2. SUFFICES ASSUME NEW p \in Slots
          PROVE  LET a == call'[d][p] IN
                 /\ a.kind = "none" <=> a.at \in {"idle", "asked", "joined"}
                 /\ a.at \in {"checked", "renewed"} => a.kind \in {"login", "refresh", "restore"}
                 /\ Renews(a) => a.token # None
                 /\ a.deaf => a.at \in Renewing
                 /\ ~ a.deaf /\ a.at # "idle" =>
                      app[d].state = IF a.kind = "restore" THEN "restoring" ELSE "open"
                 /\ ~ a.deaf /\ a.kind = "restore" =>
                      \A r \in Slots \ {p} : call'[d][r].kind = "restore" => call'[d][r].deaf
      BY <1>5 DEF Awaits, Renews
    <2>3. CASE p = q
      BY <1>1, <1>2, <1>4, <1>5, <2>1, <2>3 DEF Awaits, Renewing
    <2>4. CASE p # q
      BY <1>4, <1>5, <2>1, <2>4 DEF Awaits
    <2>5. QED BY <2>3, <2>4
  <1>12. Fresh(d)'
    BY <1>0, <1>2, <1>4, <1>5, <1>10 DEF DeviceOK, Fresh, Has
  <1>13. ASSUME d \notin Excused PROVE Heard(d)'
    <2>1. Heard(d) /\ Awaits(d)
      BY <1>0, <1>13 DEF DeviceOK
    <2>2. Renews(b) = Renews(c)
      BY <1>1, <1>4 DEF Renews, Renewing
    <2>3. \A p \in Slots : Renews(call'[d][p]) = Renews(call[d][p])
      BY <1>5, <2>2
    <2>4. ASSUME NEW p \in Slots
          PROVE  /\ Renews(call'[d][p]) =>
                      /\ ~ call'[d][p].deaf /\ call'[d][p].at # "failed"
                      /\ ~ IsRotated(call[d][p].token)'
                      /\ \A r \in Slots \ {p} : ~ Renews(call'[d][r])
                 /\ call'[d][p].at = "renewed" => ~ IsRotated(call[d][p].token)'
      <3>1. CASE p = q
        BY <1>2, <1>4, <1>5, <1>9, <2>1, <2>2, <2>3, <3>1 DEF Heard
      <3>2. CASE p # q
        <4>1. call'[d][p] = call[d][p] /\ call[d][p].token \in SomeToken
          BY <1>0, <1>5, <3>2 DEF SessionTypeOK, CallRecord
        <4>2. Renews(c) => ~ Renews(call[d][p])
          BY <2>1, <3>2 DEF Heard
        <4>3. IsRotated(call[d][p].token)' => IsRotated(call[d][p].token) \/ (Renews(c) /\ call[d][p].token = c.token)
          BY <1>9, <4>1 DEF IsRotated, SomeToken
        <4>4. call[d][p].at = "renewed" => call[d][p].token # c.token \/ c.token = None
          BY <1>0, <3>2 DEF DeviceOK, Fresh
        <4>5. ~ IsRotated(None)'
          BY DEF IsRotated
        <4>6. QED BY <2>1, <2>3, <4>1, <4>2, <4>3, <4>4, <4>5 DEF Heard
      <3>3. QED BY <3>1, <3>2
    <2>5. ASSUME NEW t \in {app[d].memory, app[d].vault}, IsRotated(t)'
          PROVE  \E p \in Slots : Renews(call'[d][p]) /\ call'[d][p].at = "renewed"
      <3>1. t \in Token
        BY <1>0, <2>5 DEF AppRecord, SomeToken, IsRotated
      <3>2. CASE Renews(c)
        BY <1>4, <1>5, <2>2, <3>2
      <3>3. CASE ~ Renews(c)
        <4>1. IsRotated(t)
          BY <1>9, <2>5, <3>1, <3>3
        <4>2. PICK p \in Slots : Renews(call[d][p]) /\ call[d][p].at = "renewed"
          BY <2>1, <2>5, <4>1 DEF Heard
        <4>3. p # q
          BY <1>1, <4>2
        <4>4. QED BY <1>5, <4>2, <4>3
      <3>4. QED BY <3>2, <3>3
    <2>6. QED BY <1>5, <2>4, <2>5 DEF Heard
  <1>15. \A t \in Token : IsRotated(t)' => IsRotated(t) \/ Has(d, t)
    BY <1>9 DEF Has
  <1>16. /\ Excused \subseteq Excused' /\ Excused' \subseteq Excused \cup {d}
         /\ issued <= issued'
         /\ \A t \in Token : Has(d, t)' => Has(d, t) \/ (t = issued + 1 /\ issued' = t)
         /\ d \notin Excused' => Heard(d)'
         /\ alarmed' \subseteq alarmed \cup Excused'
    BY <1>1, <1>2, <1>8, <1>13
  <1>17. QED BY <1>5, <1>7, <1>11, <1>12, <1>15, <1>16, OneDevice

LEMMA DeathKeeps ==
  ASSUME SessionInv, NEW d \in Devices, NEW q \in Slots, refreshDies(d, q)
  PROVE  SessionInv'
  <1> DEFINE c == call[d][q]
             b == [c EXCEPT !.at = "failed"]
  <1>0. /\ SessionTypeOK /\ DeviceOK(d)
        /\ c \in CallRecord /\ c.at = "checked" /\ issued \in Nat
    BY SessionBounds DEF SessionInv, SessionTypeOK, refreshDies
  <1>1. /\ b \in CallRecord /\ Becomes(d, q, b)
        /\ b.at = "failed" /\ b.token = c.token /\ b.kind = c.kind /\ b.deaf = c.deaf
    BY <1>0, CallChanges DEF refreshDies, At, Becomes, CallRecord, Renewing
  <1> HIDE DEF b
  <1>2. /\ call' \in [Devices -> [Slots -> CallRecord]] /\ app' \in [Devices -> AppRecord]
        /\ \A e \in Devices \ {d} : app'[e] = app[e] /\ call'[e] = call[e]
        /\ app'[d] = app[d]
        /\ \A p \in Slots : call'[d][p] = IF p = q THEN b ELSE call[d][p]
    BY <1>0, <1>1, OneRequest
  <1>3. /\ token' \in [Token -> TokenRow]
        /\ \A t \in Token : token'[t].state = "live" => token'[t] = token[t]
        /\ \A t \in Token : token'[t].by = "rotation" =>
             token[t].by = "rotation" \/ (Renews(c) /\ t = c.token)
    BY <1>0, RotationOfOne DEF refreshDies
  <1>4. /\ UNCHANGED <<issued, epoch, isActive, app, alarmed>> /\ Excused' = Excused \cup {d}
    BY DEF refreshDies, Excused
  <1>5. SessionTypeOK'
    BY <1>0, <1>2, <1>3, <1>4 DEF SessionTypeOK
  <1>6. Awaits(d)'
    <2>1. Awaits(d)
      BY <1>0 DEF DeviceOK
    <2>2. \A p \in Slots : /\ call'[d][p].kind = call[d][p].kind /\ call'[d][p].deaf = call[d][p].deaf
                           /\ call'[d][p].token = call[d][p].token
                           /\ call'[d][p].at = IF p = q THEN "failed" ELSE call[d][p].at
      BY <1>1, <1>2
    <2>3. QED BY <1>0, <1>2, <2>1, <2>2 DEF Awaits, Renews, Renewing
  <1>7. Fresh(d)'
    BY <1>0, <1>1, <1>2 DEF DeviceOK, Fresh
  <1>8. \A t \in Token : Has(d, t)' => Has(d, t)
    BY <1>1, <1>2 DEF Has
  <1>9. \A t \in Token : IsRotated(t)' => IsRotated(t) \/ Has(d, t)
    BY <1>3 DEF IsRotated, Has
  <1>10. QED BY <1>0, <1>2, <1>4, <1>5, <1>6, <1>7, <1>8, <1>9, OneDevice DEF SessionInv, NoSelfInflictedAlarm

\* The request c may start on q and leave the device in the state a.
MayStart(d, q, a, c) ==
  /\ call[d][q].at \in {"idle", "asked"}
  /\ ~ c.deaf
  /\ IF c.kind = "none" THEN c.at \in {"idle", "asked", "joined"} ELSE c.at = "sent"
  /\ c.at # "idle" => a.state = IF c.kind = "restore" THEN "restoring" ELSE "open"
  /\ app[d].state \in {a.state, "closed"}
  /\ c.kind = "restore" => app[d].state = "closed"
  /\ a.memory \in {None, app[d].memory, app[d].vault} /\ a.vault \in {None, app[d].vault}
  /\ c.token \in {None, app[d].memory, app[d].vault, call[d][q].token}
  /\ Renews(c) => /\ c.token \in {app[d].memory, app[d].vault} \ {None}
                  /\ \A p \in Slots : Renews(call[d][p]) => call[d][p].deaf

\* A device starts a request, or gives one up before it leaves.
LEMMA RequestMade ==
  ASSUME SessionInv, UNCHANGED <<tokenVars, alarmed, Excused>>,
         NEW d \in Devices, NEW q \in Slots, NEW a \in AppRecord, NEW c \in CallRecord,
         app' = [app EXCEPT ![d] = a], call' = [call EXCEPT ![d] = [call[d] EXCEPT ![q] = c]],
         MayStart(d, q, a, c)
  PROVE  SessionInv'
  <1>0. /\ SessionTypeOK /\ Awaits(d) /\ Fresh(d) /\ (d \notin Excused => Heard(d))
    BY DEF SessionInv, DeviceOK
  <1> USE DEF MayStart
  <1>1. /\ app'[d] = a /\ [call[d] EXCEPT ![q] = c] \in [Slots -> CallRecord]
        /\ \A p \in Slots : call'[d][p] = IF p = q THEN c ELSE call[d][p]
    BY <1>0 DEF SessionTypeOK
  <1>2. app[d].state = "closed" => \A p \in Slots : call[d][p].deaf \/ call[d][p].at = "idle"
    BY <1>0 DEF Awaits
  <1>3. Awaits(d)'
    <2>1. \A p \in Slots \ {q} :
            /\ call'[d][p] = call[d][p]
            /\ ~ call[d][p].deaf /\ call[d][p].at # "idle" =>
                 a.state = IF call[d][p].kind = "restore" THEN "restoring" ELSE "open"
      BY <1>0, <1>1, <1>2 DEF Awaits
    <2>2. c.kind = "restore" => \A p \in Slots \ {q} : call[d][p].kind = "restore" => call[d][p].deaf
      BY <1>0, <1>2 DEF Awaits
    <2>3. ASSUME NEW p \in Slots \ {q}, call[d][p].kind = "restore", ~ call[d][p].deaf
          PROVE  c.kind # "restore"
      BY <2>2, <2>3
    <2>4. SUFFICES ASSUME NEW p \in Slots
          PROVE  LET b == call'[d][p] IN
                 /\ b.kind = "none" <=> b.at \in {"idle", "asked", "joined"}
                 /\ b.at \in {"checked", "renewed"} => b.kind \in {"login", "refresh", "restore"}
                 /\ Renews(b) => b.token # None
                 /\ b.deaf => b.at \in Renewing
                 /\ ~ b.deaf /\ b.at # "idle" =>
                      a.state = IF b.kind = "restore" THEN "restoring" ELSE "open"
                 /\ ~ b.deaf /\ b.kind = "restore" =>
                      \A r \in Slots \ {p} : call'[d][r].kind = "restore" => call'[d][r].deaf
      BY <1>1 DEF Awaits, Renews
    <2>5. CASE p = q
      BY <1>1, <2>1, <2>2, <2>5 DEF Renews
    <2>6. CASE p # q
      BY <1>0, <1>1, <2>1, <2>3, <2>6 DEF Awaits
    <2>7. QED BY <2>5, <2>6
  <1>4. Fresh(d)'
    <2>1. c.at # "renewed"
      OBVIOUS
    <2>2. SUFFICES ASSUME NEW p \in Slots, call'[d][p].at = "renewed"
          PROVE  LET t == call'[d][p].token IN
                 /\ t # None /\ a.memory # t /\ a.vault # t
                 /\ \A r \in Slots \ {p} : call'[d][r].token # t
      BY <1>1 DEF Fresh
    <2>3. p # q /\ call'[d][p] = call[d][p]
      BY <1>1, <2>1, <2>2
    <2>4. QED BY <1>0, <1>1, <2>2, <2>3 DEF Fresh
  <1>5. ASSUME d \notin Excused PROVE Heard(d)'
    <2>1. Heard(d)
      BY <1>0, <1>5
    <2>2. /\ ~ Renews(call[d][q]) /\ c.at \notin {"renewed", "failed"}
          /\ ~ IsRotated(None)
      BY DEF Renews, Renewing, IsRotated
    <2>3. \A t : IsRotated(t)' = IsRotated(t)
      BY DEF IsRotated, tokenVars
    <2>4. CASE Renews(c)
      <3>1. \A p \in Slots : ~ Renews(call[d][p])
        BY <2>1, <2>4 DEF Heard
      <3>2. ~ IsRotated(app[d].memory) /\ ~ IsRotated(app[d].vault)
        BY <2>1, <3>1 DEF Heard
      <3>3. ~ IsRotated(a.memory) /\ ~ IsRotated(a.vault) /\ ~ IsRotated(c.token)
        BY <2>2, <2>4, <3>2
      <3>4. \A p \in Slots : Renews(call'[d][p]) => p = q
        BY <1>1, <3>1
      <3>5. \A p \in Slots : call'[d][p].at = "renewed" => call'[d][p] = call[d][p]
        BY <1>1, <2>2
      <3>6. QED BY <1>1, <2>1, <2>2, <2>3, <3>3, <3>4, <3>5 DEF Heard
    <2>5. CASE ~ Renews(c)
      <3>1. ASSUME NEW p \in Slots PROVE Renews(call'[d][p]) <=> Renews(call[d][p])
        <4>1. CASE p = q
          BY <1>1, <2>2, <2>5, <4>1
        <4>2. CASE p # q
          <5>1. call'[d][p] = call[d][p]
            BY <1>1, <4>2
          <5>2. QED BY <5>1
        <4>3. QED BY <4>1, <4>2
      <3>2. \A p \in Slots : Renews(call[d][p]) \/ call'[d][p].at = "renewed" => call'[d][p] = call[d][p]
        BY <1>1, <2>2
      <3>3. IsRotated(a.memory) \/ IsRotated(a.vault) => IsRotated(app[d].memory) \/ IsRotated(app[d].vault)
        BY <2>2
      <3>4. QED BY <1>1, <2>1, <2>3, <3>1, <3>2, <3>3 DEF Heard
    <2>6. QED BY <2>4, <2>5
  <1>6. \A t \in Token : Has(d, t)' => Has(d, t)
    BY <1>1 DEF Has, None, Token
  <1>7. TokensKept
    BY NothingWritten DEF tokenVars
  <1>8. alarmed' \subseteq alarmed \cup Excused'
    OBVIOUS
  <1>9. QED BY <1>1, <1>3, <1>4, <1>5, <1>6, <1>7, <1>8, OneDeviceNoRotation

\* The requests of a device may become f, and leave the device in the state a.
MayEnd(d, a, f) ==
  /\ \A p \in Slots : \/ f[p] \in {Idle, call[d][p]}
                      \/ /\ call[d][p].at \in {"sent", "checked"}
                         /\ f[p] = [call[d][p] EXCEPT !.deaf = TRUE]
  /\ \A p \in Slots : ~ f[p].deaf /\ f[p].at # "idle" => f[p].kind # "restore" /\ a.state = "open"
  /\ \A t \in {a.memory, a.vault} : t = None \/ Has(d, t)
  /\ \A p \in Slots : f[p].at = "renewed" => a.memory # f[p].token /\ a.vault # f[p].token

\* A device that has heard every renewal still has, in the state a with the requests f.
StillHears(a, f) ==
  /\ \A p \in Slots : Renews(f[p]) => ~ f[p].deaf
  /\ IsRotated(a.memory) \/ IsRotated(a.vault) =>
       \E p \in Slots : Renews(f[p]) /\ f[p].at = "renewed"

\* Requests of a device end, or nobody awaits them any more.
LEMMA RequestsEnd ==
  ASSUME SessionInv, TokensKept, alarmed' = alarmed,
         NEW d \in Devices, NEW a \in AppRecord, NEW f \in [Slots -> CallRecord],
         app' = [app EXCEPT ![d] = a], call' = [call EXCEPT ![d] = f],
         Excused \subseteq Excused', Excused' \subseteq Excused \cup {d},
         MayEnd(d, a, f), d \notin Excused' => StillHears(a, f)
  PROVE  SessionInv'
  <1>0. /\ SessionTypeOK /\ Awaits(d) /\ Fresh(d) /\ (d \notin Excused => Heard(d))
    BY DEF SessionInv, DeviceOK
  <1> USE DEF MayEnd, StillHears
  <1>1. app'[d] = a /\ call'[d] = f
    BY <1>0 DEF SessionTypeOK
  <1>2. \A p \in Slots : call[d][p] \in CallRecord
    BY <1>0 DEF SessionTypeOK
  <1>3. \A p \in Slots : f[p] # Idle =>
          /\ f[p].at = call[d][p].at /\ f[p].kind = call[d][p].kind /\ f[p].token = call[d][p].token
          /\ f[p].deaf = call[d][p].deaf \/ (f[p].deaf /\ f[p].at \in {"sent", "checked"})
    BY <1>2 DEF CallRecord
  <1>4. Awaits(d)'
    <2>1. SUFFICES ASSUME NEW p \in Slots
          PROVE  LET b == f[p] IN
                 /\ b.kind = "none" <=> b.at \in {"idle", "asked", "joined"}
                 /\ b.at \in {"checked", "renewed"} => b.kind \in {"login", "refresh", "restore"}
                 /\ Renews(b) => b.token # None
                 /\ b.deaf => b.at \in Renewing
                 /\ ~ b.deaf /\ b.at # "idle" => b.kind # "restore" /\ a.state = "open"
      BY <1>1, <1>3 DEF Awaits, Renews, Idle
    <2>2. CASE f[p] = Idle
      BY <2>2 DEF Idle, Renews, Renewing
    <2>3. CASE f[p] # Idle
      BY <1>0, <1>3, <2>3 DEF Awaits, Renews, Renewing
    <2>4. QED BY <2>2, <2>3
  <1>5. \A p \in Slots : f[p].at = "renewed" => f[p] = call[d][p]
    BY <1>3 DEF Idle
  <1>6. Fresh(d)'
    <2>1. \A p \in Slots : f[p].token \in {None, call[d][p].token}
      BY <1>3 DEF Idle
    <2>2. QED BY <1>0, <1>1, <1>5, <2>1 DEF Fresh
  <1>7. ASSUME d \notin Excused' PROVE Heard(d)'
    <2>1. Heard(d)
      BY <1>0, <1>7
    <2>2. \A p \in Slots : Renews(f[p]) => Renews(call[d][p]) /\ f[p].at = call[d][p].at /\ f[p].token = call[d][p].token
      BY <1>3 DEF Renews, Idle
    <2>3. ASSUME NEW t \in SomeToken, IsRotated(t)' PROVE IsRotated(t)
      BY <2>3 DEF IsRotated, TokensKept, SomeToken, None
    <2>4. /\ a.memory \in SomeToken /\ a.vault \in SomeToken
          /\ \A p \in Slots : f[p].token \in SomeToken
      BY DEF AppRecord, CallRecord
    <2>5. /\ IsRotated(a.memory)' => IsRotated(a.memory)
          /\ IsRotated(a.vault)' => IsRotated(a.vault)
          /\ \A p \in Slots : IsRotated(f[p].token)' => IsRotated(f[p].token)
      BY <2>3, <2>4 DEF IsRotated
    <2>6. QED BY <1>1, <1>5, <1>7, <2>1, <2>2, <2>5 DEF Heard
  <1>8. \A t \in Token : Has(d, t)' => Has(d, t)
    <2>1. \A p \in Slots : f[p].token \in {None, call[d][p].token}
      BY <1>3 DEF Idle
    <2>2. \A t \in Token : t # None
      BY DEF Token, None
    <2>3. QED BY <1>1, <2>1, <2>2 DEF Has
  <1>9. alarmed' \subseteq alarmed \cup Excused'
    OBVIOUS
  <1>10. QED BY <1>4, <1>6, <1>7, <1>8, <1>9, OneDeviceNoRotation

LEMMA RequestsKeep ==
  ASSUME SessionInv, NEW d \in Devices, NEW q \in Slots,
         apiRequest(d, q) \/ refreshOnce(d, q) \/ signIn(d, q) \/ signOut(d, q) \/ restore(d, q)
  PROVE  SessionInv'
  <1> DEFINE m == app[d].memory
             v == app[d].vault
             asked == [Idle EXCEPT !.at = "asked"]
             joined == [call[d][q] EXCEPT !.at = "joined"]
             refresh == [Idle EXCEPT !.at = "sent", !.kind = "refresh", !.token = m]
             login == [Idle EXCEPT !.at = "sent", !.kind = "login"]
             logout == [Idle EXCEPT !.at = "sent", !.kind = "logout", !.token = m]
             restored == [Idle EXCEPT !.at = "sent", !.kind = "restore", !.token = v]
             restoring == [app[d] EXCEPT !.state = "restoring"]
  <1>0. /\ SessionTypeOK /\ Awaits(d)
        /\ app[d] \in AppRecord /\ call[d][q] \in CallRecord /\ call[d] \in [Slots -> CallRecord]
    BY DEF SessionInv, DeviceOK, SessionTypeOK
  <1>1. Idle \in CallRecord /\ None \in SomeToken /\ m \in SomeToken /\ v \in SomeToken
    BY <1>0 DEF Idle, CallRecord, SomeToken, AppRecord
  <1>11. UNCHANGED <<tokenVars, alarmed, Excused>>
    BY DEF apiRequest, refreshOnce, signIn, signOut, restore, Excused
  <1>2. app = [app EXCEPT ![d] = app[d]] /\ call = [call EXCEPT ![d] = [call[d] EXCEPT ![q] = call[d][q]]]
    BY <1>0 DEF SessionTypeOK
  <1>3. \A p \in Slots : Renews(call[d][p]) /\ ~ call[d][p].deaf =>
          /\ call[d][p].kind = "refresh" => Refreshing(d)
          /\ call[d][p].kind = "restore" => app[d].state = "restoring"
    BY <1>0 DEF Awaits, Renews, Renewing, Refreshing
  <1>4. CASE apiRequest(d, q)
    <2>1. asked \in CallRecord /\ asked.at = "asked" /\ asked.kind = "none" /\ asked.token = None /\ ~ asked.deaf
      BY <1>1 DEF Idle, CallRecord
    <2>2. call' = [call EXCEPT ![d] = [call[d] EXCEPT ![q] = asked]]
      BY <1>0, <1>4, CallChanges DEF apiRequest, At
    <2> HIDE DEF asked
    <2>3. MayStart(d, q, app[d], asked)
      BY <1>0, <1>1, <1>2, <1>4, <2>1, <2>2 DEF apiRequest, MayStart, Idle, Renews, Renewing
    <2>4. QED BY <1>0, <1>1, <1>2, <1>4, <2>1, <2>2, <2>3, <1>11, RequestMade DEF apiRequest
  <1>5. CASE refreshOnce(d, q)
    <2>1. /\ call[d][q].at = "asked" /\ call[d][q].kind = "none" /\ ~ call[d][q].deaf
          /\ app[d].state = "open"
      BY <1>0, <1>5 DEF refreshOnce, Awaits, Renewing
    <2>2. CASE Refreshing(d)
      <3>1. joined \in CallRecord /\ joined.at = "joined" /\ joined.kind = "none" /\ ~ joined.deaf
            /\ joined.token = call[d][q].token
        BY <1>0, <2>1 DEF CallRecord
      <3>2. call' = [call EXCEPT ![d] = [call[d] EXCEPT ![q] = joined]]
        BY <1>0, <1>5, <2>2 DEF refreshOnce, SessionTypeOK
      <3> HIDE DEF joined
      <3>3. MayStart(d, q, app[d], joined)
        BY <1>0, <1>2, <1>5, <2>1, <3>1, <3>2 DEF refreshOnce, MayStart, Idle, Renews, Renewing
      <3>4. QED BY <1>0, <1>2, <1>5, <2>1, <3>1, <3>2, <3>3, <1>11, RequestMade DEF refreshOnce
    <2>3. CASE ~ Refreshing(d) /\ m = None
      <3>1. call' = [call EXCEPT ![d] = [call[d] EXCEPT ![q] = Idle]]
        BY <1>0, <1>5, <2>3 DEF refreshOnce, SessionTypeOK
      <3>2. MayStart(d, q, app[d], Idle)
        <4>1. Idle.at = "idle" /\ Idle.kind = "none" /\ Idle.token = None /\ ~ Idle.deaf
          BY DEF Idle
        <4>2. QED BY <1>5, <2>1, <4>1 DEF refreshOnce, MayStart, Renews, Renewing
      <3>3. QED BY <1>0, <1>1, <1>2, <1>5, <2>1, <3>1, <3>2, <1>11, RequestMade DEF refreshOnce
    <2>4. CASE ~ Refreshing(d) /\ m # None
      <3>1. refresh \in CallRecord /\ refresh.at = "sent" /\ refresh.kind = "refresh"
            /\ refresh.token = m /\ ~ refresh.deaf
        BY <1>1 DEF Idle, CallRecord, Renewing
      <3>2. call' = [call EXCEPT ![d] = [call[d] EXCEPT ![q] = refresh]]
        BY <1>0, <1>5, <2>4 DEF refreshOnce, SessionTypeOK
      <3>3. \A p \in Slots : Renews(call[d][p]) => call[d][p].deaf
        BY <1>3, <2>1, <2>4 DEF Renews
      <3> HIDE DEF refresh
      <3>4. MayStart(d, q, app[d], refresh)
        BY <1>0, <1>2, <1>5, <2>1, <2>4, <3>1, <3>2, <3>3 DEF refreshOnce, MayStart, Idle, Renews, Renewing
      <3>5. QED BY <1>0, <1>2, <1>5, <2>1, <2>4, <3>1, <3>2, <3>3, <3>4, <1>11, RequestMade DEF refreshOnce
    <2>5. QED BY <2>2, <2>3, <2>4
  <1>6. CASE signIn(d, q)
    <2>1. login \in CallRecord /\ login.at = "sent" /\ login.kind = "login" /\ login.token = None /\ ~ login.deaf
      BY <1>1 DEF Idle, CallRecord, Renewing
    <2>2. call' = [call EXCEPT ![d] = [call[d] EXCEPT ![q] = login]]
      BY <1>0, <1>6 DEF signIn, SessionTypeOK
    <2> HIDE DEF login
    <2>3. MayStart(d, q, app[d], login)
      BY <1>0, <1>1, <1>2, <1>6, <2>1, <2>2 DEF signIn, MayStart, Idle, Renews, Renewing
    <2>4. QED BY <1>0, <1>1, <1>2, <1>6, <2>1, <2>2, <2>3, <1>11, RequestMade DEF signIn
  <1>7. CASE signOut(d, q)
    <2>1. logout \in CallRecord /\ logout.at = "sent" /\ logout.kind = "logout" /\ logout.token = m /\ ~ logout.deaf
      BY <1>1 DEF Idle, CallRecord, Renewing
    <2>2. PICK signedOut \in AppRecord :
            /\ app' = [app EXCEPT ![d] = signedOut]
            /\ signedOut.state = "open" /\ signedOut.memory = None /\ signedOut.vault \in {None, v}
      <3>1. PICK left \in {None, v} :
              app' = [app EXCEPT ![d] = [state |-> "open", memory |-> None, vault |-> left]]
        BY <1>7 DEF signOut, Forgets
      <3>2. [state |-> "open", memory |-> None, vault |-> left] \in AppRecord
        BY <1>1 DEF AppRecord
      <3>3. QED BY <3>1, <3>2
    <2>3. /\ call' = [call EXCEPT ![d] = [call[d] EXCEPT ![q] = logout]]
          /\ app[d].state = "open"
      BY <1>0, <1>7 DEF signOut, SessionTypeOK, AppRecord
    <2> HIDE DEF logout
    <2>4. MayStart(d, q, signedOut, logout)
      BY <1>0, <1>1, <1>7, <2>1, <2>2, <2>3 DEF signOut, MayStart, Idle, Renews, Renewing
    <2>5. QED BY <1>0, <1>1, <1>7, <2>1, <2>2, <2>3, <2>4, <1>11, RequestMade DEF signOut
  <1>8. CASE restore(d, q) /\ app' = [app EXCEPT ![d].state = "restoring"]
    <2>1. app[d].state = "closed" /\ call[d][q] = Idle
      BY <1>8 DEF restore
    <2>2. restored \in CallRecord /\ restored.at = "sent" /\ restored.kind = "restore" /\ restored.token = v
          /\ ~ restored.deaf
      BY <1>1 DEF Idle, CallRecord, Renewing
    <2>3. restoring \in AppRecord /\ restoring.state = "restoring" /\ restoring.memory = m /\ restoring.vault = v
      BY <1>0, <1>1 DEF AppRecord
    <2>4. app' = [app EXCEPT ![d] = restoring] /\ app'[d].state = "restoring"
      BY <1>0, <1>8 DEF SessionTypeOK, AppRecord
    <2>5. call' = [call EXCEPT ![d] = [call[d] EXCEPT ![q] = restored]] /\ v # None
      <3>1. ~ RestoresLocally(d)
        BY <1>0, <2>4 DEF RestoresLocally, SessionTypeOK, AppRecord
      <3>2. QED BY <1>0, <1>8, <3>1 DEF restore, SessionTypeOK
    <2>6. \A p \in Slots : Renews(call[d][p]) => call[d][p].deaf
      BY <1>0, <2>1 DEF Awaits, Renews, Renewing
    <2> HIDE DEF restored, restoring
    <2>7. MayStart(d, q, restoring, restored)
      BY <1>0, <1>1, <1>8, <2>1, <2>2, <2>3, <2>4, <2>5, <2>6 DEF restore, MayStart, Idle, Renews, Renewing
    <2>8. QED BY <1>0, <1>1, <1>8, <2>1, <2>2, <2>3, <2>4, <2>5, <2>6, <2>7, <1>11, RequestMade DEF restore
  <1>9. CASE restore(d, q) /\ RestoresLocally(d) /\ UNCHANGED call
    <2>1. app[d].state = "closed" /\ call[d][q] = Idle
      BY <1>9 DEF restore
    <2>2. PICK left \in {None, v} : app' = [app EXCEPT ![d].state = "open", ![d].memory = left]
      BY <1>9 DEF RestoresLocally
    <2> DEFINE opened == [app[d] EXCEPT !.state = "open", !.memory = left]
    <2>6. opened \in AppRecord /\ opened.state = "open" /\ opened.memory = left /\ opened.vault = v
      BY <1>0, <1>1 DEF AppRecord
    <2>3. app' = [app EXCEPT ![d] = opened]
      BY <1>0, <2>2 DEF SessionTypeOK, AppRecord
    <2> HIDE DEF opened
    <2>4. MayStart(d, q, opened, call[d][q])
      BY <1>0, <1>1, <1>2, <1>9, <2>1, <2>2, <2>3, <2>6 DEF restore, MayStart, Idle, Renews, Renewing
    <2>5. QED BY <1>0, <1>1, <1>2, <1>9, <2>1, <2>3, <2>4, <2>6, <1>11, RequestMade DEF restore
  <1>10. QED BY <1>4, <1>5, <1>6, <1>7, <1>8, <1>9 DEF restore

\* The request q of a device is over, and those that shared its renewal.
LEMMA SettledRequests ==
  ASSUME SessionTypeOK, NEW d \in Devices, NEW q \in Slots, Awaits(d),
         call[d][q].at \in Renewing, ~ call[d][q].deaf
  PROVE  /\ Settled(d, q) \in [Slots -> CallRecord] /\ Settled(d, q)[q] = Idle
         /\ \A p \in Slots : Settled(d, q)[p] \in {Idle, call[d][p]}
         /\ \A p \in Slots \ {q} : call[d][p].at # "joined" => Settled(d, q)[p] = call[d][p]
         /\ \A p \in Slots \ {q} : ~ call[d][p].deaf /\ call[d][p].at # "idle" =>
              call[d][p].kind # "restore"
         /\ call[d][q].kind # "restore" => app[d].state = "open"
  <1>1. Idle \in CallRecord /\ call[d] \in [Slots -> CallRecord]
    BY DEF SessionTypeOK, Idle, CallRecord, SomeToken
  <1>2. call[d][q].at # "idle" /\ call[d][q].at # "joined"
    BY DEF Renewing
  <1>3. app[d].state = IF call[d][q].kind = "restore" THEN "restoring" ELSE "open"
    BY <1>2 DEF Awaits
  <1>4. Settled(d, q) \in [Slots -> CallRecord] /\ Settled(d, q)[q] = Idle
        /\ (\A p \in Slots : Settled(d, q)[p] \in {Idle, call[d][p]})
        /\ (\A p \in Slots \ {q} : call[d][p].at # "joined" => Settled(d, q)[p] = call[d][p])
    BY <1>1 DEF Settled
  <1>5. ASSUME NEW p \in Slots \ {q}, ~ call[d][p].deaf, call[d][p].at # "idle",
               call[d][p].kind = "restore"
        PROVE  FALSE
    <2>1. app[d].state = "restoring"
      BY <1>5 DEF Awaits
    <2>2. call[d][q].kind = "restore"
      BY <1>3, <2>1
    <2>3. QED BY <1>5, <2>2 DEF Awaits
  <1>6. QED BY <1>3, <1>4, <1>5

LEMMA EndingsKeep ==
  ASSUME SessionInv, NEW d \in Devices, NEW q \in Slots,
         saveSession(d, q) \/ sessionDenied(d, q) \/ sessionUnanswered(d, q) \/ timesOut(d, q)
  PROVE  SessionInv'
  <1> DEFINE c == call[d][q]
             s == Settled(d, q)
             saved == [state |-> "open", memory |-> c.token, vault |-> c.token]
             inMemory == [app[d] EXCEPT !.state = "open", !.memory = c.token]
             f == [s EXCEPT ![q] = IF c.at \in {"sent", "checked"} THEN [c EXCEPT !.deaf = TRUE] ELSE Idle]
  <1>0. /\ SessionTypeOK /\ Awaits(d) /\ Fresh(d) /\ (d \notin Excused => Heard(d))
        /\ app[d] \in AppRecord /\ c \in CallRecord /\ None \in SomeToken
        /\ \A p \in Slots : call[d][p] \in CallRecord
    BY DEF SessionInv, DeviceOK, SessionTypeOK, SomeToken
  <1>1. c.at \in Renewing /\ ~ c.deaf /\ c.kind # "none"
    BY <1>0 DEF saveSession, sessionDenied, sessionUnanswered, timesOut, Renewing, Awaits
  <1>2. /\ s \in [Slots -> CallRecord] /\ s[q] = Idle
        /\ \A p \in Slots : s[p] \in {Idle, call[d][p]}
        /\ \A p \in Slots \ {q} : call[d][p].at # "joined" => s[p] = call[d][p]
        /\ \A p \in Slots \ {q} : ~ call[d][p].deaf /\ call[d][p].at # "idle" =>
             call[d][p].kind # "restore"
        /\ c.kind # "restore" => app[d].state = "open"
    BY <1>0, <1>1, SettledRequests
  <1> HIDE DEF s
  <1>3. Idle.at = "idle" /\ Idle.kind = "none" /\ Idle.token = None /\ ~ Idle.deaf
        /\ ~ Renews(Idle) /\ Idle \in CallRecord /\ ~ IsRotated(None)
    BY <1>2 DEF Idle, Renews, Renewing, IsRotated
  <1>4. \A p \in Slots : ~ s[p].deaf /\ s[p].at # "idle" => s[p].kind # "restore"
    BY <1>2, <1>3
  <1>5. \A p \in Slots : Renews(s[p]) \/ s[p].at = "renewed" => p # q /\ s[p] = call[d][p]
    BY <1>2, <1>3
  <1>6. TokensKept /\ alarmed' = alarmed
    BY NothingWritten DEF saveSession, sessionDenied, sessionUnanswered, timesOut, tokenVars
  <1>7. ASSUME KeepsSession(d, q)
        PROVE  \E kept \in AppRecord :
                 /\ app' = [app EXCEPT ![d] = kept] /\ kept.state = "open"
                 /\ kept.memory \in {None, app[d].memory, app[d].vault} /\ kept.vault = app[d].vault
    <2>1. CASE c.kind = "restore"
      <3>1. PICK left \in {None, app[d].vault} :
              app' = [app EXCEPT ![d].state = "open", ![d].memory = left]
        BY <1>7, <2>1 DEF KeepsSession, RestoresLocally
      <3> DEFINE kept == [app[d] EXCEPT !.state = "open", !.memory = left]
      <3>2. kept \in AppRecord /\ kept.state = "open" /\ kept.memory = left /\ kept.vault = app[d].vault
        BY <1>0 DEF AppRecord
      <3>3. app' = [app EXCEPT ![d] = kept]
        BY <1>0, <3>1 DEF SessionTypeOK, AppRecord
      <3> HIDE DEF kept
      <3>4. QED BY <3>2, <3>3
    <2>2. CASE c.kind # "restore"
      <3>1. app' = [app EXCEPT ![d] = app[d]]
        BY <1>0, <1>7, <2>2 DEF KeepsSession, SessionTypeOK
      <3>2. QED BY <1>0, <1>2, <2>2, <3>1
    <2>3. QED BY <2>1, <2>2
  <1>9. ASSUME Heard(d), ~ Renews(c)
        PROVE  IsRotated(app[d].memory) \/ IsRotated(app[d].vault) =>
                 \E p \in Slots \ {q} : Renews(s[p]) /\ s[p].at = "renewed"
    <2>1. SUFFICES ASSUME IsRotated(app[d].memory) \/ IsRotated(app[d].vault)
                   PROVE  \E p \in Slots \ {q} : Renews(s[p]) /\ s[p].at = "renewed"
      OBVIOUS
    <2>2. PICK p \in Slots : Renews(call[d][p]) /\ call[d][p].at = "renewed"
      BY <1>9, <2>1 DEF Heard
    <2>3. p # q
      BY <1>9, <2>2
    <2>4. s[p] = call[d][p]
      BY <1>2, <2>2, <2>3
    <2>5. QED BY <2>2, <2>3, <2>4
  <1>10. ASSUME Heard(d) PROVE \A p \in Slots : Renews(s[p]) => ~ s[p].deaf
    BY <1>5, <1>10 DEF Heard
  <1>11. CASE saveSession(d, q)
    <2>1. /\ c.at = "renewed" /\ c.token # None
          /\ \A p \in Slots \ {q} : call[d][p].token # c.token
      BY <1>0, <1>11 DEF saveSession, Fresh
    <2>2. /\ saved \in AppRecord /\ saved.state = "open" /\ saved.memory = c.token /\ saved.vault = c.token
          /\ inMemory \in AppRecord /\ inMemory.state = "open" /\ inMemory.memory = c.token
          /\ inMemory.vault = app[d].vault
      BY <1>0 DEF AppRecord, CallRecord
    <2>3. /\ call' = [call EXCEPT ![d] = s] /\ Excused \subseteq Excused'
          /\ Excused' \subseteq Excused \cup {d}
      BY <1>11 DEF saveSession, s, Excused
    <2>4. Has(d, c.token) /\ Has(d, app[d].vault)
      BY DEF Has
    <2>5. d \notin Excused => ~ IsRotated(c.token)
      BY <1>0, <2>1 DEF Heard
    <2>6. \A p \in Slots : s[p].at = "renewed" => s[p].token # c.token /\ s[p].token # app[d].vault
      BY <1>0, <1>5, <2>1 DEF Fresh
    <2>7. CASE app' = [app EXCEPT ![d] = saved]
      <3> HIDE DEF saved
      <3>1. MayEnd(d, saved, s)
        BY <1>0, <1>2, <1>4, <1>10, <2>2, <2>4, <2>6 DEF MayEnd
      <3>2. d \notin Excused' => StillHears(saved, s)
        BY <1>0, <1>10, <2>2, <2>3, <2>5 DEF StillHears
      <3>3. QED BY <1>2, <1>6, <2>2, <2>3, <2>7, <3>1, <3>2, RequestsEnd
    <2>8. CASE /\ app' = [app EXCEPT ![d].state = "open", ![d].memory = c.token]
               /\ unsaved' = IF c.kind = "login" THEN unsaved ELSE unsaved \cup {d}
      <3>1. app' = [app EXCEPT ![d] = inMemory]
        BY <1>0, <2>8 DEF SessionTypeOK, AppRecord
      <3> HIDE DEF inMemory
      <3>2. MayEnd(d, inMemory, s)
        BY <1>0, <1>2, <1>4, <1>10, <2>2, <2>4, <2>6 DEF MayEnd
      <3>3. d \notin Excused' => c.kind = "login" /\ d \notin Excused
        BY <2>3, <2>8 DEF Excused
      <3>4. c.kind = "login" => ~ Renews(c)
        BY DEF Renews
      <3>5. d \notin Excused' => StillHears(inMemory, s)
        BY <1>0, <1>9, <1>10, <2>2, <2>5, <3>3, <3>4 DEF StillHears
      <3>6. QED BY <1>2, <1>6, <2>2, <2>3, <3>1, <3>2, <3>5, RequestsEnd
    <2>9. QED BY <1>11, <2>7, <2>8 DEF saveSession
  <1>12. CASE sessionDenied(d, q)
    <2>1. call' = [call EXCEPT ![d] = s] /\ Excused' = Excused /\ c.at = "denied"
      BY <1>12 DEF sessionDenied, s, Excused
    <2>2. CASE c.kind \in {"login", "logout"}
      <3>1. app' = [app EXCEPT ![d] = app[d]] /\ app[d].state = "open"
        BY <1>0, <1>2, <1>12, <2>2 DEF sessionDenied, SessionTypeOK
      <3>2. ~ Renews(c)
        BY <2>2 DEF Renews
      <3>3. \A p \in Slots : s[p].at = "renewed" => app[d].memory # s[p].token /\ app[d].vault # s[p].token
        BY <1>0, <1>5 DEF Fresh
      <3>4. \A t \in {app[d].memory, app[d].vault} : Has(d, t)
        BY DEF Has
      <3>5. MayEnd(d, app[d], s)
        BY <1>0, <1>2, <1>4, <1>6, <1>9, <1>10, <2>1, <3>1, <3>2, <3>3, <3>4 DEF MayEnd
      <3>6. d \notin Excused' => StillHears(app[d], s)
        BY <1>0, <1>2, <1>4, <1>6, <1>9, <1>10, <2>1, <3>1, <3>2, <3>3, <3>4 DEF StillHears
      <3>7. QED BY <1>0, <1>2, <1>6, <2>1, <3>1, <3>5, <3>6, RequestsEnd
    <2>3. CASE c.kind \notin {"login", "logout"}
      <3>1. PICK left \in {None, app[d].vault} :
              app' = [app EXCEPT ![d] = [state |-> "open", memory |-> None, vault |-> left]]
        BY <1>12, <2>3 DEF sessionDenied, Forgets
      <3> DEFINE closed == [state |-> "open", memory |-> None, vault |-> left]
      <3>2. closed \in AppRecord /\ closed.state = "open" /\ closed.memory = None /\ closed.vault = left
        BY <1>0 DEF AppRecord
      <3>7. app' = [app EXCEPT ![d] = closed]
        BY <3>1
      <3> HIDE DEF closed
      <3>3. /\ \A p \in Slots : s[p].at = "renewed" => s[p].token # None /\ s[p].token # left
            /\ Has(d, app[d].vault)
        BY <1>0, <1>5 DEF Fresh, Has
      <3>4. MayEnd(d, closed, s)
        BY <1>2, <1>4, <3>2, <3>3 DEF MayEnd
      <3>8. ASSUME Heard(d), IsRotated(left)
            PROVE  \E p \in Slots : Renews(s[p]) /\ s[p].at = "renewed"
        <4>1. PICK p \in Slots : Renews(call[d][p]) /\ call[d][p].at = "renewed"
          BY <1>3, <3>8 DEF Heard
        <4>2. p # q
          BY <2>1, <4>1
        <4>3. s[p] = call[d][p]
          BY <1>2, <4>1, <4>2
        <4>4. QED BY <4>1, <4>3
      <3>5. d \notin Excused' => StillHears(closed, s)
        BY <1>0, <1>3, <1>10, <2>1, <3>2, <3>8 DEF StillHears
      <3>6. QED BY <1>2, <1>6, <2>1, <3>2, <3>7, <3>4, <3>5, RequestsEnd
    <2>4. QED BY <2>2, <2>3
  <1>13. ASSUME NEW kept \in AppRecord, kept.vault = app[d].vault,
               kept.memory \in {None, app[d].memory, app[d].vault}
        PROVE  /\ \A p \in Slots : s[p].at = "renewed" => kept.memory # s[p].token /\ kept.vault # s[p].token
               /\ \A t \in {kept.memory, kept.vault} : t = None \/ Has(d, t)
               /\ IsRotated(kept.memory) \/ IsRotated(kept.vault)
                    => IsRotated(app[d].memory) \/ IsRotated(app[d].vault)
    <2>1. \A p \in Slots : s[p].at = "renewed" => kept.memory # s[p].token /\ kept.vault # s[p].token
      BY <1>0, <1>5, <1>13 DEF Fresh
    <2>2. QED BY <1>3, <1>13, <2>1 DEF Has
  <1>16. CASE sessionUnanswered(d, q)
    <2>0. PICK kept \in AppRecord :
            /\ app' = [app EXCEPT ![d] = kept] /\ kept.state = "open"
            /\ kept.memory \in {None, app[d].memory, app[d].vault} /\ kept.vault = app[d].vault
      BY <1>7, <1>16 DEF sessionUnanswered
    <2>1. /\ app' = [app EXCEPT ![d] = kept] /\ call' = [call EXCEPT ![d] = s]
          /\ Excused' = Excused /\ c.at = "failed"
      BY <1>16, <2>0 DEF sessionUnanswered, s, Excused
    <2>2. d \notin Excused => ~ Renews(c)
      BY <1>0, <2>1 DEF Heard
    <2>3. MayEnd(d, kept, s)
      BY <1>2, <1>4, <1>13, <2>0 DEF MayEnd
    <2>4. d \notin Excused' => StillHears(kept, s)
      BY <1>0, <1>9, <1>10, <1>13, <2>0, <2>1, <2>2 DEF StillHears
    <2>5. QED BY <1>2, <1>6, <2>0, <2>1, <2>3, <2>4, RequestsEnd
  <1>17. CASE timesOut(d, q)
    <2>0. PICK kept \in AppRecord :
            /\ app' = [app EXCEPT ![d] = kept] /\ kept.state = "open"
            /\ kept.memory \in {None, app[d].memory, app[d].vault} /\ kept.vault = app[d].vault
      BY <1>7, <1>17 DEF timesOut
    <2>1. /\ app' = [app EXCEPT ![d] = kept] /\ call' = [call EXCEPT ![d] = f]
          /\ Excused' = IF c.kind \in {"login", "logout"} THEN Excused ELSE Excused \cup {d}
      BY <1>17, <2>0 DEF timesOut, s, Excused
    <2>2. /\ f \in [Slots -> CallRecord]
          /\ \A p \in Slots \ {q} : f[p] = s[p]
          /\ f[q] = Idle \/ (c.at \in {"sent", "checked"} /\ f[q] = [c EXCEPT !.deaf = TRUE])
      BY <1>0, <1>2, <1>3 DEF CallRecord
    <2>3. f[q] = Idle \/ (f[q].deaf /\ f[q].at # "renewed" /\ f[q].kind = c.kind)
      BY <1>0, <2>2 DEF CallRecord
    <2> HIDE DEF f
    <2>4. \A p \in Slots : f[p].at = "renewed" => f[p] = s[p]
      BY <1>3, <2>2, <2>3
    <2>5. \A p \in Slots : ~ f[p].deaf /\ f[p].at # "idle" => f[p].kind # "restore"
      BY <1>3, <1>4, <2>2, <2>3
    <2>6. ASSUME d \notin Excused'
          PROVE  /\ \A p \in Slots : Renews(f[p]) => ~ f[p].deaf
                 /\ IsRotated(kept.memory) \/ IsRotated(kept.vault) =>
                      \E p \in Slots : Renews(f[p]) /\ f[p].at = "renewed"
      <3>1. c.kind \in {"login", "logout"} /\ d \notin Excused
        BY <2>1, <2>6
      <3>2. ~ Renews(c) /\ ~ Renews(f[q]) /\ Heard(d)
        BY <1>0, <1>3, <2>3, <3>1 DEF Renews
      <3>3. \A p \in Slots : Renews(f[p]) => ~ f[p].deaf
        BY <1>10, <2>2, <3>2
      <3>4. QED BY <1>9, <1>13, <2>0, <2>2, <3>2, <3>3
    <2>7. \A p \in Slots : \/ f[p] \in {Idle, call[d][p]}
                           \/ /\ call[d][p].at \in {"sent", "checked"}
                              /\ f[p] = [call[d][p] EXCEPT !.deaf = TRUE]
      BY <1>2, <2>2
    <2>8. Excused \subseteq Excused' /\ Excused' \subseteq Excused \cup {d}
      BY <2>1
    <2>9. MayEnd(d, kept, f)
      <3>1. \A t \in {kept.memory, kept.vault} : t = None \/ Has(d, t)
        BY <1>13, <2>0
      <3>2. \A p \in Slots : f[p].at = "renewed" => kept.memory # f[p].token /\ kept.vault # f[p].token
        BY <1>13, <2>0, <2>4
      <3>3. QED BY <2>0, <2>5, <2>7, <3>1, <3>2 DEF MayEnd
    <2>10. d \notin Excused' => StillHears(kept, f)
      BY <2>6 DEF StillHears
    <2>11. QED BY <1>6, <2>0, <2>1, <2>2, <2>8, <2>9, <2>10, RequestsEnd
  <1>18. QED BY <1>11, <1>12, <1>16, <1>17

LEMMA KilledKeeps ==
  ASSUME SessionInv, NEW d \in Devices, killed(d)
  PROVE  SessionInv'
  <1> DEFINE a == [app[d] EXCEPT !.state = "closed", !.memory = None]
             f == [q \in Slots |->
                     IF call[d][q].at \in {"sent", "checked"} THEN [call[d][q] EXCEPT !.deaf = TRUE] ELSE Idle]
  <1>0. /\ SessionTypeOK /\ Awaits(d) /\ Fresh(d) /\ (d \notin Excused => Heard(d))
        /\ app[d] \in AppRecord /\ \A p \in Slots : call[d][p] \in CallRecord
    BY DEF SessionInv, DeviceOK, SessionTypeOK
  <1>1. Idle.at = "idle" /\ Idle.kind = "none" /\ ~ Idle.deaf /\ ~ Renews(Idle) /\ Idle \in CallRecord
        /\ ~ IsRotated(None)
    BY DEF Idle, Renews, Renewing, IsRotated, CallRecord, SomeToken
  <1>2. f \in [Slots -> CallRecord]
    BY <1>0, <1>1 DEF CallRecord
  <1>3. \A p \in Slots :
          \/ f[p] = Idle
          \/ /\ call[d][p].at \in {"sent", "checked"} /\ f[p] = [call[d][p] EXCEPT !.deaf = TRUE]
             /\ f[p].deaf /\ f[p].at = call[d][p].at /\ f[p].kind = call[d][p].kind
    BY <1>0 DEF CallRecord
  <1>4. a \in AppRecord /\ a.memory = None /\ a.vault = app[d].vault
    BY <1>0 DEF AppRecord, SomeToken
  <1>5. app' = [app EXCEPT ![d] = a] /\ call' = [call EXCEPT ![d] = f]
    BY <1>0 DEF killed, SessionTypeOK, AppRecord
  <1>6. TokensKept /\ alarmed' = alarmed
    BY NothingWritten DEF killed, tokenVars
  <1>7. Excused \subseteq Excused' /\ Excused' \subseteq Excused \cup {d}
        /\ (d \notin Excused' => d \notin Excused /\ \A q \in Slots : ~ Renews(call[d][q]))
    BY DEF killed, Renews, Excused
  <1> HIDE DEF a, f
  <1>8. \A p \in Slots : f[p].at # "renewed" /\ (f[p].deaf \/ f[p].at = "idle")
    BY <1>1, <1>3
  <1>9. MayEnd(d, a, f)
    BY <1>3, <1>4, <1>8 DEF MayEnd, Has
  <1>10. ASSUME d \notin Excused' PROVE StillHears(a, f)
    <2>1. \A p \in Slots : Renews(f[p]) => Renews(call[d][p])
      BY <1>1, <1>3 DEF Renews
    <2>2. ~ IsRotated(app[d].vault)
      BY <1>0, <1>7, <1>10 DEF Heard
    <2>3. QED BY <1>1, <1>4, <1>7, <1>10, <2>1, <2>2 DEF StillHears
  <1>11. QED BY <1>2, <1>4, <1>5, <1>6, <1>7, <1>9, <1>10, RequestsEnd

(* A change of password, a reset or a closure: every session is closed, the  *)
(* requests under way stay where they are, and a device may forget its own.  *)
LEMMA AccountKeeps ==
  ASSUME SessionInv, ClosesSessions, UNCHANGED <<issued, alarmed, answerLost, unsaved>>,
         isActive' \in BOOLEAN,
         app' = app \/ \E d \in Devices : app[d].state = "open" /\ Forgets(d)
  PROVE  SessionInv'
  <1>0. /\ SessionTypeOK /\ NoSelfInflictedAlarm
        /\ \A e \in Devices : Owner(e) /\ Awaits(e) /\ Fresh(e) /\ (e \notin Excused => Heard(e))
    BY DEF SessionInv, DeviceOK
  <1>1. TokensKept
    <2>1. token' = RevokeAll("password") /\ epoch' = epoch + 1 /\ issued' = issued
      BY DEF ClosesSessions
    <2>2. epoch' \in Nat
      BY <1>0, <2>1 DEF SessionTypeOK
    <2>3. QED BY <2>1, <2>2, EveryoneRevoked
  <1>2. /\ call' \in [Devices -> [Slots -> CallRecord]]
        /\ \A e \in Devices, q \in Slots :
             /\ call'[e][q].at = call[e][q].at /\ call'[e][q].kind = call[e][q].kind
             /\ call'[e][q].token = call[e][q].token /\ call'[e][q].deaf = call[e][q].deaf
    <2>1. ASSUME NEW e \in Devices, NEW q \in Slots
          PROVE  LET c == call[e][q]
                     n == IF c.at = "checked" THEN [c EXCEPT !.crossed = @ \cup {epoch + 1}] ELSE c IN
                 /\ n \in CallRecord
                 /\ n.at = c.at /\ n.kind = c.kind /\ n.token = c.token /\ n.deaf = c.deaf
      <3>1. call[e][q] \in CallRecord /\ epoch + 1 \in Nat
        BY <1>0 DEF SessionTypeOK
      <3>2. QED BY <3>1 DEF CallRecord
    <2>2. QED BY <2>1 DEF ClosesSessions, CrossesHandlers
  <1>3. /\ app' \in [Devices -> AppRecord]
        /\ \A e \in Devices :
             /\ app'[e].state = app[e].state
             /\ app'[e].memory \in {None, app[e].memory} /\ app'[e].vault \in {None, app[e].vault}
    <2>1. CASE app' = app
      BY <1>0, <2>1 DEF SessionTypeOK
    <2>2. CASE \E d \in Devices : app[d].state = "open" /\ Forgets(d)
      <3>0. PICK d \in Devices : app[d].state = "open" /\ Forgets(d)
        BY <2>2
      <3>1. PICK left \in {None, app[d].vault} :
              app' = [app EXCEPT ![d] = [state |-> "open", memory |-> None, vault |-> left]]
        BY <3>0 DEF Forgets
      <3>2. [state |-> "open", memory |-> None, vault |-> left] \in AppRecord
        BY <1>0 DEF SessionTypeOK, AppRecord, SomeToken
      <3>3. QED BY <1>0, <3>0, <3>1, <3>2 DEF SessionTypeOK
    <2>3. QED BY <2>1, <2>2
  <1>4. SessionTypeOK' /\ Excused' = Excused
    BY <1>0, <1>1, <1>2, <1>3 DEF SessionTypeOK, TokensKept, Excused
  <1>5. \A e \in Devices, t \in Token : Has(e, t)' => Has(e, t)
    BY <1>2, <1>3 DEF Has, Token, None
  <1>6. ASSUME NEW t \in SomeToken, IsRotated(t)' PROVE IsRotated(t)
    BY <1>1, <1>6 DEF IsRotated, TokensKept, SomeToken, None
  <1>7. \A e \in Devices, q \in Slots : Renews(call'[e][q]) <=> Renews(call[e][q])
    BY <1>2 DEF Renews
  <1>8. ASSUME NEW e \in Devices PROVE DeviceOK(e)'
    <2>1. Owner(e)'
      BY <1>0, <1>5 DEF Owner
    <2>2. Awaits(e)'
      <3>1. SUFFICES ASSUME NEW q \in Slots
            PROVE  LET c == call'[e][q] IN
                   /\ c.kind = "none" <=> c.at \in {"idle", "asked", "joined"}
                   /\ c.at \in {"checked", "renewed"} => c.kind \in {"login", "refresh", "restore"}
                   /\ Renews(c) => c.token # None
                   /\ c.deaf => c.at \in Renewing
                   /\ ~ c.deaf /\ c.at # "idle" =>
                        app'[e].state = IF c.kind = "restore" THEN "restoring" ELSE "open"
                   /\ ~ c.deaf /\ c.kind = "restore" =>
                        \A p \in Slots \ {q} : call'[e][p].kind = "restore" => call'[e][p].deaf
        BY DEF Awaits, Renews
      <3>2. \A p \in Slots :
              /\ call'[e][p].at = call[e][p].at /\ call'[e][p].kind = call[e][p].kind
              /\ call'[e][p].token = call[e][p].token /\ call'[e][p].deaf = call[e][p].deaf
        BY <1>2
      <3>3. app'[e].state = app[e].state /\ Awaits(e)
        BY <1>0, <1>3
      <3>4. LET c == call[e][q] IN
            /\ c.kind = "none" <=> c.at \in {"idle", "asked", "joined"}
            /\ c.at \in {"checked", "renewed"} => c.kind \in {"login", "refresh", "restore"}
            /\ c.deaf => c.at \in Renewing
            /\ ~ c.deaf /\ c.at # "idle" =>
                 app'[e].state = IF c.kind = "restore" THEN "restoring" ELSE "open"
        BY <3>3 DEF Awaits
      <3>5. Renews(call'[e][q]) => call[e][q].token # None
        BY <1>7, <3>3 DEF Awaits
      <3>6. call[e][q].deaf \/ call[e][q].kind # "restore" \/
              \A p \in Slots \ {q} : call[e][p].kind = "restore" => call[e][p].deaf
        BY <3>3 DEF Awaits
      <3>7. QED BY <3>2, <3>4, <3>5, <3>6
    <2>3. Fresh(e)'
      BY <1>0, <1>2, <1>3 DEF Fresh
    <2>4. ASSUME e \notin Excused' PROVE Heard(e)'
      <3>1. Heard(e)
        BY <1>0, <1>4, <2>4
      <3>2. /\ IsRotated(app[e].memory)' \/ IsRotated(app[e].vault)' =>
                 IsRotated(app[e].memory) \/ IsRotated(app[e].vault)
            /\ \A q \in Slots : IsRotated(call[e][q].token)' => IsRotated(call[e][q].token)
        <4>1. /\ app[e].memory \in SomeToken /\ app[e].vault \in SomeToken
              /\ app'[e].memory \in SomeToken /\ app'[e].vault \in SomeToken
              /\ \A q \in Slots : call'[e][q].token \in SomeToken
          BY <1>0, <1>2, <1>3 DEF SessionTypeOK, AppRecord, CallRecord
        <4>2. ~ IsRotated(None)
          BY DEF IsRotated
        <4>3. /\ token'[app'[e].memory].by = "rotation" /\ app'[e].memory # None => IsRotated(app'[e].memory)
              /\ token'[app'[e].vault].by = "rotation" /\ app'[e].vault # None => IsRotated(app'[e].vault)
              /\ \A q \in Slots : token'[call'[e][q].token].by = "rotation" /\ call'[e][q].token # None
                   => IsRotated(call'[e][q].token)
          BY <1>6, <4>1 DEF IsRotated
        <4>4. QED BY <1>2, <1>3, <4>2, <4>3 DEF IsRotated
      <3>3. QED BY <1>2, <1>7, <3>1, <3>2 DEF Heard
    <2>5. QED BY <2>1, <2>2, <2>3, <2>4 DEF DeviceOK
  <1>9. NoSelfInflictedAlarm'
    BY <1>0 DEF NoSelfInflictedAlarm
  <1>10. QED BY <1>4, <1>8, <1>9 DEF SessionInv

LEMMA SessionStart == SessionInit => SessionInv
  <1> SUFFICES ASSUME SessionInit PROVE SessionInv
    OBVIOUS
  <1>1. /\ Idle.at = "idle" /\ Idle.kind = "none" /\ Idle.token = None /\ Idle.deaf = FALSE
        /\ Idle \in CallRecord /\ Unissued \in TokenRow /\ Unissued.state = "unissued" /\ Unissued.by = "nobody"
    BY DEF Idle, CallRecord, SomeToken, Unissued, TokenRow
  <1>2. SessionTypeOK
    BY <1>1, SessionBounds DEF SessionInit, SessionTypeOK, AppRecord, SomeToken
  <1>3. \A d \in Devices : /\ app[d].memory = None /\ app[d].vault = None
                           /\ \A q \in Slots : call[d][q] = Idle
    BY DEF SessionInit
  <1>4. \A t \in Token : token[t] = Unissued /\ t # None
    BY DEF SessionInit, Token, None
  <1>5. ASSUME NEW d \in Devices PROVE DeviceOK(d)
    <2>1. Owner(d)
      BY <1>1, <1>3, <1>4 DEF Owner, Has
    <2>2. Awaits(d)
      BY <1>1, <1>3 DEF Awaits, Renews, Renewing
    <2>3. Fresh(d)
      BY <1>1, <1>3 DEF Fresh
    <2>4. Heard(d)
      BY <1>1, <1>3 DEF Heard, Renews, IsRotated
    <2>5. QED BY <2>1, <2>2, <2>3, <2>4 DEF DeviceOK
  <1>6. NoSelfInflictedAlarm
    BY DEF SessionInit, NoSelfInflictedAlarm
  <1>7. QED BY <1>2, <1>5, <1>6 DEF SessionInv

LEMMA SessionUnchanged ==
  ASSUME SessionInv, UNCHANGED sessionVars
  PROVE  SessionInv'
  BY DEF SessionInv, sessionVars, tokenVars, deviceVars, SessionTypeOK, DeviceOK, Owner, Has, Awaits, Fresh,
         Heard, IsRotated, Renews, Excused, NoSelfInflictedAlarm

LEMMA SessionStep == SessionInv /\ [SessionNext]_sessionVars => SessionInv'
  <1> SUFFICES ASSUME SessionInv, [SessionNext]_sessionVars PROVE SessionInv'
    OBVIOUS
  <1>1. CASE UNCHANGED sessionVars
    BY <1>1, SessionUnchanged
  <1>2. ASSUME NEW d \in Devices, changePassword(d) \/ deleteAccount(d) \/ killed(d) PROVE SessionInv'
    <2>1. isActive \in BOOLEAN
      BY DEF SessionInv, SessionTypeOK
    <2>2. QED BY <1>2, <2>1, KilledKeeps, AccountKeeps DEF changePassword, deleteAccount
  <1>5. ASSUME resetPassword PROVE SessionInv'
    <2>1. isActive \in BOOLEAN
      BY DEF SessionInv, SessionTypeOK
    <2>2. QED BY <1>5, <2>1, AccountKeeps DEF resetPassword
  <1>3. ASSUME NEW d \in Devices, NEW q \in Slots,
               \/ Serves(d, q) \/ Settles(d, q)
               \/ refreshExpired(d, q) \/ refreshDies(d, q)
               \/ apiRequest(d, q) \/ signIn(d, q) \/ signOut(d, q) \/ restore(d, q)
        PROVE  SessionInv'
    BY <1>3, AnsweringKeeps, IssueKeeps, DeathKeeps, RequestsKeep, EndingsKeep DEF Serves, Settles
  <1>4. QED BY <1>1, <1>2, <1>3, <1>5 DEF SessionNext

(* The rows, the devices and their requests keep the shape the code gives them: *)
(* AuthService, the session store and the HTTP client.                     *)
THEOREM SessionTypeCorrectness == SessionSpec => []SessionTypeOK
  <1>1. SessionInv => SessionTypeOK
    BY DEF SessionInv
  <1>2. QED BY <1>1, SessionStart, SessionStep, PTL DEF SessionSpec

(* refreshOnce, saveSession: however many requests of a device are refused   *)
(* at once, on however many devices, and whenever one is killed, a device    *)
(* that hears its renewals and whose vault takes their tokens never presents *)
(* a token that was rotated away, so the server never takes it for a thief.  *)
THEOREM DevicesDoNotAccuseThemselves == SessionSpec => []NoSelfInflictedAlarm
  <1>1. SessionInv => NoSelfInflictedAlarm
    BY DEF SessionInv
  <1>2. QED BY <1>1, SessionStart, SessionStep, PTL DEF SessionSpec

\* A session, or the handler that opens or renews it, has crossed every change since.
HasCrossed(r) == \A k \in (r.since + 1) .. epoch : k \in r.crossed

\* Inductive: a handler that has checked carries what its session will carry.
PasswordInv ==
  /\ \A t \in Token : token[t].state = "live" => HasCrossed(token[t])
  /\ \A d \in Devices, q \in Slots : call[d][q].at = "checked" => HasCrossed(call[d][q])

\* The step of one request, which leaves the password alone.
LEMMA OneHandlerCrosses ==
  ASSUME SessionTypeOK, PasswordInv, epoch' = epoch, NEW d \in Devices, NEW q \in Slots, NEW c,
         call' = [call EXCEPT ![d] = [call[d] EXCEPT ![q] = c]],
         c.at = "checked" => HasCrossed(c),
         \A t \in Token : token'[t].state = "live" => token'[t] = token[t] \/ HasCrossed(token'[t])
  PROVE  PasswordInv'
  <1>1. \A r : HasCrossed(r) <=> \A k \in (r.since + 1) .. epoch' : k \in r.crossed
    BY DEF HasCrossed
  <1>2. ASSUME NEW t \in Token, token'[t].state = "live"
        PROVE  \A k \in (token'[t].since + 1) .. epoch' : k \in token'[t].crossed
    <2>1. HasCrossed(token'[t])
      BY <1>2 DEF PasswordInv
    <2>2. QED BY <2>1, <1>1
  <1>3. ASSUME NEW e \in Devices, NEW p \in Slots, call'[e][p].at = "checked"
        PROVE  \A k \in (call'[e][p].since + 1) .. epoch' : k \in call'[e][p].crossed
    <2>1. call'[e][p] = IF e = d /\ p = q THEN c ELSE call[e][p]
      BY DEF SessionTypeOK
    <2>2. HasCrossed(call'[e][p])
      BY <1>3, <2>1 DEF PasswordInv
    <2>3. QED BY <2>2, <1>1
  <1>4. QED BY <1>2, <1>3 DEF PasswordInv, HasCrossed

\* Requests of one device stay as they are, are over, or lose their listener.
LEMMA EndedHandlersCross ==
  ASSUME SessionTypeOK, PasswordInv, UNCHANGED <<token, epoch>>,
         \A e \in Devices, p \in Slots : call'[e][p].at = "checked" =>
           /\ call[e][p].at = "checked"
           /\ call'[e][p].since = call[e][p].since /\ call'[e][p].crossed = call[e][p].crossed
  PROVE  PasswordInv'
  BY DEF PasswordInv, HasCrossed

LEMMA PasswordStep ==
  ASSUME SessionInv, PasswordInv, [SessionNext]_sessionVars
  PROVE  PasswordInv'
  <1>0. SessionTypeOK
    BY DEF SessionInv
  <1>1. CASE UNCHANGED sessionVars
    BY <1>1 DEF sessionVars, tokenVars, deviceVars, PasswordInv, HasCrossed
  <1>2. ASSUME ClosesSessions PROVE PasswordInv'
    <2>1. \A t \in Token : token'[t].state # "live"
      BY <1>0, <1>2 DEF ClosesSessions, RevokeAll, SessionTypeOK, TokenRow
    <2>2. ASSUME NEW d \in Devices, NEW q \in Slots, call'[d][q].at = "checked"
          PROVE  \A k \in (call'[d][q].since + 1) .. epoch' : k \in call'[d][q].crossed
      <3>1. call[d][q] \in CallRecord /\ epoch \in Nat /\ epoch' = epoch + 1
        BY <1>0, <1>2 DEF SessionTypeOK, ClosesSessions
      <3>2. call'[d][q] = IF call[d][q].at = "checked"
                          THEN [call[d][q] EXCEPT !.crossed = @ \cup {epoch + 1}] ELSE call[d][q]
        BY <1>2 DEF ClosesSessions, CrossesHandlers
      <3>3. call[d][q].at = "checked"
        BY <2>2, <3>2
      <3>4. /\ call'[d][q].since = call[d][q].since /\ call[d][q].since \in Nat
            /\ call'[d][q].crossed = call[d][q].crossed \cup {epoch + 1}
        BY <3>1, <3>2, <3>3 DEF CallRecord
      <3>5. \A k \in (call[d][q].since + 1) .. epoch : k \in call[d][q].crossed
        BY <3>3 DEF PasswordInv, HasCrossed
      <3>6. QED BY <3>1, <3>4, <3>5
    <2>3. QED BY <2>1, <2>2 DEF PasswordInv, HasCrossed
  <1>3. ASSUME NEW d \in Devices, NEW q \in Slots, loginChecks(d, q) PROVE PasswordInv'
    <2> DEFINE c == [call[d][q] EXCEPT !.at = "checked", !.since = epoch]
               n == [call[d][q] EXCEPT !.at = "denied"]
    <2>1. UNCHANGED <<token, epoch>> /\ call[d][q] \in CallRecord /\ epoch \in Nat
      BY <1>0, <1>3 DEF loginChecks, tokenVars, SessionTypeOK
    <2>2. c.since = epoch /\ n.at = "denied"
      BY <2>1 DEF CallRecord
    <2>3. HasCrossed(c)
      BY <2>1, <2>2 DEF HasCrossed
    <2>4. \/ call' = [call EXCEPT ![d] = [call[d] EXCEPT ![q] = c]]
          \/ call' = [call EXCEPT ![d] = [call[d] EXCEPT ![q] = n]]
      BY <1>0, <1>3, CallChanges DEF loginChecks, At
    <2> HIDE DEF c, n
    <2>5. QED BY <1>0, <2>1, <2>2, <2>3, <2>4, OneHandlerCrosses
  <1>4. ASSUME NEW d \in Devices, NEW q \in Slots, refreshChecks(d, q) PROVE PasswordInv'
    <2> DEFINE old == call[d][q]
               c == Continued(old)
               n == [old EXCEPT !.at = "denied"]
    <2>1. /\ UNCHANGED <<token, epoch>> /\ old \in CallRecord
          /\ old.at = "sent" /\ old.kind \in {"refresh", "restore"} /\ token[old.token].state = "live"
      BY <1>0, <1>4 DEF refreshChecks, tokenVars, SessionTypeOK
    <2>2. old.token \in Token
      BY <2>1 DEF SessionInv, DeviceOK, Awaits, Renews, Renewing, CallRecord, SomeToken
    <2>3. HasCrossed(token[old.token])
      BY <2>1, <2>2 DEF PasswordInv
    <2>4. /\ c.since = token[old.token].since /\ c.crossed = token[old.token].crossed
          /\ n.at = "denied"
      BY <2>1 DEF Continued, CallRecord
    <2>5. HasCrossed(c)
      BY <2>3, <2>4 DEF HasCrossed
    <2>6. \/ call' = [call EXCEPT ![d] = [call[d] EXCEPT ![q] = c]]
          \/ call' = [call EXCEPT ![d] = [call[d] EXCEPT ![q] = n]]
      <3>1. \/ call' = [call EXCEPT ![d][q] = c]
            \/ At(d, q, "denied")
        BY <1>4 DEF refreshChecks, Continued
      <3>2. CASE call' = [call EXCEPT ![d][q] = c]
        BY <3>2
      <3>3. CASE At(d, q, "denied")
        BY <1>0, <3>3, CallChanges DEF At
      <3>4. QED BY <3>1, <3>2, <3>3
    <2> HIDE DEF c, n
    <2>7. QED BY <1>0, <2>1, <2>4, <2>5, <2>6, OneHandlerCrosses
  <1>5. ASSUME NEW d \in Devices, NEW q \in Slots,
               refreshAlarms(d, q) \/ refreshExpired(d, q) \/ logoutRefused(d, q)
        PROVE  PasswordInv'
    <2> DEFINE n == [call[d][q] EXCEPT !.at = "denied"]
    <2>1. n.at = "denied"
      BY <1>0 DEF SessionTypeOK, CallRecord
    <2>2. call' = [call EXCEPT ![d] = [call[d] EXCEPT ![q] = n]]
      BY <1>0, <1>5, CallChanges DEF refreshAlarms, refreshExpired, logoutRefused, At
    <2>3. /\ epoch' = epoch
          /\ \A t \in Token : token'[t].state = "live" => token'[t] = token[t]
      BY <1>0, <1>5 DEF refreshAlarms, refreshExpired, logoutRefused, tokenVars, RevokeAll, SessionTypeOK, TokenRow
    <2> HIDE DEF n
    <2>4. QED BY <1>0, <2>1, <2>2, <2>3, OneHandlerCrosses
  <1>6. ASSUME NEW d \in Devices, NEW q \in Slots, issueTokens(d, q) PROVE PasswordInv'
    <2> DEFINE c == call[d][q]
               r == [state |-> "live", by |-> "nobody", since |-> c.since, crossed |-> c.crossed]
               b == [c EXCEPT !.at = "renewed", !.token = issued + 1]
    <2>1. c \in CallRecord /\ c.at = "checked" /\ epoch' = epoch
      BY <1>0, <1>6 DEF issueTokens, SessionTypeOK
    <2>2. HasCrossed(r) /\ b.at = "renewed"
      BY <2>1 DEF PasswordInv, HasCrossed, CallRecord
    <2>3. call' = [call EXCEPT ![d] = [call[d] EXCEPT ![q] = b]]
      BY <1>0, <1>6 DEF issueTokens, SessionTypeOK
    <2>4. \A t \in Token : token'[t].state = "live" => token'[t] = token[t] \/ token'[t] = r
      <3>1. /\ Rotated(c) \in [Token -> TokenRow]
            /\ \A t \in Token : Rotated(c)[t].state = "live" => Rotated(c)[t] = token[t]
        BY <2>1, RotationOfOne
      <3>2. token' = [Rotated(c) EXCEPT ![issued + 1] = r]
        BY <1>6 DEF issueTokens
      <3> HIDE DEF r
      <3>3. QED BY <3>1, <3>2
    <2> HIDE DEF r, b
    <2>5. QED BY <1>0, <2>1, <2>2, <2>3, <2>4, OneHandlerCrosses
  <1>7. ASSUME NEW d \in Devices, NEW q \in Slots, refreshDies(d, q) PROVE PasswordInv'
    <2> DEFINE n == [call[d][q] EXCEPT !.at = "failed"]
    <2>1. n.at = "failed" /\ epoch' = epoch
      BY <1>0, <1>7 DEF SessionTypeOK, CallRecord, refreshDies
    <2>2. call' = [call EXCEPT ![d] = [call[d] EXCEPT ![q] = n]]
      BY <1>0, <1>7, CallChanges DEF refreshDies, At
    <2>3. \A t \in Token : token'[t].state = "live" => token'[t] = token[t]
      BY <1>7, RotationOfOne DEF refreshDies
    <2> HIDE DEF n
    <2>4. QED BY <1>0, <2>1, <2>2, <2>3, OneHandlerCrosses
  <1>8. ASSUME NEW d \in Devices, NEW q \in Slots,
               \/ apiRequest(d, q) \/ refreshOnce(d, q) \/ signIn(d, q) \/ signOut(d, q)
               \/ restore(d, q) \/ forgotten(d, q)
        PROVE  PasswordInv'
    <2>1. UNCHANGED <<token, epoch>>
      BY <1>8 DEF apiRequest, refreshOnce, signIn, signOut, restore, forgotten, tokenVars
    <2>2. \E c : /\ call' = [call EXCEPT ![d] = [call[d] EXCEPT ![q] = c]]
                 /\ c.at # "checked" \/ c = call[d][q]
      <3>1. call[d][q] \in CallRecord /\ Idle.at = "idle"
        BY <1>0 DEF SessionTypeOK, Idle
      <3>2. call = [call EXCEPT ![d] = [call[d] EXCEPT ![q] = call[d][q]]]
        BY <1>0 DEF SessionTypeOK
      <3>3. CASE apiRequest(d, q)
        <4>1. [call[d][q] EXCEPT !.at = "asked"].at # "checked"
          BY <3>1 DEF CallRecord
        <4>2. call' = [call EXCEPT ![d] = [call[d] EXCEPT ![q] = [call[d][q] EXCEPT !.at = "asked"]]]
          BY <1>0, <3>3, CallChanges DEF apiRequest, At
        <4>3. QED BY <4>1, <4>2
      <3>4. CASE refreshOnce(d, q) \/ signIn(d, q) \/ signOut(d, q) \/ forgotten(d, q)
        <4> DEFINE c == call'[d][q]
        <4>1. call' = [call EXCEPT ![d] = [call[d] EXCEPT ![q] = c]]
          BY <1>0, <3>4 DEF refreshOnce, signIn, signOut, forgotten, SessionTypeOK
        <4>2. c.at # "checked"
          <5>1. /\ [call[d][q] EXCEPT !.at = "joined"].at = "joined" /\ Idle.at = "idle"
                /\ [Idle EXCEPT !.at = "sent", !.kind = "refresh", !.token = app[d].memory].at = "sent"
                /\ [Idle EXCEPT !.at = "sent", !.kind = "logout", !.token = app[d].memory].at = "sent"
                /\ [Idle EXCEPT !.at = "sent", !.kind = "login"].at = "sent"
            BY <3>1 DEF Idle, CallRecord
          <5>2. call \in [Devices -> [Slots -> CallRecord]]
            BY <1>0 DEF SessionTypeOK
          <5>3. CASE refreshOnce(d, q)
            <6>1. c \in {[call[d][q] EXCEPT !.at = "joined"], Idle,
                         [Idle EXCEPT !.at = "sent", !.kind = "refresh", !.token = app[d].memory]}
              BY <5>2, <5>3 DEF refreshOnce
            <6>2. QED BY <5>1, <6>1
          <5>4. CASE signIn(d, q)
            BY <5>1, <5>2, <5>4 DEF signIn
          <5>5. CASE signOut(d, q)
            BY <5>1, <5>2, <5>5 DEF signOut
          <5>6. CASE forgotten(d, q)
            <6>1. c = Idle
              BY <5>2, <5>6 DEF forgotten
            <6>2. QED BY <5>1, <6>1
          <5>7. QED BY <3>4, <5>3, <5>4, <5>5, <5>6
        <4>3. QED BY <4>1, <4>2
      <3>5. CASE restore(d, q)
        <4> DEFINE c == [Idle EXCEPT !.at = "sent", !.kind = "restore", !.token = app[d].vault]
        <4>1. c.at = "sent"
          BY DEF Idle
        <4>2. \/ call' = [call EXCEPT ![d] = [call[d] EXCEPT ![q] = c]]
              \/ call' = call
          BY <1>0, <3>5 DEF restore, SessionTypeOK
        <4> HIDE DEF c
        <4>3. QED BY <3>2, <4>1, <4>2
      <3>6. QED BY <1>8, <3>3, <3>4, <3>5
    <2>3. PICK c : /\ call' = [call EXCEPT ![d] = [call[d] EXCEPT ![q] = c]]
                   /\ c.at # "checked" \/ c = call[d][q]
      BY <2>2
    <2>4. c.at = "checked" => HasCrossed(c)
      BY <2>3 DEF PasswordInv
    <2>5. QED BY <1>0, <2>1, <2>3, <2>4, OneHandlerCrosses
  <1>9. ASSUME NEW d \in Devices, NEW q \in Slots,
               saveSession(d, q) \/ sessionDenied(d, q) \/ sessionUnanswered(d, q) \/ timesOut(d, q)
        PROVE  PasswordInv'
    <2>1. UNCHANGED <<token, epoch>>
      BY <1>9 DEF saveSession, sessionDenied, sessionUnanswered, timesOut, tokenVars
    <2>2. \A p \in Slots : Settled(d, q)[p] = Idle \/ Settled(d, q)[p] = call[d][p]
      BY DEF Settled
    <2>3. /\ Idle.at # "checked"
          /\ call[d][q] \in CallRecord
      BY <1>0 DEF Idle, SessionTypeOK
    <2>4. PICK f : /\ call' = [call EXCEPT ![d] = f]
                   /\ \A p \in Slots : f[p] \in {Idle, call[d][p], [call[d][p] EXCEPT !.deaf = TRUE]}
      <3>1. CASE saveSession(d, q) \/ sessionDenied(d, q) \/ sessionUnanswered(d, q)
        BY <3>1, <2>2 DEF saveSession, sessionDenied, sessionUnanswered
      <3>2. CASE timesOut(d, q)
        <4> DEFINE f == [Settled(d, q) EXCEPT
                           ![q] = IF call[d][q].at \in {"sent", "checked"}
                                  THEN [call[d][q] EXCEPT !.deaf = TRUE] ELSE Idle]
        <4>1. call' = [call EXCEPT ![d] = f]
          BY <3>2 DEF timesOut
        <4>2. \A p \in Slots : f[p] \in {Idle, call[d][p], [call[d][p] EXCEPT !.deaf = TRUE]}
          BY <2>2 DEF Settled
        <4> HIDE DEF f
        <4>3. QED BY <4>1, <4>2
      <3>3. QED BY <1>9, <3>1, <3>2
    <2>5. \A p \in Slots : LET b == [call[d][p] EXCEPT !.deaf = TRUE] IN
            b.at = call[d][p].at /\ b.since = call[d][p].since /\ b.crossed = call[d][p].crossed
      BY <1>0 DEF SessionTypeOK, CallRecord
    <2>6. \A e \in Devices, p \in Slots : call'[e][p] = IF e = d THEN f[p] ELSE call[e][p]
      BY <1>0, <2>4 DEF SessionTypeOK
    <2>7. \A e \in Devices, p \in Slots : call'[e][p].at = "checked" =>
            /\ call[e][p].at = "checked"
            /\ call'[e][p].since = call[e][p].since /\ call'[e][p].crossed = call[e][p].crossed
      <3>1. ASSUME NEW p \in Slots, f[p].at = "checked"
            PROVE  /\ call[d][p].at = "checked"
                   /\ f[p].since = call[d][p].since /\ f[p].crossed = call[d][p].crossed
        BY <2>3, <2>4, <2>5, <3>1
      <3>2. QED BY <2>6, <3>1
    <2>8. QED BY <1>0, <2>1, <2>7, EndedHandlersCross
  <1>10. ASSUME NEW d \in Devices, killed(d) PROVE PasswordInv'
    <2>1. UNCHANGED <<token, epoch>> /\ Idle.at # "checked"
      BY <1>10 DEF killed, tokenVars, Idle
    <2>2. \A e \in Devices, p \in Slots :
            call'[e][p] = IF e # d THEN call[e][p]
                          ELSE IF call[d][p].at \in {"sent", "checked"}
                          THEN [call[d][p] EXCEPT !.deaf = TRUE] ELSE Idle
      BY <1>0, <1>10 DEF killed, SessionTypeOK
    <2>3. \A p \in Slots : LET b == [call[d][p] EXCEPT !.deaf = TRUE] IN
            b.at = call[d][p].at /\ b.since = call[d][p].since /\ b.crossed = call[d][p].crossed
      BY <1>0 DEF SessionTypeOK, CallRecord
    <2>4. QED BY <1>0, <2>1, <2>2, <2>3, EndedHandlersCross
  <1>11. QED
    BY <1>1, <1>2, <1>3, <1>4, <1>5, <1>6, <1>7, <1>8, <1>9, <1>10
       DEF SessionNext, Serves, Settles, changePassword, deleteAccount, resetPassword

(* changePassword, resetPassword and deleteAccount revoke every session in   *)
(* the transaction that changes the password: a session outlives them, and   *)
(* its renewals after it, only through a login or a renewal whose handler    *)
(* stood between its check and its write at each of them.                   *)
THEOREM PasswordsEndSessions == SessionSpec => []NoSessionOutlivesThePassword
  <1>1. SessionInit => PasswordInv
    BY DEF SessionInit, PasswordInv, Unissued, Idle
  <1>2. SessionInv /\ PasswordInv /\ [SessionNext]_sessionVars => PasswordInv'
    BY PasswordStep
  <1>3. PasswordInv => NoSessionOutlivesThePassword
    BY DEF PasswordInv, HasCrossed, NoSessionOutlivesThePassword
  <1>4. QED BY <1>1, <1>2, <1>3, SessionStart, SessionStep, PTL DEF SessionSpec

-----------------------------------------------------------------------------
(* Notices.                                                                *)

Account == Customers \cup {NoCustomer}
NoticeRow == [status : {"none", "unread", "read"}, userId : Account, type : Types \cup {"none"}]
TaskRecord ==
  [at : {"none", "written", "pushing", "pushed", "fallback", "done", "lost"},
   tokens : SUBSET Telephones, invalid : SUBSET Telephones, accepted : SUBSET Telephones]
TelephoneRecord ==
  [installed : BOOLEAN, user : Account, resolving : BOOLEAN, requests : SUBSET Account,
   screen : SUBSET Notices]

NoticeTypeOK ==
  /\ notice \in [Notices -> NoticeRow]
  /\ delivery \in [Notices -> TaskRecord]
  /\ pushToken \in [Telephones -> Account]
  /\ telephone \in [Telephones -> TelephoneRecord]
  /\ texted \subseteq Notices

\* What each stage of a delivery knows of the provider's answer and of the SMS.
DeliveryInv ==
  \A n \in Notices :
    /\ notice[n] = Unwritten => delivery[n].at = "none"
    /\ delivery[n].at \in {"none", "written", "pushing"} => delivery[n].accepted = {}
    /\ n \in texted => /\ delivery[n].at = "done" /\ delivery[n].accepted = {}
                       /\ notice[n].type \in SMS_WORTHY
    /\ delivery[n].at = "done" /\ notice[n].type \in SMS_WORTHY =>
         delivery[n].accepted # {} \/ n \in texted

NoticeInv == NoticeTypeOK /\ DeliveryInv

\* A delivery moves on; its notice stays, and the SMS is decided at its end.
LEMMA TaskKeeps ==
  ASSUME NoticeInv, NEW n \in Notices, NEW c \in TaskRecord, delivery' = [delivery EXCEPT ![n] = c],
         delivery[n].at \notin {"none", "done"}, c.at # "none", UNCHANGED <<notice, telephone>>,
         pushToken' \in [Telephones -> Account],
         c.at \in {"written", "pushing"} => c.accepted = {},
         texted' = texted \/ texted' = texted \cup {n},
         n \in texted' <=> c.at = "done" /\ c.accepted = {} /\ notice[n].type \in SMS_WORTHY
  PROVE  NoticeInv'
  <1>1. /\ NoticeTypeOK /\ DeliveryInv /\ n \notin texted
        /\ \A m \in Notices : delivery'[m] = IF m = n THEN c ELSE delivery[m]
    BY DEF NoticeInv, DeliveryInv, NoticeTypeOK
  <1>2. NoticeTypeOK'
    BY <1>1 DEF NoticeTypeOK
  <1>3. DeliveryInv'
    <2>1. notice[n] # Unwritten
      BY <1>1 DEF DeliveryInv
    <2>2. \A m \in Notices \ {n} : m \in texted' <=> m \in texted
      OBVIOUS
    <2>3. QED BY <1>1, <2>1, <2>2 DEF DeliveryInv
  <1>4. QED BY <1>2, <1>3 DEF NoticeInv

LEMMA TasksKeep ==
  ASSUME NoticeInv, NEW n \in Notices,
         deliverReads(n) \/ pushSend(n) \/ purgeInvalid(n) \/ deliverEnds(n) \/ deliverLost(n)
  PROVE  NoticeInv'
  <1> DEFINE k == delivery[n]
  <1>0. /\ NoticeTypeOK /\ k \in TaskRecord /\ pushToken \in [Telephones -> Account]
        /\ k.at \in {"none", "written", "pushing"} => k.accepted = {}
        /\ k.at # "done" => n \notin texted
    BY DEF NoticeInv, NoticeTypeOK, DeliveryInv
  <1>1. CASE deliverReads(n)
    <2> DEFINE tokens == {t \in Telephones : pushToken[t] = notice[n].userId}
    <2>1. PICK at \in {"fallback", "pushing"} :
            delivery' = [delivery EXCEPT ![n] = [k EXCEPT !.at = at, !.tokens = tokens]]
      BY <1>0, <1>1 DEF deliverReads, NoticeTypeOK, TaskRecord
    <2> DEFINE c == [k EXCEPT !.at = at, !.tokens = tokens]
    <2>2. c \in TaskRecord /\ c.at = at /\ c.accepted = k.accepted
      BY <1>0 DEF TaskRecord
    <2> HIDE DEF c
    <2>3. delivery' = [delivery EXCEPT ![n] = c]
      BY <2>1 DEF c
    <2>4. QED BY <1>0, <1>1, <2>2, <2>3, TaskKeeps DEF deliverReads
  <1>2. CASE pushSend(n)
    <2>1. PICK accepted, invalid \in SUBSET k.tokens :
            delivery' = [delivery EXCEPT ![n].at = "pushed", ![n].accepted = accepted, ![n].invalid = invalid]
      BY <1>2 DEF pushSend
    <2> DEFINE c == [k EXCEPT !.at = "pushed", !.accepted = accepted, !.invalid = invalid]
    <2>2. c \in TaskRecord /\ c.at = "pushed"
      BY <1>0 DEF TaskRecord
    <2>3. delivery' = [delivery EXCEPT ![n] = c]
      BY <1>0, <2>1 DEF NoticeTypeOK, TaskRecord
    <2> HIDE DEF c
    <2>4. QED BY <1>0, <1>2, <2>2, <2>3, TaskKeeps DEF pushSend
  <1>3. ASSUME NEW at \in {"fallback", "done", "lost"}, Enters(n, at)
        PROVE  /\ [k EXCEPT !.at = at] \in TaskRecord
               /\ [k EXCEPT !.at = at].at = at /\ [k EXCEPT !.at = at].accepted = k.accepted
               /\ delivery' = [delivery EXCEPT ![n] = [k EXCEPT !.at = at]]
    BY <1>0, <1>3 DEF TaskRecord, Enters, NoticeTypeOK
  <1>4. CASE purgeInvalid(n)
    <2>1. pushToken' \in [Telephones -> Account]
      BY <1>0, <1>4 DEF purgeInvalid, Account
    <2>2. QED BY <1>0, <1>3, <1>4, <2>1, TaskKeeps DEF purgeInvalid
  <1>5. CASE deliverEnds(n)
    <2>1. /\ texted' = texted \/ texted' = texted \cup {n}
          /\ n \in texted' <=> k.accepted = {} /\ notice[n].type \in SMS_WORTHY
      BY <1>0, <1>5 DEF deliverEnds
    <2>2. QED BY <1>0, <1>3, <1>5, <2>1, TaskKeeps DEF deliverEnds
  <1>6. CASE deliverLost(n)
    BY <1>0, <1>3, <1>6, TaskKeeps DEF deliverLost
  <1>7. QED BY <1>1, <1>2, <1>4, <1>5, <1>6

LEMMA NotifyKeeps ==
  ASSUME NoticeInv, NEW n \in Notices, NEW a \in Customers, NEW type \in Types, notify(n, a, type)
  PROVE  NoticeInv'
  <1> DEFINE entry == [status |-> "unread", userId |-> a, type |-> type]
             c == [delivery[n] EXCEPT !.at = "written"]
  <1>1. /\ NoticeTypeOK /\ DeliveryInv /\ delivery[n] \in TaskRecord
        /\ delivery[n].at = "none" /\ n \notin texted /\ delivery[n].accepted = {}
    BY DEF NoticeInv, DeliveryInv, NoticeTypeOK, notify
  <1>2. entry \in NoticeRow /\ entry # Unwritten
    BY DEF NoticeRow, Account, Unwritten
  <1>3. c \in TaskRecord /\ c.at = "written" /\ c.accepted = {}
    BY <1>1 DEF TaskRecord
  <1>4. \A m \in Notices : /\ delivery'[m] = IF m = n THEN c ELSE delivery[m]
                           /\ notice'[m] = IF m = n THEN entry ELSE notice[m]
    BY <1>1 DEF notify, NoticeTypeOK
  <1>5. NoticeTypeOK'
    BY <1>1, <1>2, <1>3 DEF notify, NoticeTypeOK
  <1> HIDE DEF entry, c
  <1>6. DeliveryInv'
    <2>1. texted' = texted
      BY DEF notify
    <2>2. QED BY <1>1, <1>2, <1>3, <1>4, <2>1 DEF DeliveryInv
  <1>7. QED BY <1>5, <1>6 DEF NoticeInv

LEMMA TelephonesKeep ==
  ASSUME NoticeInv, NEW t \in Telephones,
         \/ \E a \in Customers : signsIn(t, a) \/ registerToken(t, a)
         \/ resolveToken(t) \/ signsOut(t) \/ Uninstalled(t) \/ list(t) \/ markRead(t)
  PROVE  NoticeInv'
  <1>0. NoticeTypeOK /\ DeliveryInv /\ telephone[t] \in TelephoneRecord
    BY DEF NoticeInv, NoticeTypeOK
  <1>1. /\ delivery' = delivery /\ texted' = texted
    BY DEF signsIn, registerToken, resolveToken, signsOut, Uninstalled, list, markRead
  <1>2. telephone' \in [Telephones -> TelephoneRecord]
    <2>1. /\ telephone \in [Telephones -> TelephoneRecord]
          /\ NoCustomer \in Account /\ telephone[t].user \in Account
          /\ telephone[t].requests \in SUBSET Account
          /\ Customers \subseteq Account
      BY <1>0 DEF NoticeTypeOK, TelephoneRecord, Account
    <2>2. \A c \in TelephoneRecord : [telephone EXCEPT ![t] = c] \in [Telephones -> TelephoneRecord]
      BY <2>1
    <2>3. CASE \E a \in Customers : signsIn(t, a)
      <3>1. PICK a \in Customers : signsIn(t, a)
        BY <2>3
      <3>2. [telephone[t] EXCEPT !.user = a, !.resolving = TRUE] \in TelephoneRecord
        BY <1>0, <2>1 DEF TelephoneRecord
      <3>3. telephone' = [telephone EXCEPT ![t] = [telephone[t] EXCEPT !.user = a, !.resolving = TRUE]]
        BY <2>1, <3>1 DEF signsIn
      <3>4. QED BY <2>2, <3>2, <3>3
    <2>4. CASE \E a \in Customers : registerToken(t, a)
      BY <1>0, <2>4 DEF registerToken, TelephoneRecord, NoticeTypeOK
    <2>5. CASE resolveToken(t)
      <3>1. PICK granted \in BOOLEAN :
              telephone' = [telephone EXCEPT ![t].resolving = FALSE,
                ![t].requests = IF granted THEN @ \cup {telephone[t].user} ELSE @]
        BY <2>5 DEF resolveToken
      <3> DEFINE asks == IF granted THEN telephone[t].requests \cup {telephone[t].user} ELSE telephone[t].requests
      <3>2. asks \in SUBSET Account
        BY <2>1
      <3>3. [telephone[t] EXCEPT !.resolving = FALSE, !.requests = asks] \in TelephoneRecord
        <4> HIDE DEF asks
        <4> QED BY <1>0, <3>2 DEF TelephoneRecord
      <3>4. telephone' = [telephone EXCEPT ![t] = [telephone[t] EXCEPT !.resolving = FALSE, !.requests = asks]]
        BY <2>1, <3>1
      <3>5. QED BY <2>2, <3>3, <3>4
    <2>6. CASE signsOut(t)
      <3>1. [telephone[t] EXCEPT !.user = NoCustomer, !.screen = {}, !.resolving = FALSE] \in TelephoneRecord
        BY <1>0, <2>1 DEF TelephoneRecord
      <3>2. telephone' = [telephone EXCEPT ![t] =
              [telephone[t] EXCEPT !.user = NoCustomer, !.screen = {}, !.resolving = FALSE]]
        BY <2>1, <2>6 DEF signsOut
      <3>3. QED BY <2>2, <3>1, <3>2
    <2>7. CASE Uninstalled(t)
      BY <2>1, <2>2, <2>7 DEF Uninstalled, TelephoneRecord
    <2>8. CASE list(t)
      <3> DEFINE shown == {n \in Notices : notice[n].userId = telephone[t].user /\ notice[n].status = "unread"}
      <3>1. [telephone[t] EXCEPT !.screen = shown] \in TelephoneRecord
        BY <1>0, <2>1 DEF TelephoneRecord
      <3>2. telephone' = [telephone EXCEPT ![t] = [telephone[t] EXCEPT !.screen = shown]]
        BY <2>1, <2>8 DEF list
      <3>3. QED BY <2>2, <3>1, <3>2
    <2>9. CASE markRead(t)
      <3>1. [telephone[t] EXCEPT !.screen = {}] \in TelephoneRecord
        BY <1>0, <2>1 DEF TelephoneRecord
      <3>2. telephone' = [telephone EXCEPT ![t] = [telephone[t] EXCEPT !.screen = {}]]
        BY <2>1, <2>9 DEF markRead
      <3>3. QED BY <2>2, <3>1, <3>2
    <2>10. QED BY <2>3, <2>4, <2>5, <2>6, <2>7, <2>8, <2>9
  <1>3. pushToken' \in [Telephones -> Account]
    BY <1>0 DEF NoticeTypeOK, Account, signsIn, registerToken, resolveToken, signsOut, Uninstalled, list, markRead
  <1>4. /\ notice' \in [Notices -> NoticeRow]
        /\ \A n \in Notices : notice'[n].type = notice[n].type /\ (notice'[n] = Unwritten => notice[n] = Unwritten)
    <2>1. CASE notice' = notice
      BY <1>0, <2>1 DEF NoticeTypeOK
    <2>2. CASE markRead(t)
      <3>1. \A n \in Notices : notice'[n] = IF notice[n].userId = telephone[t].user
                                             THEN [notice[n] EXCEPT !.status = "read"] ELSE notice[n]
        BY <2>2 DEF markRead
      <3>2. \A n \in Notices : /\ [notice[n] EXCEPT !.status = "read"] \in NoticeRow
                               /\ [notice[n] EXCEPT !.status = "read"].status = "read"
                               /\ [notice[n] EXCEPT !.status = "read"].type = notice[n].type
        BY <1>0 DEF NoticeTypeOK, NoticeRow
      <3>3. Unwritten.status = "none"
        BY DEF Unwritten
      <3>4. notice' \in [Notices -> NoticeRow]
        BY <1>0, <2>2, <3>2 DEF markRead, NoticeTypeOK
      <3>5. QED BY <3>1, <3>2, <3>3, <3>4
    <2>3. QED BY <2>1, <2>2 DEF signsIn, registerToken, resolveToken, signsOut, Uninstalled, list
  <1>5. NoticeTypeOK'
    BY <1>0, <1>1, <1>2, <1>3, <1>4 DEF NoticeTypeOK
  <1>6. DeliveryInv'
    BY <1>0, <1>1, <1>4 DEF DeliveryInv
  <1>7. QED BY <1>5, <1>6 DEF NoticeInv

LEMMA NoticeStart == NoticeInit => NoticeInv
  BY DEF NoticeInit, NoticeInv, NoticeTypeOK, DeliveryInv, NoTask, Unwritten, NoticeRow, TaskRecord,
         TelephoneRecord, Account, SMS_WORTHY

LEMMA NoticeStep == NoticeInv /\ [NoticeNext]_noticeVars => NoticeInv'
  <1> SUFFICES ASSUME NoticeInv, [NoticeNext]_noticeVars PROVE NoticeInv'
    OBVIOUS
  <1>1. CASE UNCHANGED noticeVars
    BY <1>1 DEF noticeVars, NoticeInv, NoticeTypeOK, DeliveryInv
  <1>2. CASE NoticeNext
    BY <1>2, NotifyKeeps, TasksKeep, TelephonesKeep DEF NoticeNext
  <1>3. QED BY <1>1, <1>2

(* The notices, the tasks that deliver them, the push tokens and the        *)
(* telephones keep the shape the code gives them.                          *)
THEOREM NoticeTypeCorrectness == NoticeSpec => []NoticeTypeOK
  <1>1. NoticeInv => NoticeTypeOK
    BY DEF NoticeInv
  <1>2. QED BY <1>1, NoticeStart, NoticeStep, PTL DEF NoticeSpec

(* NotificationsService.deliver, for any number of notices, customers and   *)
(* telephones: push or SMS, and never both.                                *)
THEOREM CriticalNoticesAreHeard == NoticeSpec => []CriticalNoticeIsHeard
  <1>1. NoticeInv => CriticalNoticeIsHeard
    BY DEF NoticeInv, DeliveryInv, CriticalNoticeIsHeard
  <1>2. QED BY <1>1, NoticeStart, NoticeStep, PTL DEF NoticeSpec

-----------------------------------------------------------------------------
(* Promotion codes.                                                        *)

TermsRecord == [type : PROMO_DISCOUNT_TYPES \cup {"none"}, value : Nat]
RuleRecord == [exists : BOOLEAN, terms : TermsRecord, active : BOOLEAN]
FormRecord == [editing : BOOLEAN, terms : TermsRecord]
DeskRecord == [list : RuleRecord, form : FormRecord]
PatchRecord ==
  [at : {"idle", "sent", "read"}, value : Nat, isActive : {"kept", "on", "off"}, wasActive : BOOLEAN]

\* The row, the screens and the requests keep their shape.
PromoTypeOK ==
  /\ code \in RuleRecord
  /\ desk \in [Admins -> DeskRecord]
  /\ request \in [Admins -> PatchRecord]
  /\ decided \in BOOLEAN

\* A value that was checked is still one the row may have: its type does not change.
CheckedInv ==
  /\ code.active => code.exists
  /\ \A a \in Admins : request[a].at = "read" =>
       /\ code.exists
       /\ request[a].value # 0 => assertValues(code.terms.type, request[a].value)

PromoInv == PromoTypeOK /\ CheckedInv /\ CodeGivesWhatWasDecided

LEMMA PromoBlanks ==
  /\ NoTerms \in TermsRecord /\ NoTerms.type = "none"
  /\ NoRule \in RuleRecord /\ ~ NoRule.active /\ NoRule.terms = NoTerms
  /\ EmptyForm \in FormRecord
  /\ [list |-> NoRule, form |-> EmptyForm] \in DeskRecord
  /\ NoUpdate \in PatchRecord /\ NoUpdate.at = "idle"
  <1>1. NoTerms \in TermsRecord /\ NoTerms.type = "none"
    BY DEF NoTerms, TermsRecord
  <1>2. NoRule \in RuleRecord /\ ~ NoRule.active /\ NoRule.terms = NoTerms
    BY <1>1 DEF NoRule, RuleRecord
  <1>3. EmptyForm \in FormRecord
    BY <1>1 DEF EmptyForm, FormRecord
  <1>4. [list |-> NoRule, form |-> EmptyForm] \in DeskRecord
    BY <1>2, <1>3 DEF DeskRecord
  <1>5. NoUpdate \in PatchRecord /\ NoUpdate.at = "idle"
    BY <1>2 DEF NoUpdate, PatchRecord
  <1>6. QED BY <1>1, <1>2, <1>3, <1>4, <1>5

LEMMA PromoStart == PromoInit => PromoInv
  <1> SUFFICES ASSUME PromoInit PROVE PromoInv
    OBVIOUS
  <1>1. PromoTypeOK
    BY PromoBlanks DEF PromoInit, PromoTypeOK
  <1>2. \A a \in Admins : request[a].at = "idle"
    BY PromoBlanks DEF PromoInit
  <1>3. CodeGivesWhatWasDecided
    BY PromoBlanks DEF PromoInit, CodeGivesWhatWasDecided, assertValues
  <1>4. ~ code.active
    BY PromoBlanks DEF PromoInit
  <1>5. QED BY <1>1, <1>2, <1>3, <1>4 DEF PromoInv, CheckedInv

\* What the answer leaves on the screen of whoever asked.
LEMMA AnswerKeepsDesks ==
  ASSUME PromoTypeOK, NEW a \in Admins, NEW entry \in RuleRecord, NEW given \in FormRecord,
         Answered(a, entry, given)
  PROVE  desk' \in [Admins -> DeskRecord]
  <1>1. desk \in [Admins -> DeskRecord] /\ desk[a] \in DeskRecord /\ desk[a].list \in RuleRecord
    BY DEF PromoTypeOK, DeskRecord
  <1>2. \A shown \in RuleRecord : [list |-> shown, form |-> given] \in DeskRecord
    BY DEF DeskRecord
  <1>3. QED BY <1>1, <1>2 DEF Answered

\* The screen alone: neither the row, nor a request that was read.
LEMMA DesksKeep ==
  ASSUME PromoInv, NEW a \in Admins, listCodes(a) \/ editer(a) \/ reinitialiser(a) \/ fills(a)
  PROVE  PromoInv'
  <1>1. UNCHANGED <<code, request, decided>>
    BY DEF listCodes, editer, reinitialiser, fills
  <1>2. desk[a] \in DeskRecord /\ desk[a].list \in RuleRecord /\ desk[a].form \in FormRecord
        /\ code \in RuleRecord /\ desk \in [Admins -> DeskRecord]
    BY DEF PromoInv, PromoTypeOK, DeskRecord
  <1> DEFINE Filled(f) == [desk[a] EXCEPT !.form = f]
  <1>3. \A f \in FormRecord : Filled(f) \in DeskRecord
    BY <1>2 DEF DeskRecord
  <1>4. PICK d \in DeskRecord : desk' = [desk EXCEPT ![a] = d]
    <2>1. CASE listCodes(a)
      <3>1. [desk[a] EXCEPT !.list = code] \in DeskRecord
        BY <1>2 DEF DeskRecord
      <3>2. desk' = [desk EXCEPT ![a] = [desk[a] EXCEPT !.list = code]]
        BY <1>2, <2>1 DEF listCodes
      <3>3. QED BY <3>1, <3>2
    <2>2. CASE editer(a)
      <3> DEFINE f == [editing |-> TRUE, terms |-> desk[a].list.terms]
      <3>1. f \in FormRecord
        BY <1>2 DEF FormRecord, RuleRecord
      <3>2. desk' = [desk EXCEPT ![a] = Filled(f)]
        BY <1>2, <2>2 DEF editer
      <3>3. QED BY <1>3, <3>1, <3>2
    <2>3. CASE reinitialiser(a)
      <3>1. desk' = [desk EXCEPT ![a] = Filled(EmptyForm)]
        BY <1>2, <2>3 DEF reinitialiser
      <3>2. QED BY <1>3, <3>1, PromoBlanks
    <2>4. CASE fills(a)
      <3>1. PICK type \in PROMO_DISCOUNT_TYPES, value \in Discount :
              desk' = [desk EXCEPT ![a].form.terms = [type |-> type, value |-> value]]
        BY <2>4 DEF fills
      <3> DEFINE f == [desk[a].form EXCEPT !.terms = [type |-> type, value |-> value]]
      <3>2. [type |-> type, value |-> value] \in TermsRecord
        BY PromoAssumption DEF TermsRecord
      <3>3. f \in FormRecord
        BY <1>2, <3>2 DEF FormRecord
      <3>4. desk' = [desk EXCEPT ![a] = Filled(f)]
        BY <1>2, <3>1
      <3>5. QED BY <1>3, <3>3, <3>4
    <2>5. QED BY <2>1, <2>2, <2>3, <2>4
  <1>5. PromoTypeOK'
    BY <1>1, <1>2, <1>4 DEF PromoInv, PromoTypeOK
  <1>6. QED BY <1>1, <1>5 DEF PromoInv, CheckedInv, CodeGivesWhatWasDecided

\* A button sends fields that nothing has checked yet.
LEMMA SendingKeeps ==
  ASSUME PromoInv, NEW a \in Admins, NEW value \in Nat, NEW flag \in {"kept", "on", "off"},
         Sends(a, value, flag)
  PROVE  PromoInv'
  <1> DEFINE patch == [NoUpdate EXCEPT !.at = "sent", !.value = value, !.isActive = flag]
  <1>1. patch \in PatchRecord /\ patch.at = "sent"
    BY PromoBlanks DEF PatchRecord
  <1>2. request' = [request EXCEPT ![a] = patch] /\ UNCHANGED <<code, desk, decided>>
    BY DEF Sends
  <1> HIDE DEF patch
  <1>3. PromoTypeOK'
    BY <1>1, <1>2 DEF PromoInv, PromoTypeOK
  <1>4. CheckedInv'
    BY <1>1, <1>2 DEF PromoInv, PromoTypeOK, CheckedInv
  <1>5. QED BY <1>2, <1>3, <1>4 DEF PromoInv, CodeGivesWhatWasDecided

LEMMA CreatingKeeps ==
  ASSUME PromoInv, NEW a \in Admins, createCode(a)
  PROVE  PromoInv'
  <1> DEFINE entry == [exists |-> TRUE, terms |-> desk[a].form.terms, active |-> FALSE]
  <1>1. PromoTypeOK /\ desk[a].form.terms \in TermsRecord
    BY DEF PromoInv, PromoTypeOK, DeskRecord, FormRecord
  <1>2. entry \in RuleRecord /\ entry.terms = desk[a].form.terms /\ ~ entry.active
    BY <1>1 DEF RuleRecord
  <1>3. code' = entry /\ Answered(a, entry, EmptyForm) /\ UNCHANGED <<request, decided>>
        /\ assertValues(desk[a].form.terms.type, desk[a].form.terms.value) /\ ~ code.exists
    BY DEF createCode, FormComplete
  <1> HIDE DEF entry
  <1>4. PromoTypeOK'
    BY <1>1, <1>2, <1>3, PromoBlanks, AnswerKeepsDesks DEF PromoTypeOK
  <1>5. CheckedInv'
    BY <1>2, <1>3 DEF PromoInv, CheckedInv
  <1>6. ~ code.active /\ ~ decided
    BY <1>3 DEF PromoInv, CheckedInv, CodeGivesWhatWasDecided
  <1>7. CodeGivesWhatWasDecided'
    BY <1>2, <1>3, <1>6 DEF CodeGivesWhatWasDecided, assertValues
  <1>8. QED BY <1>4, <1>5, <1>7 DEF PromoInv

LEMMA ReadingKeeps ==
  ASSUME PromoInv, NEW a \in Admins, updateReads(a)
  PROVE  PromoInv'
  <1> DEFINE asked == request[a]
             found == [asked EXCEPT !.at = "read", !.wasActive = code.active]
  <1>1. asked \in PatchRecord /\ code \in RuleRecord /\ request \in [Admins -> PatchRecord]
    BY DEF PromoInv, PromoTypeOK
  <1>2. found \in PatchRecord /\ found.value = asked.value
    BY <1>1 DEF PatchRecord, RuleRecord
  <1>3. UNCHANGED <<code, desk, decided>>
    BY DEF updateReads
  <1>4. \/ request' = [request EXCEPT ![a] = NoUpdate]
        \/ /\ request' = [request EXCEPT ![a] = found] /\ code.exists
           /\ asked.value # 0 => assertValues(code.terms.type, asked.value)
    BY DEF updateReads
  <1> HIDE DEF found, asked
  <1>5. PromoTypeOK'
    BY <1>1, <1>2, <1>3, <1>4, PromoBlanks DEF PromoInv, PromoTypeOK
  <1>6. CheckedInv'
    BY <1>1, <1>2, <1>3, <1>4, PromoBlanks DEF PromoInv, CheckedInv
  <1>7. QED BY <1>3, <1>5, <1>6 DEF PromoInv, CodeGivesWhatWasDecided

LEMMA WritingKeeps ==
  ASSUME PromoInv, NEW a \in Admins, updateCode(a)
  PROVE  PromoInv'
  <1> DEFINE asked == request[a]
             entry == Patched(code, asked)
             given == IF asked.isActive = "kept" THEN EmptyForm ELSE desk[a].form
  <1>1. PromoTypeOK /\ asked \in PatchRecord /\ code \in RuleRecord /\ code.terms \in TermsRecord
        /\ desk[a].form \in FormRecord /\ request \in [Admins -> PatchRecord] /\ code.terms.value \in Nat
        /\ asked.value \in Nat /\ code.active \in BOOLEAN
    BY DEF PromoInv, PromoTypeOK, DeskRecord, RuleRecord, PatchRecord, TermsRecord
  <1> DEFINE v == IF asked.value = 0 THEN code.terms.value ELSE asked.value
             on == IF asked.isActive = "kept" THEN code.active ELSE asked.isActive = "on"
  <1>2. v \in Nat /\ on \in BOOLEAN
    BY <1>1
  <1>3. entry = [code EXCEPT !.terms.value = v, !.active = on]
    BY DEF Patched
  <1>4. code' = entry /\ request' = [request EXCEPT ![a] = NoUpdate] /\ Answered(a, entry, given)
        /\ asked.at = "read"
        /\ decided' = (IF asked.isActive = "kept" THEN decided ELSE asked.isActive = "on")
    BY DEF updateCode
  <1>5. /\ code.exists
        /\ asked.value # 0 => assertValues(code.terms.type, asked.value)
        /\ assertValues(code.terms.type, code.terms.value) /\ (code.active <=> decided)
    BY <1>4 DEF PromoInv, CheckedInv, CodeGivesWhatWasDecided
  <1>6. assertValues(code.terms.type, v)
    BY <1>5
  <1>7. on <=> decided'
    BY <1>4, <1>5
  <1>8. given \in FormRecord
    BY <1>1, PromoBlanks
  <1> HIDE DEF v, on, entry, given, asked
  <1>9. /\ entry \in RuleRecord /\ entry.exists = code.exists /\ entry.active = on
        /\ entry.terms.type = code.terms.type /\ entry.terms.value = v
    BY <1>1, <1>2, <1>3 DEF RuleRecord, TermsRecord
  <1>10. PromoTypeOK'
    <2>1. desk' \in [Admins -> DeskRecord]
      BY <1>1, <1>4, <1>8, <1>9, AnswerKeepsDesks
    <2>2. decided' \in BOOLEAN
      BY <1>1, <1>4 DEF PromoTypeOK
    <2>3. QED BY <1>1, <1>4, <1>9, <2>1, <2>2, PromoBlanks DEF PromoTypeOK
  <1>11. CheckedInv'
    BY <1>1, <1>4, <1>5, <1>9, PromoBlanks DEF PromoInv, CheckedInv
  <1>12. CodeGivesWhatWasDecided'
    BY <1>4, <1>6, <1>7, <1>9 DEF CodeGivesWhatWasDecided, assertValues
  <1>13. QED BY <1>10, <1>11, <1>12 DEF PromoInv

LEMMA PromoStep == PromoInv /\ [PromoNext]_promoVars => PromoInv'
  <1> SUFFICES ASSUME PromoInv, [PromoNext]_promoVars PROVE PromoInv'
    OBVIOUS
  <1>1. CASE UNCHANGED promoVars
    BY <1>1 DEF promoVars, PromoInv, PromoTypeOK, CheckedInv, CodeGivesWhatWasDecided
  <1>2. ASSUME NEW a \in Admins, enregistrer(a) \/ publier(a) \/ desactiver(a)
        PROVE  PromoInv'
    <2>1. desk[a].form.terms.value \in Nat
      BY DEF PromoInv, PromoTypeOK, DeskRecord, FormRecord, TermsRecord
    <2>2. QED BY <1>2, <2>1, SendingKeeps DEF enregistrer, publier, desactiver
  <1>3. QED BY <1>1, <1>2, DesksKeep, CreatingKeeps, ReadingKeeps, WritingKeeps DEF PromoNext

(* The row of the code, the screens and the updates keep their shape.       *)
THEOREM PromoTypeCorrectness == PromoSpec => []PromoTypeOK
  <1>1. PromoInv => PromoTypeOK
    BY DEF PromoInv
  <1>2. QED BY <1>1, PromoStart, PromoStep, PTL DEF PromoSpec

(* PromoCodesService.update and deactivate, for any number of administrators *)
(* and any discounts: an edition, a publication and a withdrawal that cross  *)
(* leave the code as the last decision written says, and never a percentage *)
(* above a hundred.                                                         *)
THEOREM CodesGiveWhatWasDecided == PromoSpec => []CodeGivesWhatWasDecided
  <1>1. PromoInv => CodeGivesWhatWasDecided
    BY DEF PromoInv
  <1>2. QED BY <1>1, PromoStart, PromoStep, PTL DEF PromoSpec

-----------------------------------------------------------------------------
(* Producers.  What was examined is the row itself (HarvestInv): a handler   *)
(* of the producer that still holds a row he may edit, and that finds it     *)
(* unchanged, cannot be writing over a decision.                            *)

ProductionRow ==
  [status : {"none", "DECLARED", "CONFIRMED", "RECEIVED", "REJECTED", "deleted"},
   farm : Farms \cup {"none"}, quantity : Nat]

VisitContext ==
  [at : {"idle", "deleteFarm", "create", "update", "delete"} \cup Decisions,
   farm : Farms \cup {"none"}, harvest : Harvests \cup {"none"}, arg : Nat,
   row : ProductionRow, history : SUBSET Harvests]

HarvestTypeOK ==
  /\ production \in [Harvests -> ProductionRow]
  /\ visit \in [Visits -> VisitContext]
  /\ form \in [at : {"closed", "open", "asked", "served", "made"},
               farm : Farms \cup {"none"}, quantity : Nat]
  /\ examined \in [Harvests -> [quantity : Nat, decision : Decisions \cup {"none"}]]

\* A visit that edits has read a row nobody had examined.
VisitOK(v) ==
  /\ visit[v].at \in {"create", "update", "delete"} \cup Decisions => visit[v].harvest \in Harvests
  /\ visit[v].at \in {"update", "delete"} => visit[v].row.status = "DECLARED"

\* A decision leaves its mark, and the mark is the row unless somebody wrote over it.
ExaminedOK(p) ==
  /\ production[p].status \in Decisions => examined[p] # Undecided
  /\ examined[p] # Undecided =>
       /\ examined[p].decision \in Decisions
       /\ p \notin disturbed => /\ production[p].status = examined[p].decision
                                /\ production[p].quantity = examined[p].quantity

HarvestInv ==
  /\ HarvestTypeOK
  /\ \A v \in Visits : VisitOK(v)
  /\ \A p \in Harvests : ExaminedOK(p)

LEMMA HarvestInit == ProducerInit => HarvestInv
  <1> SUFFICES ASSUME ProducerInit PROVE HarvestInv
    OBVIOUS
  <1>1. Absent \in ProductionRow /\ Undecided \in [quantity : Nat, decision : Decisions \cup {"none"}]
    BY DEF Absent, ProductionRow, Undecided
  <1>2. NoVisit \in VisitContext
    BY <1>1 DEF NoVisit, VisitContext
  <1>3. HarvestTypeOK
    BY <1>1, <1>2 DEF ProducerInit, HarvestTypeOK, NoForm
  <1>4. \A v \in Visits : VisitOK(v)
    BY DEF ProducerInit, VisitOK, NoVisit, Decisions
  <1>5. \A p \in Harvests : ExaminedOK(p)
    BY DEF ProducerInit, ExaminedOK, Absent, Decisions
  <1>6. QED BY <1>3, <1>4, <1>5 DEF HarvestInv

\* A visit begins or ends, or the form moves: no row is written.
LEMMA VisitTurns ==
  ASSUME HarvestInv, NEW v \in Visits, UNCHANGED <<production, examined, disturbed>>,
         form' \in [at : {"closed", "open", "asked", "served", "made"},
                    farm : Farms \cup {"none"}, quantity : Nat],
         NEW c \in VisitContext, visit' = [visit EXCEPT ![v] = c] \/ visit' = visit,
         /\ c.at \in {"create", "update", "delete"} \cup Decisions => c.harvest \in Harvests
         /\ c.at \in {"update", "delete"} => c.row.status = "DECLARED"
  PROVE  HarvestInv'
  <1>1. visit \in [Visits -> VisitContext]
    BY DEF HarvestInv, HarvestTypeOK
  <1>2. HarvestTypeOK'
    BY <1>1 DEF HarvestInv, HarvestTypeOK
  <1>3. ASSUME NEW x \in Visits PROVE VisitOK(x)'
    <2>1. visit'[x] = c \/ visit'[x] = visit[x]
      BY <1>1
    <2>2. QED BY <2>1 DEF HarvestInv, VisitOK
  <1>4. \A p \in Harvests : ExaminedOK(p)'
    BY DEF HarvestInv, ExaminedOK
  <1>5. QED BY <1>2, <1>3, <1>4 DEF HarvestInv

LEMMA NoVisitTyped == NoVisit \in VisitContext /\ NoVisit.at = "idle"
  BY DEF NoVisit, VisitContext, Absent, ProductionRow

\* A visit ends and writes one row, the one it names.
LEMMA RowWritten ==
  ASSUME HarvestInv, NEW v \in Visits, NEW p \in Harvests, NEW r \in ProductionRow,
         production' = [production EXCEPT ![p] = r], Ends(v),
         form' \in [at : {"closed", "open", "asked", "served", "made"},
                    farm : Farms \cup {"none"}, quantity : Nat],
         examined' \in [Harvests -> [quantity : Nat, decision : Decisions \cup {"none"}]],
         \A q \in Harvests \ {p} : examined'[q] = examined[q],
         disturbed \subseteq disturbed',
         ExaminedOK(p)'
  PROVE  HarvestInv'
  <1>1. visit' = [visit EXCEPT ![v] = NoVisit] /\ visit \in [Visits -> VisitContext]
        /\ production \in [Harvests -> ProductionRow]
    BY DEF HarvestInv, HarvestTypeOK, Ends
  <1>2. HarvestTypeOK'
    BY <1>1, NoVisitTyped DEF HarvestTypeOK
  <1>3. ASSUME NEW x \in Visits PROVE VisitOK(x)'
    <2>1. visit'[x] = NoVisit \/ visit'[x] = visit[x]
      BY <1>1
    <2>2. QED BY <2>1, NoVisitTyped DEF HarvestInv, VisitOK, Decisions
  <1>4. ASSUME NEW q \in Harvests PROVE ExaminedOK(q)'
    <2>1. CASE q = p
      BY <2>1
    <2>2. CASE q # p
      <3>1. production'[q] = production[q] /\ examined'[q] = examined[q]
        BY <1>1, <2>2
      <3>2. QED BY <3>1 DEF HarvestInv, ExaminedOK
    <2>3. QED BY <2>1, <2>2
  <1>5. QED BY <1>2, <1>3, <1>4 DEF HarvestInv

LEMMA FarmDeleted ==
  ASSUME HarvestInv, NEW v \in Visits, deleteFarm(v)
  PROVE  HarvestInv'
  <1> DEFINE f == visit[v].farm
             taken == ProductionsOf(f)
  <1>1. visit' = [visit EXCEPT ![v] = NoVisit] /\ UNCHANGED <<form, examined>>
    BY DEF deleteFarm, Ends
  <1>2. CASE visit[v].history # {}
    <2>1. UNCHANGED <<production, disturbed>>
      BY <1>2 DEF deleteFarm
    <2>2. QED BY <1>1, <2>1, NoVisitTyped, VisitTurns DEF HarvestInv, HarvestTypeOK, Decisions
  <1>3. CASE visit[v].history = {}
    <2>1. /\ production' = [p \in Harvests |->
               IF p \in taken THEN [production[p] EXCEPT !.status = "deleted"] ELSE production[p]]
          /\ disturbed' = disturbed \cup taken
      BY <1>3 DEF deleteFarm
    <2> HIDE DEF taken
    <2>2. production \in [Harvests -> ProductionRow] /\ visit \in [Visits -> VisitContext]
      BY DEF HarvestInv, HarvestTypeOK
    <2>3. \A p \in Harvests : [production[p] EXCEPT !.status = "deleted"] \in ProductionRow
      BY <2>2 DEF ProductionRow
    <2>4. HarvestTypeOK'
      BY <1>1, <2>1, <2>2, <2>3, NoVisitTyped DEF HarvestInv, HarvestTypeOK
    <2>5. ASSUME NEW x \in Visits PROVE VisitOK(x)'
      <3>1. visit'[x] = NoVisit \/ visit'[x] = visit[x]
        BY <1>1, <2>2
      <3>2. QED BY <3>1, NoVisitTyped DEF HarvestInv, VisitOK, Decisions
    <2>6. ASSUME NEW p \in Harvests PROVE ExaminedOK(p)'
      <3>1. CASE p \in taken
        <4>1. production'[p].status = "deleted" /\ p \in disturbed'
          BY <2>1, <2>2, <3>1 DEF ProductionRow
        <4>2. QED BY <1>1, <4>1 DEF HarvestInv, ExaminedOK, Decisions
      <3>2. CASE p \notin taken
        BY <1>1, <2>1, <3>2 DEF HarvestInv, ExaminedOK
      <3>3. QED BY <3>1, <3>2
    <2>7. QED BY <2>4, <2>5, <2>6 DEF HarvestInv
  <1>4. QED BY <1>2, <1>3

LEMMA RowEdited ==
  ASSUME HarvestInv, NEW v \in Visits,
         createProduction(v) \/ updateProduction(v) \/ deleteProduction(v) \/ reviewProduction(v)
  PROVE  HarvestInv'
  <1>1. /\ visit[v] \in VisitContext /\ VisitOK(v)
        /\ visit[v].at \in {"create", "update", "delete"} \cup Decisions
    BY DEF HarvestInv, HarvestTypeOK, createProduction, updateProduction, deleteProduction,
           reviewProduction
  <1>2. PICK p \in Harvests : p = visit[v].harvest
    BY <1>1 DEF VisitOK
  <1>3. /\ production[p] \in ProductionRow /\ ExaminedOK(p)
        /\ examined \in [Harvests -> [quantity : Nat, decision : Decisions \cup {"none"}]]
        /\ form \in [at : {"closed", "open", "asked", "served", "made"},
                     farm : Farms \cup {"none"}, quantity : Nat]
        /\ production \in [Harvests -> ProductionRow]
    BY DEF HarvestInv, HarvestTypeOK
  <1>4. CASE createProduction(v)
    <2> DEFINE r == [status |-> "DECLARED", farm |-> visit[v].farm, quantity |-> visit[v].arg]
    <2>1. /\ production[p] = Absent /\ production' = [production EXCEPT ![p] = r] /\ Ends(v)
          /\ form' = (IF form.at = "served" THEN [form EXCEPT !.at = "made"] ELSE form)
          /\ UNCHANGED <<examined, disturbed>>
      BY <1>2, <1>4 DEF createProduction
    <2>2. r \in ProductionRow /\ r.status = "DECLARED"
      BY <1>1 DEF ProductionRow, VisitContext
    <2> HIDE DEF r
    <2>3. form' \in [at : {"closed", "open", "asked", "served", "made"},
                     farm : Farms \cup {"none"}, quantity : Nat]
      BY <1>3, <2>1
    <2>4. ExaminedOK(p)'
      <3>1. production'[p].status = "DECLARED"
        BY <1>3, <2>1, <2>2
      <3>2. examined[p] # Undecided => p \in disturbed
        BY <1>3, <2>1 DEF ExaminedOK, Absent, Decisions
      <3>3. QED BY <1>3, <2>1, <3>1, <3>2 DEF ExaminedOK, Decisions
    <2>5. QED BY <1>3, <2>1, <2>2, <2>3, <2>4, RowWritten
  <1>5. CASE updateProduction(v) \/ deleteProduction(v)
    <2>1. PICK r \in ProductionRow :
            /\ production' = [production EXCEPT ![p] = r] /\ r.status \in {production[p].status, "deleted"}
            /\ Ends(v) /\ UNCHANGED <<form, examined>>
            /\ disturbed' = disturbed \cup Overtaken(v, p)
      <3>1. CASE updateProduction(v)
        <4> DEFINE g == IF visit[v].farm = "none" THEN production[p].farm ELSE visit[v].farm
                   r == [production[p] EXCEPT !.quantity = visit[v].arg, !.farm = g]
        <4>1. /\ production' = [production EXCEPT ![p].quantity = visit[v].arg, ![p].farm = g]
              /\ Ends(v) /\ UNCHANGED <<form, examined>>
              /\ disturbed' = disturbed \cup Overtaken(v, p)
          BY <1>2, <1>3, <3>1 DEF updateProduction
        <4>2. r \in ProductionRow /\ r.status = production[p].status
          BY <1>1, <1>3 DEF ProductionRow, VisitContext
        <4>3. production' = [production EXCEPT ![p] = r]
          BY <1>3, <4>1 DEF ProductionRow
        <4>4. QED BY <4>1, <4>2, <4>3
      <3>2. CASE deleteProduction(v)
        <4>1. /\ production' = [production EXCEPT ![p].status = "deleted"]
              /\ Ends(v) /\ UNCHANGED <<form, examined>>
              /\ disturbed' = disturbed \cup Overtaken(v, p)
          BY <1>2, <3>2 DEF deleteProduction
        <4>2. /\ [production[p] EXCEPT !.status = "deleted"] \in ProductionRow
              /\ [production[p] EXCEPT !.status = "deleted"].status = "deleted"
          BY <1>3 DEF ProductionRow
        <4>3. production' = [production EXCEPT ![p] = [production[p] EXCEPT !.status = "deleted"]]
          BY <1>3, <4>1
        <4>4. QED BY <4>1, <4>2, <4>3
      <3>3. QED BY <1>5, <3>1, <3>2
    <2>2. visit[v].row.status = "DECLARED"
      BY <1>1, <1>5 DEF VisitOK, updateProduction, deleteProduction
    <2>3. ExaminedOK(p)'
      <3>1. production'[p] = r /\ examined'[p] = examined[p]
        BY <1>3, <2>1
      <3>2. production'[p].status \in Decisions => examined'[p] # Undecided
        BY <1>3, <2>1, <3>1 DEF ExaminedOK, Decisions
      <3>3. ASSUME examined[p] # Undecided PROVE p \in disturbed'
        <4>1. CASE production[p] # visit[v].row
          BY <2>1, <4>1 DEF Overtaken
        <4>2. CASE production[p] = visit[v].row
          BY <1>3, <2>1, <2>2, <3>3, <4>2 DEF ExaminedOK, Decisions
        <4>3. QED BY <4>1, <4>2
      <3>4. QED BY <1>3, <3>1, <3>2, <3>3 DEF ExaminedOK
    <2>4. QED BY <1>3, <2>1, <2>3, RowWritten
  <1>6. CASE reviewProduction(v)
    <2> DEFINE r == [production[p] EXCEPT !.status = visit[v].at]
               e == [quantity |-> production[p].quantity, decision |-> visit[v].at]
    <2>1. /\ visit[v].at \in Decisions /\ production' = [production EXCEPT ![p] = r]
          /\ examined' = [examined EXCEPT ![p] = e] /\ Ends(v) /\ form' = form
          /\ disturbed' = disturbed \cup Overtaken(v, p)
      BY <1>2, <1>3, <1>6 DEF reviewProduction
    <2>2. /\ r \in ProductionRow /\ r.status = visit[v].at /\ r.quantity = production[p].quantity
          /\ e \in [quantity : Nat, decision : Decisions \cup {"none"}]
          /\ e.decision = visit[v].at /\ e.quantity = production[p].quantity
      BY <1>3, <2>1 DEF ProductionRow, Decisions
    <2> HIDE DEF r, e
    <2>3. ExaminedOK(p)'
      <3>1. production'[p] = r /\ examined'[p] = e
        BY <1>3, <2>1
      <3>2. e # Undecided
        BY <2>1, <2>2 DEF Undecided, Decisions
      <3>3. QED BY <2>1, <2>2, <3>1, <3>2 DEF ExaminedOK
    <2>4. examined' \in [Harvests -> [quantity : Nat, decision : Decisions \cup {"none"}]]
          /\ \A q \in Harvests \ {p} : examined'[q] = examined[q]
      BY <1>3, <2>1, <2>2
    <2>5. QED BY <1>3, <2>1, <2>2, <2>3, <2>4, RowWritten
  <1>7. QED BY <1>4, <1>5, <1>6

LEMMA HarvestStep == HarvestInv /\ [ProducerNext]_producerVars => HarvestInv'
  <1> SUFFICES ASSUME HarvestInv, [ProducerNext]_producerVars PROVE HarvestInv'
    OBVIOUS
  <1>0. /\ production \in [Harvests -> ProductionRow] /\ visit \in [Visits -> VisitContext]
        /\ form \in [at : {"closed", "open", "asked", "served", "made"},
                     farm : Farms \cup {"none"}, quantity : Nat]
        /\ NoVisit \in VisitContext /\ NoVisit.at = "idle"
    BY NoVisitTyped DEF HarvestInv, HarvestTypeOK
  <1>1. ASSUME UNCHANGED <<production, visit, examined, disturbed>>,
               form' \in [at : {"closed", "open", "asked", "served", "made"},
                          farm : Farms \cup {"none"}, quantity : Nat]
        PROVE  HarvestInv'
    <2>1. HarvestTypeOK'
      BY <1>1 DEF HarvestInv, HarvestTypeOK
    <2>2. (\A v \in Visits : VisitOK(v)') /\ \A p \in Harvests : ExaminedOK(p)'
      BY <1>1 DEF HarvestInv, VisitOK, ExaminedOK
    <2>3. QED BY <2>1, <2>2 DEF HarvestInv
  <1>2. ASSUME NEW f \in Farms,
               createFarm(f) \/ updateFarm(f, "active") \/ updateFarm(f, "inactive") \/ OpensForm(f)
        PROVE  HarvestInv'
    <2>1. UNCHANGED <<production, visit, examined, disturbed>>
      BY <1>2 DEF createFarm, updateFarm, OpensForm
    <2>2. form' = form \/ form' = [NoForm EXCEPT !.at = "open", !.farm = f]
      BY <1>2 DEF createFarm, updateFarm, OpensForm
    <2>3. [NoForm EXCEPT !.at = "open", !.farm = f]
            \in [at : {"closed", "open", "asked", "served", "made"},
                farm : Farms \cup {"none"}, quantity : Nat]
      BY DEF NoForm
    <2>4. QED BY <1>0, <1>1, <2>1, <2>2, <2>3
  <1>3. ASSUME NEW q \in Quantities, onSubmit(q) PROVE HarvestInv'
    <2>1. q \in Nat
      BY ProducerAssumption
    <2>2. QED BY <1>0, <1>1, <1>3, <2>1 DEF onSubmit
  <1>4. ASSUME DeclarationEnds PROVE HarvestInv'
    BY <1>0, <1>1, <1>4 DEF DeclarationEnds, NoForm
  <1>5. ASSUME NEW v \in Visits, NEW f \in Farms, deleteFarmReads(v, f) PROVE HarvestInv'
    <2> DEFINE c == [NoVisit EXCEPT !.at = "deleteFarm", !.farm = f, !.history = ProductionsOf(f)]
    <2>1. ProductionsOf(f) \in SUBSET Harvests
      BY DEF ProductionsOf
    <2>2. c \in VisitContext /\ c.at = "deleteFarm"
      BY <1>0, <2>1 DEF VisitContext, NoVisit
    <2>3. visit' = [visit EXCEPT ![v] = c] /\ UNCHANGED <<production, form, examined, disturbed>>
      BY <1>5 DEF deleteFarmReads, Reads
    <2> HIDE DEF c
    <2>4. QED BY <1>0, <2>2, <2>3, VisitTurns DEF Decisions
  <1>6. ASSUME NEW v \in Visits, NEW p \in Harvests, createProductionReads(v, p) PROVE HarvestInv'
    <2>1. CASE farm[form.farm] = "active"
      <3> DEFINE c == [NoVisit EXCEPT !.at = "create", !.farm = form.farm, !.harvest = p,
                                      !.arg = form.quantity]
      <3>1. c \in VisitContext /\ c.at = "create" /\ c.harvest = p
        BY <1>0 DEF VisitContext, NoVisit
      <3>2. /\ visit' = [visit EXCEPT ![v] = c] /\ form' = [form EXCEPT !.at = "served"]
            /\ UNCHANGED <<production, examined, disturbed>>
        BY <1>6, <2>1 DEF createProductionReads
      <3>3. form' \in [at : {"closed", "open", "asked", "served", "made"},
                       farm : Farms \cup {"none"}, quantity : Nat]
        BY <1>0, <3>2
      <3> HIDE DEF c
      <3>4. QED BY <3>1, <3>2, <3>3, VisitTurns
    <2>2. CASE farm[form.farm] # "active"
      <3>1. UNCHANGED <<production, visit, examined, disturbed>> /\ form' = [form EXCEPT !.at = "open"]
        BY <1>6, <2>2 DEF createProductionReads
      <3>2. QED BY <1>0, <1>1, <3>1
    <2>3. QED BY <2>1, <2>2
  <1>7. ASSUME NEW v \in Visits, NEW p \in Harvests, NEW at \in {"update", "delete"}, NEW q \in Nat,
               NEW f \in Farms \cup {"none"}, editReads(v, p, at, q, f)
        PROVE  HarvestInv'
    <2> DEFINE c == [NoVisit EXCEPT !.at = at, !.farm = f, !.harvest = p, !.arg = q,
                                   !.row = production[p]]
    <2>1. c \in VisitContext /\ c.at = at /\ c.harvest = p /\ c.row.status = production[p].status
      BY <1>0 DEF VisitContext, NoVisit
    <2>2. /\ visit' = [visit EXCEPT ![v] = c] /\ UNCHANGED <<production, form, examined, disturbed>>
          /\ production[p].status = "DECLARED"
      BY <1>7 DEF editReads, Reads, isProductionEditable
    <2> HIDE DEF c
    <2>3. QED BY <1>0, <2>1, <2>2, VisitTurns
  <1>8. ASSUME NEW v \in Visits, NEW p \in Harvests, NEW decision \in Decisions,
               reviewReads(v, p, decision)
        PROVE  HarvestInv'
    <2> DEFINE c == [NoVisit EXCEPT !.at = decision, !.harvest = p, !.row = production[p]]
    <2>1. c \in VisitContext /\ c.at = decision /\ c.harvest = p
      BY <1>0 DEF VisitContext, NoVisit
    <2>2. visit' = [visit EXCEPT ![v] = c] /\ UNCHANGED <<production, form, examined, disturbed>>
      BY <1>8 DEF reviewReads, Reads
    <2> HIDE DEF c
    <2>3. decision \notin {"update", "delete"}
      BY DEF Decisions
    <2>4. QED BY <1>0, <2>1, <2>2, <2>3, VisitTurns
  <1>9. ASSUME NEW v \in Visits, visitFails(v) PROVE HarvestInv'
    BY <1>0, <1>9, VisitTurns DEF visitFails, Ends, Decisions
  <1>10. CASE UNCHANGED producerVars
    BY <1>0, <1>1, <1>10 DEF producerVars
  <1>11. Quantities \subseteq Nat
    BY ProducerAssumption
  <1>12. QED BY <1>2, <1>3, <1>4, <1>5, <1>6, <1>7, <1>8, <1>9, <1>10, <1>11, FarmDeleted, RowEdited
            DEF ProducerNext

LEMMA HarvestInvariance == ProducerSpec => []HarvestInv
  BY HarvestInit, HarvestStep, PTL DEF ProducerSpec

\* The buttons of the queue are the transitions, for each status that exists.
LEMMA QueueOffersTransitions ==
  ASSUME NEW s \in {"DECLARED", "CONFIRMED", "RECEIVED", "REJECTED"}
  PROVE  PRODUCTION_TRANSITIONS[s] = ReviewButtons(s)
  BY DEF PRODUCTION_TRANSITIONS, ReviewButtons, listReviewable, nextStatus

(* What the cooperative has examined stays as it examined it, for any number *)
(* of farms, harvests and handlers.                                         *)
THEOREM DecisionsAreKept == ProducerSpec => []ExaminedIsKept
  <1>1. ASSUME HarvestInv PROVE ExaminedIsKept
    <2>1. ASSUME NEW p \in Harvests, examined[p] # Undecided, p \notin disturbed
          PROVE  production[p].status = examined[p].decision
                 /\ production[p].quantity = examined[p].quantity
      BY <1>1, <2>1 DEF HarvestInv, ExaminedOK
    <2>2. ASSUME disturbed = {}
          PROVE  overview.receivedKg = MapThenSumSet(LAMBDA p : examined[p].quantity,
                               {p \in Harvests : examined[p].decision = "RECEIVED"})
      <3> DEFINE R == {p \in Harvests : production[p].status = "RECEIVED"}
                 E == {p \in Harvests : examined[p].decision = "RECEIVED"}
      <3>1. R = E
        <4>1. ASSUME NEW p \in Harvests
              PROVE  production[p].status = "RECEIVED" <=> examined[p].decision = "RECEIVED"
          BY <1>1, <2>2 DEF HarvestInv, ExaminedOK, Undecided, Decisions
        <4>2. QED BY <4>1
      <3>2. \A p \in R : production[p].quantity = examined[p].quantity
        BY <1>1, <2>1, <2>2 DEF HarvestInv, ExaminedOK, Decisions
      <3>3. MapThenSumSet(LAMBDA p : production[p].quantity, R)
              = MapThenSumSet(LAMBDA p : examined[p].quantity, R)
        <4>1. ASSUME NEW T \in SUBSET R, T # {}
              PROVE  production[CHOOSE x \in T : TRUE].quantity = examined[CHOOSE x \in T : TRUE].quantity
          BY <3>2, <4>1
        <4> HIDE DEF R
        <4> DEFINE Declared(f) ==
                     [T \in SUBSET R |->
                        IF T = {} THEN 0
                        ELSE LET x == CHOOSE y \in T : TRUE IN production[x].quantity + f[T \ {x}]]
                   Examined(f) ==
                     [T \in SUBSET R |->
                        IF T = {} THEN 0
                        ELSE LET x == CHOOSE y \in T : TRUE IN examined[x].quantity + f[T \ {x}]]
        <4>2. \A f : Declared(f) = Examined(f)
          BY <4>1
        <4>3. /\ MapThenSumSet(LAMBDA p : production[p].quantity, R)
                   = (CHOOSE f : f = Declared(f))[R]
              /\ MapThenSumSet(LAMBDA p : examined[p].quantity, R)
                   = (CHOOSE f : f = Examined(f))[R]
          BY DEF MapThenSumSet, MapThenFoldSet
        <4> HIDE DEF Declared, Examined
        <4>4. (CHOOSE f : f = Declared(f)) = (CHOOSE f : f = Examined(f))
          BY <4>2
        <4>5. QED BY <4>3, <4>4
      <3>4. overview.receivedKg = MapThenSumSet(LAMBDA p : production[p].quantity, R)
        BY DEF overview
      <3> HIDE DEF R, E
      <3>5. QED BY <3>1, <3>3, <3>4 DEF E
    <2>3. ASSUME NEW p \in Harvests, exists(p)
          PROVE  PRODUCTION_TRANSITIONS[production[p].status] = ReviewButtons(production[p].status)
      <3>1. production[p].status \in {"DECLARED", "CONFIRMED", "RECEIVED", "REJECTED"}
        BY <2>3 DEF exists, PRODUCTION_TRANSITIONS
      <3>2. QED BY <3>1, QueueOffersTransitions
    <2>4. QED BY <2>1, <2>2, <2>3 DEF ExaminedIsKept
  <1>2. QED BY <1>1, HarvestInvariance, PTL

-----------------------------------------------------------------------------
(* The catalogue.  RepeatInv follows what a synchronisation has read and     *)
(* written so far: everything it names was once said by the site, and when   *)
(* it met no error it has named all that its feed lists.                    *)

SiteRow ==
  [produits : [Refs -> [listed : BOOLEAN, price : Prices, says : Says]],
   gammes : [Gammes -> {"absent", "active", "inactive"}]]

VariantRow == [exists : BOOLEAN, ref : Refs \cup {NoRef}, price : Prices, available : BOOLEAN]

SyncRow ==
  [at : {"idle", "products", "variants", "retire"}, feed : SiteRow \cup {NoFeed},
   todo : SUBSET (Gammes \cup Refs), codes : SUBSET Gammes, seen : SUBSET Refs, errors : BOOLEAN]

CatalogueTypeOK ==
  /\ site \in SiteRow
  /\ variant \in [Shelves -> VariantRow]
  /\ product \in [Gammes -> {"none", "active", "inactive"}]
  /\ sync \in [Syncs -> SyncRow]
  /\ offered \in [Refs -> SUBSET [price : Prices, sold : BOOLEAN]]

\* What a run writes of its feed: the references of the products it has written.
WrittenRefs(x) == {r \in Listed(x.feed) : gammeOf[r] \in x.codes}

SyncOK(x, said) ==
  x.at # "idle" =>
    /\ x.feed \in SiteRow
    /\ \A r \in Refs : Offer(x.feed, r) \in said[r]
    /\ x.codes \subseteq ListedGammes(x.feed)
    /\ x.at = "products" =>
         /\ x.todo \subseteq ListedGammes(x.feed) /\ x.seen = {}
         /\ ~ x.errors => x.todo \cup x.codes = ListedGammes(x.feed)
    /\ x.at # "products" =>
         /\ x.seen \subseteq WrittenRefs(x)
         /\ ~ x.errors => x.codes = ListedGammes(x.feed)
    /\ x.at = "variants" =>
         /\ x.todo \subseteq WrittenRefs(x)
         /\ ~ x.errors => x.todo \cup x.seen = WrittenRefs(x)
    /\ x.at = "retire" => (~ x.errors => x.seen = WrittenRefs(x))

ShelfOK(h) ==
  /\ variant[h].ref # NoRef =>
       variant[h].exists /\ h = shelfOf[variant[h].ref] /\ RepeatsTheSite(variant[h])
  /\ ~ variant[h].exists => ~ variant[h].available

RepeatInv ==
  /\ CatalogueTypeOK
  /\ \A r \in Refs : Offer(site, r) \in offered[r]
  /\ \A s \in Syncs : SyncOK(sync[s], offered)
  /\ \A h \in Shelves : ShelfOK(h)

LEMMA OfferIs ==
  ASSUME NEW feed \in SiteRow, NEW r \in Refs
  PROVE  /\ Offer(feed, r) \in [price : Prices, sold : BOOLEAN]
         /\ Sells(feed, r) => Offer(feed, r) = [price |-> feed.produits[r].price, sold |-> TRUE]
         /\ ~ Sells(feed, r) => ~ Offer(feed, r).sold
         /\ Offer(feed, r).sold = Sells(feed, r)
  BY DEF Offer, Sells, SiteRow

LEMMA CatalogueInitOK == CatalogueInit => RepeatInv
  <1> SUFFICES ASSUME CatalogueInit PROVE RepeatInv
    OBVIOUS
  <1>1. site \in SiteRow
    BY DEF CatalogueInit, SiteRow, Says
  <1>2. \A r \in Refs : Offer(site, r) \in offered[r]
    BY DEF CatalogueInit
  <1>3. offered \in [Refs -> SUBSET [price : Prices, sold : BOOLEAN]]
    <2>1. \A r \in Refs : Offer(site, r) \in [price : Prices, sold : BOOLEAN]
      BY <1>1, OfferIs
    <2>2. offered = [r \in Refs |-> {Offer(site, r)}]
      BY DEF CatalogueInit
    <2>3. QED BY <2>1, <2>2
  <1>4. variant \in [Shelves -> VariantRow] /\ \A h \in Shelves : ShelfOK(h)
    <2>1. PICK seeded \in SUBSET Shelves, p \in Prices :
       variant = [h \in Shelves |-> [exists |-> h \in seeded, ref |-> NoRef, price |-> p,
                                     available |-> h \in seeded]]
      BY DEF CatalogueInit
    <2>2. \A h \in Shelves : (h \in seeded) \in BOOLEAN
      OBVIOUS
    <2>3. QED BY <2>1, <2>2 DEF VariantRow, ShelfOK
  <1>5. NoSync \in SyncRow /\ NoSync.at = "idle"
    BY DEF NoSync, SyncRow
  <1>6. sync \in [Syncs -> SyncRow] /\ \A s \in Syncs : SyncOK(sync[s], offered)
    BY <1>5 DEF CatalogueInit, SyncOK
  <1>7. product \in [Gammes -> {"none", "active", "inactive"}]
    BY DEF CatalogueInit
  <1>8. QED BY <1>1, <1>2, <1>3, <1>4, <1>6, <1>7 DEF RepeatInv, CatalogueTypeOK

\* The site is edited: what it said before is still remembered.
LEMMA EditRepeats ==
  ASSUME RepeatInv, SiteIsEdited
  PROVE  RepeatInv'
  <1>0. site \in SiteRow /\ offered \in [Refs -> SUBSET [price : Prices, sold : BOOLEAN]]
    BY DEF RepeatInv, CatalogueTypeOK
  <1>1. site' \in SiteRow
    <2>1. CASE \E r \in Refs : \E item \in [listed : BOOLEAN, price : Prices, says : Says] :
                 site' = [site EXCEPT !.produits[r] = item]
      BY <1>0, <2>1 DEF SiteRow
    <2>2. CASE \E g \in Gammes, state \in {"absent", "active", "inactive"} :
                 site' = [site EXCEPT !.gammes[g] = state]
      BY <1>0, <2>2 DEF SiteRow
    <2>3. QED BY <2>1, <2>2 DEF SiteIsEdited
  <1>2. /\ offered' = [r \in Refs |-> offered[r] \cup {Offer(site', r)}]
        /\ UNCHANGED <<variant, product, sync>>
    BY DEF SiteIsEdited
  <1>3. \A r \in Refs : offered[r] \subseteq offered'[r] /\ Offer(site', r) \in offered'[r]
    BY <1>2
  <1>4. offered' \in [Refs -> SUBSET [price : Prices, sold : BOOLEAN]]
    <2>1. \A r \in Refs : Offer(site', r) \in [price : Prices, sold : BOOLEAN]
      BY <1>1, OfferIs
    <2>2. QED BY <1>0, <1>2, <2>1
  <1>5. CatalogueTypeOK'
    BY <1>1, <1>2, <1>4 DEF RepeatInv, CatalogueTypeOK
  <1>6. \A s \in Syncs : SyncOK(sync[s], offered)'
    BY <1>2, <1>3 DEF RepeatInv, SyncOK
  <1>7. ASSUME NEW h \in Shelves PROVE ShelfOK(h)'
    <2>1. variant[h].ref # NoRef => variant[h].ref \in Refs
      BY DEF RepeatInv, CatalogueTypeOK, VariantRow
    <2>2. ShelfOK(h)
      BY DEF RepeatInv
    <2>3. QED BY <1>2, <1>3, <2>1, <2>2 DEF ShelfOK, RepeatsTheSite
  <1>8. QED BY <1>3, <1>5, <1>6, <1>7 DEF RepeatInv

\* A run moves on and writes no variant.
LEMMA RunRepeats ==
  ASSUME RepeatInv, NEW s \in Syncs, NEW x \in SyncRow, sync' = [sync EXCEPT ![s] = x],
         UNCHANGED <<site, offered, variant>>, SyncOK(x, offered),
         product' \in [Gammes -> {"none", "active", "inactive"}]
  PROVE  RepeatInv'
  <1>1. sync \in [Syncs -> SyncRow]
    BY DEF RepeatInv, CatalogueTypeOK
  <1>2. CatalogueTypeOK'
    BY <1>1 DEF RepeatInv, CatalogueTypeOK
  <1>3. ASSUME NEW z \in Syncs PROVE SyncOK(sync'[z], offered')
    <2>1. sync'[z] = x \/ sync'[z] = sync[z]
      BY <1>1
    <2>2. QED BY <2>1 DEF RepeatInv
  <1>4. \A h \in Shelves : ShelfOK(h)'
    BY DEF RepeatInv, ShelfOK, RepeatsTheSite
  <1>5. QED BY <1>2, <1>3, <1>4 DEF RepeatInv

LEMMA IdleSync == NoSync \in SyncRow /\ NoSync.at = "idle"
  BY DEF NoSync, SyncRow

\* The next row of a run, as each of its steps makes it.
LEMMA RunMoves ==
  ASSUME RepeatInv, NEW s \in Syncs, NEW x,
         \/ fetchSource(s) /\ x = [NoSync EXCEPT !.at = "products", !.feed = site,
                                                 !.todo = ListedGammes(site)]
         \/ (\E g \in Gammes : upsertProduct(s, g)
               /\ x = [sync[s] EXCEPT !.todo = @ \ {g}, !.codes = @ \cup {g}])
         \/ (\E y : upsertFails(s, y) /\ x = [sync[s] EXCEPT !.todo = @ \ {y}, !.errors = TRUE])
         \/ skipOrphans(s) /\ x = [sync[s] EXCEPT !.at = "variants", !.todo = WrittenRefs(sync[s])]
         \/ (\E r \in Refs : upsertVariant(s, r)
               /\ x = [sync[s] EXCEPT !.todo = @ \ {r}, !.seen = @ \cup {r}])
         \/ withdrawVariants(s) /\ x = [sync[s] EXCEPT !.at = "retire"]
  PROVE  x \in SyncRow /\ SyncOK(x, offered)
  <1>0. sync[s] \in SyncRow /\ SyncOK(sync[s], offered) /\ site \in SiteRow
    BY DEF RepeatInv, CatalogueTypeOK
  <1>1. CASE fetchSource(s) /\ x = [NoSync EXCEPT !.at = "products", !.feed = site,
                                                  !.todo = ListedGammes(site)]
    <2>1. ListedGammes(site) \in SUBSET Gammes
      BY DEF ListedGammes
    <2>2. /\ x.at = "products" /\ x.feed = site /\ x.todo = ListedGammes(site) /\ x.codes = {}
          /\ x.seen = {} /\ x.errors = FALSE
      BY <1>1 DEF NoSync
    <2>3. x \in SyncRow
      BY <1>0, <1>1, <2>1 DEF NoSync, SyncRow
    <2>4. \A r \in Refs : Offer(site, r) \in offered[r]
      BY DEF RepeatInv
    <2>5. QED BY <1>0, <2>2, <2>3, <2>4 DEF SyncOK
  <1>2. CASE \E g \in Gammes : upsertProduct(s, g)
               /\ x = [sync[s] EXCEPT !.todo = @ \ {g}, !.codes = @ \cup {g}]
    <2>1. PICK g \in Gammes : upsertProduct(s, g)
               /\ x = [sync[s] EXCEPT !.todo = @ \ {g}, !.codes = @ \cup {g}]
      BY <1>2
    <2>2. sync[s].at = "products" /\ g \in sync[s].todo
      BY <2>1 DEF upsertProduct, SyncAt
    <2>3. /\ x.at = "products" /\ x.feed = sync[s].feed /\ x.todo = sync[s].todo \ {g}
          /\ x.codes = sync[s].codes \cup {g} /\ x.seen = sync[s].seen /\ x.errors = sync[s].errors
          /\ x \in SyncRow
      BY <1>0, <2>1, <2>2 DEF SyncRow
    <2>4. QED BY <1>0, <2>2, <2>3 DEF SyncOK
  <1>3. CASE \E y : upsertFails(s, y) /\ x = [sync[s] EXCEPT !.todo = @ \ {y}, !.errors = TRUE]
    <2>1. PICK y : upsertFails(s, y) /\ x = [sync[s] EXCEPT !.todo = @ \ {y}, !.errors = TRUE]
      BY <1>3
    <2>2. sync[s].at \in {"products", "variants"}
      BY <2>1 DEF upsertFails
    <2>3. /\ x.at = sync[s].at /\ x.feed = sync[s].feed /\ x.todo = sync[s].todo \ {y}
          /\ x.codes = sync[s].codes /\ x.seen = sync[s].seen /\ x.errors
          /\ x \in SyncRow
      BY <1>0, <2>1 DEF SyncRow
    <2>4. WrittenRefs(x) = WrittenRefs(sync[s])
      BY <2>3 DEF WrittenRefs
    <2>5. QED BY <1>0, <2>2, <2>3, <2>4 DEF SyncOK
  <1>4. CASE skipOrphans(s) /\ x = [sync[s] EXCEPT !.at = "variants", !.todo = WrittenRefs(sync[s])]
    <2>1. sync[s].at = "products" /\ sync[s].todo = {}
      BY <1>4 DEF skipOrphans, SyncAt
    <2>2. WrittenRefs(sync[s]) \in SUBSET Refs
      BY DEF WrittenRefs, Listed
    <2>3. /\ x.at = "variants" /\ x.feed = sync[s].feed /\ x.todo = WrittenRefs(sync[s])
          /\ x.codes = sync[s].codes /\ x.seen = sync[s].seen /\ x.errors = sync[s].errors
          /\ x \in SyncRow
      BY <1>0, <1>4, <2>2 DEF SyncRow
    <2>4. WrittenRefs(x) = WrittenRefs(sync[s])
      BY <2>3 DEF WrittenRefs
    <2>5. QED BY <1>0, <2>1, <2>3, <2>4 DEF SyncOK
  <1>5. CASE \E r \in Refs : upsertVariant(s, r)
               /\ x = [sync[s] EXCEPT !.todo = @ \ {r}, !.seen = @ \cup {r}]
    <2>1. PICK r \in Refs : upsertVariant(s, r)
               /\ x = [sync[s] EXCEPT !.todo = @ \ {r}, !.seen = @ \cup {r}]
      BY <1>5
    <2>2. sync[s].at = "variants" /\ r \in sync[s].todo
      BY <2>1 DEF upsertVariant, SyncAt
    <2>3. /\ x.at = "variants" /\ x.feed = sync[s].feed /\ x.todo = sync[s].todo \ {r}
          /\ x.codes = sync[s].codes /\ x.seen = sync[s].seen \cup {r} /\ x.errors = sync[s].errors
          /\ x \in SyncRow
      BY <1>0, <2>1, <2>2 DEF SyncRow
    <2>4. WrittenRefs(x) = WrittenRefs(sync[s])
      BY <2>3 DEF WrittenRefs
    <2>5. QED BY <1>0, <2>2, <2>3, <2>4 DEF SyncOK
  <1>6. CASE withdrawVariants(s) /\ x = [sync[s] EXCEPT !.at = "retire"]
    <2>1. sync[s].at = "variants" /\ sync[s].todo = {}
      BY <1>6 DEF withdrawVariants, SyncAt
    <2>2. /\ x.at = "retire" /\ x.feed = sync[s].feed
          /\ x.codes = sync[s].codes /\ x.seen = sync[s].seen /\ x.errors = sync[s].errors
          /\ x \in SyncRow
      BY <1>0, <1>6 DEF SyncRow
    <2>3. WrittenRefs(x) = WrittenRefs(sync[s])
      BY <2>2 DEF WrittenRefs
    <2>4. QED BY <1>0, <2>1, <2>2, <2>3 DEF SyncOK
  <1>7. QED BY <1>1, <1>2, <1>3, <1>4, <1>5, <1>6

LEMMA ShelfForIs ==
  ASSUME RepeatInv, NEW r \in Refs
  PROVE  ShelfFor(r) = shelfOf[r]
  <1>1. CASE \E h \in Shelves : variant[h].exists /\ variant[h].ref = r
    <2>1. ShelfFor(r) \in Shelves /\ variant[ShelfFor(r)].ref = r
      BY <1>1 DEF ShelfFor
    <2>2. r # NoRef
      BY CatalogueBounds
    <2>3. QED BY <2>1, <2>2 DEF RepeatInv, ShelfOK
  <1>2. CASE ~ \E h \in Shelves : variant[h].exists /\ variant[h].ref = r
    BY <1>2 DEF ShelfFor
  <1>3. QED BY <1>1, <1>2

\* A reference is written to its shelf as the feed gives it.
LEMMA VariantWritten ==
  ASSUME RepeatInv, NEW s \in Syncs, NEW r \in Refs, upsertVariant(s, r)
  PROVE  /\ shelfOf[r] \in Shelves
         /\ sync[s].feed \in SiteRow
         /\ r \in WrittenRefs(sync[s]) /\ gammeOf[r] \in ListedGammes(sync[s].feed)
         /\ variant'[shelfOf[r]] =
              [exists |-> TRUE, ref |-> r, price |-> sync[s].feed.produits[r].price,
               available |-> estVendable(sync[s].feed.produits[r])]
         /\ \A h \in Shelves \ {shelfOf[r]} : variant'[h] = variant[h]
         /\ variant' \in [Shelves -> VariantRow]
  <1>1. sync[s].at = "variants" /\ r \in sync[s].todo /\ SyncOK(sync[s], offered)
    BY DEF upsertVariant, SyncAt, RepeatInv
  <1>2. /\ sync[s].feed \in SiteRow /\ r \in WrittenRefs(sync[s])
        /\ gammeOf[r] \in ListedGammes(sync[s].feed)
    BY <1>1 DEF SyncOK, WrittenRefs
  <1>3. shelfOf[r] \in Shelves
    BY CatalogueBounds
  <1> DEFINE produit == sync[s].feed.produits[r]
             v == [exists |-> TRUE, ref |-> r, price |-> produit.price,
                   available |-> estVendable(produit)]
  <1>4. variant' = [variant EXCEPT ![shelfOf[r]] = v] /\ variant \in [Shelves -> VariantRow]
    BY ShelfForIs DEF upsertVariant, RepeatInv, CatalogueTypeOK
  <1>5. v \in VariantRow
    BY <1>2 DEF VariantRow, SiteRow, estVendable
  <1> HIDE DEF v
  <1>6. /\ variant'[shelfOf[r]] = v /\ \A h \in Shelves \ {shelfOf[r]} : variant'[h] = variant[h]
        /\ variant' \in [Shelves -> VariantRow]
    BY <1>3, <1>4, <1>5
  <1>7. QED BY <1>2, <1>3, <1>6 DEF v

LEMMA UpsertRepeats ==
  ASSUME RepeatInv, NEW s \in Syncs, NEW r \in Refs, upsertVariant(s, r)
  PROVE  RepeatInv'
  <1> DEFINE x == [sync[s] EXCEPT !.todo = @ \ {r}, !.seen = @ \cup {r}]
  <1>1. x \in SyncRow /\ SyncOK(x, offered)
    BY RunMoves
  <1>2. sync' = [sync EXCEPT ![s] = x] /\ UNCHANGED <<site, offered, product>>
    <2>1. sync \in [Syncs -> SyncRow]
      BY DEF RepeatInv, CatalogueTypeOK
    <2>2. QED BY <2>1 DEF upsertVariant, UNCHANGEDSite
  <1> HIDE DEF x
  <1>3. sync \in [Syncs -> SyncRow]
    BY DEF RepeatInv, CatalogueTypeOK
  <1> DEFINE feed == sync[s].feed
             h == shelfOf[r]
  <1>4. /\ h \in Shelves /\ feed \in SiteRow /\ r \in WrittenRefs(sync[s])
        /\ gammeOf[r] \in ListedGammes(feed)
        /\ variant'[h] = [exists |-> TRUE, ref |-> r, price |-> feed.produits[r].price,
                          available |-> estVendable(feed.produits[r])]
        /\ \A k \in Shelves \ {h} : variant'[k] = variant[k]
        /\ variant' \in [Shelves -> VariantRow]
    BY VariantWritten
  <1>5. /\ variant'[h].exists /\ variant'[h].ref = r /\ variant'[h].price = feed.produits[r].price
        /\ variant'[h].available = estVendable(feed.produits[r])
    BY <1>4
  <1>6. CatalogueTypeOK'
    BY <1>1, <1>2, <1>3, <1>4 DEF RepeatInv, CatalogueTypeOK
  <1>7. ASSUME NEW z \in Syncs PROVE SyncOK(sync'[z], offered')
    <2>1. sync'[z] = x \/ sync'[z] = sync[z]
      BY <1>2, <1>3
    <2>2. QED BY <1>1, <1>2, <2>1 DEF RepeatInv
  <1>8. ShelfOK(h)'
    <2>1. Offer(feed, r) \in offered[r]
      <3>1. SyncOK(sync[s], offered) /\ sync[s].at # "idle"
        BY DEF RepeatInv, upsertVariant, SyncAt
      <3>2. QED BY <3>1 DEF SyncOK
    <2>2. Sells(feed, r) <=> estVendable(feed.produits[r])
      BY <1>4 DEF Sells, WrittenRefs
    <2>3. RepeatsTheSite(variant[h])'
      <3>1. CASE estVendable(feed.produits[r])
        <4>1. Offer(feed, r) = [price |-> feed.produits[r].price, sold |-> TRUE]
          BY <1>4, <2>2, <3>1, OfferIs
        <4>2. QED BY <1>2, <1>5, <2>1, <3>1, <4>1 DEF RepeatsTheSite
      <3>2. CASE ~ estVendable(feed.produits[r])
        <4>1. ~ Offer(feed, r).sold
          BY <1>4, <2>2, <3>2, OfferIs
        <4>2. QED BY <1>2, <1>5, <2>1, <3>2, <4>1 DEF RepeatsTheSite
      <3>3. QED BY <3>1, <3>2
    <2>4. QED BY <1>5, <2>3 DEF ShelfOK
  <1>9. ASSUME NEW k \in Shelves PROVE ShelfOK(k)'
    <2>1. CASE k = h
      BY <1>8, <2>1
    <2>2. CASE k # h
      <3>1. variant'[k] = variant[k] /\ offered' = offered
        BY <1>2, <1>4, <2>2
      <3>2. QED BY <3>1 DEF RepeatInv, ShelfOK, RepeatsTheSite
    <2>3. QED BY <2>1, <2>2
  <1>10. QED BY <1>2, <1>6, <1>7, <1>9 DEF RepeatInv

\* What a complete run did not name, its feed did not sell.
LEMMA UnnamedIsUnsold ==
  ASSUME RepeatInv, NEW s \in Syncs, sync[s].at = "variants", sync[s].todo = {},
         ~ sync[s].errors, NEW r \in Refs, r \notin sync[s].seen
  PROVE  \E offer \in offered[r] : ~ offer.sold
  <1>1. SyncOK(sync[s], offered)
    BY DEF RepeatInv
  <1>2. r \notin WrittenRefs(sync[s]) /\ sync[s].codes = ListedGammes(sync[s].feed)
        /\ Offer(sync[s].feed, r) \in offered[r] /\ sync[s].feed \in SiteRow
    BY <1>1 DEF SyncOK
  <1>3. ~ Sells(sync[s].feed, r)
    BY <1>2 DEF Sells, WrittenRefs
  <1>4. QED BY <1>2, <1>3, OfferIs

LEMMA WithdrawRepeats ==
  ASSUME RepeatInv, NEW s \in Syncs, withdrawVariants(s)
  PROVE  RepeatInv'
  <1> DEFINE x == [sync[s] EXCEPT !.at = "retire"]
  <1>1. x \in SyncRow /\ SyncOK(x, offered)
    BY RunMoves
  <1>2. sync \in [Syncs -> SyncRow] /\ variant \in [Shelves -> VariantRow]
    BY DEF RepeatInv, CatalogueTypeOK
  <1>3. sync' = [sync EXCEPT ![s] = x] /\ UNCHANGED <<site, offered, product>>
    BY <1>2 DEF withdrawVariants, UNCHANGEDSite
  <1> HIDE DEF x
  <1>4. CASE ~ MayWithdraw(s)
    <2>1. variant' = variant
      BY <1>4 DEF withdrawVariants
    <2>2. product' \in [Gammes -> {"none", "active", "inactive"}]
      BY <1>3 DEF RepeatInv, CatalogueTypeOK
    <2>3. QED BY <1>1, <1>3, <2>1, <2>2, RunRepeats
  <1>5. CASE MayWithdraw(s)
    <2>1. variant' = [h \in Shelves |->
                        IF variant[h].ref \in sync[s].seen THEN variant[h]
                        ELSE [variant[h] EXCEPT !.available = FALSE]]
      BY <1>5 DEF withdrawVariants
    <2>2. variant' \in [Shelves -> VariantRow]
      BY <1>2, <2>1 DEF VariantRow
    <2>3. CatalogueTypeOK'
      BY <1>1, <1>2, <1>3, <2>2 DEF RepeatInv, CatalogueTypeOK
    <2>4. ASSUME NEW z \in Syncs PROVE SyncOK(sync'[z], offered')
      <3>1. sync'[z] = x \/ sync'[z] = sync[z]
        BY <1>2, <1>3
      <3>2. QED BY <1>1, <1>3, <3>1 DEF RepeatInv
    <2>5. ASSUME NEW h \in Shelves PROVE ShelfOK(h)'
      <3>0. ShelfOK(h) /\ variant[h] \in VariantRow
        BY <1>2 DEF RepeatInv
      <3>1. CASE variant[h].ref \in sync[s].seen
        <4>1. variant'[h] = variant[h]
          BY <2>1, <3>1
        <4>2. QED BY <1>3, <3>0, <4>1 DEF ShelfOK, RepeatsTheSite
      <3>2. CASE variant[h].ref \notin sync[s].seen
        <4>1. /\ variant'[h].ref = variant[h].ref /\ variant'[h].exists = variant[h].exists
              /\ variant'[h].available = FALSE
          BY <2>1, <3>0, <3>2 DEF VariantRow
        <4>2. ASSUME variant[h].ref # NoRef
              PROVE  \E offer \in offered[variant[h].ref] : ~ offer.sold
          <5>1. variant[h].ref \in Refs
            BY <3>0, <4>2 DEF VariantRow
          <5>2. sync[s].at = "variants" /\ sync[s].todo = {} /\ ~ sync[s].errors
            BY <1>5 DEF withdrawVariants, SyncAt, MayWithdraw
          <5>3. QED BY <3>2, <5>1, <5>2, UnnamedIsUnsold
        <4>3. QED BY <1>3, <3>0, <4>1, <4>2 DEF ShelfOK, RepeatsTheSite
      <3>3. QED BY <3>1, <3>2
    <2>6. QED BY <1>3, <2>3, <2>4, <2>5 DEF RepeatInv
  <1>6. QED BY <1>4, <1>5

LEMMA RepeatStep == RepeatInv /\ [CatalogueNext]_catalogueVars => RepeatInv'
  <1> SUFFICES ASSUME RepeatInv, [CatalogueNext]_catalogueVars PROVE RepeatInv'
    OBVIOUS
  <1>0. /\ sync \in [Syncs -> SyncRow] /\ product \in [Gammes -> {"none", "active", "inactive"}]
        /\ \A s \in Syncs : SyncOK(NoSync, offered)
    BY IdleSync DEF RepeatInv, CatalogueTypeOK, SyncOK
  <1>1. ASSUME NEW s \in Syncs, fetchSource(s) PROVE RepeatInv'
    <2>1. /\ sync' = [sync EXCEPT ![s] = [NoSync EXCEPT !.at = "products", !.feed = site,
                                                        !.todo = ListedGammes(site)]]
          /\ UNCHANGED <<site, offered, variant, product>>
      BY <1>1 DEF fetchSource, UNCHANGEDSite
    <2>2. PICK x : x = [NoSync EXCEPT !.at = "products", !.feed = site, !.todo = ListedGammes(site)]
      OBVIOUS
    <2>3. x \in SyncRow /\ SyncOK(x, offered)
      BY <1>1, <2>2, RunMoves
    <2>4. QED BY <1>0, <2>1, <2>2, <2>3, RunRepeats
  <1>2. ASSUME NEW s \in Syncs, NEW g \in Gammes, upsertProduct(s, g) PROVE RepeatInv'
    <2>1. PICK x : x = [sync[s] EXCEPT !.todo = @ \ {g}, !.codes = @ \cup {g}]
      OBVIOUS
    <2>2. /\ sync' = [sync EXCEPT ![s] = x]
          /\ product' = [product EXCEPT ![g] = sync[s].feed.gammes[g]]
          /\ UNCHANGED <<site, offered, variant>>
      BY <1>0, <1>2, <2>1 DEF upsertProduct, UNCHANGEDSite
    <2>3. x \in SyncRow /\ SyncOK(x, offered)
      BY <1>2, <2>1, RunMoves
    <2>4. sync[s].feed.gammes[g] \in {"active", "inactive"}
      <3>1. SyncOK(sync[s], offered) /\ sync[s].at = "products" /\ g \in sync[s].todo
        BY <1>2 DEF RepeatInv, upsertProduct, SyncAt
      <3>2. sync[s].feed \in SiteRow /\ g \in ListedGammes(sync[s].feed)
        BY <3>1 DEF SyncOK
      <3>3. QED BY <3>2 DEF SiteRow, ListedGammes
    <2>5. product' \in [Gammes -> {"none", "active", "inactive"}]
      BY <1>0, <2>2, <2>4
    <2>6. QED BY <2>2, <2>3, <2>5, RunRepeats
  <1>3. ASSUME NEW s \in Syncs, NEW y, upsertFails(s, y) PROVE RepeatInv'
    <2>1. PICK x : x = [sync[s] EXCEPT !.todo = @ \ {y}, !.errors = TRUE]
      OBVIOUS
    <2>2. sync' = [sync EXCEPT ![s] = x] /\ UNCHANGED <<site, offered, variant, product>>
      BY <1>0, <1>3, <2>1 DEF upsertFails, UNCHANGEDSite
    <2>3. x \in SyncRow /\ SyncOK(x, offered)
      BY <1>3, <2>1, RunMoves
    <2>4. QED BY <1>0, <2>2, <2>3, RunRepeats
  <1>4. ASSUME NEW s \in Syncs, skipOrphans(s) PROVE RepeatInv'
    <2>1. PICK x : x = [sync[s] EXCEPT !.at = "variants", !.todo = WrittenRefs(sync[s])]
      OBVIOUS
    <2>2. sync' = [sync EXCEPT ![s] = x] /\ UNCHANGED <<site, offered, variant, product>>
      BY <1>0, <1>4, <2>1 DEF skipOrphans, UNCHANGEDSite, WrittenRefs
    <2>3. x \in SyncRow /\ SyncOK(x, offered)
      BY <1>4, <2>1, RunMoves
    <2>4. QED BY <1>0, <2>2, <2>3, RunRepeats
  <1>5. ASSUME NEW s \in Syncs, retireProducts(s) \/ syncStops(s) PROVE RepeatInv'
    <2>1. sync' = [sync EXCEPT ![s] = NoSync] /\ UNCHANGED <<site, offered, variant>>
      BY <1>5 DEF retireProducts, syncStops, UNCHANGEDSite
    <2>2. product' \in [Gammes -> {"none", "active", "inactive"}]
      <3>1. CASE retireProducts(s)
        BY <1>0, <3>1 DEF retireProducts
      <3>2. CASE syncStops(s)
        BY <1>0, <3>2 DEF syncStops
      <3>3. QED BY <1>5, <3>1, <3>2
    <2>3. QED BY <1>0, <2>1, <2>2, IdleSync, RunRepeats
  <1>6. CASE UNCHANGED catalogueVars
    BY <1>6 DEF catalogueVars, RepeatInv, CatalogueTypeOK, ShelfOK, RepeatsTheSite
  <1>7. QED BY <1>1, <1>2, <1>3, <1>4, <1>5, <1>6, EditRepeats, UpsertRepeats, WithdrawRepeats
           DEF CatalogueNext

LEMMA RepeatInvariance == CatalogueSpec => []RepeatInv
  BY CatalogueInitOK, RepeatStep, PTL DEF CatalogueSpec

(* The shop says only what the site has said.                               *)
THEOREM ShopRepeatsTheSite ==
  CatalogueSpec => [](\A h \in Shelves : variant[h].ref # NoRef => RepeatsTheSite(variant[h]))
  <1>1. RepeatInv => \A h \in Shelves : variant[h].ref # NoRef => RepeatsTheSite(variant[h])
    BY DEF RepeatInv, ShelfOK
  <1>2. QED BY <1>1, RepeatInvariance, PTL

-----------------------------------------------------------------------------
(* Agreement.  A clean run is alone and its feed is the site, so what it has  *)
(* written stays right; once the catalogues agree, every run under way        *)
(* carries the same feed, and no write of theirs can break the agreement.    *)

Agrees ==
  /\ \A r \in Refs : Counts(r) => ShelfAgrees(r)
  /\ \A h \in Shelves : variant[h].available => variant[h].ref \in {r \in Refs : Counts(r)}
  /\ \A g \in Gammes : product[g] = "active" => site.gammes[g] = "active"

CleanOK(s) ==
  /\ \A z \in Syncs \ {s} : sync[z].at = "idle"
  /\ sync[s].at # "idle" =>
       /\ sync[s].feed = site
       /\ \A r \in sync[s].seen : ShelfAgrees(r)
       /\ \A g \in sync[s].codes : product[g] = site.gammes[g]
       /\ sync[s].at = "retire" /\ ~ sync[s].errors /\ sync[s].seen # {} =>
            \A h \in Shelves : variant[h].available => variant[h].ref \in sync[s].seen

AgreeInv ==
  /\ RepeatInv
  /\ agreed \in BOOLEAN
  /\ \A s \in clean : s \in Syncs /\ CleanOK(s)
  /\ agreed => Agrees /\ \A s \in Syncs : sync[s].at # "idle" => sync[s].feed = site

LEMMA AgreeInit == CatalogueInit => AgreeInv
  BY CatalogueInitOK DEF CatalogueInit, AgreeInv

\* Nothing the site is compared with has changed.
LEMMA ComparesKept ==
  ASSUME NEW r, Compares(r), site' = site,
         \A h \in Shelves : variant[h].ref = r => variant'[h] = variant[h]
  PROVE  Compares(r)'
  BY DEF Compares

LEMMA CountsKept ==
  ASSUME site' = site
  PROVE  \A r : Counts(r)' <=> Counts(r)
  BY DEF Counts, Listed, ListedGammes

\* A reference written from the feed of the site compares, and no other shelf changes.
LEMMA UpsertCompares ==
  ASSUME RepeatInv, NEW s \in Syncs, NEW r \in Refs, upsertVariant(s, r), sync[s].feed = site
  PROVE  /\ ShelfAgrees(r)' /\ Counts(r)
         /\ \A q \in Refs : ShelfAgrees(q) => ShelfAgrees(q)'
         /\ \A h \in Shelves : variant'[h].available => variant'[h].ref = r \/ variant'[h] = variant[h]
  <1> DEFINE h == shelfOf[r]
  <1>1. /\ h \in Shelves /\ sync[s].feed \in SiteRow /\ r \in WrittenRefs(sync[s])
        /\ gammeOf[r] \in ListedGammes(site)
        /\ variant'[h] = [exists |-> TRUE, ref |-> r, price |-> site.produits[r].price,
                          available |-> estVendable(site.produits[r])]
        /\ \A k \in Shelves \ {h} : variant'[k] = variant[k]
    BY VariantWritten
  <1>2. site' = site
    BY DEF upsertVariant, UNCHANGEDSite
  <1>3. Compares(r)' /\ Counts(r) /\ Counts(r)'
    <2>1. Compares(r)'
      BY <1>1, <1>2 DEF Compares
    <2>2. Counts(r)
      BY <1>1 DEF WrittenRefs, Counts
    <2>3. QED BY <1>2, <2>1, <2>2, CountsKept
  <1>4. \A q \in Refs : shelfOf[q] = h => ShelfAgrees(q)'
    BY <1>3 DEF ShelfAgrees
  <1>5. ASSUME NEW q \in Refs, ShelfAgrees(q), shelfOf[q] # h PROVE ShelfAgrees(q)'
    <2>1. PICK w \in Refs : shelfOf[w] = shelfOf[q] /\ Counts(w) /\ Compares(w)
      BY <1>5 DEF ShelfAgrees
    <2>2. PICK k \in Shelves :
            /\ variant[k].exists /\ variant[k].ref = w
            /\ variant[k].price = site.produits[w].price
            /\ variant[k].available = estVendable(site.produits[w])
      BY <2>1 DEF Compares
    <2>3. k = shelfOf[w]
      BY <2>2, CatalogueBounds DEF RepeatInv, ShelfOK
    <2>4. variant'[k] = variant[k]
      BY <1>1, <1>5, <2>1, <2>3
    <2>5. Compares(w)'
      BY <1>2, <2>2, <2>4 DEF Compares
    <2>6. Counts(w)'
      BY <1>2, <2>1, CountsKept
    <2>7. QED BY <2>1, <2>5, <2>6 DEF ShelfAgrees
  <1>6. ASSUME NEW k \in Shelves PROVE variant'[k].ref = r \/ variant'[k] = variant[k]
    <2>1. CASE k = h
      BY <1>1, <2>1
    <2>2. CASE k # h
      BY <1>1, <2>2
    <2>3. QED BY <2>1, <2>2
  <1>7. ShelfAgrees(r)'
    BY <1>4
  <1>8. \A q \in Refs : ShelfAgrees(q) => ShelfAgrees(q)'
    BY <1>4, <1>5
  <1>9. QED BY <1>3, <1>6, <1>7, <1>8

\* A complete run withdraws nothing it has named, and leaves nothing else on sale.
LEMMA WithdrawCompares ==
  ASSUME RepeatInv, NEW s \in Syncs, withdrawVariants(s), sync[s].feed = site
  PROVE  /\ site' = site
         /\ \A r \in Refs : ShelfAgrees(r) => ShelfAgrees(r)'
         /\ MayWithdraw(s) => \A h \in Shelves : variant'[h].available => variant'[h].ref \in sync[s].seen
         /\ MayWithdraw(s) => \A r \in Refs : Counts(r) => r \in sync[s].seen
         /\ \A h \in Shelves : variant'[h].available => variant'[h] = variant[h]
         /\ ~ MayWithdraw(s) => variant' = variant
  <1>1. site' = site /\ (~ MayWithdraw(s) => variant' = variant)
        /\ (MayWithdraw(s) =>
              variant' = [h \in Shelves |->
                        IF variant[h].ref \in sync[s].seen THEN variant[h]
                        ELSE [variant[h] EXCEPT !.available = FALSE]])
    BY DEF withdrawVariants, UNCHANGEDSite
  <1>2. \A h \in Shelves : variant[h] \in VariantRow
    BY DEF RepeatInv, CatalogueTypeOK
  <1>3. ASSUME NEW h \in Shelves, variant[h].ref \in sync[s].seen PROVE variant'[h] = variant[h]
    BY <1>1, <1>3
  <1>4. \A r \in sync[s].seen : Compares(r) => Compares(r)'
    BY <1>1, <1>3, ComparesKept
  <1>5. ASSUME MayWithdraw(s), NEW h \in Shelves, variant[h].ref \notin sync[s].seen
        PROVE  ~ variant'[h].available
    BY <1>1, <1>2, <1>5 DEF VariantRow
  <1>6. ASSUME MayWithdraw(s), NEW r \in Refs, Counts(r) PROVE r \in sync[s].seen
    <2>1. /\ sync[s].at = "variants" /\ sync[s].todo = {} /\ ~ sync[s].errors
          /\ SyncOK(sync[s], offered)
      BY <1>6 DEF withdrawVariants, SyncAt, MayWithdraw, RepeatInv
    <2>2. sync[s].seen = WrittenRefs(sync[s]) /\ sync[s].codes = ListedGammes(site)
      BY <2>1 DEF SyncOK
    <2>3. QED BY <1>6, <2>2 DEF WrittenRefs, Counts
  <1>7. ASSUME NEW h \in Shelves, variant'[h].available PROVE variant'[h] = variant[h]
    <2>1. CASE MayWithdraw(s)
      BY <1>3, <1>5, <1>7, <2>1
    <2>2. CASE ~ MayWithdraw(s)
      BY <1>1, <2>2
    <2>3. QED BY <2>1, <2>2
  <1>8. ASSUME MayWithdraw(s), NEW h \in Shelves, variant'[h].available
        PROVE  variant'[h].ref \in sync[s].seen
    BY <1>3, <1>5, <1>8
  <1>9. ASSUME NEW r \in Refs, ShelfAgrees(r) PROVE ShelfAgrees(r)'
    <2>1. PICK q \in Refs : shelfOf[q] = shelfOf[r] /\ Counts(q) /\ Compares(q)
      BY <1>9 DEF ShelfAgrees
    <2>2. Counts(q)'
      BY <1>1, <2>1, CountsKept
    <2>3. CASE MayWithdraw(s)
      <3>1. q \in sync[s].seen
        BY <1>6, <2>1, <2>3
      <3>2. Compares(q)'
        BY <1>4, <2>1, <3>1
      <3>3. QED BY <2>1, <2>2, <3>2 DEF ShelfAgrees
    <2>4. CASE ~ MayWithdraw(s)
      <3>1. Compares(q)'
        BY <1>1, <2>1, <2>4 DEF Compares
      <3>2. QED BY <2>1, <2>2, <3>1 DEF ShelfAgrees
    <2>5. QED BY <2>3, <2>4
  <1>10. QED BY <1>1, <1>6, <1>7, <1>8, <1>9

\* A run of the same feed writes what the site shows of a product.
LEMMA ProductWritten ==
  ASSUME RepeatInv, NEW s \in Syncs, NEW g \in Gammes, upsertProduct(s, g)
  PROVE  /\ product' = [product EXCEPT ![g] = sync[s].feed.gammes[g]]
         /\ product \in [Gammes -> {"none", "active", "inactive"}]
         /\ UNCHANGED <<site, variant, clean, agreed, offered>>
         /\ sync \in [Syncs -> SyncRow]
         /\ sync' = [sync EXCEPT ![s] = [sync[s] EXCEPT !.todo = @ \ {g}, !.codes = @ \cup {g}]]
         /\ sync'[s].at = sync[s].at /\ sync'[s].feed = sync[s].feed
         /\ sync'[s].seen = sync[s].seen /\ sync'[s].codes = sync[s].codes \cup {g}
         /\ sync[s].at = "products" /\ sync[s].seen = {}
  <1>1. sync \in [Syncs -> SyncRow] /\ sync[s].at = "products" /\ sync[s].seen = {}
        /\ product \in [Gammes -> {"none", "active", "inactive"}]
    BY DEF RepeatInv, CatalogueTypeOK, upsertProduct, SyncAt, SyncOK
  <1>2. /\ product' = [product EXCEPT ![g] = sync[s].feed.gammes[g]]
        /\ UNCHANGED <<site, variant, clean, agreed, offered>>
        /\ sync' = [sync EXCEPT ![s] = [sync[s] EXCEPT !.todo = @ \ {g}, !.codes = @ \cup {g}]]
    BY <1>1 DEF upsertProduct, UNCHANGEDSite
  <1>3. /\ sync'[s].at = sync[s].at /\ sync'[s].feed = sync[s].feed
        /\ sync'[s].seen = sync[s].seen /\ sync'[s].codes = sync[s].codes \cup {g}
    BY <1>1, <1>2 DEF SyncRow
  <1>4. QED BY <1>1, <1>2, <1>3

\* A step of one run keeps what the others carry.
LEMMA CarriersKeep ==
  ASSUME RepeatInv, NEW s \in Syncs, NEW x \in SyncRow, sync' = [sync EXCEPT ![s] = x],
         site' = site, agreed, \A z \in Syncs : sync[z].at # "idle" => sync[z].feed = site,
         x.at # "idle" => x.feed = site
  PROVE  \A z \in Syncs : sync'[z].at # "idle" => sync'[z].feed = site'
  <1>1. \A z \in Syncs : sync'[z] = x \/ sync'[z] = sync[z]
    BY DEF RepeatInv, CatalogueTypeOK
  <1>2. QED BY <1>1

\* The others of a clean run are idle before and after it moves.
LEMMA OthersIdle ==
  ASSUME RepeatInv, NEW s \in Syncs, NEW c \in Syncs, CleanOK(c), sync[s].at # "idle"
  PROVE  c = s
  BY DEF CleanOK

\* What a step of run s has to show: of the run itself, if it is clean and goes
\* on, and of the two catalogues, if they are to agree.
StillClean(x) ==
  /\ \A r \in x.seen : ShelfAgrees(r)'
  /\ \A g \in x.codes : product'[g] = site.gammes[g]
  /\ x.at = "retire" /\ ~ x.errors /\ x.seen # {} =>
       \A h \in Shelves : variant'[h].available => variant'[h].ref \in x.seen

RunMovesOn(s) ==
  /\ sync' = [sync EXCEPT ![s] = sync'[s]] /\ site' = site /\ clean' = clean
  /\ sync[s].at # "idle"
  /\ sync'[s].at # "idle" => sync'[s].feed = sync[s].feed
  /\ s \in clean /\ sync'[s].at # "idle" => StillClean(sync'[s])

StaysAgreed(s) ==
  agreed' => Agrees' /\ (agreed \/ (s \in clean /\ sync'[s].at = "idle"))

LEMMA RunAgrees ==
  ASSUME AgreeInv, RepeatInv', NEW s \in Syncs, RunMovesOn(s), agreed' \in BOOLEAN, StaysAgreed(s)
  PROVE  AgreeInv'
  <1> DEFINE x == sync'[s]
  <1> USE DEF RunMovesOn, StaysAgreed, StillClean
  <1>1. sync'[s] = x /\ \A z \in Syncs \ {s} : sync'[z] = sync[z]
    BY DEF AgreeInv, RepeatInv, CatalogueTypeOK
  <1>2. ASSUME NEW c \in clean PROVE c \in Syncs /\ CleanOK(c)'
    <2>1. c = s /\ CleanOK(s)
      BY OthersIdle DEF AgreeInv
    <2>2. \A z \in Syncs \ {s} : sync'[z].at = "idle"
      BY <1>1, <2>1 DEF CleanOK
    <2>3. x.at # "idle" => x.feed = site
      BY <2>1 DEF CleanOK
    <2>4. QED BY <1>1, <1>2, <2>1, <2>2, <2>3 DEF CleanOK
  <1>3. ASSUME agreed' PROVE \A z \in Syncs : sync'[z].at # "idle" => sync'[z].feed = site'
    <2>1. CASE agreed
      <3>1. \A z \in Syncs : sync[z].at # "idle" => sync[z].feed = site
        BY <2>1 DEF AgreeInv
      <3>2. QED BY <1>1, <3>1
    <2>2. CASE s \in clean /\ x.at = "idle"
      <3>1. \A z \in Syncs \ {s} : sync[z].at = "idle"
        BY <2>2 DEF AgreeInv, CleanOK
      <3>2. QED BY <1>1, <2>2, <3>1
    <2>3. QED BY <1>3, <2>1, <2>2
  <1>4. QED BY <1>2, <1>3 DEF AgreeInv

LEMMA AgreesKept ==
  ASSUME Agrees, site' = site, variant' = variant,
         \A g \in Gammes : product'[g] = "active" => product[g] = "active" \/ site.gammes[g] = "active"
  PROVE  Agrees'
  <1>1. \A r \in Refs : (Counts(r)' <=> Counts(r)) /\ (ShelfAgrees(r)' <=> ShelfAgrees(r))
    BY DEF ShelfAgrees, Counts, Compares, Listed, ListedGammes
  <1>2. QED BY <1>1 DEF Agrees

LEMMA AgreeStep == AgreeInv /\ [CatalogueNext]_catalogueVars => AgreeInv'
  <1> SUFFICES ASSUME AgreeInv, [CatalogueNext]_catalogueVars PROVE AgreeInv'
    OBVIOUS
  <1>0. RepeatInv /\ RepeatInv' /\ sync \in [Syncs -> SyncRow] /\ agreed \in BOOLEAN
    BY RepeatStep DEF AgreeInv, RepeatInv, CatalogueTypeOK
  <1>a. \A s \in Syncs : s \in clean => CleanOK(s)
    BY DEF AgreeInv
  <1>b. agreed => Agrees /\ \A s \in Syncs : sync[s].at # "idle" => sync[s].feed = site
    BY DEF AgreeInv
  <1>c. \A s \in Syncs : s \in clean /\ sync[s].at # "idle" =>
          /\ sync[s].feed = site
          /\ \A r \in sync[s].seen : ShelfAgrees(r)
          /\ \A g \in sync[s].codes : product[g] = site.gammes[g]
    BY <1>a DEF CleanOK
  <1>1. ASSUME SiteIsEdited PROVE AgreeInv'
    <2>1. clean' = {} /\ agreed' = FALSE
      BY <1>1 DEF SiteIsEdited
    <2>2. QED BY <1>0, <2>1 DEF AgreeInv
  <1>2. ASSUME NEW s \in Syncs, fetchSource(s) PROVE AgreeInv'
    <2> DEFINE x == [NoSync EXCEPT !.at = "products", !.feed = site, !.todo = ListedGammes(site)]
    <2>1. /\ sync' = [sync EXCEPT ![s] = x] /\ UNCHANGED <<site, variant, product, agreed>>
          /\ clean' = IF \A z \in Syncs : SyncAt(z, "idle") THEN {s} ELSE {}
      BY <1>2 DEF fetchSource, UNCHANGEDSite
    <2>2. x.at = "products" /\ x.feed = site /\ x.seen = {} /\ x.codes = {}
      BY DEF NoSync
    <2> HIDE DEF x
    <2>3. sync'[s] = x /\ \A z \in Syncs \ {s} : sync'[z] = sync[z]
      BY <1>0, <2>1
    <2>4. ASSUME NEW c \in clean' PROVE c \in Syncs /\ CleanOK(c)'
      <3>1. c = s /\ \A z \in Syncs : sync[z].at = "idle"
        BY <2>1, <2>4 DEF SyncAt
      <3>2. QED BY <2>1, <2>2, <2>3, <3>1 DEF CleanOK
    <2>5. ASSUME agreed'
          PROVE  Agrees' /\ \A z \in Syncs : sync'[z].at # "idle" => sync'[z].feed = site'
      <3>1. Agrees'
        BY <1>b, <2>1, <2>5, AgreesKept
      <3>2. QED BY <1>b, <2>1, <2>2, <2>3, <2>5, <3>1
    <2>6. QED BY <1>0, <2>1, <2>4, <2>5 DEF AgreeInv
  <1>3. ASSUME NEW s \in Syncs, NEW g \in Gammes, upsertProduct(s, g) PROVE AgreeInv'
    <2> DEFINE x == sync'[s]
    <2>1. /\ product' = [product EXCEPT ![g] = sync[s].feed.gammes[g]]
          /\ product \in [Gammes -> {"none", "active", "inactive"}]
          /\ UNCHANGED <<site, variant, clean, agreed>>
          /\ x.at = "products" /\ sync[s].at = "products" /\ x.feed = sync[s].feed
          /\ x.seen = {} /\ x.codes = sync[s].codes \cup {g}
          /\ sync' = [sync EXCEPT ![s] = x] /\ x \in SyncRow
      <3>1. sync' \in [Syncs -> SyncRow]
        BY <1>0 DEF RepeatInv, CatalogueTypeOK
      <3>2. sync' = [sync EXCEPT ![s] = x]
        <4> DEFINE w == [sync[s] EXCEPT !.todo = @ \ {g}, !.codes = @ \cup {g}]
        <4>1. sync' = [sync EXCEPT ![s] = w]
          BY <1>0, <1>3, ProductWritten
        <4> HIDE DEF w
        <4>2. QED BY <1>0, <4>1
      <3>3. x \in SyncRow
        BY <3>1
      <3>4. x.at = "products" /\ x.feed = sync[s].feed /\ x.seen = {} /\ x.codes = sync[s].codes \cup {g}
        BY <1>0, <1>3, ProductWritten
      <3>5. QED BY <1>0, <1>3, <3>2, <3>3, <3>4, ProductWritten
    <2>0. sync'[s] = x
      OBVIOUS
    <2> HIDE DEF x
    <2>2. /\ product'[g] = sync[s].feed.gammes[g]
          /\ \A k \in Gammes \ {g} : product'[k] = product[k]
      BY <2>1
    <2>3. s \in clean => \A k \in x.codes : product'[k] = site.gammes[k]
      <3>1. sync[s].codes \subseteq Gammes
        BY <1>0 DEF SyncRow
      <3>2. QED BY <1>c, <2>1, <2>2, <3>1
    <2>4. agreed => Agrees'
      <3>1. agreed => product'[g] = site.gammes[g]
        BY <1>b, <2>1, <2>2
      <3>2. QED BY <1>b, <2>1, <2>2, <3>1, AgreesKept
    <2>5. RunMovesOn(s)
      BY <1>0, <2>0, <2>1, <2>3 DEF RunMovesOn, StillClean
    <2>6. StaysAgreed(s) /\ agreed' \in BOOLEAN
      BY <1>0, <2>0, <2>1, <2>4 DEF StaysAgreed
    <2>7. QED BY <1>0, <2>1, <2>5, <2>6, RunAgrees
  <1>4. ASSUME NEW s \in Syncs, NEW y, upsertFails(s, y) PROVE AgreeInv'
    <2> DEFINE x == [sync[s] EXCEPT !.todo = @ \ {y}, !.errors = TRUE]
    <2>1. /\ sync' = [sync EXCEPT ![s] = x] /\ UNCHANGED <<site, variant, product, clean, agreed>>
          /\ sync[s].at \in {"products", "variants"}
      BY <1>0, <1>4 DEF upsertFails, UNCHANGEDSite
    <2>2. /\ x.at = sync[s].at /\ x.feed = sync[s].feed /\ x.seen = sync[s].seen
          /\ x.codes = sync[s].codes /\ x \in SyncRow
      BY <1>0 DEF SyncRow
    <2> HIDE DEF x
    <2>0. sync'[s] = x
      BY <1>0, <2>1
    <2>3. \A r : ShelfAgrees(r)' <=> ShelfAgrees(r)
      BY <2>1 DEF ShelfAgrees, Counts, Compares, Listed, ListedGammes
    <2>4. agreed => Agrees'
      BY <1>b, <2>1, AgreesKept
    <2>5. RunMovesOn(s)
      BY <1>0, <2>0, <1>c, <2>1, <2>2, <2>3 DEF RunMovesOn, StillClean
    <2>6. StaysAgreed(s) /\ agreed' \in BOOLEAN
      BY <1>0, <2>0, <2>1, <2>4 DEF StaysAgreed
    <2>7. QED BY <1>0, <2>2, <2>5, <2>6, RunAgrees
  <1>5. ASSUME NEW s \in Syncs, skipOrphans(s) PROVE AgreeInv'
    <2> DEFINE x == [sync[s] EXCEPT !.at = "variants", !.todo = WrittenRefs(sync[s])]
    <2>1. /\ sync' = [sync EXCEPT ![s] = x] /\ UNCHANGED <<site, variant, product, clean, agreed>>
          /\ sync[s].at = "products"
      BY <1>0, <1>5 DEF skipOrphans, UNCHANGEDSite, WrittenRefs, SyncAt
    <2>2. /\ x.at = "variants" /\ x.feed = sync[s].feed /\ x.seen = sync[s].seen
          /\ x.codes = sync[s].codes /\ x \in SyncRow
      <3>1. x \in SyncRow
        BY <1>0, <1>5, RunMoves
      <3>2. QED BY <1>0, <3>1 DEF SyncRow
    <2> HIDE DEF x
    <2>0. sync'[s] = x
      BY <1>0, <2>1
    <2>3. \A r : ShelfAgrees(r)' <=> ShelfAgrees(r)
      BY <2>1 DEF ShelfAgrees, Counts, Compares, Listed, ListedGammes
    <2>4. agreed => Agrees'
      BY <1>b, <2>1, AgreesKept
    <2>5. RunMovesOn(s)
      BY <1>0, <2>0, <1>c, <2>1, <2>2, <2>3 DEF RunMovesOn, StillClean
    <2>6. StaysAgreed(s) /\ agreed' \in BOOLEAN
      BY <1>0, <2>0, <2>1, <2>4 DEF StaysAgreed
    <2>7. QED BY <1>0, <2>2, <2>5, <2>6, RunAgrees
  <1>6. ASSUME NEW s \in Syncs, NEW r \in Refs, upsertVariant(s, r) PROVE AgreeInv'
    <2> DEFINE x == [sync[s] EXCEPT !.todo = @ \ {r}, !.seen = @ \cup {r}]
    <2>1. /\ sync' = [sync EXCEPT ![s] = x] /\ UNCHANGED <<site, product, clean, agreed>>
          /\ sync[s].at = "variants"
      BY <1>0, <1>6 DEF upsertVariant, UNCHANGEDSite, SyncAt
    <2>2. /\ x.at = "variants" /\ x.feed = sync[s].feed /\ x.seen = sync[s].seen \cup {r}
          /\ x.codes = sync[s].codes /\ x \in SyncRow
      <3>1. x \in SyncRow
        BY <1>0, <1>6, RunMoves
      <3>2. QED BY <1>0, <2>1, <3>1 DEF SyncRow
    <2> HIDE DEF x
    <2>0. sync'[s] = x
      BY <1>0, <2>1
    <2>3. ASSUME sync[s].feed = site
          PROVE  /\ ShelfAgrees(r)' /\ Counts(r)
                 /\ \A q \in Refs : ShelfAgrees(q) => ShelfAgrees(q)'
                 /\ \A h \in Shelves : variant'[h].available =>
                      variant'[h].ref = r \/ variant'[h] = variant[h]
      BY <1>0, <1>6, <2>3, UpsertCompares
    <2>4. ASSUME s \in clean PROVE \A q \in x.seen : ShelfAgrees(q)'
      <3>1. sync[s].seen \subseteq Refs
        BY <1>0 DEF SyncRow
      <3>2. sync[s].feed = site /\ \A q \in sync[s].seen : ShelfAgrees(q)
        BY <1>c, <2>1, <2>4
      <3>3. QED BY <2>2, <2>3, <3>1, <3>2
    <2>5. ASSUME agreed PROVE Agrees'
      <3>1. sync[s].feed = site /\ Agrees
        BY <1>b, <2>1, <2>5
      <3>2. \A q \in Refs : Counts(q)' <=> Counts(q)
        BY <2>1, CountsKept
      <3>3. \A q \in Refs : Counts(q)' => ShelfAgrees(q)'
        BY <2>3, <3>1, <3>2 DEF Agrees
      <3>4. ASSUME NEW h \in Shelves, variant'[h].available
            PROVE  variant'[h].ref \in {q \in Refs : Counts(q)}
        BY <2>3, <3>1, <3>4 DEF Agrees
      <3>5. QED BY <2>1, <3>1, <3>2, <3>3, <3>4 DEF Agrees
    <2>6. s \in clean => \A g \in x.codes : product'[g] = site.gammes[g]
      BY <1>c, <2>1, <2>2
    <2>7. RunMovesOn(s)
      BY <1>0, <2>0, <2>1, <2>2, <2>4, <2>6 DEF RunMovesOn, StillClean
    <2>8. StaysAgreed(s) /\ agreed' \in BOOLEAN
      BY <1>0, <2>0, <2>1, <2>5 DEF StaysAgreed
    <2>9. QED BY <1>0, <2>2, <2>7, <2>8, RunAgrees
  <1>7. ASSUME NEW s \in Syncs, withdrawVariants(s) PROVE AgreeInv'
    <2> DEFINE x == [sync[s] EXCEPT !.at = "retire"]
    <2>1. /\ sync' = [sync EXCEPT ![s] = x] /\ UNCHANGED <<site, product, clean, agreed>>
          /\ sync[s].at = "variants"
      BY <1>0, <1>7 DEF withdrawVariants, UNCHANGEDSite, SyncAt
    <2>2. /\ x.at = "retire" /\ x.feed = sync[s].feed /\ x.seen = sync[s].seen
          /\ x.codes = sync[s].codes /\ x.errors = sync[s].errors /\ x \in SyncRow
      BY <1>0 DEF SyncRow
    <2> HIDE DEF x
    <2>0. sync'[s] = x
      BY <1>0, <2>1
    <2>3. ASSUME sync[s].feed = site
          PROVE  /\ \A r \in Refs : ShelfAgrees(r) => ShelfAgrees(r)'
                 /\ MayWithdraw(s) => \A h \in Shelves : variant'[h].available => variant'[h].ref \in sync[s].seen
                 /\ MayWithdraw(s) => \A r \in Refs : Counts(r) => r \in sync[s].seen
                 /\ \A h \in Shelves : variant'[h].available => variant'[h] = variant[h]
                 /\ ~ MayWithdraw(s) => variant' = variant
      BY <1>0, <1>7, <2>3, WithdrawCompares
    <2>4. ASSUME s \in clean
          PROVE  /\ \A r \in x.seen : ShelfAgrees(r)'
                 /\ \A g \in x.codes : product'[g] = site.gammes[g]
                 /\ ~ x.errors /\ x.seen # {} =>
                      \A h \in Shelves : variant'[h].available => variant'[h].ref \in x.seen
      <3>1. /\ sync[s].feed = site /\ \A r \in sync[s].seen : ShelfAgrees(r)
            /\ \A g \in sync[s].codes : product[g] = site.gammes[g]
        BY <1>c, <2>1, <2>4
      <3>2. ~ x.errors /\ x.seen # {} => MayWithdraw(s)
        BY <2>2 DEF MayWithdraw
      <3>3. sync[s].seen \subseteq Refs
        BY <1>0 DEF SyncRow
      <3>4. QED BY <2>1, <2>2, <2>3, <3>1, <3>2, <3>3
    <2>5. ASSUME agreed PROVE Agrees'
      <3>1. sync[s].feed = site /\ Agrees
        BY <1>b, <2>1, <2>5
      <3>2. CASE ~ MayWithdraw(s)
        BY <2>1, <2>3, <3>1, <3>2, AgreesKept
      <3>3. CASE MayWithdraw(s)
        <4>1. \A q \in Refs : Counts(q)' <=> Counts(q)
          BY <2>1, CountsKept
        <4>2. \A q \in Refs : Counts(q)' => ShelfAgrees(q)'
          BY <2>3, <3>1, <3>3, <4>1 DEF Agrees
        <4>3. \A h \in Shelves : variant'[h].available => variant'[h].ref \in {q \in Refs : Counts(q)}
          BY <2>3, <3>1 DEF Agrees
        <4>4. QED BY <2>1, <3>1, <4>1, <4>2, <4>3 DEF Agrees
      <3>4. QED BY <3>2, <3>3
    <2>6. RunMovesOn(s)
      BY <1>0, <2>0, <2>1, <2>2, <2>4 DEF RunMovesOn, StillClean
    <2>7. StaysAgreed(s) /\ agreed' \in BOOLEAN
      BY <1>0, <2>0, <2>1, <2>5 DEF StaysAgreed
    <2>8. QED BY <1>0, <2>2, <2>6, <2>7, RunAgrees
  <1>8. ASSUME NEW s \in Syncs, retireProducts(s) PROVE AgreeInv'
    <2>1. /\ sync' = [sync EXCEPT ![s] = NoSync] /\ UNCHANGED <<site, variant, clean>>
          /\ sync[s].at = "retire"
          /\ agreed' = (agreed \/ (s \in clean /\ sync[s].seen # {} /\ ~ sync[s].errors))
          /\ product' = IF sync[s].codes # {} /\ ~ sync[s].errors
                        THEN [g \in Gammes |-> IF g \in sync[s].codes \/ product[g] = "none"
                                               THEN product[g] ELSE "inactive"]
                        ELSE product
      BY <1>8 DEF retireProducts, UNCHANGEDSite, SyncAt
    <2>2. sync'[s] = NoSync /\ NoSync.at = "idle"
      BY <1>0, <2>1, IdleSync
    <2>8. RunMovesOn(s) /\ agreed' \in BOOLEAN
      BY <1>0, <2>1, <2>2 DEF RunMovesOn
    <2>3. \A g \in Gammes : product'[g] = "active" => product[g] = "active"
      BY <2>1
    <2>4. CASE agreed
      <3>1. Agrees'
        BY <1>b, <2>1, <2>3, <2>4, AgreesKept
      <3>2. QED BY <1>0, <2>2, <2>4, <2>8, <3>1, RunAgrees DEF StaysAgreed
    <2>5. CASE ~ agreed /\ s \in clean /\ sync[s].seen # {} /\ ~ sync[s].errors
      <3>1. /\ sync[s].feed = site /\ \A r \in sync[s].seen : ShelfAgrees(r)
            /\ \A g \in sync[s].codes : product[g] = site.gammes[g]
            /\ \A h \in Shelves : variant[h].available => variant[h].ref \in sync[s].seen
        BY <1>a, <2>1, <2>5 DEF CleanOK
      <3>2. /\ sync[s].seen = WrittenRefs(sync[s]) /\ sync[s].codes = ListedGammes(site)
        BY <1>0, <2>1, <2>5, <3>1 DEF RepeatInv, SyncOK
      <3>3. \A r \in Refs : Counts(r) <=> r \in sync[s].seen
        BY <3>1, <3>2 DEF WrittenRefs, Counts
      <3>4. sync[s].seen \subseteq Refs
        BY <1>0 DEF SyncRow
      <3>5. sync[s].codes # {}
        BY <2>5, <3>2 DEF WrittenRefs
      <3>6. \A g \in Gammes : product'[g] = "active" => site.gammes[g] = "active"
        BY <2>1, <2>5, <3>1, <3>5
      <3>7. \A r \in Refs : (Counts(r)' <=> Counts(r)) /\ (ShelfAgrees(r)' <=> ShelfAgrees(r))
        BY <2>1 DEF ShelfAgrees, Counts, Compares, Listed, ListedGammes
      <3>8. Agrees'
        BY <2>1, <3>1, <3>3, <3>4, <3>6, <3>7 DEF Agrees
      <3>9. QED BY <1>0, <2>2, <2>5, <2>8, <3>8, RunAgrees DEF StaysAgreed
    <2>6. CASE ~ agreed /\ ~ (s \in clean /\ sync[s].seen # {} /\ ~ sync[s].errors)
      <3>1. agreed' = FALSE
        BY <2>1, <2>6
      <3>2. QED BY <1>0, <2>2, <2>8, <3>1, RunAgrees DEF StaysAgreed
    <2>7. QED BY <2>4, <2>5, <2>6
  <1>9. ASSUME NEW s \in Syncs, syncStops(s) PROVE AgreeInv'
    <2>1. /\ sync' = [sync EXCEPT ![s] = NoSync] /\ UNCHANGED <<site, variant, product, clean, agreed>>
          /\ sync[s].at # "idle"
      BY <1>9 DEF syncStops, UNCHANGEDSite, SyncAt
    <2>2. sync'[s] = NoSync /\ NoSync.at = "idle"
      BY <1>0, <2>1, IdleSync
    <2>3. agreed => Agrees'
      BY <1>b, <2>1, AgreesKept
    <2>4. RunMovesOn(s) /\ StaysAgreed(s) /\ agreed' \in BOOLEAN
      BY <1>0, <2>1, <2>2, <2>3 DEF RunMovesOn, StaysAgreed
    <2>5. QED BY <1>0, <2>2, <2>4, RunAgrees
  <1>10. CASE UNCHANGED catalogueVars
    <2>1. UNCHANGED <<site, variant, product, sync, clean, agreed>>
      BY <1>10 DEF catalogueVars
    <2>2. \A r \in Refs : (Counts(r)' <=> Counts(r)) /\ (ShelfAgrees(r)' <=> ShelfAgrees(r))
      BY <2>1 DEF ShelfAgrees, Counts, Compares, Listed, ListedGammes
    <2>3. agreed => Agrees'
      BY <1>b, <2>1, AgreesKept
    <2>4. ASSUME NEW s \in clean PROVE s \in Syncs /\ CleanOK(s)'
      <3>1. s \in Syncs /\ CleanOK(s)
        BY DEF AgreeInv
      <3>2. sync[s].seen \subseteq Refs
        BY <1>0, <3>1 DEF SyncRow
      <3>3. QED BY <2>1, <2>2, <3>1, <3>2 DEF CleanOK
    <2>5. QED BY <1>0, <1>b, <2>1, <2>3, <2>4 DEF AgreeInv
  <1>11. QED BY <1>1, <1>2, <1>3, <1>4, <1>5, <1>6, <1>7, <1>8, <1>9, <1>10 DEF CatalogueNext

(* Whatever edits, failures and runs cross, the shop repeats the site, and   *)
(* after one clean and complete run the catalogues are equal: each reference *)
(* is there, or one that shares its product and weight and took its row      *)
(* (upsertVariant).                                                         *)
THEOREM CataloguesAgree == CatalogueSpec => []ShopSaysWhatTheSiteSaid
  <1>1. AgreeInv => ShopSaysWhatTheSiteSaid
    BY DEF AgreeInv, RepeatInv, ShelfOK, Agrees, ShopSaysWhatTheSiteSaid
  <1>2. AgreeInv /\ [CatalogueNext]_catalogueVars => AgreeInv'
    BY AgreeStep
  <1>3. QED BY <1>1, <1>2, AgreeInit, PTL DEF CatalogueSpec

-----------------------------------------------------------------------------
(* The routes and the screens that call them.                              *)

\* Whoever is of these roles may call these routes.
MayCall(roles, routes) == \A who \in roles, do \in routes : canActivate(who, do)

LEMMA DeliveriesControllerLets ==
  /\ MayCall({"LIVREUR"}, {"listMine", "findDelivery", "updateStatus", "verifyOtp", "otpStatus",
         "pushLocations", "getRoute"})
  /\ MayCall({"CLIENT"}, {"revealOtp", "resendOtp"})
  /\ MayCall(Staff \ {"DG"}, {"closeManually"})
  /\ MayCall(Staff, {"assign"})
  BY DEF MayCall, canActivate, Routes, DeliveriesController

LEMMA ManagementControllerLets ==
  /\ MayCall(Staff, {"managerDashboard", "managedOrders", "updateOrderStatus", "listStock",
         "adjustStock", "stockMovements", "listCouriers"})
  BY DEF MayCall, canActivate, Routes, ManagementController

LEMMA OrdersControllerLets ==
  /\ MayCall(SignedIn, {"createOrder", "listOrders", "findOrder", "getTracking", "cancel"})
  /\ MayCall(Public, {"createGuestOrder"})
  BY DEF MayCall, canActivate, Routes, OrdersController

LEMMA DirectPaymentsControllerLets ==
  /\ MayCall(Public, {"listMethods", "guestInstructions", "guestDeclare"})
  /\ MayCall(SignedIn, {"instructions", "declare"})
  BY DEF MayCall, canActivate, Routes, DirectPaymentsController

LEMMA PaymentsControllerLets ==
  /\ MayCall(SignedIn, {"initiate", "paymentStatus"})
  /\ MayCall(Public, {"initiateGuest", "guestStatus", "callback"})
  BY DEF MayCall, canActivate, Routes, PaymentsController

LEMMA PaymentAdminControllerLets ==
  /\ MayCall(Staff, {"declarations", "proof", "review", "history", "adminMethods"})
  /\ MayCall(Executives, {"upsertMethod", "deactivateMethod"})
  BY DEF MayCall, canActivate, Routes, PaymentAdminController

LEMMA ProducersControllerLets ==
  /\ MayCall({"PRODUCTEUR"}, {"overview", "listFarms", "createFarm", "updateFarm", "deleteFarm",
         "listProductions", "createProduction", "updateProduction",
         "deleteProduction"})
  /\ MayCall(Staff, {"reviewableProductions", "reviewProduction"})
  BY DEF MayCall, canActivate, Routes, ProducersController

LEMMA PromoCodesControllerLets ==
  /\ MayCall(Executives, {"listCodes", "createCode", "updateCode", "deactivateCode", "redemptions"})
  BY DEF MayCall, canActivate, Routes, PromoCodesController

LEMMA AuthControllerLets ==
  /\ MayCall(Public, {"register", "login", "refresh", "forgotPassword", "resetPassword"})
  /\ MayCall(SignedIn, {"logout", "me", "deleteMe", "changePassword"})
  BY DEF MayCall, canActivate, Routes, AuthController

LEMMA NotificationsControllerLets ==
  /\ MayCall(SignedIn, {"notifications", "markRead", "registerToken", "removeToken"})
  BY DEF MayCall, canActivate, Routes, NotificationsController

LEMMA CatalogControllerLets ==
  /\ MayCall(Staff, {"createProduct", "updateProduct", "removeProduct", "createVariant",
         "updateVariant", "createPromotion", "updatePromotion"})
  BY DEF MayCall, canActivate, Routes, CatalogController

LEMMA ShopControllersLets ==
  /\ MayCall(Public, {"products", "product", "categories", "productReviews", "deliveryZones",
         "quote", "appConfig"})
  /\ MayCall(SignedIn, {"addReview", "addresses", "createAddress", "referralSummary"})
  BY DEF MayCall, canActivate, Routes, ShopControllers

LEMMA AppConfigControllerLets ==
  /\ MayCall(Executives, {"pointsOfSale", "savePointOfSale", "saveSupport", "saveAnnouncement"})
  BY DEF MayCall, canActivate, Routes, AppConfigController

LEMMA AnalyticsControllerLets ==
  /\ MayCall({"DG", "ADMIN"}, {"dashboard"})
  BY DEF MayCall, canActivate, Routes, AnalyticsController

LEMMA AnonymousCallsWork == \A do \in Anonymous \ {"logout"} : canActivate(GUEST, do)
  <1>1. MayCall(Public, AuthCalls \ {"logout"})
    BY AuthControllerLets DEF MayCall, AuthCalls
  <1>2. MayCall(Public, CatalogCalls)
    BY ShopControllersLets DEF MayCall, CatalogCalls
  <1>3. MayCall(Public, OrderCalls)
    BY ShopControllersLets, OrdersControllerLets DEF MayCall, OrderCalls
  <1>4. MayCall(Public, PaymentCalls)
    BY PaymentsControllerLets, DirectPaymentsControllerLets DEF MayCall, PaymentCalls
  <1>5. MayCall(Public, ConfigCalls)
    BY ShopControllersLets DEF MayCall, ConfigCalls
  <1>6. GUEST \in Public
    BY DEF Public
  <1>7. QED BY <1>1, <1>2, <1>3, <1>4, <1>5, <1>6 DEF MayCall, Anonymous

LEMMA CallsWork ==
  \A who, do : /\ do # "logout"
               /\ do \notin Anonymous => canActivate(who, do)
               => canActivate(Identity(who, do), do)
  BY AnonymousCallsWork DEF Identity

\* The calls a visitor of a space makes with his session.
LEMMA SessionCallsWork ==
  \A space \in SPACES : \A who \in Spaces(space) : \A do \in Calls(space, who) :
    do # "logout" /\ (do \notin Anonymous => canActivate(who, do))
  <1> SUFFICES ASSUME NEW space \in SPACES, NEW who \in Spaces(space), NEW do \in Calls(space, who)
      PROVE do # "logout" /\ (do \notin Anonymous => canActivate(who, do))
    OBVIOUS
  <1> USE DEF MayCall, Public, SignedIn
  <1>0. Staff \subseteq ROLES /\ Executives \subseteq Staff /\ GUEST \notin ROLES
    BY DEF Staff, Executives, ROLES, GUEST
  <1>1. CASE space = "tabs"
    BY <1>0, <1>1, NotificationsControllerLets, AuthControllerLets
       DEF Spaces, Calls, AccountCalls, Anonymous, CatalogCalls, ConfigCalls
  <1>2. CASE space = "produit"
    BY <1>0, <1>2, ShopControllersLets
       DEF Spaces, Calls, ProductCalls, Anonymous, CatalogCalls, ConfigCalls
  <1>3. CASE space = "commande"
    BY <1>0, <1>3, ShopControllersLets
       DEF Spaces, Calls, CheckoutCalls, AccountLinks, Anonymous, OrderCalls, PaymentCalls
  <1>4. CASE space = "contact"
    BY <1>4 DEF Calls, ContactCalls, Anonymous, ConfigCalls
  <1>5. CASE space = "paiement"
    BY <1>5 DEF Calls, TransferCalls, Anonymous, PaymentCalls
  <1>6. CASE space = "confirmation"
    BY <1>6 DEF Calls, ConfirmationCalls, Anonymous, PaymentCalls
  <1>7. CASE space = "auth"
    BY <1>7 DEF Calls, LoginCalls, RegisterCalls, PasswordCalls, Anonymous, AuthCalls
  <1>8. CASE space = "commandes"
    BY <1>8, OrdersControllerLets, PaymentsControllerLets, DeliveriesControllerLets
       DEF Spaces, Calls, TrackingCalls
  <1>9. CASE space = "notifications"
    BY <1>9, NotificationsControllerLets, OrdersControllerLets DEF Spaces, Calls, JournalCalls
  <1>10. CASE space = "parrainage"
    BY <1>10, ShopControllersLets DEF Spaces, Calls, ReferralCalls
  <1>11. CASE space = "tournee"
    BY <1>11, DeliveriesControllerLets DEF Spaces, Calls, CourierCalls
  <1>12. CASE space = "exploitation"
    BY <1>12, ProducersControllerLets DEF Spaces, Calls, ProducerCalls
  <1>13. CASE space = "direction"
    BY <1>13, AnalyticsControllerLets, PromoCodesControllerLets
       DEF Spaces, Calls, DashboardCalls, PromotionCalls, Executives
  <1>14. CASE space = "gestion"
    <2>1. who \in Staff /\ do \in QueueCalls \cup StockCalls \cup HarvestCalls \cup DeclarationCalls
      BY <1>14 DEF Spaces, Calls
    <2>2. CASE do \in QueueCalls \cup StockCalls
      BY <2>1, <2>2, ManagementControllerLets, DeliveriesControllerLets DEF QueueCalls, StockCalls
    <2>3. CASE do \in HarvestCalls \cup DeclarationCalls
      BY <2>1, <2>3, ProducersControllerLets, PaymentAdminControllerLets
         DEF HarvestCalls, DeclarationCalls
    <2>4. QED BY <2>1, <2>2, <2>3
  <1>15. QED
    BY <1>1, <1>2, <1>3, <1>4, <1>5, <1>6, <1>7, <1>8, <1>9, <1>10, <1>11, <1>12, <1>13, <1>14
       DEF SPACES

LEMMA LinksOpen ==
  \A space \in SPACES : \A who \in Spaces(space) : \A other \in AccountLinks(who) : who \in Spaces(other)
  <1> SUFFICES ASSUME NEW who \in Public, NEW other \in AccountLinks(who) PROVE who \in Spaces(other)
    BY DEF SPACES, Spaces, Public, SignedIn, Staff, Executives, ROLES, GUEST
  <1>1. QED BY DEF AccountLinks, Spaces, Public, SignedIn, ROLES, GUEST

LEMMA SpacesReachTheirRoutes == ScreensReachTheirRoutes
  BY CallsWork, SessionCallsWork, LinksOpen DEF ScreensReachTheirRoutes

-----------------------------------------------------------------------------
(* One order and its screens.                                              *)

Methods == {"MOBILE_MONEY", "DIRECT_MOBILE_MONEY", "CASH_ON_DELIVERY"}
PaymentsSeen ==
  {"PENDING", "AWAITING_CONFIRMATION", "DECLARED_BY_CUSTOMER", "SUCCEEDED", "REJECTED",
   "FAILED", "EXPIRED"}
DeliveriesSeen ==
  {NoDelivery, "ASSIGNED", "ACCEPTED", "IN_TRANSIT", "ARRIVED", "DELIVERED", "FAILED"}

Rows ==
  [order : ORDER_STATUSES, method : Methods, payment : PaymentsSeen,
   declaration : [Declarations -> {"NONE", "DECLARED", "ACCEPTED", "REJECTED"}],
   delivery : DeliveriesSeen, courier : Couriers \cup {Nobody}, code : BOOLEAN]

Follows(r) ==
  r.order # "CANCELLED" =>
    /\ r.order = "OUT_FOR_DELIVERY" <=> r.delivery \in UNDERWAY
    /\ r.order = "DELIVERED" <=> r.delivery = "DELIVERED"

\* Cash is neither declared nor settled; a declared payment has its declaration; a run
\* has its courier.
PaidAs(r) ==
  /\ r.method = "CASH_ON_DELIVERY" => r.payment = "PENDING"
  /\ r.method # "DIRECT_MOBILE_MONEY" => \A t \in Declarations : r.declaration[t] = "NONE"
  /\ r.payment = "DECLARED_BY_CUSTOMER" => \E t \in Declarations : r.declaration[t] # "NONE"
  /\ r.delivery # NoDelivery => r.courier # Nobody

RowOK(r) == r \in Rows /\ Follows(r) /\ PaidAs(r)

\* An old view differs from the row by what has happened since: the method stays, no
\* declaration is taken back and no run given up.
ViewOK(v, r) ==
  /\ v.method = r.method
  /\ \A t \in Declarations : v.declaration[t] # "NONE" => r.declaration[t] # "NONE"
  /\ v.delivery # NoDelivery => r.delivery # NoDelivery

ScreensInv ==
  /\ RowOK(row)
  /\ screen = [of |-> screen.of, view |-> screen.view] /\ screen.of \in Screens
  /\ ViewOK(screen.view, row)

Handlers ==
  {"cancel", "initiate", "resendOtp", "declare", "updateOrderStatus", "assign",
   "closeManually", "CONFIRM", "REJECT", "updateStatus", "verifyOtp"}

\* What a button of a view may ask for.
AsksFor(b, v) ==
  /\ b.do \in Handlers
  /\ b.do = "assign" => b.arg \in Couriers
  /\ b.do = "declare" => b.arg \in Declarations /\ v.method = "DIRECT_MOBILE_MONEY"
  /\ b.do \in {"CONFIRM", "REJECT"} => b.arg \in Declarations /\ v.declaration[b.arg] # "NONE"
  /\ b.do = "updateStatus" => v.delivery # NoDelivery

LEMMA WhenIs == \A c \in BOOLEAN : \A x : \A y \in When(c, x) : c /\ y = x
  BY DEF When

LEMMA PressIs == \A do, arg : Press(do, arg).do = do /\ Press(do, arg).arg = arg
  BY DEF Press

\* Without a courier to name or a transfer to settle, what a button asks for is free.
LEMMA PlainAsks ==
  \A do \in Handlers \ {"assign", "declare", "CONFIRM", "REJECT", "updateStatus"} : \A arg, v :
    AsksFor(Press(do, arg), v)
  BY PressIs DEF AsksFor, Handlers

LEMMA AdvanceAsks == \A v : \A b \in managerAdvance(v) : AsksFor(b, v)
  <1> SUFFICES ASSUME NEW v, NEW b \in managerAdvance(v) PROVE AsksFor(b, v)
    OBVIOUS
  <1>1. CASE \E c \in Couriers : b = Press("assign", c)
    <2>1. PICK c \in Couriers : b = Press("assign", c)
      BY <1>1
    <2>2. b.do = "assign" /\ b.arg = c
      BY <2>1, PressIs
    <2>3. QED BY <2>2 DEF AsksFor, Handlers
  <1>2. CASE \E next \in managerActionFor(v.order) : b = Press("updateOrderStatus", next)
    BY <1>2, PlainAsks DEF Handlers
  <1>3. QED BY <1>1, <1>2 DEF managerAdvance

LEMMA ButtonsAsk ==
  \A s \in Screens : \A v : \A b \in Buttons(s, v) : AsksFor(b, v)
  <1> SUFFICES ASSUME NEW s \in Screens, NEW v, NEW b \in Buttons(s, v) PROVE AsksFor(b, v)
    OBVIOUS
  <1> DEFINE Plain == Handlers \ {"assign", "declare", "CONFIRM", "REJECT", "updateStatus"}
  <1>0. ASSUME NEW c, NEW do \in Plain, NEW arg, b \in When(c, Press(do, arg))
        PROVE AsksFor(b, v)
    <2>1. b = Press(do, arg)
      BY <1>0 DEF When
    <2>2. QED BY <1>0, <2>1, PlainAsks
  <1>1. CASE s = "commande"
    <2>1. b \in OrderButtons(v)
      BY <1>1 DEF Buttons
    <2>2. CASE b \in When(isCancellableByClient(v.order), Press("cancel", "CANCELLED"))
      BY <1>0, <2>2 DEF Handlers
    <2>3. CASE b \in When(v.method = "MOBILE_MONEY" /\ v.payment \in RESUMABLE, Press("initiate", ""))
      BY <1>0, <2>3 DEF Handlers
    <2>4. CASE b \in When(v.order = "OUT_FOR_DELIVERY", Press("resendOtp", ""))
      BY <1>0, <2>4 DEF Handlers
    <2>5. QED BY <2>1, <2>2, <2>3, <2>4 DEF OrderButtons
  <1>2. CASE s = "paiement"
    <2>1. b \in TransferButtons(v)
      BY <1>2 DEF Buttons
    <2>2. PICK t \in Declarations : v.method = "DIRECT_MOBILE_MONEY" /\ b = Press("declare", t)
      BY <2>1 DEF TransferButtons
    <2>3. b.do = "declare" /\ b.arg = t
      BY <2>2, PressIs
    <2>4. QED BY <2>2, <2>3 DEF AsksFor, Handlers
  <1>4. CASE s = "file"
    <2>1. b \in QueueButtons(v)
      BY <1>4 DEF Buttons
    <2>2. QED BY AdvanceAsks, <2>1 DEF QueueButtons
  <1>5. CASE s = "gestion"
    <2>1. b \in ManagerButtons(v)
      BY <1>5 DEF Buttons
    <2>2. CASE b \in When(isCancellableByManager(v.order), Press("updateOrderStatus", "CANCELLED"))
      BY <1>0, <2>2 DEF Handlers
    <2>3. CASE b \in When(canClose(v), Press("closeManually", ""))
      BY <1>0, <2>3 DEF Handlers
    <2>4. QED BY AdvanceAsks, <2>1, <2>2, <2>3 DEF ManagerButtons
  <1>6. CASE s = "paiements"
    <2>1. b \in DeclarationButtons(v)
      BY <1>6 DEF Buttons
    <2>2. PICK t \in Declarations :
            \/ b \in When(v.declaration[t] # "NONE" /\ v.payment \notin {"SUCCEEDED", "REJECTED"}, Press("CONFIRM", t))
            \/ b \in When(v.declaration[t] # "NONE", Press("REJECT", t))
      BY <2>1 DEF DeclarationButtons
    <2>3. v.declaration[t] # "NONE" /\ (b = Press("CONFIRM", t) \/ b = Press("REJECT", t))
      BY <2>2 DEF When
    <2>4. b.do \in {"CONFIRM", "REJECT"} /\ b.arg = t
      BY <2>3, PressIs
    <2>5. QED BY <2>3, <2>4 DEF AsksFor, Handlers
  <1>7. CASE s = "course"
    <2>1. b \in RunButtons(v)
      BY <1>7 DEF Buttons
    <2>0. v.delivery # NoDelivery
      BY <2>1 DEF RunButtons
    <2>f. ASSUME b.do = "updateStatus" PROVE AsksFor(b, v)
      BY <2>0, <2>f DEF AsksFor, Handlers
    <2>2. CASE \E next \in NEXT_ACTION[v.delivery] : b = Press("updateStatus", next)
      BY <2>2, <2>f, PressIs
    <2>3. CASE b \in When(v.delivery = "ARRIVED", Press("verifyOtp", ""))
      BY <1>0, <2>3 DEF Handlers
    <2>4. CASE b \in When(v.delivery \notin CLOSED \cup {"ASSIGNED"}, Press("updateStatus", "FAILED"))
      BY <2>f, <2>4, PressIs DEF When
    <2>5. QED BY <2>0, <2>1, <2>2, <2>3, <2>4 DEF RunButtons
  <1>8. QED BY <1>1, <1>2, <1>4, <1>5, <1>6, <1>7 DEF Screens

LEMMA DeliversIs ==
  \A r \in Rows : \A s \in DeliveriesSeen \ {NoDelivery, "ASSIGNED"} :
    LET next == IF r.order = "CANCELLED" \/ s = "ACCEPTED" THEN r.order
                ELSE IF s = "DELIVERED" THEN "DELIVERED"
                ELSE IF s = "FAILED" THEN "READY" ELSE "OUT_FOR_DELIVERY" IN
    /\ Delivers(r, s) \in Rows
    /\ Delivers(r, s).order = next /\ Delivers(r, s).delivery = s
    /\ Delivers(r, s).method = r.method /\ Delivers(r, s).payment = r.payment
    /\ Delivers(r, s).declaration = r.declaration /\ Delivers(r, s).courier = r.courier
  <1> SUFFICES ASSUME NEW r \in Rows, NEW s \in DeliveriesSeen \ {NoDelivery, "ASSIGNED"}
      PROVE LET next == IF r.order = "CANCELLED" \/ s = "ACCEPTED" THEN r.order
                        ELSE IF s = "DELIVERED" THEN "DELIVERED"
                        ELSE IF s = "FAILED" THEN "READY" ELSE "OUT_FOR_DELIVERY" IN
            /\ Delivers(r, s) \in Rows
            /\ Delivers(r, s).order = next /\ Delivers(r, s).delivery = s
            /\ Delivers(r, s).method = r.method /\ Delivers(r, s).payment = r.payment
            /\ Delivers(r, s).declaration = r.declaration /\ Delivers(r, s).courier = r.courier
    OBVIOUS
  <1> DEFINE d == Delivers(r, s)
             o == IF r.order = "CANCELLED" \/ ORDER_STATUS_FOR_DELIVERY(s) = {} THEN r.order
                  ELSE CHOOSE x \in ORDER_STATUS_FOR_DELIVERY(s) : TRUE
             k == IF s = "IN_TRANSIT" THEN TRUE ELSE IF s \in CLOSED THEN FALSE ELSE r.code
  <1>1. d = [r EXCEPT !.delivery = s, !.code = k, !.order = o]
    BY DEF Delivers
  <1>2. k \in BOOLEAN
    BY DEF Rows
  <1>3. o = IF r.order = "CANCELLED" \/ s = "ACCEPTED" THEN r.order
            ELSE IF s = "DELIVERED" THEN "DELIVERED"
            ELSE IF s = "FAILED" THEN "READY" ELSE "OUT_FOR_DELIVERY"
    <2>1. ORDER_STATUS_FOR_DELIVERY(s) =
            IF s = "ACCEPTED" THEN {} ELSE IF s = "DELIVERED" THEN {"DELIVERED"}
            ELSE IF s = "FAILED" THEN {"READY"} ELSE {"OUT_FOR_DELIVERY"}
      BY DEF ORDER_STATUS_FOR_DELIVERY, DeliveriesSeen, UNDERWAY, NoDelivery
    <2>2. \A y : (CHOOSE x \in {y} : TRUE) = y
      OBVIOUS
    <2>3. QED BY <2>1, <2>2
  <1> HIDE DEF d, o, k
  <1>4. o \in ORDER_STATUSES
    BY <1>3 DEF ORDER_STATUSES, Rows
  <1>5. d \in Rows /\ d.order = o /\ d.delivery = s /\ d.method = r.method
        /\ d.payment = r.payment /\ d.declaration = r.declaration /\ d.courier = r.courier
    BY <1>1, <1>2, <1>4 DEF Rows
  <1>6. QED BY <1>3, <1>5 DEF d

\* What a step leaves is a row that is in order, and that an old view may be of.
Leaves(r, d) == RowOK(d) /\ ViewOK(r, d)

LEMMA LeavesDelivered ==
  ASSUME NEW r, RowOK(r), r.delivery # NoDelivery,
         NEW s \in {"ACCEPTED", "IN_TRANSIT", "ARRIVED", "DELIVERED", "FAILED"},
         s = "ACCEPTED" => r.delivery = "ASSIGNED"
  PROVE  Leaves(r, Delivers(r, s))
  <1> DEFINE d == Delivers(r, s)
  <1>1. /\ d \in Rows
        /\ d.order = IF r.order = "CANCELLED" \/ s = "ACCEPTED" THEN r.order
                     ELSE IF s = "DELIVERED" THEN "DELIVERED"
                     ELSE IF s = "FAILED" THEN "READY" ELSE "OUT_FOR_DELIVERY"
        /\ d.delivery = s /\ d.method = r.method /\ d.payment = r.payment
        /\ d.declaration = r.declaration /\ d.courier = r.courier
    BY DeliversIs DEF RowOK, DeliveriesSeen, NoDelivery
  <1> HIDE DEF d
  <1>2. r \in Rows /\ Follows(r) /\ PaidAs(r)
    BY DEF RowOK
  <1>3. PaidAs(d)
    BY <1>1, <1>2 DEF PaidAs
  <1>4. Follows(d)
    <2>1. CASE s = "ACCEPTED"
      BY <1>1, <1>2, <2>1 DEF Follows, UNDERWAY
    <2>2. CASE s # "ACCEPTED"
      BY <1>1, <1>2, <2>2 DEF Follows, UNDERWAY
    <2>3. QED BY <2>1, <2>2
  <1>5. ViewOK(r, d)
    BY <1>1 DEF ViewOK, NoDelivery
  <1>6. QED BY <1>1, <1>3, <1>4, <1>5 DEF Leaves, RowOK, d

LEMMA HandledLeaves ==
  ASSUME NEW r, RowOK(r), NEW who, NEW b, AsksFor(b, r), Accepts(r, who, b)
  PROVE  Leaves(r, Handled(r, b))
  <1> DEFINE d == Handled(r, b)
             same == [order |-> r.order, method |-> r.method, payment |-> r.payment,
                      declaration |-> r.declaration, delivery |-> r.delivery,
                      courier |-> r.courier, code |-> r.code]
  <1>0. /\ r \in Rows /\ Follows(r) /\ PaidAs(r) /\ r = same
        /\ r.order \in ORDER_STATUSES /\ r.payment \in PaymentsSeen
        /\ r.delivery \in DeliveriesSeen /\ r.method \in Methods
        /\ r.courier \in Couriers \cup {Nobody} /\ r.code \in BOOLEAN
        /\ r.declaration \in [Declarations -> {"NONE", "DECLARED", "ACCEPTED", "REJECTED"}]
    BY DEF RowOK, Rows
  <1>s. b.do \in Handlers
    BY DEF AsksFor
  <1>1. ASSUME NEW o \in ORDER_STATUSES,
               o # "CANCELLED" => /\ o \notin {"OUT_FOR_DELIVERY", "DELIVERED"}
                                  /\ r.order \notin {"OUT_FOR_DELIVERY", "DELIVERED", "CANCELLED"},
               d = [r EXCEPT !.order = o]
        PROVE Leaves(r, d)
    <2> HIDE DEF d, same
    <2>1. d \in Rows /\ d.order = o /\ d.method = r.method /\ d.payment = r.payment
          /\ d.declaration = r.declaration /\ d.delivery = r.delivery /\ d.courier = r.courier
      BY <1>0, <1>1 DEF Rows
    <2>2. Follows(d)
      BY <1>0, <1>1, <2>1 DEF Follows, UNDERWAY
    <2>3. PaidAs(d) /\ ViewOK(r, d)
      BY <1>0, <2>1 DEF PaidAs, ViewOK
    <2>4. QED BY <2>1, <2>2, <2>3 DEF Leaves, RowOK
  <1>2. ASSUME NEW p \in PaymentsSeen, r.method = "MOBILE_MONEY", p # "DECLARED_BY_CUSTOMER",
               d = [r EXCEPT !.payment = p]
        PROVE Leaves(r, d)
    <2> HIDE DEF d, same
    <2>1. d \in Rows /\ d.order = r.order /\ d.method = r.method /\ d.payment = p
          /\ d.declaration = r.declaration /\ d.delivery = r.delivery /\ d.courier = r.courier
      BY <1>0, <1>2 DEF Rows
    <2>2. QED BY <1>0, <1>2, <2>1 DEF Leaves, RowOK, Follows, PaidAs, ViewOK
  <1>3. CASE b.do = "cancel"
    <2>1. d = [r EXCEPT !.order = "CANCELLED"]
      BY <1>3 DEF Handled, Cancelled
    <2>2. QED BY <1>1, <2>1 DEF ORDER_STATUSES
  <1>4. CASE b.do = "initiate"
    <2>1. d = [r EXCEPT !.payment = "AWAITING_CONFIRMATION"]
      BY <1>4 DEF Handled
    <2>2. r.method = "MOBILE_MONEY"
      BY <1>4 DEF Accepts
    <2>3. QED BY <1>2, <2>1, <2>2 DEF PaymentsSeen
  <1>5. CASE b.do = "resendOtp"
    <2>1. d = [r EXCEPT !.code = TRUE]
      BY <1>5 DEF Handled
    <2> HIDE DEF d, same
    <2>2. d \in Rows /\ d.order = r.order /\ d.method = r.method /\ d.payment = r.payment
          /\ d.declaration = r.declaration /\ d.delivery = r.delivery /\ d.courier = r.courier
      BY <1>0, <2>1 DEF Rows
    <2>3. Follows(d)
      BY <1>0, <2>2 DEF Follows
    <2>4. PaidAs(d) /\ ViewOK(r, d)
      BY <1>0, <2>2 DEF PaidAs, ViewOK
    <2>5. QED BY <2>2, <2>3, <2>4 DEF Leaves, RowOK, d
  <1>6. ASSUME NEW t \in Declarations, NEW says \in {"DECLARED", "ACCEPTED", "REJECTED"},
               NEW p \in PaymentsSeen, NEW o \in ORDER_STATUSES,
               r.method = "DIRECT_MOBILE_MONEY",
               o = r.order \/ (r.order = "PENDING" /\ o = "CONFIRMED"),
               d = [order |-> o, method |-> r.method, payment |-> p,
                    declaration |-> [r.declaration EXCEPT ![t] = says],
                    delivery |-> r.delivery, courier |-> r.courier, code |-> r.code]
        PROVE Leaves(r, d)
    <2> HIDE DEF d, same
    <2>0. d.declaration = [r.declaration EXCEPT ![t] = says]
      BY <1>6
    <2>1. /\ d.declaration \in [Declarations -> {"NONE", "DECLARED", "ACCEPTED", "REJECTED"}]
          /\ d.declaration[t] # "NONE"
          /\ \A u \in Declarations : r.declaration[u] # "NONE" => d.declaration[u] # "NONE"
      BY <1>0, <2>0
    <2>2. d \in Rows
      BY <1>0, <1>6, <2>0, <2>1 DEF Rows
    <2>3. d.order = o /\ d.method = r.method /\ d.payment = p
          /\ d.delivery = r.delivery /\ d.courier = r.courier
      BY <1>6
    <2>4. Follows(d)
      BY <1>0, <1>6, <2>3 DEF Follows
    <2>5. PaidAs(d)
      BY <1>0, <1>6, <2>1, <2>3 DEF PaidAs
    <2>6. QED BY <2>1, <2>2, <2>3, <2>4, <2>5 DEF Leaves, RowOK, ViewOK
  <1>7. CASE b.do = "declare"
    <2>1. d = [r EXCEPT !.payment = "DECLARED_BY_CUSTOMER", !.declaration[b.arg] = "DECLARED"]
      BY <1>7 DEF Handled
    <2>2. b.arg \in Declarations /\ r.method = "DIRECT_MOBILE_MONEY"
      BY <1>7 DEF AsksFor
    <2> HIDE DEF d
    <2>3. d = [order |-> r.order, method |-> r.method, payment |-> "DECLARED_BY_CUSTOMER",
               declaration |-> [r.declaration EXCEPT ![b.arg] = "DECLARED"],
               delivery |-> r.delivery, courier |-> r.courier, code |-> r.code]
      BY <1>0, <2>1
    <2>4. QED BY <1>0, <1>6, <2>2, <2>3 DEF PaymentsSeen, d
  <1>8. CASE b.do \in {"CONFIRM", "REJECT"}
    <2>1. b.arg \in Declarations /\ r.declaration[b.arg] # "NONE"
      BY <1>8 DEF AsksFor
    <2>2. r.method = "DIRECT_MOBILE_MONEY"
      BY <1>0, <2>1 DEF PaidAs
    <2>3. CASE b.do = "CONFIRM"
      <3> DEFINE o == IF r.order = "PENDING" THEN "CONFIRMED" ELSE r.order
      <3>1. d = [r EXCEPT !.payment = "SUCCEEDED", !.declaration[b.arg] = "ACCEPTED",
                          !.order = o]
        BY <2>3 DEF Handled
      <3>2. o \in ORDER_STATUSES /\ (o = r.order \/ (r.order = "PENDING" /\ o = "CONFIRMED"))
        BY <1>0 DEF ORDER_STATUSES
      <3> HIDE DEF d, o
      <3>3. d = [order |-> o, method |-> r.method, payment |-> "SUCCEEDED",
                 declaration |-> [r.declaration EXCEPT ![b.arg] = "ACCEPTED"],
                 delivery |-> r.delivery, courier |-> r.courier, code |-> r.code]
        BY <1>0, <3>1
      <3>4. QED BY <1>6, <2>1, <2>2, <3>2, <3>3 DEF PaymentsSeen, d
    <2>4. CASE b.do = "REJECT"
      <3>1. d = [r EXCEPT !.payment = "REJECTED", !.declaration[b.arg] = "REJECTED"]
        BY <2>4 DEF Handled
      <3> HIDE DEF d
      <3>2. d = [order |-> r.order, method |-> r.method, payment |-> "REJECTED",
                 declaration |-> [r.declaration EXCEPT ![b.arg] = "REJECTED"],
                 delivery |-> r.delivery, courier |-> r.courier, code |-> r.code]
        BY <1>0, <3>1
      <3>3. QED BY <1>0, <1>6, <2>1, <2>2, <3>2 DEF PaymentsSeen, d
    <2>5. QED BY <1>8, <2>3, <2>4
  <1>9. CASE b.do = "updateOrderStatus"
    <2>1. d = [r EXCEPT !.order = b.arg]
      BY <1>9 DEF Handled
    <2>2. /\ b.arg = "CANCELLED" \/ b.arg \in managerActionFor(r.order)
      BY <1>9 DEF Accepts
    <2>3. /\ b.arg \in ORDER_STATUSES
          /\ b.arg # "CANCELLED" =>
               /\ b.arg \notin {"OUT_FOR_DELIVERY", "DELIVERED"}
               /\ r.order \notin {"OUT_FOR_DELIVERY", "DELIVERED", "CANCELLED"}
      BY <2>2 DEF managerActionFor, ORDER_STATUSES
    <2>4. QED BY <1>1, <2>1, <2>3
  <1>10. CASE b.do = "assign"
    <2>1. d = [r EXCEPT !.delivery = "ASSIGNED", !.courier = b.arg]
      BY <1>10 DEF Handled
    <2>2. b.arg \in Couriers /\ b.arg # Nobody /\ r.order # "CANCELLED"
          /\ r.delivery \in REASSIGNABLE \cup {NoDelivery}
      BY <1>10, ScreenAssumption DEF AsksFor, Accepts
    <2> HIDE DEF d, same
    <2>3. d \in Rows /\ d.order = r.order /\ d.method = r.method /\ d.payment = r.payment
          /\ d.declaration = r.declaration /\ d.delivery = "ASSIGNED" /\ d.courier = b.arg
      BY <1>0, <2>1, <2>2 DEF Rows, DeliveriesSeen
    <2>4. Follows(d)
      BY <1>0, <2>2, <2>3 DEF Follows, UNDERWAY, REASSIGNABLE, NoDelivery
    <2>5. PaidAs(d)
      BY <1>0, <2>2, <2>3 DEF PaidAs
    <2>6. ViewOK(r, d)
      BY <2>3 DEF ViewOK, NoDelivery
    <2>7. QED BY <2>3, <2>4, <2>5, <2>6 DEF Leaves, RowOK, d
  <1>11. CASE b.do \in {"closeManually", "verifyOtp"}
    <2>1. d = Delivers(r, "DELIVERED")
      BY <1>11 DEF Handled
    <2>2. r.delivery # NoDelivery
      BY <1>11 DEF Accepts, UNDERWAY, NoDelivery
    <2>3. QED BY <2>1, <2>2, LeavesDelivered
  <1>12. CASE b.do = "updateStatus"
    <2>1. d = Delivers(r, b.arg)
      BY <1>12 DEF Handled
    <2>2. /\ b.arg \in {"ACCEPTED", "IN_TRANSIT", "ARRIVED", "FAILED"}
          /\ b.arg \in DELIVERY_TRANSITIONS[r.delivery]
      BY <1>12 DEF Accepts, COURIER_SETTABLE, canTransitionDelivery
    <2>3. r.delivery # NoDelivery
      BY <1>12 DEF AsksFor
    <2>4. b.arg = "ACCEPTED" => r.delivery = "ASSIGNED"
      BY <1>0, <2>2, <2>3 DEF DELIVERY_TRANSITIONS, DELIVERY_STATUSES, DeliveriesSeen, NoDelivery
    <2>5. QED BY <2>1, <2>2, <2>3, <2>4, LeavesDelivered
  <1>13. QED BY <1>s, <1>3, <1>4, <1>5, <1>7, <1>8, <1>9, <1>10, <1>11, <1>12 DEF Handlers

-----------------------------------------------------------------------------
(* The steps.                                                              *)

LEMMA ViewsFollow ==
  \A v, r, d : ViewOK(v, r) /\ ViewOK(r, d) => ViewOK(v, d)
  BY DEF ViewOK

LEMMA AsksLater ==
  \A v, r, b : AsksFor(b, v) /\ ViewOK(v, r) => AsksFor(b, r)
  <1> SUFFICES ASSUME NEW v, NEW r, NEW b, AsksFor(b, v), ViewOK(v, r) PROVE AsksFor(b, r)
    OBVIOUS
  <1> QED BY DEF AsksFor, ViewOK

LEMMA AnyHandled ==
  \A r, who, b : RowOK(r) /\ AsksFor(b, r) /\ Accepts(r, who, b) => Leaves(r, Handled(r, b))
  BY HandledLeaves

LEMMA ViewOfItself == \A r : ViewOK(r, r)
  BY DEF ViewOK

LEMMA Settling ==
  \A r : RowOK(r) /\ r.method = "MOBILE_MONEY" =>
    /\ Leaves(r, [r EXCEPT !.payment = "SUCCEEDED",
                           !.order = IF @ = "PENDING" THEN "CONFIRMED" ELSE @])
    /\ \A says \in {"FAILED", "EXPIRED"} :
         Leaves(r, [r EXCEPT !.payment = says,
                             !.order = IF @ \in STOCK_HELD_STATUSES THEN "CANCELLED" ELSE @])
  <1> SUFFICES ASSUME NEW r, RowOK(r), r.method = "MOBILE_MONEY"
      PROVE /\ Leaves(r, [r EXCEPT !.payment = "SUCCEEDED",
                                   !.order = IF @ = "PENDING" THEN "CONFIRMED" ELSE @])
            /\ \A says \in {"FAILED", "EXPIRED"} :
                 Leaves(r, [r EXCEPT !.payment = says,
                                     !.order = IF @ \in STOCK_HELD_STATUSES THEN "CANCELLED" ELSE @])
    OBVIOUS
  <1>0. r \in Rows /\ Follows(r) /\ PaidAs(r)
    BY DEF RowOK
  <1>1. ASSUME NEW p \in {"SUCCEEDED", "FAILED", "EXPIRED"}, NEW o \in ORDER_STATUSES,
               \/ o = r.order \/ o = "CANCELLED"
               \/ (r.order = "PENDING" /\ o = "CONFIRMED")
        PROVE Leaves(r, [r EXCEPT !.payment = p, !.order = o])
    <2> DEFINE d == [r EXCEPT !.payment = p, !.order = o]
    <2>0. r = [order |-> r.order, method |-> r.method, payment |-> r.payment,
               declaration |-> r.declaration, delivery |-> r.delivery,
               courier |-> r.courier, code |-> r.code]
      BY <1>0 DEF Rows
    <2>1. d = [order |-> o, method |-> r.method, payment |-> p,
               declaration |-> r.declaration, delivery |-> r.delivery,
               courier |-> r.courier, code |-> r.code]
      <3>1. ASSUME NEW x, x = [r EXCEPT !.payment = p, !.order = o]
            PROVE  x = [order |-> o, method |-> r.method, payment |-> p,
                        declaration |-> r.declaration, delivery |-> r.delivery,
                        courier |-> r.courier, code |-> r.code]
        BY <2>0, <3>1
      <3>2. QED BY <3>1, Zenon
    <2> HIDE DEF d
    <2>2. d \in Rows
      BY <1>0, <1>1, <2>1 DEF Rows, PaymentsSeen
    <2>3. d.order = o /\ d.method = r.method /\ d.payment = p
          /\ d.declaration = r.declaration /\ d.delivery = r.delivery /\ d.courier = r.courier
      BY <2>1
    <2>4. Follows(d)
      BY <1>0, <1>1, <2>3 DEF Follows
    <2>5. PaidAs(d)
      BY <1>0, <1>1, <2>3 DEF PaidAs
    <2>6. ViewOK(r, d)
      BY <2>3 DEF ViewOK
    <2>7. QED BY <2>2, <2>4, <2>5, <2>6 DEF Leaves, RowOK, d
  <1>2. r.order \in ORDER_STATUSES
    BY <1>0 DEF Rows
  <1>3. Leaves(r, [r EXCEPT !.payment = "SUCCEEDED",
                            !.order = IF r.order = "PENDING" THEN "CONFIRMED" ELSE r.order])
    <2> DEFINE o == IF r.order = "PENDING" THEN "CONFIRMED" ELSE r.order
    <2>1. o \in ORDER_STATUSES /\ (o = r.order \/ (r.order = "PENDING" /\ o = "CONFIRMED"))
      BY <1>2 DEF ORDER_STATUSES
    <2> HIDE DEF o
    <2>2. Leaves(r, [r EXCEPT !.payment = "SUCCEEDED", !.order = o])
      BY <1>1, <2>1
    <2>3. QED BY <2>2 DEF o
  <1>4. ASSUME NEW says \in {"FAILED", "EXPIRED"}
        PROVE Leaves(r, [r EXCEPT !.payment = says,
                !.order = IF r.order \in STOCK_HELD_STATUSES THEN "CANCELLED" ELSE r.order])
    <2> DEFINE o == IF r.order \in STOCK_HELD_STATUSES THEN "CANCELLED" ELSE r.order
    <2>1. o \in ORDER_STATUSES /\ (o = r.order \/ o = "CANCELLED")
      BY <1>2 DEF ORDER_STATUSES
    <2> HIDE DEF o
    <2>2. Leaves(r, [r EXCEPT !.payment = says, !.order = o])
      BY <1>1, <2>1
    <2>3. QED BY <2>2 DEF o
  <1>5. QED BY <1>3, <1>4

LEMMA CodeLeaves == \A r : RowOK(r) => Leaves(r, [r EXCEPT !.code = FALSE])
  <1> SUFFICES ASSUME NEW r, RowOK(r) PROVE Leaves(r, [r EXCEPT !.code = FALSE])
    OBVIOUS
  <1> DEFINE d == [r EXCEPT !.code = FALSE]
  <1>0. r \in Rows /\ Follows(r) /\ PaidAs(r)
    BY DEF RowOK
  <1>1. d \in Rows /\ d.order = r.order /\ d.method = r.method /\ d.payment = r.payment
        /\ d.declaration = r.declaration /\ d.delivery = r.delivery /\ d.courier = r.courier
    BY <1>0 DEF Rows
  <1> HIDE DEF d
  <1>2. Follows(d)
    BY <1>0, <1>1 DEF Follows
  <1>3. PaidAs(d) /\ ViewOK(r, d)
    BY <1>0, <1>1 DEF PaidAs, ViewOK
  <1>4. QED BY <1>1, <1>2, <1>3 DEF Leaves, RowOK, d

LEMMA ScreensStart == ScreenInit => ScreensInv
  <1> SUFFICES ASSUME ScreenInit PROVE ScreensInv
    OBVIOUS
  <1>1. PICK method \in Methods :
          row = [order |-> "PENDING", method |-> method, payment |-> "PENDING",
                 declaration |-> [t \in Declarations |-> "NONE"],
                 delivery |-> NoDelivery, courier |-> Nobody, code |-> FALSE]
    BY DEF ScreenInit, Methods
  <1>2. row \in Rows
    BY <1>1 DEF Rows, ORDER_STATUSES, PaymentsSeen, DeliveriesSeen
  <1>3. Follows(row) /\ PaidAs(row)
    BY <1>1 DEF Follows, PaidAs, UNDERWAY, NoDelivery
  <1>4. PICK s \in ScreenNames : screen = [of |-> s, view |-> row]
    BY DEF ScreenInit
  <1>5. QED BY <1>2, <1>3, <1>4, ViewOfItself, ScreenAssumption DEF ScreensInv, RowOK

LEMMA ScreensStep == ScreensInv /\ [ScreenNext]_screenVars => ScreensInv'
  <1> SUFFICES ASSUME ScreensInv, [ScreenNext]_screenVars PROVE ScreensInv'
    OBVIOUS
  <1>0. /\ RowOK(row) /\ screen.of \in Screens /\ ViewOK(screen.view, row)
        /\ screen = [of |-> screen.of, view |-> screen.view]
    BY DEF ScreensInv
  <1>1. ASSUME Leaves(row, row'), UNCHANGED screen PROVE ScreensInv'
    BY <1>0, <1>1, ViewsFollow DEF ScreensInv, Leaves
  <1>2. CASE PressButton
    <2>1. PICK b \in Buttons(screen.of, screen.view) :
            IF Accepts(row, Presser(screen.of, screen.view), b)
            THEN row' = Handled(row, b) /\ screen' = [screen EXCEPT !.view = row']
            ELSE UNCHANGED screenVars
      BY <1>2 DEF PressButton
    <2>2. AsksFor(b, row)
      BY <1>0, <2>1, ButtonsAsk, AsksLater
    <2>3. CASE Accepts(row, Presser(screen.of, screen.view), b)
      <3>1. Leaves(row, row')
        BY <1>0, <2>1, <2>2, <2>3, AnyHandled
      <3>2. screen' = [screen EXCEPT !.view = row']
        BY <2>1, <2>3
      <3>3. screen' = [of |-> screen.of, view |-> row']
        BY <1>0, <3>2
      <3>4. QED BY <1>0, <3>1, <3>3, ViewOfItself DEF ScreensInv, Leaves
    <2>4. CASE ~ Accepts(row, Presser(screen.of, screen.view), b)
      BY <1>0, <2>1, <2>4 DEF screenVars, ScreensInv
    <2>5. QED BY <2>3, <2>4
  <1>3. CASE PressElsewhere
    <2>0. PICK s \in Screens : \E b \in Buttons(s, row) :
            Accepts(row, Presser(s, row), b) /\ row' = Handled(row, b) /\ UNCHANGED screen
      BY <1>3 DEF PressElsewhere
    <2>1. PICK b \in Buttons(s, row) :
            Accepts(row, Presser(s, row), b) /\ row' = Handled(row, b) /\ UNCHANGED screen
      BY <2>0
    <2>2. AsksFor(b, row)
      BY <2>1, ButtonsAsk
    <2>3. QED BY <1>0, <1>1, <2>1, <2>2, AnyHandled
  <1>4. CASE OpenScreen
    BY <1>0, <1>4, ViewOfItself, ScreenAssumption DEF OpenScreen, ScreensInv
  <1>5. CASE PaymentSettles
    BY <1>0, <1>1, <1>5, Settling DEF PaymentSettles
  <1>6. CASE CodeIsSpent
    BY <1>0, <1>1, <1>6, CodeLeaves DEF CodeIsSpent
  <1>7. CASE UNCHANGED screenVars
    BY <1>0, <1>7 DEF screenVars, ScreensInv
  <1>8. QED BY <1>2, <1>3, <1>4, <1>5, <1>6, <1>7 DEF ScreenNext

-----------------------------------------------------------------------------
(* What the buttons of a screen that is up to date ask for.                *)

\* The handlers each screen may call; that of the order never calls `closeManually`,
\* which waits for an order its queue does not list.
Does(s) ==
  CASE s = "commande"          -> {"cancel", "initiate", "resendOtp"}
    [] s \in {"file", "gestion"} -> {"assign", "updateOrderStatus"}
    [] s = "course"            -> {"updateStatus", "verifyOtp"}

Watched == {"commande", "file", "gestion", "course"}

LEMMA ButtonsDo == \A s \in Watched : \A v : \A b \in Buttons(s, v) : b.do \in Does(s)
  <1> SUFFICES ASSUME NEW s \in Watched, NEW v, NEW b \in Buttons(s, v) PROVE b.do \in Does(s)
    OBVIOUS
  <1>1. ASSUME b \in managerAdvance(v) PROVE b.do \in {"assign", "updateOrderStatus"}
    BY <1>1, PressIs DEF managerAdvance
  <1>2. CASE s = "commande"
    <2>1. \/ b = Press("cancel", "CANCELLED") /\ isCancellableByClient(v.order)
          \/ b = Press("initiate", "") /\ v.method = "MOBILE_MONEY" /\ v.payment \in RESUMABLE
          \/ b = Press("resendOtp", "") /\ v.order = "OUT_FOR_DELIVERY"
      BY <1>2 DEF Buttons, OrderButtons, When
    <2>2. b.do \in {"cancel", "initiate", "resendOtp"}
      <3>1. CASE b = Press("cancel", "CANCELLED")
        BY <3>1, PressIs
      <3>2. CASE b = Press("initiate", "")
        BY <3>2, PressIs
      <3>3. CASE b = Press("resendOtp", "")
        BY <3>3, PressIs
      <3>4. QED BY <2>1, <3>1, <3>2, <3>3
    <2>3. QED BY <1>2, <2>2 DEF Does
  <1>3. CASE s = "file"
    BY <1>1, <1>3 DEF Buttons, QueueButtons, Does
  <1>4. CASE s = "gestion"
    <2>1. /\ v.order \in MANAGER_QUEUE_STATUSES
          /\ \/ b \in managerAdvance(v)
             \/ b = Press("updateOrderStatus", "CANCELLED") /\ isCancellableByManager(v.order)
             \/ b = Press("closeManually", "") /\ canClose(v)
      BY <1>4 DEF Buttons, ManagerButtons, When
    <2>2. ~ canClose(v)
      BY <2>1 DEF canClose, MANAGER_QUEUE_STATUSES
    <2>3. QED BY <1>1, <1>4, <2>1, <2>2, PressIs DEF Does
  <1>5. CASE s = "course"
    <2>1. \/ \E next \in NEXT_ACTION[v.delivery] : b = Press("updateStatus", next)
          \/ b = Press("verifyOtp", "") /\ v.delivery = "ARRIVED"
          \/ b = Press("updateStatus", "FAILED") /\ v.delivery \notin CLOSED \cup {"ASSIGNED"}
      BY <1>5 DEF Buttons, RunButtons, When
    <2>2. QED BY <1>5, <2>1, PressIs DEF Does
  <1>6. QED BY <1>2, <1>3, <1>4, <1>5 DEF Watched

LEMMA ButtonsReachTheirRoutes ==
  \A s \in Watched : \A who \in Visitors(s), do \in Does(s) : canActivate(Identity(who, do), do)
  <1> SUFFICES ASSUME NEW s \in Watched, NEW who \in Visitors(s), NEW do \in Does(s)
      PROVE canActivate(who, do) /\ do # "logout"
    BY CallsWork
  <1> USE DEF MayCall, Visitors, Does, SpaceOf, Spaces
  <1>1. CASE s = "commande"
    BY <1>1, OrdersControllerLets, PaymentsControllerLets, DeliveriesControllerLets
       DEF SignedIn, ROLES
  <1>2. CASE s \in {"file", "gestion"}
    BY <1>2, ManagementControllerLets, DeliveriesControllerLets
  <1>3. CASE s = "course"
    BY <1>3, DeliveriesControllerLets
  <1>4. QED BY <1>1, <1>2, <1>3 DEF Watched

LEMMA ButtonsAreAccepted ==
  \A r, s : RowOK(r) /\ s \in Watched => \A b \in Buttons(s, r) :
    b.do \notin Uncertain => Accepts(r, Presser(s, r), b)
  <1> SUFFICES ASSUME NEW r, RowOK(r), NEW s \in Watched, NEW b \in Buttons(s, r),
                      b.do \notin Uncertain
      PROVE Accepts(r, Presser(s, r), b)
    OBVIOUS
  <1> DEFINE who == Presser(s, r)
  <1>0. /\ Follows(r) /\ PaidAs(r) /\ r.order \in ORDER_STATUSES
        /\ r.delivery \in DeliveriesSeen
    BY DEF RowOK, Rows
  <1>1. CASE s = "commande"
    <2>1. \/ b = Press("cancel", "CANCELLED") /\ isCancellableByClient(r.order)
          \/ b = Press("initiate", "") /\ r.method = "MOBILE_MONEY" /\ r.payment \in RESUMABLE
          \/ b = Press("resendOtp", "") /\ r.order = "OUT_FOR_DELIVERY"
      BY <1>1 DEF Buttons, OrderButtons, When
    <2>2. \/ b.do = "cancel" /\ isCancellableByClient(r.order)
          \/ b.do = "initiate"
          \/ b.do = "resendOtp" /\ r.order = "OUT_FOR_DELIVERY"
      BY <2>1, PressIs
    <2>3. b.do # "initiate"
      BY DEF Uncertain
    <2>4. CASE b.do = "cancel" /\ isCancellableByClient(r.order)
      BY <2>4 DEF Accepts
    <2>5. CASE b.do = "resendOtp" /\ r.order = "OUT_FOR_DELIVERY"
      <3>1. r.delivery \in UNDERWAY
        BY <1>0, <2>5 DEF Follows
      <3>2. QED BY <2>5, <3>1 DEF Accepts
    <2>6. QED BY <2>2, <2>3, <2>4, <2>5
  <1>2. ASSUME b \in managerAdvance(r), r.order \in MANAGER_QUEUE_STATUSES
        PROVE Accepts(r, who, b)
    <2>1. CASE awaitsCourierAssignment(r.order) /\ ~ hasCourier(r)
      <3>1. b.do = "assign"
        BY <1>2, <2>1, PressIs DEF managerAdvance
      <3>2. r.order = "READY" /\ (r.courier = Nobody \/ r.delivery = "FAILED")
        BY <2>1 DEF awaitsCourierAssignment, hasCourier
      <3>3. r.delivery \in REASSIGNABLE \cup {NoDelivery}
        BY <1>0, <3>2 DEF PaidAs, REASSIGNABLE
      <3>4. QED BY <3>1, <3>2, <3>3 DEF Accepts
    <2>2. CASE ~ (awaitsCourierAssignment(r.order) /\ ~ hasCourier(r))
      <3>1. b.do = "updateOrderStatus" /\ b.arg \in managerActionFor(r.order)
        BY <1>2, <2>2, PressIs DEF managerAdvance
      <3>2. canTransition(r.order, b.arg) /\ b.arg # "CANCELLED"
        BY <1>0, <3>1 DEF canTransition, ORDER_TRANSITIONS, managerActionFor
      <3>3. QED BY <3>1, <3>2 DEF Accepts
    <2>3. QED BY <2>1, <2>2
  <1>3. CASE s = "file"
    BY <1>2, <1>3 DEF Buttons, QueueButtons
  <1>4. CASE s = "gestion"
    <2>1. /\ r.order \in MANAGER_QUEUE_STATUSES
          /\ \/ b \in managerAdvance(r)
             \/ b = Press("updateOrderStatus", "CANCELLED") /\ isCancellableByManager(r.order)
             \/ b = Press("closeManually", "") /\ canClose(r)
      BY <1>4 DEF Buttons, ManagerButtons, When
    <2>2. ~ canClose(r)
      BY <2>1 DEF canClose, MANAGER_QUEUE_STATUSES
    <2>3. CASE b = Press("updateOrderStatus", "CANCELLED") /\ isCancellableByManager(r.order)
      <3>1. /\ b.do = "updateOrderStatus" /\ b.arg = "CANCELLED"
            /\ isCancellableByManager(r.order)
        BY <2>3, PressIs
      <3>2. canTransition(r.order, "CANCELLED")
        BY <1>0, <2>1 DEF canTransition, ORDER_TRANSITIONS, MANAGER_QUEUE_STATUSES
      <3>3. QED BY <3>1, <3>2 DEF Accepts
    <2>4. QED BY <1>2, <2>1, <2>2, <2>3
  <1>5. CASE s = "course"
    <2>0. r.delivery # NoDelivery /\ who = r.courier
      BY <1>5 DEF Buttons, RunButtons, Presser
    <2>1. \/ \E next \in NEXT_ACTION[r.delivery] : b = Press("updateStatus", next)
          \/ b = Press("verifyOtp", "") /\ r.delivery = "ARRIVED"
          \/ b = Press("updateStatus", "FAILED") /\ r.delivery \notin CLOSED \cup {"ASSIGNED"}
      BY <1>5 DEF Buttons, RunButtons, When
    <2>2. \/ b.do = "updateStatus" /\ b.arg \in NEXT_ACTION[r.delivery]
          \/ b.do = "verifyOtp"
          \/ b.do = "updateStatus" /\ b.arg = "FAILED" /\ r.delivery \notin CLOSED \cup {"ASSIGNED"}
      <3>1. CASE \E next \in NEXT_ACTION[r.delivery] : b = Press("updateStatus", next)
        BY <3>1, PressIs
      <3>2. CASE b = Press("verifyOtp", "")
        BY <3>2, PressIs
      <3>3. CASE /\ b = Press("updateStatus", "FAILED")
                 /\ r.delivery \notin CLOSED \cup {"ASSIGNED"}
        BY <3>3, PressIs
      <3>4. QED BY <2>1, <3>1, <3>2, <3>3
    <2>3. b.do = "updateStatus"
      BY <2>2 DEF Uncertain
    <2>4. r.delivery \in {"ASSIGNED", "ACCEPTED", "IN_TRANSIT", "ARRIVED", "DELIVERED", "FAILED"}
      BY <1>0, <2>0 DEF DeliveriesSeen
    <2>5. b.arg \in COURIER_SETTABLE /\ canTransitionDelivery(r.delivery, b.arg)
      BY <2>2, <2>3, <2>4
         DEF NEXT_ACTION, DELIVERY_STATUSES, COURIER_SETTABLE, canTransitionDelivery,
             DELIVERY_TRANSITIONS, CLOSED
    <2>6. QED BY <2>0, <2>3, <2>5 DEF Accepts
  <1>6. QED BY <1>1, <1>3, <1>4, <1>5 DEF Watched

\* A run that calls for its courier is in his list, cash is not paid in advance, and
\* somebody can move a transfer.
LEMMA RowsServe ==
  \A r : RowOK(r) =>
    /\ RunButtons(r) # {} => listMine(r)
    /\ toCollect(r) => r.payment # "SUCCEEDED"
    /\ SomebodyCanAct(r)
  <1> SUFFICES ASSUME NEW r, RowOK(r)
      PROVE /\ RunButtons(r) # {} => listMine(r)
            /\ toCollect(r) => r.payment # "SUCCEEDED"
            /\ SomebodyCanAct(r)
    OBVIOUS
  <1>0. PaidAs(r) /\ r.delivery \in DeliveriesSeen /\ r.payment \in PaymentsSeen
    BY DEF RowOK, Rows
  <1>1. ASSUME RunButtons(r) # {} PROVE listMine(r)
    <2>1. r.delivery # NoDelivery
      BY <1>1 DEF RunButtons
    <2>2. r.delivery \notin CLOSED
      <3>1. SUFFICES ASSUME r.delivery \in CLOSED PROVE RunButtons(r) = {}
        BY <1>1
      <3>2. NEXT_ACTION[r.delivery] = {}
        BY <3>1 DEF CLOSED, NEXT_ACTION, DELIVERY_STATUSES
      <3>3. r.delivery # "ARRIVED"
        BY <3>1 DEF CLOSED
      <3>4. QED BY <2>1, <3>1, <3>2, <3>3 DEF RunButtons, When
    <2>3. QED BY <1>0, <2>1, <2>2 DEF listMine, PaidAs
  <1>2. toCollect(r) => r.payment # "SUCCEEDED"
    BY <1>0 DEF toCollect, PaidAs
  <1>3. SomebodyCanAct(r)
    <2>1. SUFFICES ASSUME r.method = "DIRECT_MOBILE_MONEY"
          PROVE /\ PAYMENT_STATUS_PRESENTATION(r.payment) = "CLIENT" => TransferButtons(r) # {}
                /\ PAYMENT_STATUS_PRESENTATION(r.payment) = "AGRIM" =>
                     \E b \in DeclarationButtons(r) : b.do = "CONFIRM" /\ Accepts(r, Nobody, b)
      BY DEF SomebodyCanAct
    <2>2. PAYMENT_STATUS_PRESENTATION(r.payment) = "CLIENT" => TransferButtons(r) # {}
      BY <2>1, ScreenAssumption DEF PAYMENT_STATUS_PRESENTATION, TransferButtons
    <2>3. ASSUME PAYMENT_STATUS_PRESENTATION(r.payment) = "AGRIM"
          PROVE \E b \in DeclarationButtons(r) : b.do = "CONFIRM" /\ Accepts(r, Nobody, b)
      <3>1. r.payment = "DECLARED_BY_CUSTOMER"
        BY <1>0, <2>3 DEF PAYMENT_STATUS_PRESENTATION, PaymentsSeen
      <3>2. PICK t \in Declarations : r.declaration[t] # "NONE"
        BY <1>0, <3>1 DEF PaidAs
      <3>3. Press("CONFIRM", t) \in DeclarationButtons(r)
        BY <3>1, <3>2 DEF DeclarationButtons, When
      <3>4. Press("CONFIRM", t).do = "CONFIRM" /\ Accepts(r, Nobody, Press("CONFIRM", t))
        <4> DEFINE b == Press("CONFIRM", t)
        <4>1. b.do = "CONFIRM"
          BY PressIs
        <4> HIDE DEF b
        <4>2. Accepts(r, Nobody, b)
          BY <3>1, <4>1 DEF Accepts
        <4>3. QED BY <4>1, <4>2 DEF b
      <3>5. QED BY <3>3, <3>4
    <2>4. QED BY <2>2, <2>3
  <1>4. QED BY <1>1, <1>2, <1>3

(* In every state the order, its payment and its delivery reach together,    *)
(* however stale the screens that moved them: every button of a screen that  *)
(* is up to date asks for what the server accepts, from a route every role   *)
(* that may open the screen may call; a run that calls for its courier is in *)
(* his list; whoever a payment waits for has a button; and the order is on   *)
(* the road, or delivered, exactly with its delivery.                       *)
THEOREM ScreensTellTheTruth == ScreenSpec => []ScreensAndRowsAgree
  <1>1. ScreensInv => ScreensAndRowsAgree
    <2> SUFFICES ASSUME ScreensInv PROVE ScreensAndRowsAgree
      OBVIOUS
    <2>0. RowOK(row)
      BY DEF ScreensInv
    <2>1. ASSUME NEW s \in Watched, NEW b \in Buttons(s, row)
          PROVE /\ \A who \in Visitors(s) : canActivate(Identity(who, b.do), b.do)
                /\ b.do \notin Uncertain => Accepts(row, Presser(s, row), b)
      BY <2>0, ButtonsDo, ButtonsReachTheirRoutes, ButtonsAreAccepted
    <2>2. ButtonsWork
      BY <2>0, <2>1, SpacesReachTheirRoutes, RowsServe DEF ButtonsWork, Watched
    <2>3. OrderFollowsItsDelivery
      BY <2>0 DEF RowOK, Follows, OrderFollowsItsDelivery
    <2>4. QED BY <2>2, <2>3 DEF ScreensAndRowsAgree
  <1>2. ScreenSpec => []ScreensInv
    BY ScreensStart, ScreensStep, PTL DEF ScreenSpec
  <1>3. QED BY <1>1, <1>2, PTL
=============================================================================
