----------------------------- MODULE CronLocks -----------------------------
(***************************************************************************)
(* The lease that keeps two executions of a scheduled job apart            *)
(* (CronLocksService.runExclusive): one row of cron_locks, taken by one    *)
(* atomic statement when it is free or lapsed, given back at the end of the *)
(* job.  A process recycled in between gives nothing back: the lease lapses.*)
(*                                                                          *)
(* Time is counted in ticks; a job may outlive its lease.                   *)
(***************************************************************************)
EXTENDS Naturals, FiniteSets

CONSTANTS
  Runs,   \* the contexts of POST /jobs/run/:job for one job
  TTL     \* the lease, in ticks (ttlSeconds)

ASSUME TTLAssumption == TTL \in Nat \ {0}

VARIABLES
  lock,    \* the row: held (lockedUntil is set), left (ticks until lockedUntil)
  run,     \* each run: whether its job executes, left of the lease it took
  overran  \* history: some job outlived the lease it took

lockVars == <<lock, run, overran>>

Stopped == [running |-> FALSE, left |-> 0]

LockTypeOK ==
  /\ lock \in [held : BOOLEAN, left : 0 .. TTL]
  /\ run \in [Runs -> [running : BOOLEAN, left : 0 .. TTL]]
  /\ overran \in BOOLEAN

LockInit ==
  /\ lock = [held |-> FALSE, left |-> 0]
  /\ run = [r \in Runs |-> Stopped]
  /\ overran = FALSE

Free == ~ lock.held \/ lock.left = 0

\* Faulty variant: a lapsed lease is not taken over.
AcquireReleasedOnly(r) ==
  /\ ~ run[r].running
  /\ ~ lock.held
  /\ lock' = [held |-> TRUE, left |-> TTL]
  /\ run' = [run EXCEPT ![r] = [running |-> TRUE, left |-> TTL]]
  /\ UNCHANGED overran

\* Faulty variant: the upsert has no WHERE, the row is taken from its holder.
AcquireAnyway(r) ==
  /\ ~ run[r].running
  /\ lock' = [held |-> TRUE, left |-> TTL]
  /\ run' = [run EXCEPT ![r] = [running |-> TRUE, left |-> TTL]]
  /\ UNCHANGED overran

\* INSERT ... ON CONFLICT DO UPDATE ... WHERE free or lapsed; 409 otherwise.
acquire(r) ==
  /\ ~ run[r].running
  /\ Free
  /\ lock' = [held |-> TRUE, left |-> TTL]
  /\ run' = [run EXCEPT ![r] = [running |-> TRUE, left |-> TTL]]
  /\ UNCHANGED overran

\* The job is over, well or badly; the row carries no name of its holder.
release(r) ==
  /\ run[r].running
  /\ lock' = IF lock.held /\ lock.left > 0 THEN [held |-> FALSE, left |-> 0] ELSE lock
  /\ run' = [run EXCEPT ![r] = Stopped]
  /\ UNCHANGED overran

\* The process that served the run is recycled: nothing is released.
RunDies(r) ==
  /\ run[r].running
  /\ run' = [run EXCEPT ![r] = Stopped]
  /\ UNCHANGED <<lock, overran>>

OneTickLess(n) == IF n = 0 THEN 0 ELSE n - 1

Tick ==
  /\ lock.left > 0 \/ \E r \in Runs : run[r].left > 0
  /\ lock' = [lock EXCEPT !.left = OneTickLess(@)]
  /\ run' = [r \in Runs |-> [run[r] EXCEPT !.left = OneTickLess(@)]]
  /\ overran' = (overran \/ \E r \in Runs : run[r].running /\ run[r].left = 1)

LockNext ==
  \/ Tick
  \/ \E r \in Runs : acquire(r) \/ release(r) \/ RunDies(r)

LockSpec == LockInit /\ [][LockNext]_lockVars

-----------------------------------------------------------------------------
(* As long as no job outlives its lease, two executions never overlap,      *)
(* whatever crons overlap, die or are replayed: two of them would settle or *)
(* sweep the same rows twice.                                               *)
ExclusiveUnlessOverrun ==
  ~ overran => \A r, q \in Runs : run[r].running /\ run[q].running => r = q
=============================================================================
