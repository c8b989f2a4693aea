------------------------------ MODULE QueryCache ------------------------------
(***************************************************************************)
(* The answers of the server kept on a device: the QueryClient of the root   *)
(* layout, the hooks of src/api and the copy of the catalogue on the disk.   *)
(* A hook keeps what it read, and reads again what is stale when a screen    *)
(* opens.  A mutation that is answered either has queries read again or      *)
(* writes its answer into them.  `list` stands for the queries of a family   *)
(* that show several rows, `detail` for the one that shows the row changed.  *)
(* Answers carry the version of what they say, the account they were given   *)
(* to, and whether a mutation was answered while they were on their way.    *)
(***************************************************************************)
EXTENDS Naturals

CONSTANTS
  Accounts,      \* the accounts used on the device
  queriesOf,     \* the families of hooks that are used, and the queries their screens open
  MaxVersions    \* bound: changes of the data of an account

Anyone == "anyone"
NoAccount == "signedOut"

ASSUME CacheBounds == MaxVersions \in Nat /\ Anyone \notin Accounts /\ NoAccount \notin Accounts

VARIABLES
  family,      \* the family of hooks that is used
  session,     \* the account whose token the requests carry
  server,      \* version of the data of each account
  cache,       \* queries: their data, whether fresh, the screens on them, the request under way
  mutation,    \* the mutation under way
  answered,    \* history: last version of its data each account was answered by a mutation
  disk         \* the copy of AsyncStorage

cacheVars == <<family, session, server, cache, mutation, answered, disk>>

Keys == {"catalog", "list", "detail"}
Private == Keys \ {"catalog"}
NoData == [owner |-> NoAccount, version |-> 0, overtaken |-> FALSE]
NoFetch == [at |-> "idle", data |-> NoData]
NoMutation == [at |-> "idle", account |-> NoAccount, version |-> 0]
Empty == [data |-> NoData, fresh |-> FALSE, open |-> FALSE, fetch |-> NoFetch]

-----------------------------------------------------------------------------
(* What the success of a mutation does, family by family.                  *)

\* Orders: the list is read again, the answer is the detail.
useCancelOrder == [rereads |-> {"list"}, writes |-> {"detail"}]

\* Deliveries: the runs and the orders are read again, the answer is the run.
useUpdateDeliveryStatus == [rereads |-> {"list"}, writes |-> {"detail"}]

\* Management, producers, promotion codes, notifications: the whole family.
useManagementMutation == [rereads |-> {"list", "detail"}, writes |-> {}]
useProducerMutation == [rereads |-> {"list", "detail"}, writes |-> {}]
invalidatePromos == [rereads |-> {"list", "detail"}, writes |-> {}]
useMarkNotificationsRead == [rereads |-> {"list", "detail"}, writes |-> {}]
useCreateAddress == [rereads |-> {"list"}, writes |-> {}]
useDeclarePayment == [rereads |-> {"detail"}, writes |-> {}]

Effects ==
  [orders |-> useCancelOrder, deliveries |-> useUpdateDeliveryStatus,
   management |-> useManagementMutation, producers |-> useProducerMutation,
   promos |-> invalidatePromos, notifications |-> useMarkNotificationsRead,
   addresses |-> useCreateAddress, payments |-> useDeclarePayment]

CacheInit ==
  /\ family \in DOMAIN queriesOf \cap DOMAIN Effects
  /\ session = NoAccount
  /\ server = [a \in Accounts |-> 0]
  /\ cache = [k \in Keys |-> Empty]
  /\ mutation = NoMutation
  /\ answered = [a \in Accounts |-> 0]
  /\ disk = NoData

-----------------------------------------------------------------------------
(* The query client (external): what useQuery and the mutations ask of it.  *)

\* A request leaves with the token of the account.
Sent(k) ==
  [at |-> "sent",
   data |-> [NoData EXCEPT !.owner = IF k = "catalog" THEN Anyone ELSE session]]

\* A screen opens on a query: read unless it is there and fresh, or on its way.
useQuery(k) ==
  LET missing == cache[k].fetch = NoFetch /\ (cache[k].data = NoData \/ ~ cache[k].fresh) IN
  /\ k \in queriesOf[family] /\ ~ cache[k].open
  /\ k \in Private => session # NoAccount
  /\ cache' = [cache EXCEPT ![k].open = TRUE, ![k].fetch = IF missing THEN Sent(k) ELSE @]
  /\ UNCHANGED <<family, session, server, mutation, answered, disk>>

\* The person pulls to refresh, or an interval of the hook elapses.
refetch(k) ==
  /\ cache[k].open
  /\ cache[k].fetch = NoFetch \/ cache[k].data # NoData
  /\ cache' = [cache EXCEPT ![k].fetch = Sent(k)]
  /\ UNCHANGED <<family, session, server, mutation, answered, disk>>

\* The reads of the runs and of the notifications do not take the signal.
TakesSignal(k) == k = "catalog" \/ family \notin {"deliveries", "notifications"}

\* The screen closes: a request that takes the signal is aborted, another goes on.
Closed(k) ==
  [cache[k] EXCEPT !.open = FALSE, !.fetch = IF TakesSignal(k) THEN NoFetch ELSE @]

closeScreen(k) ==
  /\ cache[k].open
  /\ cache' = [cache EXCEPT ![k] = Closed(k)]
  /\ UNCHANGED <<family, session, server, mutation, answered, disk>>

\* The server answers with what it has for the account of the token.
Served(k) ==
  [cache[k].fetch.data EXCEPT !.version = IF k = "catalog" THEN 1 ELSE server[cache[k].fetch.data.owner]]

serverReads(k) ==
  /\ cache[k].fetch.at = "sent"
  /\ cache' = [cache EXCEPT ![k].fetch = [at |-> "read", data |-> Served(k)]]
  /\ UNCHANGED <<family, session, server, mutation, answered, disk>>

fetchArrives(k) ==
  /\ cache[k].fetch.at = "read"
  /\ cache' = [cache EXCEPT ![k].data = cache[k].fetch.data, ![k].fresh = TRUE, ![k].fetch = NoFetch]
  /\ UNCHANGED <<family, session, server, mutation, answered, disk>>

\* Retries exhausted: what was there stays on the screen.
fetchFails(k) ==
  /\ cache[k].fetch # NoFetch
  /\ cache' = [cache EXCEPT ![k].fetch = NoFetch]
  /\ UNCHANGED <<family, session, server, mutation, answered, disk>>

staleTimePasses(k) ==
  /\ cache[k].fresh
  /\ cache' = [cache EXCEPT ![k].fresh = FALSE]
  /\ UNCHANGED <<family, session, server, mutation, answered, disk>>

collected(k) ==
  /\ ~ cache[k].open /\ cache[k].data # NoData /\ cache[k].fetch = NoFetch
  /\ cache' = [cache EXCEPT ![k] = Empty]
  /\ UNCHANGED <<family, session, server, mutation, answered, disk>>

\* A first read, and one no screen waits for any more, are left to finish.
LeftToFinish(k) == cache[k].fetch # NoFetch /\ (cache[k].data = NoData \/ ~ cache[k].open)

LeftAlone(k) ==
  IF LeftToFinish(k) THEN [cache[k].fetch EXCEPT !.data.overtaken = TRUE] ELSE cache[k].fetch

\* Faulty variant: every request under way is left to finish.
InvalidatedKeepingFetch(k) ==
  [cache[k] EXCEPT !.fresh = FALSE,
                   !.fetch = IF cache[k].open /\ @ = NoFetch THEN Sent(k) ELSE LeftAlone(k)]

\* invalidateQueries: stale, and read anew where a screen shows what it replaces.
Invalidated(k) ==
  [cache[k] EXCEPT !.fresh = FALSE,
                   !.fetch = IF cache[k].open /\ ~ LeftToFinish(k) THEN Sent(k) ELSE LeftAlone(k)]

-----------------------------------------------------------------------------
(* Mutations.                                                              *)

mutate ==
  /\ mutation.at = "idle"
  /\ session # NoAccount
  /\ mutation' = [at |-> "sent", account |-> session, version |-> 0]
  /\ UNCHANGED <<family, session, server, cache, answered, disk>>

serverApplies ==
  LET a == mutation.account IN
  /\ mutation.at = "sent"
  /\ server[a] < MaxVersions
  /\ server' = [server EXCEPT ![a] = @ + 1]
  /\ mutation' = [mutation EXCEPT !.at = "applied", !.version = server[a] + 1]
  /\ UNCHANGED <<family, session, cache, answered, disk>>

\* The answer arrives: onSuccess.
onSuccess ==
  /\ mutation.at = "applied"
  /\ cache' = [k \in Keys |->
       IF k \in Effects[family].rereads THEN Invalidated(k)
       ELSE IF k \in Effects[family].writes
       THEN [cache[k] EXCEPT !.data = [owner |-> mutation.account, version |-> mutation.version,
                                       overtaken |-> FALSE],
                             !.fresh = TRUE]
       ELSE cache[k]]
  /\ answered' = [answered EXCEPT ![mutation.account] = mutation.version]
  /\ mutation' = NoMutation
  /\ UNCHANGED <<family, session, server, disk>>

\* Refused, timed out, or the answer lost: nothing is invalidated.
mutationFails ==
  /\ mutation.at # "idle"
  /\ mutation' = NoMutation
  /\ UNCHANGED <<family, session, server, cache, answered, disk>>

\* Another device or another person changes the same data.
ChangedElsewhere(a) ==
  /\ server[a] < MaxVersions
  /\ server' = [server EXCEPT ![a] = @ + 1]
  /\ UNCHANGED <<family, session, cache, mutation, answered, disk>>

-----------------------------------------------------------------------------
(* The session and the process.                                            *)

\* The screens of the account are unmounted (Stack.Protected); the queries stay.
sessionEnds ==
  /\ session # NoAccount
  /\ session' = NoAccount
  /\ cache' = [k \in Keys |-> IF k \in Private THEN Closed(k) ELSE cache[k]]
  /\ UNCHANGED <<family, server, mutation, answered, disk>>

sessionOpens(a) ==
  /\ session = NoAccount
  /\ session' = a
  /\ UNCHANGED <<family, server, cache, mutation, answered, disk>>

\* Only the queries of the catalogue that have data are written to the disk.
isCatalogQuery(k) == k = "catalog" /\ cache[k].data # NoData

persistCatalogCache ==
  \E k \in Keys :
    /\ isCatalogQuery(k)
    /\ disk' = cache[k].data
    /\ UNCHANGED <<family, session, server, cache, mutation, answered>>

\* The process starts again: the copy is read before any screen, unless too old.
restoreCatalogCache ==
  /\ \E kept \in {disk, NoData}, fresh \in BOOLEAN :
       /\ disk' = kept
       /\ cache' = [[k \in Keys |-> Empty] EXCEPT !["catalog"].data = kept,
                                                  !["catalog"].fresh = fresh /\ kept # NoData]
  /\ mutation' = NoMutation
  /\ UNCHANGED <<family, session, server, answered>>

CacheNext ==
  \/ \E k \in Keys :
       \/ useQuery(k) \/ refetch(k) \/ closeScreen(k) \/ serverReads(k) \/ fetchArrives(k)
       \/ fetchFails(k) \/ staleTimePasses(k) \/ collected(k)
  \/ mutate \/ serverApplies \/ onSuccess \/ mutationFails
  \/ \E a \in Accounts : ChangedElsewhere(a) \/ sessionOpens(a)
  \/ sessionEnds \/ persistCatalogCache \/ restoreCatalogCache

CacheSpec == CacheInit /\ [][CacheNext]_cacheVars

-----------------------------------------------------------------------------
(* Properties.                                                             *)

(* onSuccess of the hooks: once a mutation was answered, no query it has    *)
(* read again passes for fresh with what was true before it, unless that    *)
(* was still on its way when the answer arrived, as the first read of the   *)
(* query or without a screen to wait for it.  An earlier read that the      *)
(* invalidation does stop is never believed.                               *)
AnsweredMutationIsShown ==
  \A k \in Effects[family].rereads, a \in Accounts :
    cache[k].data.owner = a /\ cache[k].fresh /\ ~ cache[k].data.overtaken
      => cache[k].data.version >= answered[a]
=============================================================================
