----------------------------- MODULE DeliveryGrid -----------------------------
(***************************************************************************)
(* The delivery zones the web site publishes and their copies: one in the    *)
(* memory of each instance of the API, one in a row of companySetting.       *)
(* Orders read the memory and leave a refresh behind them                     *)
(* (CatalogSyncService.deliveryGrid); the quote and the list of zones read   *)
(* the row (readDeliveryGrid); the customer chooses a zone of that list, and *)
(* what he adds to it travels in the same text.                              *)
(***************************************************************************)
EXTENDS Naturals, SequencesExt

CONSTANTS
  Instances,    \* processes of the API
  Demands,     \* orders and quotes being served
  textOf,       \* in each, the zone the customer chose and the name his words end with
  gridOf        \* the successive grids of the site: zones in order, default zone

NoGrid == 0
Unused == "unused"

ASSUME GridAssumption ==
  /\ \A r \in Demands : DOMAIN textOf[r] = {"chosen", "ends"}
  /\ 1 \in DOMAIN gridOf /\ DOMAIN gridOf \subseteq Nat \ {NoGrid}
  /\ \A v \in DOMAIN gridOf : gridOf[v].zones \in Seq(STRING) /\ gridOf[v].zones # <<>>
  /\ Unused \notin Demands \cup Instances

VARIABLES
  published,    \* version of the grid at the site
  gridRow,      \* version in the database
  cachedGrid,   \* in each instance: version, and whether it is younger than its TTL
  refreshing,   \* in each instance: the request whose refresh is under way
  refresh,      \* the call to the site each request has left
  demand,      \* the requests, what they were given and (history) what was known then,
               \* and whether their own read of the row failed
  newest,       \* history: newest version each instance has held
  overtaken     \* history: instances whose copy was replaced by an older read of the row

gridVars == <<published, gridRow, cachedGrid, refreshing, refresh, demand, newest, overtaken>>

Versions == DOMAIN gridOf
NoRefresh == [at |-> "idle", on |-> Unused, grid |-> NoGrid]
NoDemand == [at |-> "idle", on |-> Unused, grid |-> NoGrid, zone |-> "",
              known |-> FALSE, least |-> NoGrid, unread |-> FALSE]

GridInit ==
  /\ published = 1
  /\ gridRow = NoGrid
  /\ cachedGrid = [i \in Instances |-> [grid |-> NoGrid, fresh |-> FALSE]]
  /\ refreshing = [i \in Instances |-> Unused]
  /\ refresh = [r \in Demands |-> NoRefresh]
  /\ demand = [r \in Demands |-> NoDemand]
  /\ newest = [i \in Instances |-> NoGrid]
  /\ overtaken = {}

\* The first zone, in the order of the grid, whose name begins or ends the text.
resolveDeliveryZone(text, grid) ==
  LET named == {k \in DOMAIN grid.zones : grid.zones[k] \in {text.chosen, text.ends}} IN
  IF named = {} THEN grid.zoneParDefaut ELSE grid.zones[Min(named)]

\* A request is given a grid, or refused for want of one (503).
Given(r, v) ==
  [demand[r] EXCEPT !.at = IF v = NoGrid THEN "refused" ELSE "served", !.grid = v,
     !.zone = IF v = NoGrid THEN "" ELSE resolveDeliveryZone(textOf[r], gridOf[v])]

\* A copy of the row may replace a newer answer.
Holds(i, v) ==
  /\ cachedGrid' = [cachedGrid EXCEPT ![i] = [grid |-> v, fresh |-> FALSE]]
  /\ overtaken' = IF v < newest[i] THEN overtaken \cup {i} ELSE overtaken
  /\ UNCHANGED newest

-----------------------------------------------------------------------------

\* Faulty variant: every request calls the site.
refreshGridEachTime(r, i) ==
  /\ refreshing' = [refreshing EXCEPT ![i] = r]
  /\ refresh' = [refresh EXCEPT ![r] = [at |-> "asked", on |-> i, grid |-> NoGrid]]

\* One call at a time on an instance.
refreshGrid(r, i) ==
  IF refreshing[i] = Unused
  THEN /\ refreshing' = [refreshing EXCEPT ![i] = r]
       /\ refresh' = [refresh EXCEPT ![r] = [at |-> "asked", on |-> i, grid |-> NoGrid]]
  ELSE UNCHANGED <<refreshing, refresh>>

\* An order asks for the grid: a young copy is enough, an old one is served while
\* it is refreshed, and without a copy the row is read.
deliveryGrid(r, i) ==
  LET held == cachedGrid[i]
      asked == [NoDemand EXCEPT !.on = i,
                  !.known = held.grid # NoGrid \/ gridRow # NoGrid,
                  !.least = IF i \in overtaken THEN NoGrid ELSE newest[i]] IN
  /\ demand[r].at = "idle" /\ refresh[r].at = "idle"
  /\ demand' = [demand EXCEPT ![r] =
       IF held.grid = NoGrid THEN [asked EXCEPT !.at = "reads"]
       ELSE [asked EXCEPT !.at = "served", !.grid = held.grid,
               !.zone = resolveDeliveryZone(textOf[r], gridOf[held.grid])]]
  /\ IF held.grid = NoGrid \/ held.fresh
     THEN UNCHANGED <<refreshing, refresh>> ELSE refreshGrid(r, i)
  /\ UNCHANGED <<published, gridRow, cachedGrid, newest, overtaken>>

\* A read of the row; one that fails, or cannot be understood, is taken for no grid.
RowSays == {gridRow, NoGrid}

\* lastKnownGrid: what the row said is kept when the answer arrives.
RowRead(r) ==
  /\ demand[r].at = "reads"
  /\ \E v \in RowSays :
       demand' = [demand EXCEPT ![r].at = "kept", ![r].grid = v, ![r].unread = (v # gridRow)]
  /\ UNCHANGED <<published, gridRow, cachedGrid, refreshing, refresh, newest, overtaken>>

\* A copy, dated from zero; without one the order waits for the site.
lastKnownGrid(r) ==
  LET i == demand[r].on
      v == demand[r].grid IN
  /\ demand[r].at = "kept"
  /\ refreshGrid(r, i)
  /\ IF v = NoGrid
     THEN /\ demand' = [demand EXCEPT ![r].at = "waits"]
          /\ UNCHANGED <<cachedGrid, newest, overtaken>>
     ELSE Holds(i, v) /\ demand' = [demand EXCEPT ![r] = Given(r, v)]
  /\ UNCHANGED <<published, gridRow>>

\* The quote and the list of zones know the row only.
readDeliveryGrid(r) ==
  /\ demand[r].at = "idle"
  /\ \E v \in RowSays :
       demand' = [demand EXCEPT ![r] =
         IF v = NoGrid THEN [NoDemand EXCEPT !.at = "unquoted"]
         ELSE [NoDemand EXCEPT !.at = "quoted", !.grid = v,
                 !.zone = resolveDeliveryZone(textOf[r], gridOf[v])]]
  /\ UNCHANGED <<published, gridRow, cachedGrid, refreshing, refresh, newest, overtaken>>

Answered(r) ==
  /\ demand[r].at \in {"served", "refused", "quoted", "unquoted"}
  /\ demand' = [demand EXCEPT ![r] = NoDemand]
  /\ UNCHANGED <<published, gridRow, cachedGrid, refreshing, refresh, newest, overtaken>>

-----------------------------------------------------------------------------
(* The call to the site.                                                   *)

SiteAnswers(r) ==
  /\ refresh[r].at = "asked"
  /\ refresh' = [refresh EXCEPT ![r].at = "answered", ![r].grid = published]
  /\ UNCHANGED <<published, gridRow, cachedGrid, refreshing, demand, newest, overtaken>>

\* fetchGrid keeps the answer, then writes the row.
fetchGrid(r) ==
  /\ refresh[r].at = "answered"
  /\ LET i == refresh[r].on
         v == refresh[r].grid IN
     /\ cachedGrid' = [cachedGrid EXCEPT ![i] = [grid |-> v, fresh |-> TRUE]]
     /\ newest' = [newest EXCEPT ![i] = IF v > @ THEN v ELSE @]
     /\ overtaken' = overtaken \ {i}
  /\ refresh' = [refresh EXCEPT ![r].at = "remembers"]
  /\ UNCHANGED <<published, gridRow, refreshing, demand>>

\* The end of a refresh: the instance may start another, whoever waited is given v.
RefreshEnds(r, v) ==
  LET i == refresh[r].on IN
  /\ refresh' = [refresh EXCEPT ![r] = NoRefresh]
  /\ refreshing' = [refreshing EXCEPT ![i] = IF @ = r THEN Unused ELSE @]
  /\ demand' = [w \in Demands |->
       IF demand[w].at = "waits" /\ demand[w].on = i THEN Given(w, v) ELSE demand[w]]

\* A row that cannot be written is only logged.
rememberGrid(r) ==
  /\ refresh[r].at = "remembers"
  /\ gridRow' \in {gridRow, refresh[r].grid}
  /\ RefreshEnds(r, refresh[r].grid)
  /\ UNCHANGED <<published, cachedGrid, newest, overtaken>>

\* The site is silent, or answers no zone: the copy, or else the row.
siteSilent(r) ==
  LET i == refresh[r].on IN
  /\ refresh[r].at = "asked"
  /\ IF cachedGrid[i].grid # NoGrid
     THEN RefreshEnds(r, cachedGrid[i].grid)
     ELSE /\ \E v \in RowSays :
               refresh' = [refresh EXCEPT ![r].at = "falls back", ![r].grid = v]
          /\ UNCHANGED <<refreshing, demand>>
  /\ UNCHANGED <<published, gridRow, cachedGrid, newest, overtaken>>

fallsBack(r) ==
  /\ refresh[r].at = "falls back"
  /\ IF refresh[r].grid = NoGrid THEN UNCHANGED <<cachedGrid, newest, overtaken>>
     ELSE Holds(refresh[r].on, refresh[r].grid)
  /\ RefreshEnds(r, refresh[r].grid)
  /\ UNCHANGED <<published, gridRow>>

-----------------------------------------------------------------------------

TimeToLivePasses(i) ==
  /\ cachedGrid[i].fresh
  /\ cachedGrid' = [cachedGrid EXCEPT ![i].fresh = FALSE]
  /\ UNCHANGED <<published, gridRow, refreshing, refresh, demand, newest, overtaken>>

\* The process is recycled, with the requests it served and their refreshes.
InstanceRestarts(i) ==
  /\ cachedGrid[i].grid # NoGrid \/ refreshing[i] # Unused
  /\ cachedGrid' = [cachedGrid EXCEPT ![i] = [grid |-> NoGrid, fresh |-> FALSE]]
  /\ refreshing' = [refreshing EXCEPT ![i] = Unused]
  /\ refresh' = [r \in Demands |-> IF refresh[r].on = i THEN NoRefresh ELSE refresh[r]]
  /\ demand' = [r \in Demands |-> IF demand[r].on = i THEN NoDemand ELSE demand[r]]
  /\ newest' = [newest EXCEPT ![i] = NoGrid]
  /\ overtaken' = overtaken \ {i}
  /\ UNCHANGED <<published, gridRow>>

GridIsEdited ==
  /\ published + 1 \in Versions
  /\ published' = published + 1
  /\ UNCHANGED <<gridRow, cachedGrid, refreshing, refresh, demand, newest, overtaken>>

GridNext ==
  \/ \E r \in Demands :
       \/ \E i \in Instances : deliveryGrid(r, i)
       \/ readDeliveryGrid(r)
       \/ RowRead(r) \/ lastKnownGrid(r) \/ Answered(r)
       \/ SiteAnswers(r) \/ fetchGrid(r) \/ rememberGrid(r) \/ siteSilent(r) \/ fallsBack(r)
  \/ \E i \in Instances : TimeToLivePasses(i) \/ InstanceRestarts(i)
  \/ GridIsEdited

GridSpec == GridInit /\ [][GridNext]_gridVars

-----------------------------------------------------------------------------
(* Properties.                                                             *)

(* Once a grid is known, in memory or in the row, an order is refused or kept *)
(* waiting for the site only if its own read of the row has failed, whatever *)
(* the refreshes it shares, and whoever waits has a refresh to wait for; an  *)
(* instance never serves an older grid than it was once answered, unless a   *)
(* slow read of the row has replaced that answer; and a customer is served   *)
(* the zone he chose when the grid has it, unless what he added ends with    *)
(* the name of another.                                                     *)
GridIsKept ==
  /\ \A r \in Demands : demand[r].at \in {"waits", "refused"} =>
       ~ demand[r].known \/ demand[r].unread
  /\ \A r \in Demands : demand[r].at = "waits" => refreshing[demand[r].on] # Unused
  /\ \A r \in Demands :
       demand[r].at = "served" => demand[r].grid >= demand[r].least
  /\ \A r \in Demands : demand[r].at \in {"served", "quoted"} =>
       LET text == textOf[r]
           zones == ToSet(gridOf[demand[r].grid].zones) IN
       text.chosen \in zones /\ text.ends \notin zones \ {text.chosen} =>
         demand[r].zone = text.chosen
=============================================================================
