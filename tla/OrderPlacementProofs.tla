------------------------ MODULE OrderPlacementProofs ------------------------
(***************************************************************************)
(* Theorems about OrderPlacement, Billing and DeliveryGrid, for any number *)
(* of customers, concurrent attempts, units, uses, keys, variants, rules,  *)
(* versions of the grid and instances of the API, at any price.  SaleInv   *)
(* is inductive: a request about to create an order knows that the goods   *)
(* of its key are held, or that something failed on the key; an order      *)
(* whose reservation is not confirmed has a request in flight that is      *)
(* about to confirm it, so that it cannot expire.  UseInv, which rests on  *)
(* it, keeps one discounted order aside for every use that is still to be  *)
(* counted.  GridInv says that an instance has one refresh at a time, and  *)
(* which copy of the grid each stage of a request may hold.                *)
(***************************************************************************)
EXTENDS OrderPlacement, Billing, DeliveryGrid, SetSums, FiniteSetTheorems, TLAPS

\* A request at work has a key; from its commit on, the key has its order.
KeysInv ==
  \A r \in Requests : request[r].at # "idle" =>
    /\ request[r].customer \in Customers
    /\ request[r].n \in 1..MaxKeys
    /\ request[r].at \in {"confirm", "redeem"} => Key(r) \in orders

\* A request let through by the site has had its goods.
GrantInv ==
  /\ \A r \in Requests : request[r].at = "create" => reservation[Key(r)] # "NONE"
  /\ \A k \in orders : reservation[k] # "NONE"

\* Goods under creation are held, goods sold are confirmed or about to be.
SaleInv ==
  /\ \A r \in Requests : request[r].at = "create" => Held(Key(r)) \/ Key(r) \in disturbed
  /\ \A r \in Requests : request[r].at = "compensate" => Key(r) \in disturbed
  /\ \A k \in orders :
       \/ k \in disturbed
       \/ reservation[k] = "CONFIRMED"
       \/ reservation[k] = "RESERVED" /\ \E r \in Requests : request[r].at = "confirm" /\ Key(r) = k

PlacementInv == PlacementTypeOK /\ KeysInv /\ GrantInv /\ SaleInv

-----------------------------------------------------------------------------

(* The key of a request at work is one of the keys.                         *)
LEMMA KeyOfRequest ==
  ASSUME KeysInv, NEW r \in Requests, request[r].at # "idle"
  PROVE  Key(r) \in Keys
BY DEF KeysInv, Key, Keys

(* What the calls to the site leave: only a release takes goods back, no    *)
(* call makes a reservation disappear.                                      *)
LEMMA SiteCalls ==
  ASSUME PlacementTypeOK, NEW k \in Keys
  PROVE  /\ siteReserver(k) =>
              /\ reservation' \in [Keys -> RESERVATION_STATES]
              /\ reservation'[k] \in {"RESERVED", "CONFIRMED"}
              /\ \A j \in Keys : Held(j) => reservation'[j] = reservation[j]
              /\ \A j \in Keys : reservation[j] # "NONE" => reservation'[j] # "NONE"
         /\ siteLiberer(k) =>
              /\ reservation' \in [Keys -> RESERVATION_STATES]
              /\ \A j \in Keys \ {k} : reservation'[j] = reservation[j]
              /\ \A j \in Keys : reservation[j] # "NONE" => reservation'[j] # "NONE"
         /\ siteConfirmer(k) =>
              /\ reservation' \in [Keys -> RESERVATION_STATES]
              /\ reservation[k] = "RESERVED" => reservation'[k] = "CONFIRMED"
              /\ reservation[k] # "RESERVED" => reservation'[k] = reservation[k]
              /\ \A j \in Keys \ {k} : reservation'[j] = reservation[j]
BY DEF PlacementTypeOK, RESERVATION_STATES, siteReserver, siteLiberer, siteConfirmer, Held

(* A step of request r to `to`: the others stay where they are, no key      *)
(* changes.                                                                *)
OnlyMoves(r, to) ==
  /\ request' \in [Requests -> RequestContext]
  /\ request'[r].at = to
  /\ \A q \in Requests \ {r} : request'[q] = request[q]
  /\ \A q \in Requests : /\ request'[q].customer = request[q].customer
                          /\ request'[q].n = request[q].n
                          /\ Key(q)' = Key(q)

LEMMA MovesOnly ==
  ASSUME PlacementTypeOK, NEW r \in Requests,
         NEW to \in {"check", "reserve", "create", "compensate", "confirm", "redeem"}, Moves(r, to)
  PROVE  OnlyMoves(r, to)
BY DEF PlacementTypeOK, RequestContext, Moves, Key, OnlyMoves

LEMMA AnswersOnly ==
  ASSUME PlacementTypeOK, NEW r \in Requests, NEW a \in {"order", "refused", "error"}, Answers(r, a)
  PROVE  OnlyMoves(r, "answer")
BY DEF PlacementTypeOK, RequestContext, Answers, Key, OnlyMoves

(* A step that leaves the orders and the goods alone, of a request that is  *)
(* not about to confirm and does not come to create.                        *)
LEMMA AsideKeeps ==
  ASSUME PlacementInv, NEW r \in Requests, request[r].at \notin {"idle", "confirm"},
         NEW to \in {"check", "reserve", "compensate", "answer"}, OnlyMoves(r, to),
         UNCHANGED <<orders, reservation>>, disturbed \subseteq disturbed',
         to = "compensate" => Key(r) \in disturbed'
  PROVE  KeysInv' /\ GrantInv' /\ SaleInv'
<1>1. KeysInv'
  BY DEF PlacementInv, KeysInv, OnlyMoves
<1>2. GrantInv'
  BY DEF PlacementInv, GrantInv, OnlyMoves
<1>3. SaleInv'
  <2>1. \A q \in Requests : request'[q].at = "create" => Held(Key(q))' \/ Key(q)' \in disturbed'
    BY DEF PlacementInv, SaleInv, OnlyMoves, Held
  <2>2. \A q \in Requests : request'[q].at = "compensate" => Key(q)' \in disturbed'
    BY DEF PlacementInv, SaleInv, OnlyMoves
  <2>3. ASSUME NEW k \in orders', k \notin disturbed', reservation'[k] # "CONFIRMED"
        PROVE  reservation'[k] = "RESERVED"
               /\ \E q \in Requests : request'[q].at = "confirm" /\ Key(q)' = k
    BY <2>3 DEF PlacementInv, SaleInv, OnlyMoves
  <2> QED
    BY <2>1, <2>2, <2>3 DEF SaleInv
<1> QED
  BY <1>1, <1>2, <1>3

(* reserver reached the site: its answer lets the request go on, or is lost. *)
LEMMA ReserverKeeps ==
  ASSUME PlacementInv, NEW r \in Requests, request[r].at = "reserve", siteReserver(Key(r)),
         NEW to \in {"create", "answer"}, OnlyMoves(r, to), UNCHANGED <<screen, database, disturbed>>
  PROVE  PlacementInv'
<1>2. Key(r) \in Keys
  BY KeyOfRequest DEF PlacementInv
<1>3. /\ reservation' \in [Keys -> RESERVATION_STATES]
      /\ reservation'[Key(r)] \in {"RESERVED", "CONFIRMED"}
      /\ \A j \in Keys : Held(j) => reservation'[j] = reservation[j]
      /\ \A j \in Keys : reservation[j] # "NONE" => reservation'[j] # "NONE"
  BY <1>2, SiteCalls DEF PlacementInv
<1>4. PlacementTypeOK'
  BY <1>3 DEF PlacementInv, PlacementTypeOK, OnlyMoves, database
<1>5. KeysInv'
  BY DEF PlacementInv, KeysInv, OnlyMoves, database
<1>6. \A q \in Requests : request[q].at # "idle" => Key(q) \in Keys
  BY KeyOfRequest DEF PlacementInv
<1>7. orders \subseteq Keys /\ orders' = orders /\ disturbed' = disturbed
  BY DEF PlacementInv, PlacementTypeOK, database
<1>8. GrantInv'
  BY <1>3, <1>6, <1>7 DEF PlacementInv, GrantInv, OnlyMoves
<1>9. SaleInv'
  <2>1. \A q \in Requests : request'[q].at = "create" => Held(Key(q))' \/ Key(q)' \in disturbed'
    BY <1>3, <1>6, <1>7 DEF PlacementInv, SaleInv, OnlyMoves, Held
  <2>2. \A q \in Requests : request'[q].at = "compensate" => Key(q)' \in disturbed'
    BY <1>7 DEF PlacementInv, SaleInv, OnlyMoves
  <2>3. ASSUME NEW k \in orders', k \notin disturbed', reservation'[k] # "CONFIRMED"
        PROVE  reservation'[k] = "RESERVED"
               /\ \E q \in Requests : request'[q].at = "confirm" /\ Key(q)' = k
    BY <2>3, <1>3, <1>7 DEF PlacementInv, SaleInv, OnlyMoves, Held
  <2> QED
    BY <2>1, <2>2, <2>3 DEF SaleInv
<1> QED
  BY <1>4, <1>5, <1>8, <1>9 DEF PlacementInv

(* The order is created: its goods are held, or something failed on its     *)
(* key, and its own request is about to confirm it.                         *)
LEMMA CreateKeeps ==
  ASSUME PlacementInv, NEW r \in Requests, Create(r)
  PROVE  PlacementInv'
<1>1. OnlyMoves(r, "confirm")
  BY MovesOnly DEF PlacementInv, Create
<1>2. Key(r) \in Keys
  BY KeyOfRequest DEF PlacementInv, Create
<1>3. PlacementTypeOK'
  BY <1>1, <1>2 DEF PlacementInv, PlacementTypeOK, Create, OnlyMoves
<1>4. KeysInv'
  BY <1>1 DEF PlacementInv, KeysInv, Create, OnlyMoves
<1>5. GrantInv'
  BY <1>1 DEF PlacementInv, GrantInv, Create, OnlyMoves
<1>6. SaleInv'
  <2>1. \A q \in Requests : request'[q].at = "create" => Held(Key(q))' \/ Key(q)' \in disturbed'
    BY <1>1 DEF PlacementInv, SaleInv, OnlyMoves, Held, Create
  <2>2. \A q \in Requests : request'[q].at = "compensate" => Key(q)' \in disturbed'
    BY <1>1 DEF PlacementInv, SaleInv, OnlyMoves, Create
  <2>3. ASSUME NEW k \in orders', k \notin disturbed', reservation'[k] # "CONFIRMED"
        PROVE  reservation'[k] = "RESERVED"
               /\ \E q \in Requests : request'[q].at = "confirm" /\ Key(q)' = k
    <3>1. CASE k = Key(r)
      BY <2>3, <3>1, <1>1 DEF PlacementInv, SaleInv, OnlyMoves, Create, Held
    <3>2. CASE k # Key(r)
      BY <2>3, <3>2, <1>1 DEF PlacementInv, SaleInv, OnlyMoves, Create
    <3> QED
      BY <3>1, <3>2
  <2> QED
    BY <2>1, <2>2, <2>3 DEF SaleInv
<1> QED
  BY <1>3, <1>4, <1>5, <1>6 DEF PlacementInv

(* Only a key something failed on is compensated.                           *)
LEMMA CompensateKeeps ==
  ASSUME PlacementInv, NEW r \in Requests, Compensate(r), siteLiberer(Key(r))
  PROVE  PlacementInv'
<1>1. OnlyMoves(r, "answer")
  BY AnswersOnly DEF PlacementInv, Compensate
<1>2. Key(r) \in Keys /\ Key(r) \in disturbed
  BY KeyOfRequest DEF PlacementInv, SaleInv, Compensate
<1>3. /\ reservation' \in [Keys -> RESERVATION_STATES]
      /\ \A j \in Keys \ {Key(r)} : reservation'[j] = reservation[j]
      /\ \A j \in Keys : reservation[j] # "NONE" => reservation'[j] # "NONE"
  BY <1>2, SiteCalls DEF PlacementInv
<1>4. PlacementTypeOK'
  BY <1>1, <1>3 DEF PlacementInv, PlacementTypeOK, OnlyMoves, Compensate, database
<1>5. KeysInv'
  BY <1>1 DEF PlacementInv, KeysInv, OnlyMoves, Compensate, database
<1>6. \A q \in Requests : request[q].at # "idle" => Key(q) \in Keys
  BY KeyOfRequest DEF PlacementInv
<1>7. orders \subseteq Keys /\ orders' = orders /\ disturbed' = disturbed
  BY DEF PlacementInv, PlacementTypeOK, Compensate, database
<1>8. GrantInv'
  BY <1>1, <1>3, <1>6, <1>7 DEF PlacementInv, GrantInv, OnlyMoves
<1>9. SaleInv'
  <2>1. \A q \in Requests : request'[q].at = "create" => Held(Key(q))' \/ Key(q)' \in disturbed'
    BY <1>1, <1>2, <1>3, <1>6, <1>7 DEF PlacementInv, SaleInv, OnlyMoves, Held
  <2>2. \A q \in Requests : request'[q].at = "compensate" => Key(q)' \in disturbed'
    BY <1>1, <1>7 DEF PlacementInv, SaleInv, OnlyMoves
  <2>3. ASSUME NEW k \in orders', k \notin disturbed', reservation'[k] # "CONFIRMED"
        PROVE  reservation'[k] = "RESERVED"
               /\ \E q \in Requests : request'[q].at = "confirm" /\ Key(q)' = k
    BY <2>3, <1>1, <1>2, <1>3, <1>7 DEF PlacementInv, SaleInv, OnlyMoves, Compensate
  <2> QED
    BY <2>1, <2>2, <2>3 DEF SaleInv
<1> QED
  BY <1>4, <1>5, <1>8, <1>9 DEF PlacementInv

(* The confirmation: its own order is CONFIRMED, or its key is marked.      *)
LEMMA ConfirmerKeeps ==
  ASSUME PlacementInv, NEW r \in Requests, request[r].at = "confirm",
         NEW to \in {"redeem", "answer"}, OnlyMoves(r, to), UNCHANGED <<screen, database>>,
         \/ siteConfirmer(Key(r)) /\ disturbed' \in {disturbed, disturbed \cup {Key(r)}}
         \/ UNCHANGED reservation /\ disturbed' = disturbed \cup {Key(r)}
  PROVE  PlacementInv'
<1>1. Key(r) \in Keys /\ Key(r) \in orders
  BY KeyOfRequest DEF PlacementInv, KeysInv
<1>2. /\ reservation' \in [Keys -> RESERVATION_STATES]
      /\ \A j \in Keys \ {Key(r)} : reservation'[j] = reservation[j]
      /\ \A j \in Keys : Held(j) => reservation'[j] \in {"RESERVED", "CONFIRMED"}
      /\ \A j \in Keys : reservation[j] # "NONE" => reservation'[j] # "NONE"
      /\ \A j \in Keys : reservation[j] = "CONFIRMED" => reservation'[j] = "CONFIRMED"
      /\ Key(r) \in disturbed' \/ (reservation[Key(r)] = "RESERVED" => reservation'[Key(r)] = "CONFIRMED")
  BY <1>1, SiteCalls DEF PlacementInv, PlacementTypeOK, Held
<1>3. /\ orders \subseteq Keys
      /\ orders' = orders
      /\ disturbed \subseteq disturbed'
  BY DEF PlacementInv, PlacementTypeOK, database
<1>4. PlacementTypeOK'
  BY <1>1, <1>2 DEF PlacementInv, PlacementTypeOK, OnlyMoves, database
<1>5. KeysInv'
  BY <1>1, <1>3 DEF PlacementInv, KeysInv, OnlyMoves
<1>6. \A q \in Requests : request[q].at # "idle" => Key(q) \in Keys
  BY KeyOfRequest DEF PlacementInv
<1>7. GrantInv'
  BY <1>2, <1>3, <1>6 DEF PlacementInv, GrantInv, OnlyMoves
<1>8. SaleInv'
  <2>1. \A q \in Requests : request'[q].at = "create" => Held(Key(q))' \/ Key(q)' \in disturbed'
    BY <1>2, <1>3, <1>6 DEF PlacementInv, SaleInv, OnlyMoves, Held
  <2>2. \A q \in Requests : request'[q].at = "compensate" => Key(q)' \in disturbed'
    BY <1>3 DEF PlacementInv, SaleInv, OnlyMoves
  <2>3. ASSUME NEW k \in orders', k \notin disturbed', reservation'[k] # "CONFIRMED"
        PROVE  reservation'[k] = "RESERVED"
               /\ \E q \in Requests : request'[q].at = "confirm" /\ Key(q)' = k
    <3>1. k # Key(r)
      BY <2>3, <1>2, <1>3 DEF PlacementInv, SaleInv
    <3> QED
      BY <3>1, <2>3, <1>2, <1>3 DEF PlacementInv, SaleInv, OnlyMoves
  <2> QED
    BY <2>1, <2>2, <2>3 DEF SaleInv
<1> QED
  BY <1>4, <1>5, <1>7, <1>8 DEF PlacementInv

LEMMA ConfirmKeeps ==
  ASSUME PlacementInv, NEW r \in Requests, Confirm(r) \/ ConfirmUnavailable(r)
  PROVE  PlacementInv'
<1>1. PICK to \in {"redeem", "answer"} : OnlyMoves(r, to)
  <2>1. Confirmed(r)
    BY DEF Confirm, ConfirmUnavailable
  <2> QED
    BY <2>1, MovesOnly, AnswersOnly DEF PlacementInv, Confirmed
<1> QED
  BY <1>1, ConfirmerKeeps DEF Confirm, ConfirmUnavailable

(* The code is counted and traced for an order that exists.                 *)
LEMMA RedeemKeeps ==
  ASSUME PlacementInv, NEW r \in Requests, Redeem(r)
  PROVE  PlacementInv'
<1>1. OnlyMoves(r, "answer")
  BY AnswersOnly DEF PlacementInv, Redeem
<1>2. Key(r) \in orders
  BY DEF PlacementInv, KeysInv, Redeem
<1>3. used' \in 0..MaxUses
  BY MaxUsesAssumption DEF PlacementInv, PlacementTypeOK, Redeem, countUse
<1>4. PlacementTypeOK'
  BY <1>1, <1>2, <1>3 DEF PlacementInv, PlacementTypeOK, Redeem, OnlyMoves
<1> QED
  BY <1>1, <1>4, AsideKeeps DEF PlacementInv, Redeem

(* A request leaves, or one begins: nothing but its place changes.          *)
LEMMA LeavesKeep ==
  ASSUME PlacementInv, NEW r \in Requests, NEW x \in RequestContext,
         request' = [request EXCEPT ![r] = x],
         \/ x.at = "idle"
         \/ x.at = "replay" /\ x.customer \in Customers /\ x.n \in 1..MaxKeys,
         request[r].at # "confirm" \/ Key(r) \in disturbed',
         UNCHANGED <<orders, reservation>>, disturbed \subseteq disturbed'
  PROVE  KeysInv' /\ GrantInv' /\ SaleInv'
<1>1. /\ request'[r] = x
      /\ \A q \in Requests \ {r} : request'[q] = request[q] /\ Key(q)' = Key(q)
  BY DEF PlacementInv, PlacementTypeOK, Key
<1>2. KeysInv'
  BY <1>1 DEF PlacementInv, KeysInv
<1>3. GrantInv'
  BY <1>1 DEF PlacementInv, GrantInv
<1>4. SaleInv'
  <2>1. \A q \in Requests : request'[q].at = "create" => Held(Key(q))' \/ Key(q)' \in disturbed'
    BY <1>1 DEF PlacementInv, SaleInv, Held
  <2>2. \A q \in Requests : request'[q].at = "compensate" => Key(q)' \in disturbed'
    BY <1>1 DEF PlacementInv, SaleInv
  <2>3. ASSUME NEW k \in orders', k \notin disturbed', reservation'[k] # "CONFIRMED"
        PROVE  reservation'[k] = "RESERVED"
               /\ \E q \in Requests : request'[q].at = "confirm" /\ Key(q)' = k
    <3>1. PICK q \in Requests : request[q].at = "confirm" /\ Key(q) = k
      BY <2>3 DEF PlacementInv, SaleInv
    <3>2. q # r
      BY <3>1, <2>3
    <3> QED
      BY <3>1, <3>2, <2>3, <1>1 DEF PlacementInv, SaleInv
  <2> QED
    BY <2>1, <2>2, <2>3 DEF SaleInv
<1> QED
  BY <1>2, <1>3, <1>4

LEMMA SubmitKeeps ==
  ASSUME PlacementInv, NEW c \in Customers, NEW r \in Requests, Submit(c, r)
  PROVE  PlacementInv'
<1>1. PICK code \in BOOLEAN :
        request' = [request EXCEPT ![r] = [at |-> "replay", customer |-> c, n |-> screen[c].n,
                                           code |-> code, answer |-> "NONE"]]
  BY DEF Submit
<1> DEFINE x == [at |-> "replay", customer |-> c, n |-> screen[c].n,
                 code |-> code, answer |-> "NONE"]
<1>2. screen[c].n \in 1..MaxKeys
  BY MaxKeysAssumption DEF PlacementInv, PlacementTypeOK, Screen, Submit
<1>3. x \in RequestContext /\ x.at = "replay" /\ x.customer \in Customers /\ x.n \in 1..MaxKeys
  BY <1>2, MaxKeysAssumption DEF RequestContext
<1>4. PlacementTypeOK'
  <2>1. screen' \in [Customers -> Screen]
    BY DEF PlacementInv, PlacementTypeOK, Screen, Submit
  <2>2. request' \in [Requests -> RequestContext]
    BY <1>1, <1>3 DEF PlacementInv, PlacementTypeOK
  <2> QED
    BY <2>1, <2>2 DEF PlacementInv, PlacementTypeOK, Submit, database
<1>5. KeysInv' /\ GrantInv' /\ SaleInv'
  <2>1. request[r].at # "confirm" /\ UNCHANGED <<orders, reservation>> /\ disturbed \subseteq disturbed'
    BY DEF Submit, database
  <2> QED
    BY <1>1, <1>3, <2>1, LeavesKeep
<1> QED
  BY <1>4, <1>5 DEF PlacementInv

(* The answer of a request, or its death, frees its context.                *)
LEMMA LeaveKeeps ==
  ASSUME PlacementInv, NEW r \in Requests, AnswerArrives(r) \/ Dies(r)
  PROVE  PlacementInv'
<1>1. Idle \in RequestContext /\ Idle.at = "idle"
  BY MaxKeysAssumption DEF Idle, RequestContext
<1>2. request[r].at # "idle" /\ request' = [request EXCEPT ![r] = Idle]
  BY DEF AnswerArrives, Dies
<1>3. request[r].customer \in Customers /\ Key(r) \in Keys
  BY <1>2, KeyOfRequest DEF PlacementInv, KeysInv
<1>4. screen' \in [Customers -> Screen]
  <2>1. CASE AnswerArrives(r)
    <3> DEFINE c == request[r].customer
    <3>1. CASE screen[c].awaits # r
      BY <2>1, <3>1 DEF PlacementInv, PlacementTypeOK, AnswerArrives
    <3>2. CASE screen[c].awaits = r
      <4>1. c \in Customers /\ screen[c] \in Screen
        BY <1>3 DEF PlacementInv, PlacementTypeOK
      <4>2. [n |-> screen[c].n + (IF request[r].answer = "refused" THEN 1 ELSE 0),
             awaits |-> NoRequest, done |-> request[r].answer = "order"] \in Screen
        BY <4>1 DEF Screen
      <4> QED
        BY <2>1, <3>2, <4>1, <4>2 DEF PlacementInv, PlacementTypeOK, AnswerArrives
    <3> QED
      BY <3>1, <3>2
  <2>2. CASE Dies(r)
    BY <2>2 DEF PlacementInv, PlacementTypeOK, Dies, Screen
  <2> QED
    BY <2>1, <2>2
<1>5. PlacementTypeOK'
  <2>1. request' \in [Requests -> RequestContext]
    BY <1>1, <1>2 DEF PlacementInv, PlacementTypeOK
  <2> QED
    BY <2>1, <1>3, <1>4 DEF PlacementInv, PlacementTypeOK, AnswerArrives, Dies, database
<1>6. KeysInv' /\ GrantInv' /\ SaleInv'
  <2>1. /\ request[r].at # "confirm" \/ Key(r) \in disturbed'
        /\ UNCHANGED <<orders, reservation>>
        /\ disturbed \subseteq disturbed'
    BY DEF AnswerArrives, Dies, database
  <2> QED
    BY <1>1, <1>2, <2>1, LeavesKeep
<1> QED
  BY <1>5, <1>6 DEF PlacementInv

(* A reservation that a request may still need does not expire.             *)
LEMMA SiteExpiresKeeps ==
  ASSUME PlacementInv, NEW k \in Keys, SiteExpires(k)
  PROVE  PlacementInv'
<1>1. /\ reservation' = [reservation EXCEPT ![k] = "EXPIRED"]
      /\ \A q \in Requests : request[q].at # "idle" => Key(q) # k
      /\ \A q \in Requests : Key(q)' = Key(q)
      /\ UNCHANGED <<screen, request, orders, discounted, used, redemptions, disturbed>>
  BY DEF SiteExpires, InFlight, Key, database
<1>2. PlacementTypeOK'
  BY <1>1 DEF PlacementInv, PlacementTypeOK, RESERVATION_STATES
<1>3. KeysInv'
  BY <1>1 DEF PlacementInv, KeysInv
<1>4. \A j \in Keys : reservation'[j] = IF j = k THEN "EXPIRED" ELSE reservation[j]
  BY <1>1 DEF PlacementInv, PlacementTypeOK
<1>5. /\ \A q \in Requests : request[q].at # "idle" => Key(q) \in Keys
      /\ orders \subseteq Keys
  BY KeyOfRequest DEF PlacementInv, PlacementTypeOK
<1>6. GrantInv'
  BY <1>1, <1>4, <1>5 DEF PlacementInv, GrantInv
<1>7. SaleInv'
  <2>1. \A q \in Requests : request'[q].at = "create" => Held(Key(q))' \/ Key(q)' \in disturbed'
    BY <1>1, <1>4, <1>5 DEF PlacementInv, SaleInv, Held
  <2>2. \A q \in Requests : request'[q].at = "compensate" => Key(q)' \in disturbed'
    BY <1>1 DEF PlacementInv, SaleInv
  <2>3. ASSUME NEW j \in orders', j \notin disturbed', reservation'[j] # "CONFIRMED"
        PROVE  reservation'[j] = "RESERVED"
               /\ \E q \in Requests : request'[q].at = "confirm" /\ Key(q)' = j
    <3>1. CASE j = k
      <4>1. reservation[k] = "RESERVED"
        BY DEF SiteExpires
      <4> QED
        BY <3>1, <4>1, <2>3, <1>1 DEF PlacementInv, SaleInv
    <3>2. CASE j # k
      BY <3>2, <2>3, <1>1, <1>4, <1>5 DEF PlacementInv, SaleInv
    <3> QED
      BY <3>1, <3>2
  <2> QED
    BY <2>1, <2>2, <2>3 DEF SaleInv
<1> QED
  BY <1>2, <1>3, <1>6, <1>7 DEF PlacementInv

-----------------------------------------------------------------------------

LEMMA InitEstablishes == Init => PlacementInv
<1> SUFFICES ASSUME Init PROVE PlacementInv
  OBVIOUS
<1>1. PlacementTypeOK
  BY MaxKeysAssumption, MaxUsesAssumption
  DEF Init, PlacementTypeOK, Screen, RequestContext, Idle, RESERVATION_STATES
<1> QED
  BY <1>1 DEF Init, PlacementInv, KeysInv, GrantInv, SaleInv, Idle

LEMMA ServesKeeps ==
  ASSUME PlacementInv, NEW r \in Requests, Serves(r)
  PROVE  PlacementInv'
<1>1. CASE Replay(r) \/ Check(r) \/ ReserveRefused(r) \/ CreateLoses(r) \/ RedeemFails(r)
  <2>1. PICK to \in {"check", "reserve", "answer"} : OnlyMoves(r, to)
    BY <1>1, MovesOnly, AnswersOnly
    DEF PlacementInv, Replay, Check, ReserveRefused, CreateLoses, RedeemFails
  <2>2. /\ request[r].at \notin {"idle", "confirm"}
        /\ UNCHANGED <<screen, database, reservation, disturbed>>
    BY <1>1 DEF Replay, Check, ReserveRefused, CreateLoses, RedeemFails
  <2>3. PlacementTypeOK'
    BY <2>1, <2>2 DEF PlacementInv, PlacementTypeOK, OnlyMoves, database
  <2>4. KeysInv' /\ GrantInv' /\ SaleInv'
    BY <2>1, <2>2, AsideKeeps DEF database
  <2> QED
    BY <2>3, <2>4 DEF PlacementInv
<1>2. CASE CreateFails(r)
  <2>1. OnlyMoves(r, "compensate")
    BY <1>2, MovesOnly DEF PlacementInv, CreateFails
  <2>2. Key(r) \in Keys
    BY <1>2, KeyOfRequest DEF PlacementInv, CreateFails
  <2>3. PlacementTypeOK'
    BY <1>2, <2>1, <2>2 DEF PlacementInv, PlacementTypeOK, OnlyMoves, CreateFails, database
  <2>4. KeysInv' /\ GrantInv' /\ SaleInv'
    BY <1>2, <2>1, AsideKeeps DEF CreateFails, database
  <2> QED
    BY <2>3, <2>4 DEF PlacementInv
<1>3. CASE ReserveGranted(r)
  BY <1>3, MovesOnly, ReserverKeeps DEF PlacementInv, ReserveGranted
<1>4. CASE ReserveUnavailable(r)
  <2>1. OnlyMoves(r, "answer")
    BY <1>4, AnswersOnly DEF PlacementInv, ReserveUnavailable
  <2>2. CASE siteReserver(Key(r))
    BY <1>4, <2>1, <2>2, ReserverKeeps DEF ReserveUnavailable
  <2>3. CASE UNCHANGED reservation
    <3>1. PlacementTypeOK'
      BY <1>4, <2>1, <2>3 DEF PlacementInv, PlacementTypeOK, OnlyMoves, ReserveUnavailable, database
    <3>2. KeysInv' /\ GrantInv' /\ SaleInv'
      BY <1>4, <2>1, <2>3, AsideKeeps DEF ReserveUnavailable, database
    <3> QED
      BY <3>1, <3>2 DEF PlacementInv
  <2> QED
    BY <1>4, <2>2, <2>3 DEF ReserveUnavailable
<1>5. CASE Compensate(r)
  <2>1. CASE siteLiberer(Key(r))
    BY <1>5, <2>1, CompensateKeeps
  <2>2. CASE UNCHANGED reservation
    <3>1. OnlyMoves(r, "answer")
      BY <1>5, AnswersOnly DEF PlacementInv, Compensate
    <3>2. PlacementTypeOK'
      BY <1>5, <3>1, <2>2 DEF PlacementInv, PlacementTypeOK, OnlyMoves, Compensate, database
    <3>3. KeysInv' /\ GrantInv' /\ SaleInv'
      BY <1>5, <3>1, <2>2, AsideKeeps DEF Compensate, database
    <3> QED
      BY <3>2, <3>3 DEF PlacementInv
  <2> QED
    BY <1>5, <2>1, <2>2 DEF Compensate
<1> QED
  BY <1>1, <1>2, <1>3, <1>4, <1>5, CreateKeeps, ConfirmKeeps, RedeemKeeps DEF Serves

LEMMA NextKeeps == PlacementInv /\ [Next]_vars => PlacementInv'
<1> SUFFICES ASSUME PlacementInv, [Next]_vars PROVE PlacementInv'
  OBVIOUS
<1>1. ASSUME NEW c \in Customers, GiveUp(c) PROVE PlacementInv'
  <2>1. PlacementTypeOK'
    BY <1>1 DEF PlacementInv, PlacementTypeOK, Screen, GiveUp, database
  <2> QED
    BY <1>1, <2>1 DEF PlacementInv, KeysInv, GrantInv, SaleInv, GiveUp, Key, Held, database
<1>2. CASE UNCHANGED vars
  BY <1>2 DEF PlacementInv, PlacementTypeOK, KeysInv, GrantInv, SaleInv, Key, Held, vars, database
<1> QED
  BY <1>1, <1>2, SubmitKeeps, LeaveKeeps, ServesKeeps, SiteExpiresKeeps DEF Next

THEOREM Invariant == Spec => []PlacementInv
BY InitEstablishes, NextKeeps, PTL DEF Spec

(* Every state has the types of PlacementTypeOK; in particular the count of *)
(* uses never passes the quota of the code, and only orders are discounted. *)
THEOREM PlacementTypeCorrectness == Spec => []PlacementTypeOK
<1>1. PlacementInv => PlacementTypeOK
  BY DEF PlacementInv
<1> QED
  BY <1>1, Invariant, PTL

(* No order is created on goods the site never granted, whatever calls are  *)
(* lost and whichever attempt of the key was let through.                   *)
THEOREM NothingSoldUngranted == Spec => []OrderOnlyOnGrantedStock
<1>1. PlacementInv => OrderOnlyOnGrantedStock
  BY DEF PlacementInv, GrantInv, OrderOnlyOnGrantedStock
<1> QED
  BY <1>1, Invariant, PTL

(* An order on whose key nothing failed keeps its goods, however many       *)
(* attempts of that key race and however late they are.                     *)
THEOREM SalesKeepTheirGoods == Spec => []UndisturbedSaleKeepsItsGoods
<1>1. PlacementInv => UndisturbedSaleKeepsItsGoods
  BY DEF PlacementInv, SaleInv, UndisturbedSaleKeepsItsGoods, Held
<1> QED
  BY <1>1, Invariant, PTL

-----------------------------------------------------------------------------
(* The uses of the promotion code: a discounted order whose use is still to *)
(* be counted is the order of one request, which has just created it.       *)

Winner(r) == request[r].at \in {"confirm", "redeem"}
Uncounted == {Key(r) : r \in {q \in Requests : Winner(q) /\ request[q].code}}

UseInv ==
  /\ IsFiniteSet(discounted)
  /\ \A r, q \in Requests : Winner(r) /\ Winner(q) /\ Key(r) = Key(q) => r = q
  /\ \A r \in Requests : request[r].at = "redeem" => request[r].code
  /\ Uncounted \subseteq discounted
  /\ used <= Cardinality(discounted \ Uncounted)

\* Nobody comes to be a winner, and nothing is counted.
NoNewWinner ==
  /\ UNCHANGED <<discounted, used>>
  /\ \A q \in Requests : Winner(q)' => /\ Winner(q) /\ request'[q].code = request[q].code
                                       /\ Key(q)' = Key(q)
  /\ \A q \in Requests : request'[q].at = "redeem" => request'[q].code

LEMMA NoNewWinnerKeeps ==
  ASSUME PlacementTypeOK, UseInv, NoNewWinner
  PROVE  UseInv'
<1>1. Uncounted' \subseteq Uncounted
  BY DEF Uncounted, NoNewWinner
<1>2. discounted \ Uncounted \subseteq discounted \ Uncounted'
  BY <1>1
<1>3. IsFiniteSet(discounted) /\ discounted' = discounted /\ used' = used
  BY DEF UseInv, NoNewWinner
<1>4. /\ Cardinality(discounted \ Uncounted) <= Cardinality(discounted \ Uncounted')
      /\ Cardinality(discounted \ Uncounted) \in Nat /\ Cardinality(discounted \ Uncounted') \in Nat
  <2>1. IsFiniteSet(discounted \ Uncounted') /\ IsFiniteSet(discounted \ Uncounted)
    BY <1>3, FS_Subset
  <2> QED
    BY <1>2, <2>1, FS_Subset, FS_CardinalityType
<1>5. used <= Cardinality(discounted \ Uncounted')
  BY <1>4 DEF UseInv, PlacementTypeOK
<1>6. \A r, q \in Requests : Winner(r)' /\ Winner(q)' /\ Key(r)' = Key(q)' => r = q
  BY DEF UseInv, NoNewWinner
<1> QED
  BY <1>1, <1>3, <1>5, <1>6 DEF UseInv, NoNewWinner

LEMMA UsesStart == Init => UseInv
<1> SUFFICES ASSUME Init PROVE UseInv
  OBVIOUS
<1>1. \A r \in Requests : ~ Winner(r)
  BY DEF Init, Idle, Winner
<1>2. Uncounted = {} /\ discounted = {} /\ used = 0
  BY <1>1 DEF Init, Uncounted
<1> QED
  BY <1>1, <1>2, FS_EmptySet DEF UseInv, Winner

(* The order is created: its use is owed.                                   *)
LEMMA CreateOwes ==
  ASSUME PlacementInv, UseInv, NEW r \in Requests, Create(r)
  PROVE  UseInv'
<1>0. /\ PlacementTypeOK /\ KeysInv /\ request \in [Requests -> RequestContext] /\ discounted \subseteq orders
  BY DEF PlacementInv, PlacementTypeOK
<1>1. /\ request[r].at = "create" /\ Key(r) \notin orders
      /\ discounted' = IF request[r].code THEN discounted \cup {Key(r)} ELSE discounted
      /\ request' = [request EXCEPT ![r].at = "confirm"] /\ used' = used
  BY DEF Create, Moves
<1>2. \A q \in Requests : /\ Key(q)' = Key(q) /\ request'[q].code = request[q].code
                          /\ request'[q].at = IF q = r THEN "confirm" ELSE request[q].at
  BY <1>0, <1>1 DEF RequestContext, Key
<1>3. \A q \in Requests : Winner(q)' = (q = r \/ Winner(q))
  BY <1>2 DEF Winner
<1>4. \A q \in Requests : Winner(q) => Key(q) # Key(r)
  BY <1>0, <1>1 DEF KeysInv, Winner
<1>5. Uncounted' = IF request[r].code THEN Uncounted \cup {Key(r)} ELSE Uncounted
  <2>1. ~ Winner(r)
    BY <1>1 DEF Winner
  <2>2. CASE request[r].code
    BY <1>2, <1>3, <2>2 DEF Uncounted
  <2>3. CASE ~ request[r].code
    BY <1>2, <1>3, <2>1, <2>3 DEF Uncounted
  <2> QED
    BY <2>2, <2>3
<1>6. Key(r) \notin discounted /\ Uncounted \subseteq discounted
  BY <1>0, <1>1 DEF UseInv
<1>7. discounted' \ Uncounted' = discounted \ Uncounted /\ Uncounted' \subseteq discounted'
  BY <1>1, <1>5, <1>6
<1>8. IsFiniteSet(discounted')
  BY <1>1, FS_AddElement DEF UseInv
<1>9. \A p, q \in Requests : Winner(p)' /\ Winner(q)' /\ Key(p)' = Key(q)' => p = q
  BY <1>2, <1>3, <1>4 DEF UseInv
<1>10. \A q \in Requests : request'[q].at = "redeem" => request'[q].code
  BY <1>2 DEF UseInv
<1> QED
  BY <1>1, <1>7, <1>8, <1>9, <1>10 DEF UseInv

(* The use is counted: no other request owes that of the same order.        *)
LEMMA RedeemCounts ==
  ASSUME PlacementInv, UseInv, NEW r \in Requests, Redeem(r)
  PROVE  UseInv'
<1>0. /\ PlacementTypeOK /\ request \in [Requests -> RequestContext]
  BY DEF PlacementInv, PlacementTypeOK
<1>1. /\ request[r].at = "redeem" /\ discounted' = discounted
      /\ used' \in {used, used + 1}
      /\ request' = [request EXCEPT ![r].at = "answer", ![r].answer = "order"]
  BY DEF Redeem, countUse, Answers
<1>2. \A q \in Requests : /\ Key(q)' = Key(q) /\ request'[q].code = request[q].code
                          /\ request'[q].at = IF q = r THEN "answer" ELSE request[q].at
  BY <1>0, <1>1 DEF RequestContext, Key
<1>3. \A q \in Requests : Winner(q)' = (q # r /\ Winner(q))
  BY <1>2 DEF Winner
<1>4. Winner(r) /\ request[r].code
  BY <1>1 DEF Winner, UseInv
<1>5. Uncounted' = Uncounted \ {Key(r)} /\ Key(r) \in Uncounted
  BY <1>2, <1>3, <1>4 DEF Uncounted, UseInv
<1>6. /\ discounted' \ Uncounted' = (discounted \ Uncounted) \cup {Key(r)}
      /\ Key(r) \notin discounted \ Uncounted
  BY <1>1, <1>5 DEF UseInv
<1>7. IsFiniteSet(discounted \ Uncounted)
  BY FS_Subset DEF UseInv
<1>8. /\ Cardinality(discounted' \ Uncounted') = Cardinality(discounted \ Uncounted) + 1
      /\ Cardinality(discounted \ Uncounted) \in Nat
  BY <1>6, <1>7, FS_AddElement, FS_CardinalityType
<1>9. used \in Nat
  BY <1>0, MaxUsesAssumption DEF PlacementTypeOK
<1>10. used' <= Cardinality(discounted' \ Uncounted')
  BY <1>1, <1>8, <1>9 DEF UseInv
<1>11. \A p, q \in Requests : Winner(p)' /\ Winner(q)' /\ Key(p)' = Key(q)' => p = q
  BY <1>2, <1>3 DEF UseInv
<1>12. \A q \in Requests : request'[q].at = "redeem" => request'[q].code
  BY <1>2 DEF UseInv
<1> QED
  BY <1>1, <1>5, <1>10, <1>11, <1>12 DEF UseInv

(* The other steps of a request leave the uses alone.                       *)
LEMMA ServedUses ==
  ASSUME PlacementInv, UseInv, NEW r \in Requests, Serves(r)
  PROVE  UseInv'
<1>0. /\ PlacementTypeOK /\ request \in [Requests -> RequestContext]
      /\ \A q \in Requests : request[q].at = "redeem" => request[q].code
  BY DEF PlacementInv, PlacementTypeOK, UseInv
<1> DEFINE Alike(q) == request'[q].code = request[q].code /\ Key(q)' = Key(q)
<1>1. ASSUME NEW to \in {"check", "reserve", "create", "compensate"}, Moves(r, to),
             UNCHANGED <<discounted, used>>
      PROVE  UseInv'
  <2>1. \A q \in Requests : Alike(q) /\ request'[q].at = IF q = r THEN to ELSE request[q].at
    BY <1>0, <1>1 DEF Moves, RequestContext, Key
  <2>2. NoNewWinner
    BY <1>0, <1>1, <2>1 DEF NoNewWinner, Winner
  <2> QED
    BY <1>0, <2>2, NoNewWinnerKeeps
<1>2. ASSUME NEW a, Answers(r, a), UNCHANGED <<discounted, used>>
      PROVE  UseInv'
  <2>1. \A q \in Requests : Alike(q) /\ request'[q].at = IF q = r THEN "answer" ELSE request[q].at
    BY <1>0, <1>2 DEF Answers, RequestContext, Key
  <2>2. NoNewWinner
    BY <1>0, <1>2, <2>1 DEF NoNewWinner, Winner
  <2> QED
    BY <1>0, <2>2, NoNewWinnerKeeps
<1>3. ASSUME request[r].at = "confirm", Confirmed(r), UNCHANGED <<discounted, used>>
      PROVE  UseInv'
  <2>1. CASE request[r].code /\ Moves(r, "redeem")
    <3>1. \A q \in Requests : Alike(q) /\ request'[q].at = IF q = r THEN "redeem" ELSE request[q].at
      BY <1>0, <2>1 DEF Moves, RequestContext, Key
    <3>2. NoNewWinner
      BY <1>0, <1>3, <2>1, <3>1 DEF NoNewWinner, Winner
    <3> QED
      BY <1>0, <3>2, NoNewWinnerKeeps
  <2> QED
    BY <1>2, <1>3, <2>1 DEF Confirmed
<1>4. CASE Replay(r) \/ Check(r)
  BY <1>1, <1>2, <1>4 DEF Replay, Check, database
<1>5. CASE ReserveGranted(r) \/ ReserveRefused(r) \/ ReserveUnavailable(r)
  BY <1>1, <1>2, <1>5 DEF ReserveGranted, ReserveRefused, ReserveUnavailable, database
<1>6. CASE CreateLoses(r) \/ CreateFails(r) \/ Compensate(r) \/ RedeemFails(r)
  BY <1>1, <1>2, <1>6 DEF CreateLoses, CreateFails, Compensate, RedeemFails, database
<1>7. CASE Confirm(r) \/ ConfirmUnavailable(r)
  BY <1>3, <1>7 DEF Confirm, ConfirmUnavailable, database
<1> QED
  BY <1>4, <1>5, <1>6, <1>7, CreateOwes, RedeemCounts DEF Serves

LEMMA UsesStep == PlacementInv /\ UseInv /\ [Next]_vars => UseInv'
<1> SUFFICES ASSUME PlacementInv, UseInv, [Next]_vars PROVE UseInv'
  OBVIOUS
<1>0. /\ PlacementTypeOK /\ request \in [Requests -> RequestContext]
      /\ \A q \in Requests : request[q].at = "redeem" => request[q].code
  BY DEF PlacementInv, PlacementTypeOK, UseInv
<1>1. ASSUME request' = request, UNCHANGED <<discounted, used>>
      PROVE  UseInv'
  <2>1. NoNewWinner
    BY <1>0, <1>1 DEF NoNewWinner, Winner, Key
  <2> QED
    BY <1>0, <2>1, NoNewWinnerKeeps
<1>2. ASSUME NEW r \in Requests, request'[r].at \in {"idle", "replay"},
             \A q \in Requests : q # r => request'[q] = request[q], UNCHANGED <<discounted, used>>
      PROVE  UseInv'
  <2>1. NoNewWinner
    BY <1>0, <1>2 DEF NoNewWinner, Winner, Key
  <2> QED
    BY <1>0, <2>1, NoNewWinnerKeeps
<1>3. ASSUME NEW c \in Customers, NEW r \in Requests, Submit(c, r) PROVE UseInv'
  <2>1. PICK code \in BOOLEAN :
          request' = [request EXCEPT ![r] = [at |-> "replay", customer |-> c, n |-> screen[c].n,
                                             code |-> code, answer |-> "NONE"]]
    BY <1>3 DEF Submit
  <2>2. UNCHANGED <<discounted, used>>
    BY <1>3 DEF Submit, database
  <2>3. request'[r].at = "replay" /\ \A q \in Requests : q # r => request'[q] = request[q]
    BY <1>0, <2>1
  <2> QED
    BY <1>2, <2>2, <2>3
<1>4. ASSUME NEW r \in Requests, AnswerArrives(r) \/ Dies(r) PROVE UseInv'
  <2>1. request' = [request EXCEPT ![r] = Idle] /\ UNCHANGED <<discounted, used>>
    BY <1>4 DEF AnswerArrives, Dies, database
  <2>2. request'[r].at = "idle" /\ \A q \in Requests : q # r => request'[q] = request[q]
    BY <1>0, <2>1 DEF Idle
  <2> QED
    BY <1>2, <2>1, <2>2
<1>5. CASE (\E c \in Customers : GiveUp(c)) \/ (\E k \in Keys : SiteExpires(k)) \/ UNCHANGED vars
  BY <1>1, <1>5 DEF GiveUp, SiteExpires, vars, database
<1> QED
  BY <1>3, <1>4, <1>5, ServedUses DEF Next

(* recordRedemption, for any number of attempts, customers and uses: a use  *)
(* counted on the promotion code is that of an order billed with its        *)
(* discount, counted once however often the order was sent again.           *)
THEOREM UsesCountedAreSales == Spec => []UsesAreSales
<1>1. PlacementTypeOK /\ UseInv => UsesAreSales
  <2> SUFFICES ASSUME PlacementTypeOK, UseInv PROVE UsesAreSales
    OBVIOUS
  <2>1. /\ Cardinality(discounted \ Uncounted) <= Cardinality(discounted)
        /\ Cardinality(discounted) \in Nat /\ Cardinality(discounted \ Uncounted) \in Nat
    BY FS_Subset, FS_CardinalityType DEF UseInv
  <2> QED
    BY <2>1, MaxUsesAssumption DEF UseInv, PlacementTypeOK, UsesAreSales
<1>2. Spec => []UseInv
  BY Invariant, UsesStart, UsesStep, PTL DEF Spec
<1> QED
  BY <1>1, <1>2, PlacementTypeCorrectness, PTL

-----------------------------------------------------------------------------
(* The totals of a cart.                                                   *)

\* A price is a number of francs, whoever has written it; the crossed-out price may be
\* none, a variant may never have had a promotion.
Price == Nat
ArticleRow == [price : Price, crossed : Price, isAvailable : BOOLEAN, shown : BOOLEAN]
PromotionRow == [price : Price, active : BOOLEAN, window : Windows]
CodeRow == [rule : Discounts, isActive : BOOLEAN, usedByPhone : Nat]
ShopRow == [up : BOOLEAN, price : [Variants -> Price], crossed : [Variants -> Price],
            vendable : SUBSET Variants, remise : Nat, knowsOther : BOOLEAN]

BillingTypeOK ==
  /\ stockMode \in {"site", "local"}
  /\ article \in [Variants -> ArticleRow]
  /\ promotion \in [Variants -> PromotionRow]
  /\ promoCode \in CodeRow
  /\ siteShop \in ShopRow

LEMMA BillingInitTypeOK == BillingInit => BillingTypeOK
  BY BillingBounds DEF BillingInit, BillingTypeOK, ArticleRow, PromotionRow, CodeRow, ShopRow,
     NoPromotion, Windows, Price

LEMMA BillingStepTypeOK ==
  ASSUME BillingTypeOK, [BillingNext]_billingVars
  PROVE  BillingTypeOK'
  <1> USE DEF BillingTypeOK
  <1>1. ASSUME NEW v \in Variants, NEW p \in Amounts, NEW b \in BOOLEAN, updateVariant(v, p, b)
        PROVE  BillingTypeOK'
    BY <1>1, BillingBounds DEF updateVariant, ArticleRow, Price
  <1>2. ASSUME NEW v \in Variants, NEW shown \in BOOLEAN, updateProduct(v, shown)
        PROVE  BillingTypeOK'
    <2>1. (article[v].isAvailable /\ shown) \in BOOLEAN
      BY DEF ArticleRow
    <2>2. QED BY <1>2, <2>1 DEF updateProduct, ArticleRow
  <1>3. ASSUME NEW v \in Variants, NEW p \in Amounts, NEW w \in Windows, createPromotion(v, p, w)
        PROVE  BillingTypeOK'
    BY <1>3, BillingBounds DEF createPromotion, PromotionRow, Price
  <1>4. ASSUME NEW v \in Variants, NEW active \in BOOLEAN, updatePromotion(v, active)
        PROVE  BillingTypeOK'
    BY <1>4 DEF updatePromotion, PromotionRow
  <1>5. ASSUME NEW v \in Variants, promotionWindowMoves(v)
        PROVE  BillingTypeOK'
    BY <1>5 DEF promotionWindowMoves, PromotionRow, Windows
  <1>6. ASSUME NEW v \in Variants, upsertVariantPrice(v)
        PROVE  BillingTypeOK'
    <2>1. (v \in siteShop.vendable) \in BOOLEAN
      OBVIOUS
    <2>2. QED BY <1>6, <2>1 DEF upsertVariantPrice, ArticleRow, ShopRow
  <1>7. ASSUME SiteChanges PROVE BillingTypeOK'
    <2>1. UNCHANGED <<stockMode, article, promotion, promoCode>>
      BY <1>7 DEF SiteChanges
    <2>2. ASSUME NEW v \in Variants, NEW p \in Amounts, NEW c \in Amounts \cup {0},
                 siteShop' = [siteShop EXCEPT !.price[v] = p, !.crossed[v] = c]
          PROVE  siteShop' \in ShopRow
      <3>1. p \in Price /\ c \in Price
        BY BillingBounds DEF Price
      <3>2. [siteShop.price EXCEPT ![v] = p] \in [Variants -> Price]
            /\ [siteShop.crossed EXCEPT ![v] = c] \in [Variants -> Price]
        BY <3>1 DEF ShopRow
      <3>3. QED BY <2>2, <3>2 DEF ShopRow
    <2>3. ASSUME NEW v \in Variants, siteShop' = [siteShop EXCEPT !.vendable = @ \ {v}]
          PROVE  siteShop' \in ShopRow
      BY <2>3 DEF ShopRow
    <2>4. ASSUME NEW r \in SiteRemises, NEW knows \in BOOLEAN,
                 siteShop' = [siteShop EXCEPT !.remise = r, !.knowsOther = knows]
          PROVE  siteShop' \in ShopRow
      BY <2>4, BillingBounds DEF ShopRow
    <2>5. ASSUME siteShop' = [siteShop EXCEPT !.up = ~ @]
          PROVE  siteShop' \in ShopRow
      <3>1. (~ siteShop.up) \in BOOLEAN
        OBVIOUS
      <3>2. QED BY <2>5, <3>1 DEF ShopRow
    <2>6. siteShop' \in ShopRow
      BY <1>7, <2>2, <2>3, <2>4, <2>5 DEF SiteChanges
    <2>7. QED BY <2>1, <2>6
  <1>8. ASSUME NEW active \in BOOLEAN, updatePromoCode(active) PROVE BillingTypeOK'
    BY <1>8 DEF updatePromoCode, CodeRow
  <1>9. ASSUME recordRedemption PROVE BillingTypeOK'
    BY <1>9 DEF recordRedemption, CodeRow
  <1>10. CASE UNCHANGED billingVars
    BY <1>10 DEF billingVars
  <1>11. QED
    BY <1>1, <1>2, <1>3, <1>4, <1>5, <1>6, <1>7, <1>8, <1>9, <1>10 DEF BillingNext

\* Where every promotion undercuts its price, the two readers of this stock agree.
LEMMA PromotionsAgree ==
  ASSUME BillingTypeOK, PromotionsUndercut
  PROVE  checkoutPrice = prixEffectif
  <1>1. ASSUME NEW v \in Variants
        PROVE  checkoutPrice[v] = prixEffectif[v]
    <2>1. article[v].price \in Nat /\ promotion[v].price \in Nat
      BY DEF BillingTypeOK, ArticleRow, PromotionRow, Price
    <2>2. promotionActive(v) => promotion[v].price <= article[v].price
      BY DEF PromotionsUndercut
    <2>3. QED BY <2>1, <2>2 DEF checkoutPrice, prixEffectif
  <1>2. QED BY <1>1 DEF checkoutPrice, prixEffectif

\* Where the site holds the stock, the back office has no promotion running.
SiteRunsNoPromotion == stockMode = "site" => \A v \in Variants : ~ promotion[v].active

LEMMA NoPromotionStart == BillingInit => SiteRunsNoPromotion
  BY DEF BillingInit, SiteRunsNoPromotion, NoPromotion

LEMMA NoPromotionStep ==
  ASSUME BillingTypeOK, SiteRunsNoPromotion, [BillingNext]_billingVars
  PROVE  SiteRunsNoPromotion'
  <1>1. ASSUME NEW v \in Variants, NEW p \in Amounts, NEW w \in Windows, createPromotion(v, p, w)
        PROVE  SiteRunsNoPromotion'
    BY <1>1 DEF createPromotion, assertWritesAllowed, SiteRunsNoPromotion
  <1>2. ASSUME NEW v \in Variants, NEW active \in BOOLEAN, updatePromotion(v, active)
        PROVE  SiteRunsNoPromotion'
    BY <1>2 DEF updatePromotion, assertWritesAllowed, SiteRunsNoPromotion
  <1>3. ASSUME NEW v \in Variants, promotionWindowMoves(v) PROVE SiteRunsNoPromotion'
    BY <1>3 DEF promotionWindowMoves, SiteRunsNoPromotion, BillingTypeOK, PromotionRow
  <1>4. ASSUME UNCHANGED <<stockMode, promotion>> PROVE SiteRunsNoPromotion'
    BY <1>4 DEF SiteRunsNoPromotion
  <1>5. QED
    BY <1>1, <1>2, <1>3, <1>4
       DEF BillingNext, billingVars, updateVariant, updateProduct, upsertVariantPrice,
           updatePromoCode, recordRedemption, SiteChanges

\* Where the site holds the stock, the price quoted is that of the copy.
LEMMA QuoteReadsTheCopy ==
  ASSUME BillingTypeOK, SiteRunsNoPromotion, stockMode = "site"
  PROVE  prixEffectif = [v \in Variants |-> article[v].price]
  BY DEF SiteRunsNoPromotion, prixEffectif, promotionActive

LEMMA FreshCopyAgrees ==
  ASSUME BillingTypeOK, SiteRunsNoPromotion, stockMode = "site", CopyIsFresh
  PROVE  sitePrice = prixEffectif
  BY QuoteReadsTheCopy DEF CopyIsFresh, sitePrice

\* A telephone only tells who has used up the code of the back office.
LEMMA PhoneOnlyCounts ==
  ASSUME BillingTypeOK, NEW price, NEW typed, NEW a \in BOOLEAN, NEW b \in BOOLEAN,
         typed # "agrim" \/ ~ PhoneUsedUp \/ a = b
  PROVE  resolveRemise(price, typed, a) = resolveRemise(price, typed, b)
  <1>1. CASE typed # "agrim"
    BY <1>1, Zenon DEF resolveRemise
  <1>2. CASE ~ PhoneUsedUp
    <2> DEFINE rule == promoCode.rule
    <2>1. rule.perPhone \in Nat /\ promoCode.usedByPhone \in Nat
      BY BillingBounds DEF BillingTypeOK, CodeRow
    <2>2. rule.perPhone # 0 => promoCode.usedByPhone < rule.perPhone
      BY <1>2, <2>1 DEF PhoneUsedUp
    <2>3. evaluatePromoCode(price, a) = evaluatePromoCode(price, b)
      BY <2>2 DEF evaluatePromoCode
    <2>4. QED BY <2>3, Zenon DEF resolveRemise
  <1>3. CASE a = b
    BY <1>3
  <1>4. QED BY <1>1, <1>2, <1>3

\* What the lines of a cart come to is a number of francs.
LEMMA SubtotalIsInteger ==
  ASSUME NEW price, \A v \in Variants : price[v] \in Nat
  PROVE  subtotalOf(price) \in Int
  <1> DEFINE w == [v \in Variants |-> price[v] * Basket[v]]
  <1>1. IsFiniteSet(Variants) /\ Basket \in [Variants -> Nat \ {0}]
    BY BillingBounds
  <1>2. \A v \in Variants : w[v] \in Int
    BY <1>1
  <1>3. subtotalOf(price) = Sum(w, Variants)
    BY DEF subtotalOf, MapThenSumSet, MapThenFoldSet, Sum, Adds, Picked
  <1> HIDE DEF w
  <1>4. Sum(w, Variants) \in Int
    BY <1>1, <1>2, SumIsInteger
  <1>5. QED BY <1>3, <1>4

LEMMA SubtotalsAreIntegers ==
  ASSUME BillingTypeOK
  PROVE  subtotalOf(sitePrice) \in Int /\ subtotalOf(prixEffectif) \in Int
  <1>1. \A v \in Variants : /\ article[v].price \in Nat /\ article[v].crossed \in Nat
                            /\ promotion[v].price \in Nat /\ siteShop.price[v] \in Nat
    BY DEF BillingTypeOK, ArticleRow, PromotionRow, ShopRow, Price
  <1>2. \A v \in Variants : sitePrice[v] \in Nat
    BY <1>1 DEF sitePrice
  <1>3. \A v \in Variants : prixEffectif[v] \in Nat
    BY <1>1 DEF prixEffectif
  <1>4. QED BY <1>2, <1>3, SubtotalIsInteger

\* Without a code of the back office, only the site's calculator is heard.
LEMMA SiteDiscountOnly ==
  ASSUME BillingTypeOK, NEW price, subtotalOf(price) \in Int, NEW typed, typed # "agrim",
         NEW known
  PROVE  /\ remiseSite(typed) \in Nat
         /\ resolveRemise(price, typed, known).status = "refused" <=> remiseNonReconnue(typed)
         /\ ~ remiseNonReconnue(typed) =>
              resolveRemise(price, typed, known).remise = Least(remiseSite(typed), subtotalOf(price))
  <1>1. remiseSite(typed) \in Nat
    BY DEF BillingTypeOK, ShopRow, remiseSite
  <1>2. remiseSite(typed) + 0 = remiseSite(typed)
    BY <1>1
  <1> HIDE DEF remiseSite
  <1>3. resolveRemise(price, typed, known)
          = IF remiseNonReconnue(typed) THEN [status |-> "refused", remise |-> 0]
            ELSE [status |-> "ok", remise |-> Least(remiseSite(typed), subtotalOf(price))]
    BY <1>2 DEF resolveRemise
  <1>4. QED BY <1>1, <1>3

\* A discount taken off two subtotals leaves them no further apart.
LEMMA DiscountsDoNotWiden ==
  ASSUME NEW a \in Int, NEW b \in Int, NEW r \in Nat
  PROVE  Apart(computeCartTotals(a, Least(r, a)), computeCartTotals(b, Least(r, b))) <= Apart(a, b)
  BY DEF Apart, computeCartTotals, Least

\* What an outdated copy changes in the bill of a cart the site sells.
LEMMA CopiesMoveTheBill ==
  ASSUME BillingTypeOK, stockMode = "site", siteShop.up => siteShop.vendable = Variants,
         NEW typed, typed # "agrim", NEW guest, NEW known
  PROVE  /\ bill(typed, guest).status = quote(typed, known).status
         /\ Apart(bill(typed, guest).total, quote(typed, known).total) <= CopyError
  <1> DEFINE ours == resolveRemise(sitePrice, typed, TRUE)
             theirs == resolveRemise(prixEffectif, typed, known)
             a == subtotalOf(sitePrice)
             b == subtotalOf(prixEffectif)
  <1>1. a \in Int /\ b \in Int
    BY SubtotalsAreIntegers
  <1>2. /\ remiseSite(typed) \in Nat
        /\ ours.status = "refused" <=> remiseNonReconnue(typed)
        /\ theirs.status = "refused" <=> remiseNonReconnue(typed)
        /\ ~ remiseNonReconnue(typed) => /\ ours.remise = Least(remiseSite(typed), a)
                                         /\ theirs.remise = Least(remiseSite(typed), b)
    BY <1>1, SiteDiscountOnly
  <1>3. /\ bill(typed, guest) = (IF ~ OnSale \/ ours.status = "refused"
                                  THEN Refused ELSE Total(sitePrice, ours.remise))
        /\ quote(typed, known) = (IF ~ OnSale \/ theirs.status = "refused"
                                   THEN Refused ELSE Total(prixEffectif, theirs.remise))
    BY DEF bill, orderAtTheSite, quote
  <1>4. CopyError = Apart(a, b) /\ Apart(a, b) \in Nat
    BY <1>1 DEF CopyError, Apart
  <1> HIDE DEF ours, theirs, a, b
  <1>5. CASE ~ OnSale \/ remiseNonReconnue(typed)
    <2>1. bill(typed, guest) = Refused /\ quote(typed, known) = Refused
      BY <1>2, <1>3, <1>5
    <2>2. QED BY <1>4, <2>1 DEF Refused, Apart
  <1>6. CASE OnSale /\ ~ remiseNonReconnue(typed)
    <2>1. /\ bill(typed, guest) = Total(sitePrice, Least(remiseSite(typed), a))
          /\ quote(typed, known) = Total(prixEffectif, Least(remiseSite(typed), b))
      BY <1>2, <1>3, <1>6
    <2>2. /\ bill(typed, guest).status = quote(typed, known).status
          /\ bill(typed, guest).total = computeCartTotals(a, Least(remiseSite(typed), a))
          /\ quote(typed, known).total = computeCartTotals(b, Least(remiseSite(typed), b))
      BY <2>1 DEF Total, a, b
    <2>3. QED BY <1>1, <1>2, <1>4, <2>2, DiscountsDoNotWiden
  <1>7. QED BY <1>5, <1>6

\* Where the prices are the same, only the telephone tells bill from quote.
LEMMA SamePricesSameBill ==
  ASSUME BillingTypeOK, SiteRunsNoPromotion,
         IF stockMode = "local" THEN PromotionsUndercut ELSE CopyIsFresh,
         NEW typed \in TypedCodes, NEW guest \in BOOLEAN, NEW known \in BOOLEAN,
         typed # "agrim" \/ ~ PhoneUsedUp \/ known = BillKnowsPhone(guest)
  PROVE  bill(typed, guest) = quote(typed, known)
  <1>1. CASE stockMode = "local"
    <2>1. checkoutPrice = prixEffectif
      BY <1>1, PromotionsAgree
    <2>2. BillKnowsPhone(guest) = guest
      BY <1>1 DEF BillKnowsPhone
    <2>3. resolveRemise(prixEffectif, typed, guest) = resolveRemise(prixEffectif, typed, known)
      BY <2>2, PhoneOnlyCounts
    <2>4. checkout(typed, guest) = quote(typed, known)
      BY <2>1, <2>3, Zenon DEF checkout, quote
    <2>5. QED BY <1>1, <2>4 DEF bill
  <1>2. CASE stockMode # "local"
    <2>1. stockMode = "site"
      BY <1>2 DEF BillingTypeOK
    <2>2. sitePrice = prixEffectif /\ ~ (siteShop.up /\ siteShop.vendable # Variants)
      BY <1>2, <2>1, FreshCopyAgrees DEF CopyIsFresh
    <2>3. BillKnowsPhone(guest) = TRUE
      BY <2>1 DEF BillKnowsPhone
    <2>4. resolveRemise(prixEffectif, typed, TRUE) = resolveRemise(prixEffectif, typed, known)
      BY <2>3, PhoneOnlyCounts
    <2>5. orderAtTheSite(typed) = quote(typed, known)
      BY <2>2, <2>4, Zenon DEF orderAtTheSite, quote
    <2>6. QED BY <1>2, <2>5 DEF bill
  <1>3. QED BY <1>1, <1>2

\* The two sides of the property, whatever the code, the customer and the telephone.
LEMMA BillFollowsQuote ==
  ASSUME BillingTypeOK, SiteRunsNoPromotion
  PROVE  BillIsTheQuote
  <1>1. SUFFICES ASSUME NEW typed \in TypedCodes, NEW guest \in BOOLEAN, NEW known \in BOOLEAN
        PROVE  /\ (IF stockMode = "local" THEN PromotionsUndercut ELSE CopyIsFresh) =>
                    \/ bill(typed, guest) = quote(typed, known)
                    \/ typed = "agrim" /\ PhoneUsedUp /\ known # BillKnowsPhone(guest)
               /\ /\ stockMode = "site" /\ typed # "agrim"
                  /\ siteShop.up => siteShop.vendable = Variants
                  => /\ bill(typed, guest).status = quote(typed, known).status
                     /\ Apart(bill(typed, guest).total, quote(typed, known).total) <= CopyError
    BY DEF BillIsTheQuote
  <1>2. QED BY SamePricesSameBill, CopiesMoveTheBill

(* The total announced is the total billed, for any cart, any prices, any codes and  *)
(* any number of edits: CartQuoteService against CheckoutService while promotions     *)
(* undercut their prices, against OrdersService while the copy of the site is fresh,  *)
(* but for the code a number has used up, where one of the two does not recognise the *)
(* number; an outdated copy moves the bill by its own error on the prices at most.    *)
THEOREM BillsAreTheirQuotes == BillingSpec => []BillIsTheQuote
  <1>1. BillingInit => BillingTypeOK /\ SiteRunsNoPromotion
    BY BillingInitTypeOK, NoPromotionStart
  <1>2. BillingTypeOK /\ SiteRunsNoPromotion /\ [BillingNext]_billingVars
          => (BillingTypeOK /\ SiteRunsNoPromotion)'
    BY BillingStepTypeOK, NoPromotionStep
  <1>3. BillingTypeOK /\ SiteRunsNoPromotion => BillIsTheQuote
    BY BillFollowsQuote
  <1>4. QED BY <1>1, <1>2, <1>3, PTL DEF BillingSpec

-----------------------------------------------------------------------------
(* The copies of the grid of delivery zones.                               *)

AnyVersion == Versions \cup {NoGrid}
CopyRow == [grid : AnyVersion, fresh : BOOLEAN]
RefreshRecord ==
  [at : {"idle", "asked", "answered", "remembers", "falls back"},
   on : Instances \cup {Unused}, grid : AnyVersion]
DemandStages == {"idle", "reads", "kept", "waits", "served", "refused", "quoted", "unquoted"}

ZoneOf(r, v) == resolveDeliveryZone(textOf[r], gridOf[v])

GridTypeOK ==
  /\ published \in Versions /\ gridRow \in AnyVersion
  /\ cachedGrid \in [Instances -> CopyRow]
  /\ refreshing \in [Instances -> Demands \cup {Unused}]
  /\ refresh \in [Demands -> RefreshRecord]
  /\ newest \in [Instances -> Nat] /\ DOMAIN demand = Demands

\* What is known of a request at each of its stages.
DemandOK(d, r, row, busy) ==
  /\ d = [at |-> d.at, on |-> d.on, grid |-> d.grid, zone |-> d.zone, known |-> d.known,
          least |-> d.least, unread |-> d.unread]
  /\ d.at \in DemandStages /\ d.grid \in AnyVersion /\ d.least \in Nat
  /\ d.known \in BOOLEAN /\ d.unread \in BOOLEAN
  /\ d.at \in {"reads", "kept", "waits"} => d.on \in Instances /\ d.least = 0
  /\ d.at = "reads" /\ d.known => row # NoGrid
  /\ d.at = "kept" /\ d.known => d.grid # NoGrid \/ d.unread
  /\ d.at \in {"waits", "refused"} => ~ d.known \/ d.unread
  /\ d.at = "waits" => busy[d.on] # Unused
  /\ d.at = "served" => d.grid >= d.least
  /\ d.at \in {"served", "quoted"} => d.grid # NoGrid /\ d.zone = ZoneOf(r, d.grid)

\* An instance has one refresh under way at most, and its answer is the newest it has had.
RefreshOK(w, r, busy, most) ==
  w.at # "idle" =>
    /\ w.on \in Instances /\ busy[w.on] = r
    /\ w.at = "answered" => w.grid >= most[w.on]
    /\ w.at \in {"answered", "remembers"} => w.grid # NoGrid

GridInv ==
  /\ GridTypeOK
  /\ \A r \in Demands : DemandOK(demand[r], r, gridRow, refreshing)
  /\ \A r \in Demands : RefreshOK(refresh[r], r, refreshing, newest)
  /\ \A r \in Demands : demand[r].at \in {"reads", "kept"} => refresh[r].at = "idle"
  /\ \A r \in Demands : refresh[r].at = "answered" => refresh[r].grid <= published
  /\ \A i \in Instances : newest[i] <= published
  /\ \A i \in Instances : i \notin overtaken => cachedGrid[i].grid >= newest[i]

LEMMA VersionsAreNumbers ==
  /\ 1 \in Versions /\ Versions \subseteq Nat \ {NoGrid}
  /\ AnyVersion \subseteq Nat /\ NoGrid \in AnyVersion
  BY GridAssumption DEF Versions, AnyVersion, NoGrid

\* The zone a customer chose, unless what he added ends with the name of another.
LEMMA ChosenZoneIsServed ==
  \A r \in Demands, v \in Versions :
    LET text == textOf[r]
        zones == ToSet(gridOf[v].zones) IN
    text.chosen \in zones /\ text.ends \notin zones \ {text.chosen} => ZoneOf(r, v) = text.chosen
  <1> SUFFICES ASSUME NEW r \in Demands, NEW v \in Versions,
                      textOf[r].chosen \in ToSet(gridOf[v].zones),
                      textOf[r].ends \notin ToSet(gridOf[v].zones) \ {textOf[r].chosen}
      PROVE ZoneOf(r, v) = textOf[r].chosen
    OBVIOUS
  <1> DEFINE zones == gridOf[v].zones
             named == {k \in DOMAIN zones : zones[k] \in {textOf[r].chosen, textOf[r].ends}}
  <1>1. zones \in Seq(STRING)
    BY GridAssumption DEF Versions
  <1>2. named \in SUBSET Nat /\ named # {}
    <2>1. DOMAIN zones \subseteq Nat
      BY <1>1
    <2>2. PICK k \in DOMAIN zones : zones[k] = textOf[r].chosen
      BY DEF ToSet
    <2>3. QED BY <2>1, <2>2
  <1>3. \A k \in named : zones[k] = textOf[r].chosen
    BY DEF ToSet
  <1> HIDE DEF named
  <1>4. PICK k \in named : \A n \in named : k <= n
    BY <1>2, LeastNatural
  <1>5. Min(named) \in named
    BY <1>4 DEF Min
  <1>6. zones[Min(named)] = textOf[r].chosen
    BY <1>3, <1>5
  <1>7. ZoneOf(r, v) = zones[Min(named)]
    BY <1>2 DEF ZoneOf, resolveDeliveryZone, named
  <1>8. QED BY <1>6, <1>7

LEMMA GridInitInv == GridInit => GridInv
  <1> SUFFICES ASSUME GridInit PROVE GridInv
    OBVIOUS
  <1> USE DEF GridInit
  <1>1. GridTypeOK
    BY VersionsAreNumbers DEF GridTypeOK, CopyRow, NoRefresh, RefreshRecord, NoGrid
  <1>2. ASSUME NEW r \in Demands PROVE DemandOK(demand[r], r, gridRow, refreshing)
    BY VersionsAreNumbers DEF DemandOK, NoDemand, DemandStages, NoGrid
  <1>3. ASSUME NEW r \in Demands PROVE RefreshOK(refresh[r], r, refreshing, newest)
    BY DEF RefreshOK, NoRefresh
  <1>4. \A r \in Demands : refresh[r].at = "idle"
    BY DEF NoRefresh
  <1>5. \A i \in Instances : newest[i] <= published /\ cachedGrid[i].grid >= newest[i]
    BY DEF NoGrid
  <1>6. QED BY <1>1, <1>2, <1>3, <1>4, <1>5 DEF GridInv

-----------------------------------------------------------------------------
(* The steps.                                                              *)

\* A request is given a grid it may be given.
LEMMA GivenIsOK ==
  ASSUME NEW r \in Demands, NEW v \in AnyVersion, NEW row, NEW busy,
         NEW row0, NEW busy0, DemandOK(demand[r], r, row0, busy0),
         demand[r].at \in {"kept", "waits"}, v = NoGrid => ~ demand[r].known \/ demand[r].unread
  PROVE  DemandOK(Given(r, v), r, row, busy)
  <1> DEFINE d == demand[r]
             z == IF v = NoGrid THEN "" ELSE resolveDeliveryZone(textOf[r], gridOf[v])
  <1>1. d = [at |-> d.at, on |-> d.on, grid |-> d.grid, zone |-> d.zone, known |-> d.known,
             least |-> d.least, unread |-> d.unread] /\ d.least = 0
        /\ d.known \in BOOLEAN /\ d.unread \in BOOLEAN
    BY DEF DemandOK
  <1>2. Given(r, v) = [at |-> IF v = NoGrid THEN "refused" ELSE "served", on |-> d.on,
                       grid |-> v, zone |-> z, known |-> d.known, least |-> d.least,
                       unread |-> d.unread]
    <2>1. Given(r, v) = [d EXCEPT !.at = IF v = NoGrid THEN "refused" ELSE "served",
                                  !.grid = v, !.zone = z]
      BY DEF Given
    <2> HIDE DEF d, z
    <2>2. QED BY <1>1, <2>1
  <1>3. v \in Nat
    BY VersionsAreNumbers
  <1>4. z = IF v = NoGrid THEN "" ELSE ZoneOf(r, v)
    BY DEF ZoneOf
  <1> HIDE DEF z, d
  <1>5. CASE v = NoGrid
    <2>1. ~ d.known \/ d.unread
      BY <1>5 DEF d
    <2>2. QED BY <1>1, <1>2, <1>5, <2>1 DEF DemandOK, DemandStages
  <1>6. CASE v # NoGrid
    BY <1>1, <1>2, <1>3, <1>4, <1>6 DEF DemandOK, DemandStages, NoGrid
  <1>7. QED BY <1>5, <1>6

\* A request that does not move keeps what is known of it while the row keeps a grid and
\* the refresh it waits for goes on.
LEMMA DemandKeeps ==
  ASSUME NEW d, NEW r, NEW row, NEW row0, NEW busy, NEW busy0, DemandOK(d, r, row0, busy0),
         row0 # NoGrid => row # NoGrid,
         d.at = "waits" /\ busy0[d.on] # Unused => busy[d.on] # Unused
  PROVE  DemandOK(d, r, row, busy)
  BY DEF DemandOK

\* A refresh starts on an instance that has none, or the one there goes on.
LEMMA RefreshStarts ==
  ASSUME GridInv, NEW r \in Demands, NEW i \in Instances, refresh[r].at = "idle",
         refreshGrid(r, i)
  PROVE  /\ refreshing' \in [Instances -> Demands \cup {Unused}]
         /\ refresh' \in [Demands -> RefreshRecord]
         /\ refreshing'[i] # Unused
         /\ \A j \in Instances : refreshing[j] # Unused => refreshing'[j] = refreshing[j]
         /\ \A q \in Demands : RefreshOK(refresh'[q], q, refreshing', newest)
         /\ \A q \in Demands : refresh'[q].at = "answered" => refresh'[q].grid <= published
  <1>1. CASE refreshing[i] # Unused
    BY <1>1 DEF refreshGrid, GridInv, GridTypeOK
  <1>2. CASE refreshing[i] = Unused
    <2>1. refreshing' = [refreshing EXCEPT ![i] = r]
          /\ refresh' = [refresh EXCEPT ![r] = [at |-> "asked", on |-> i, grid |-> NoGrid]]
      BY <1>2 DEF refreshGrid
    <2>2. r # Unused
      BY GridAssumption
    <2>3. [at |-> "asked", on |-> i, grid |-> NoGrid] \in RefreshRecord
      BY VersionsAreNumbers DEF RefreshRecord
    <2>4. ASSUME NEW q \in Demands PROVE RefreshOK(refresh'[q], q, refreshing', newest)
      <3>1. CASE q = r
        BY <2>1, <3>1 DEF RefreshOK, GridInv, GridTypeOK
      <3>2. CASE q # r
        <4>1. RefreshOK(refresh[q], q, refreshing, newest)
          BY DEF GridInv
        <4>2. refresh'[q] = refresh[q] /\ q # Unused
          BY <2>1, <3>2, GridAssumption DEF GridInv, GridTypeOK
        <4>3. QED BY <1>2, <2>1, <4>1, <4>2 DEF RefreshOK, GridInv, GridTypeOK
      <3>3. QED BY <3>1, <3>2
    <2>5. \A q \in Demands : refresh'[q].at = "answered" => refresh'[q].grid <= published
      BY <2>1 DEF GridInv, GridTypeOK
    <2>6. QED BY <1>2, <2>1, <2>2, <2>3, <2>4, <2>5 DEF GridInv, GridTypeOK
  <1>3. QED BY <1>1, <1>2

\* The refresh of q goes on, on another instance than that of r.
StillRefreshes(q, r) ==
  /\ refresh'[q] = refresh[q] /\ refresh[q].on # refresh[r].on
  /\ RefreshOK(refresh[q], q, refreshing, newest)
  /\ refreshing'[refresh[q].on] = refreshing[refresh[q].on]

\* The end of a refresh gives all those who waited on its instance the same grid.
LEMMA EndGivesAll ==
  ASSUME GridInv, NEW r \in Demands, NEW v \in AnyVersion, NEW row, refresh[r].at # "idle",
         gridRow # NoGrid => row # NoGrid, RefreshEnds(r, v)
  PROVE  /\ refreshing' \in [Instances -> Demands \cup {Unused}]
         /\ refresh' \in [Demands -> RefreshRecord] /\ DOMAIN demand' = Demands
         /\ \A q \in Demands : DemandOK(demand'[q], q, row, refreshing')
         /\ \A q \in Demands : refresh'[q].at # "idle" => StillRefreshes(q, r)
  <1> DEFINE i == refresh[r].on
  <1>1. i \in Instances /\ refreshing[i] = r
    BY DEF GridInv, RefreshOK
  <1>2. /\ refresh' = [refresh EXCEPT ![r] = NoRefresh]
        /\ refreshing' = [refreshing EXCEPT ![i] = Unused]
    BY <1>1 DEF RefreshEnds, GridInv, GridTypeOK
  <1>3. NoRefresh \in RefreshRecord
    BY VersionsAreNumbers DEF NoRefresh, RefreshRecord
  <1>4. ASSUME NEW q \in Demands PROVE DemandOK(demand'[q], q, row, refreshing')
    <2>1. DemandOK(demand[q], q, gridRow, refreshing)
      BY DEF GridInv
    <2>2. CASE demand[q].at = "waits" /\ demand[q].on = i
      <3>1. demand'[q] = Given(q, v)
        BY <2>2 DEF RefreshEnds
      <3>2. ~ demand[q].known \/ demand[q].unread
        BY <2>1, <2>2 DEF DemandOK
      <3>3. QED BY <2>1, <2>2, <3>1, <3>2, GivenIsOK
    <2>3. CASE ~ (demand[q].at = "waits" /\ demand[q].on = i)
      <3>1. demand'[q] = demand[q]
        BY <2>3 DEF RefreshEnds
      <3>2. demand[q].at = "waits" /\ refreshing[demand[q].on] # Unused =>
              refreshing'[demand[q].on] # Unused
        BY <1>2, <2>1, <2>3 DEF DemandOK, GridInv, GridTypeOK
      <3>3. QED BY <2>1, <3>1, <3>2, DemandKeeps
    <2>4. QED BY <2>2, <2>3
  <1>5. ASSUME NEW q \in Demands, refresh'[q].at # "idle"
        PROVE  StillRefreshes(q, r)
    <2>1. q # r
      BY <1>2, <1>5 DEF GridInv, GridTypeOK, NoRefresh
    <2>2. refresh'[q] = refresh[q]
      BY <1>2, <2>1 DEF GridInv, GridTypeOK
    <2>3. RefreshOK(refresh[q], q, refreshing, newest)
      BY DEF GridInv
    <2>4. refreshing[refresh[q].on] = q /\ refresh[q].on \in Instances
      BY <1>5, <2>2, <2>3 DEF RefreshOK
    <2>5. refresh[q].on # i
      BY <1>1, <2>1, <2>4
    <2>6. refreshing'[refresh[q].on] = refreshing[refresh[q].on]
      BY <1>2, <2>4, <2>5 DEF GridInv, GridTypeOK
    <2>7. QED
      BY <2>2, <2>3, <2>5, <2>6 DEF StillRefreshes
  <1>6. /\ refreshing' \in [Instances -> Demands \cup {Unused}]
        /\ refresh' \in [Demands -> RefreshRecord]
    BY <1>2, <1>3 DEF GridInv, GridTypeOK
  <1>7. DOMAIN demand' = Demands
    BY DEF RefreshEnds
  <1>8. QED BY <1>4, <1>5, <1>6, <1>7

\* What the copies of an instance say after an older one has replaced a newer.
LEMMA HoldsIsOK ==
  ASSUME GridInv, NEW i \in Instances, NEW v \in AnyVersion, Holds(i, v)
  PROVE  /\ cachedGrid' \in [Instances -> CopyRow] /\ newest' = newest
         /\ \A j \in Instances : j \notin overtaken' => cachedGrid'[j].grid >= newest'[j]
  <1>1. /\ cachedGrid' = [cachedGrid EXCEPT ![i] = [grid |-> v, fresh |-> FALSE]]
        /\ overtaken' = IF v < newest[i] THEN overtaken \cup {i} ELSE overtaken
        /\ newest' = newest
    BY DEF Holds
  <1>2. cachedGrid' \in [Instances -> CopyRow]
    BY <1>1 DEF CopyRow, GridInv, GridTypeOK
  <1>3. ASSUME NEW j \in Instances, j \notin overtaken' PROVE cachedGrid'[j].grid >= newest'[j]
    <2>1. v \in Nat /\ newest[i] \in Nat
      BY VersionsAreNumbers DEF GridInv, GridTypeOK
    <2>2. CASE j = i
      BY <1>1, <1>3, <2>1, <2>2 DEF GridInv, GridTypeOK
    <2>3. CASE j # i
      BY <1>1, <1>3, <2>3 DEF GridInv, GridTypeOK
    <2>4. QED BY <2>2, <2>3
  <1>4. QED BY <1>1, <1>2, <1>3

\* One request moves; the others keep what is known of them.
LEMMA OneDemandMoves ==
  ASSUME GridInv, NEW r \in Demands, NEW d, demand' = [demand EXCEPT ![r] = d],
         gridRow' = gridRow, DemandOK(d, r, gridRow', refreshing'),
         \A j \in Instances : refreshing[j] # Unused => refreshing'[j] # Unused
  PROVE  /\ DOMAIN demand' = Demands
         /\ \A q \in Demands : DemandOK(demand'[q], q, gridRow', refreshing')
  <1>1. ASSUME NEW q \in Demands PROVE DemandOK(demand'[q], q, gridRow', refreshing')
    <2>1. CASE q = r
      BY <2>1 DEF GridInv, GridTypeOK
    <2>2. CASE q # r
      <3>1. demand'[q] = demand[q]
        BY <2>2 DEF GridInv, GridTypeOK
      <3>2. DemandOK(demand[q], q, gridRow, refreshing)
        BY DEF GridInv
      <3>3. demand[q].at = "waits" => demand[q].on \in Instances
        BY <3>2 DEF DemandOK
      <3>4. QED BY <3>1, <3>2, <3>3, DemandKeeps
    <2>3. QED BY <2>1, <2>2
  <1>2. QED BY <1>1 DEF GridInv, GridTypeOK

\* A request that leaves the stages where the row is read may leave a refresh.
LEMMA OthersRefresh ==
  ASSUME GridInv, NEW r \in Demands, NEW i, NEW d, d.at \notin {"reads", "kept"},
         demand' = [demand EXCEPT ![r] = d],
         refreshGrid(r, i) \/ UNCHANGED <<refreshing, refresh>>
  PROVE  \A q \in Demands : demand'[q].at \in {"reads", "kept"} => refresh'[q].at = "idle"
  <1> SUFFICES ASSUME NEW q \in Demands, demand'[q].at \in {"reads", "kept"}
      PROVE refresh'[q].at = "idle"
    OBVIOUS
  <1>1. q # r /\ demand'[q] = demand[q]
    BY DEF GridInv, GridTypeOK
  <1>2. refresh'[q] = refresh[q]
    BY <1>1 DEF refreshGrid, GridInv, GridTypeOK
  <1>3. QED BY <1>1, <1>2 DEF GridInv

\* The record of a request, at each of its beginnings.
LEMMA BlankDemand ==
  NoDemand = [at |-> "idle", on |-> Unused, grid |-> NoGrid, zone |-> "", known |-> FALSE,
              least |-> NoGrid, unread |-> FALSE]
  BY DEF NoDemand

LEMMA AskedQuoted ==
  \A d, v, z :
    d = [NoDemand EXCEPT !.at = "quoted", !.grid = v, !.zone = z] =>
    d = [at |-> "quoted", on |-> Unused, grid |-> v, zone |-> z, known |-> FALSE,
         least |-> NoGrid, unread |-> FALSE]
  <1> SUFFICES ASSUME NEW d, NEW v, NEW z,
                      d = [NoDemand EXCEPT !.at = "quoted", !.grid = v, !.zone = z]
      PROVE d = [at |-> "quoted", on |-> Unused, grid |-> v, zone |-> z, known |-> FALSE,
         least |-> NoGrid, unread |-> FALSE]
    OBVIOUS
  <1> QED BY BlankDemand

LEMMA AskedUnquoted ==
  [NoDemand EXCEPT !.at = "unquoted"] =
    [at |-> "unquoted", on |-> Unused, grid |-> NoGrid, zone |-> "", known |-> FALSE,
     least |-> NoGrid, unread |-> FALSE]
  <1> DEFINE d == [NoDemand EXCEPT !.at = "unquoted"]
  <1>1. d = [NoDemand EXCEPT !.at = "unquoted"]
    OBVIOUS
  <1> HIDE DEF d
  <1>2. d = [at |-> "unquoted", on |-> Unused, grid |-> NoGrid, zone |-> "", known |-> FALSE,
             least |-> NoGrid, unread |-> FALSE]
    BY <1>1, BlankDemand
  <1>3. QED BY <1>1, <1>2

\* An order without a copy asks the row, with one it is served.
LEMMA OrdersAsk ==
  ASSUME GridInv, NEW r \in Demands, NEW i \in Instances, deliveryGrid(r, i)
  PROVE  GridInv'
  <1> DEFINE held == cachedGrid[i]
             known == held.grid # NoGrid \/ gridRow # NoGrid
             least == IF i \in overtaken THEN NoGrid ELSE newest[i]
             reads == [at |-> "reads", on |-> i, grid |-> NoGrid, zone |-> "",
                       known |-> known, least |-> least, unread |-> FALSE]
             served == [at |-> "served", on |-> i, grid |-> held.grid, zone |-> ZoneOf(r, held.grid),
                        known |-> known, least |-> least, unread |-> FALSE]
  <1>1. /\ refresh[r].at = "idle"
        /\ demand' = [demand EXCEPT ![r] = IF held.grid = NoGrid THEN reads ELSE served]
        /\ UNCHANGED <<published, gridRow, cachedGrid, newest, overtaken>>
    <2> DEFINE asked == [NoDemand EXCEPT !.on = i, !.known = known, !.least = least]
    <2>1. demand' = [demand EXCEPT ![r] =
                       IF held.grid = NoGrid THEN [asked EXCEPT !.at = "reads"]
                       ELSE [asked EXCEPT !.at = "served", !.grid = held.grid,
                               !.zone = ZoneOf(r, held.grid)]]
      BY DEF deliveryGrid, ZoneOf
    <2>2. ASSUME NEW d, d = [asked EXCEPT !.at = "reads"]
          PROVE  d = reads
      <3> HIDE DEF known, least
      <3>1. QED BY <2>2, BlankDemand
    <2>3. ASSUME NEW d, d = [asked EXCEPT !.at = "served", !.grid = held.grid,
                                          !.zone = ZoneOf(r, held.grid)]
          PROVE  d = served
      <3> HIDE DEF known, least, held
      <3>1. QED BY <2>3, BlankDemand
    <2>4. [asked EXCEPT !.at = "reads"] = reads
      BY <2>2, Zenon
    <2>5. [asked EXCEPT !.at = "served", !.grid = held.grid, !.zone = ZoneOf(r, held.grid)]
            = served
      BY <2>3, Zenon
    <2> HIDE DEF asked, held, reads, served
    <2>6. QED BY <2>1, <2>4, <2>5 DEF deliveryGrid
  <1>2. /\ refreshing' \in [Instances -> Demands \cup {Unused}]
        /\ refresh' \in [Demands -> RefreshRecord]
        /\ \A j \in Instances : refreshing[j] # Unused => refreshing'[j] # Unused
        /\ \A q \in Demands : RefreshOK(refresh'[q], q, refreshing', newest)
        /\ \A q \in Demands : refresh'[q].at = "answered" => refresh'[q].grid <= published
    <2>1. CASE refreshGrid(r, i)
      BY <1>1, <2>1, RefreshStarts
    <2>2. CASE UNCHANGED <<refreshing, refresh>>
      BY <2>2 DEF GridInv, GridTypeOK
    <2>3. QED BY <2>1, <2>2 DEF deliveryGrid
  <1>3. /\ held.grid \in AnyVersion /\ held.grid \in Nat /\ newest[i] \in Nat
        /\ i \notin overtaken => held.grid >= newest[i]
    BY VersionsAreNumbers DEF GridInv, GridTypeOK, CopyRow
  <1>4. least \in Nat /\ known \in BOOLEAN /\ held.grid >= least
        /\ (held.grid = NoGrid => least = 0)
    BY <1>3 DEF NoGrid
  <1> HIDE DEF held, known, least
  <1>5. CASE held.grid = NoGrid
    <2>1. known => gridRow # NoGrid
      BY <1>5 DEF known, held
    <2>2. DemandOK(reads, r, gridRow', refreshing')
      BY <1>1, <1>4, <1>5, <2>1, VersionsAreNumbers DEF DemandOK, DemandStages
    <2>3. demand' = [demand EXCEPT ![r] = reads]
      BY <1>1, <1>5
    <2> HIDE DEF reads
    <2>4. DOMAIN demand' = Demands /\ \A q \in Demands : DemandOK(demand'[q], q, gridRow', refreshing')
      BY <1>1, <1>2, <2>2, <2>3, OneDemandMoves
    <2>5. refresh' = refresh
      BY <1>5 DEF deliveryGrid, held
    <2>6. \A q \in Demands : demand'[q].at \in {"reads", "kept"} => refresh'[q].at = "idle"
      BY <1>1, <2>3, <2>5 DEF GridInv, GridTypeOK
    <2>7. QED BY <1>1, <1>2, <2>4, <2>6 DEF GridInv, GridTypeOK
  <1>6. CASE held.grid # NoGrid
    <2>1. DemandOK(served, r, gridRow', refreshing')
      BY <1>3, <1>4, <1>6 DEF DemandOK, DemandStages
    <2>2. demand' = [demand EXCEPT ![r] = served]
      BY <1>1, <1>6
    <2>3. \A q \in Demands : demand'[q].at \in {"reads", "kept"} => refresh'[q].at = "idle"
      BY <2>2, OthersRefresh DEF deliveryGrid
    <2> HIDE DEF served
    <2>4. DOMAIN demand' = Demands /\ \A q \in Demands : DemandOK(demand'[q], q, gridRow', refreshing')
      BY <1>1, <1>2, <2>1, <2>2, OneDemandMoves
    <2>5. QED BY <1>1, <1>2, <2>3, <2>4 DEF GridInv, GridTypeOK
  <1>7. QED BY <1>5, <1>6

\* What the row said is kept in memory, or the order waits for the site.
LEMMA RowIsKept ==
  ASSUME GridInv, NEW r \in Demands, lastKnownGrid(r)
  PROVE  GridInv'
  <1> DEFINE i == demand[r].on
             v == demand[r].grid
  <1>1. DemandOK(demand[r], r, gridRow, refreshing) /\ demand[r].at = "kept"
    BY DEF GridInv, lastKnownGrid
  <1>2. i \in Instances /\ v \in AnyVersion /\ (v = NoGrid => ~ demand[r].known \/ demand[r].unread)
    BY <1>1 DEF DemandOK
  <1>3. /\ refreshing' \in [Instances -> Demands \cup {Unused}]
        /\ refresh' \in [Demands -> RefreshRecord] /\ refreshing'[i] # Unused
        /\ \A j \in Instances : refreshing[j] # Unused => refreshing'[j] # Unused
        /\ \A q \in Demands : RefreshOK(refresh'[q], q, refreshing', newest)
        /\ \A q \in Demands : refresh'[q].at = "answered" => refresh'[q].grid <= published
    <2>1. refresh[r].at = "idle" /\ refreshGrid(r, i)
      BY <1>1 DEF GridInv, lastKnownGrid
    <2>2. QED BY <1>2, <2>1, RefreshStarts
  <1>4. CASE v = NoGrid
    <2> DEFINE d == [demand[r] EXCEPT !.at = "waits"]
    <2>1. demand' = [demand EXCEPT ![r] = d]
          /\ UNCHANGED <<published, gridRow, cachedGrid, newest, overtaken>>
      BY <1>4 DEF lastKnownGrid
    <2>2. DemandOK(d, r, gridRow', refreshing')
      BY <1>1, <1>2, <1>3, <1>4, <2>1 DEF DemandOK, DemandStages
    <2>3. d.at \notin {"reads", "kept"}
      BY <1>1 DEF DemandOK
    <2> HIDE DEF d
    <2>4. DOMAIN demand' = Demands /\ \A q \in Demands : DemandOK(demand'[q], q, gridRow', refreshing')
      BY <1>3, <2>1, <2>2, OneDemandMoves
    <2>5. \A q \in Demands : demand'[q].at \in {"reads", "kept"} => refresh'[q].at = "idle"
      BY <2>1, <2>3, OthersRefresh DEF lastKnownGrid
    <2>6. QED BY <1>3, <2>1, <2>4, <2>5 DEF GridInv, GridTypeOK
  <1>5. CASE v # NoGrid
    <2>1. demand' = [demand EXCEPT ![r] = Given(r, v)] /\ Holds(i, v)
          /\ UNCHANGED <<published, gridRow>>
      BY <1>5 DEF lastKnownGrid
    <2>2. DemandOK(Given(r, v), r, gridRow', refreshing')
      BY <1>1, <1>2, GivenIsOK
    <2>3. DOMAIN demand' = Demands /\ \A q \in Demands : DemandOK(demand'[q], q, gridRow', refreshing')
      BY <1>3, <2>1, <2>2, OneDemandMoves
    <2>4. /\ cachedGrid' \in [Instances -> CopyRow] /\ newest' = newest
          /\ \A j \in Instances : j \notin overtaken' => cachedGrid'[j].grid >= newest'[j]
      BY <1>2, <2>1, HoldsIsOK
    <2>5. \A q \in Demands : demand'[q].at \in {"reads", "kept"} => refresh'[q].at = "idle"
      <3>1. Given(r, v).at \notin {"reads", "kept"}
        BY <1>1 DEF DemandOK, Given
      <3>2. QED BY <2>1, <3>1, OthersRefresh DEF lastKnownGrid
    <2>6. QED BY <1>3, <2>1, <2>3, <2>4, <2>5 DEF GridInv, GridTypeOK
  <1>6. QED BY <1>4, <1>5

\* The other moves of a request leave the copies and the refreshes alone.
LEMMA RequestMoves ==
  ASSUME GridInv, NEW r \in Demands, NEW d, demand' = [demand EXCEPT ![r] = d],
         UNCHANGED <<published, gridRow, cachedGrid, refreshing, refresh, newest, overtaken>>,
         DemandOK(d, r, gridRow, refreshing),
         d.at \in {"reads", "kept"} => refresh[r].at = "idle"
  PROVE  GridInv'
  <1>1. DOMAIN demand' = Demands /\ \A q \in Demands : DemandOK(demand'[q], q, gridRow', refreshing')
    BY OneDemandMoves
  <1>2. \A q \in Demands : demand'[q].at \in {"reads", "kept"} => refresh'[q].at = "idle"
    BY DEF GridInv, GridTypeOK
  <1>3. QED BY <1>1, <1>2 DEF GridInv, GridTypeOK

LEMMA RowReadOK ==
  ASSUME GridInv, NEW r \in Demands, RowRead(r)
  PROVE  GridInv'
  <1>0. PICK v \in RowSays :
          demand' = [demand EXCEPT ![r].at = "kept", ![r].grid = v, ![r].unread = (v # gridRow)]
    BY DEF RowRead
  <1> DEFINE d == [demand[r] EXCEPT !.at = "kept", !.grid = v, !.unread = (v # gridRow)]
  <1>1. demand' = [demand EXCEPT ![r] = d]
        /\ UNCHANGED <<published, gridRow, cachedGrid, refreshing, refresh, newest, overtaken>>
    BY <1>0 DEF RowRead
  <1>2. DemandOK(demand[r], r, gridRow, refreshing) /\ demand[r].at = "reads"
    BY DEF GridInv, RowRead
  <1>3. gridRow \in AnyVersion /\ v \in AnyVersion
    BY VersionsAreNumbers DEF GridInv, GridTypeOK, RowSays
  <1>4. DemandOK(d, r, gridRow, refreshing)
    <2> DEFINE old == demand[r]
               failed == v # gridRow
    <2>1. old = [at |-> old.at, on |-> old.on, grid |-> old.grid, zone |-> old.zone,
                 known |-> old.known, least |-> old.least, unread |-> old.unread]
      BY <1>2 DEF DemandOK
    <2>2. /\ old.known \in BOOLEAN /\ old.on \in Instances /\ old.least = 0
          /\ old.known => gridRow # NoGrid
      BY <1>2 DEF DemandOK
    <2>3. d = [old EXCEPT !.at = "kept", !.grid = v, !.unread = failed]
      OBVIOUS
    <2>4. failed \in BOOLEAN /\ (gridRow # NoGrid => v # NoGrid \/ failed)
      OBVIOUS
    <2> HIDE DEF old, d, failed
    <2>5. d = [at |-> "kept", on |-> old.on, grid |-> v, zone |-> old.zone,
               known |-> old.known, least |-> old.least, unread |-> failed]
      BY <2>1, <2>3
    <2>6. QED BY <1>3, <2>2, <2>4, <2>5 DEF DemandOK, DemandStages
  <1>5. refresh[r].at = "idle"
    BY <1>2 DEF GridInv
  <1> HIDE DEF d
  <1>6. QED BY <1>1, <1>4, <1>5, RequestMoves

LEMMA NothingKnownOK ==
  \A r, row, busy : DemandOK(NoDemand, r, row, busy) /\ NoDemand.at = "idle"
  BY VersionsAreNumbers DEF DemandOK, NoDemand, DemandStages, NoGrid

LEMMA AnsweredOK ==
  ASSUME GridInv, NEW r \in Demands, Answered(r)
  PROVE  GridInv'
  <1>1. demand' = [demand EXCEPT ![r] = NoDemand]
        /\ UNCHANGED <<published, gridRow, cachedGrid, refreshing, refresh, newest, overtaken>>
    BY DEF Answered
  <1>2. QED BY <1>1, NothingKnownOK, RequestMoves

LEMMA QuotesRead ==
  ASSUME GridInv, NEW r \in Demands, readDeliveryGrid(r)
  PROVE  GridInv'
  <1>0. PICK v \in RowSays :
          demand' = [demand EXCEPT ![r] =
            IF v = NoGrid THEN [NoDemand EXCEPT !.at = "unquoted"]
            ELSE [NoDemand EXCEPT !.at = "quoted", !.grid = v,
                    !.zone = resolveDeliveryZone(textOf[r], gridOf[v])]]
    BY DEF readDeliveryGrid
  <1> DEFINE blank == [at |-> "unquoted", on |-> Unused, grid |-> NoGrid, zone |-> "",
                       known |-> FALSE, least |-> NoGrid, unread |-> FALSE]
             quoted == [at |-> "quoted", on |-> Unused, grid |-> v, zone |-> ZoneOf(r, v),
                        known |-> FALSE, least |-> NoGrid, unread |-> FALSE]
  <1>1. demand' = [demand EXCEPT ![r] = IF v = NoGrid THEN blank ELSE quoted]
        /\ UNCHANGED <<published, gridRow, cachedGrid, refreshing, refresh, newest, overtaken>>
    <2>1. ASSUME NEW d, d = [NoDemand EXCEPT !.at = "quoted", !.grid = v, !.zone = ZoneOf(r, v)]
          PROVE  d = quoted
      BY <2>1, AskedQuoted
    <2>2. [NoDemand EXCEPT !.at = "quoted", !.grid = v, !.zone = ZoneOf(r, v)] = quoted
      BY <2>1, Zenon
    <2>3. [NoDemand EXCEPT !.at = "unquoted"] = blank
      BY AskedUnquoted, Zenon
    <2> HIDE DEF blank, quoted
    <2>4. QED BY <1>0, <2>2, <2>3, Zenon DEF readDeliveryGrid, ZoneOf
  <1>2. v \in AnyVersion
    BY VersionsAreNumbers DEF GridInv, GridTypeOK, RowSays
  <1>3. DemandOK(blank, r, gridRow, refreshing) /\ blank.at = "unquoted"
    BY VersionsAreNumbers DEF DemandOK, DemandStages, NoGrid
  <1>4. v # NoGrid => DemandOK(quoted, r, gridRow, refreshing) /\ quoted.at = "quoted"
    BY <1>2 DEF DemandOK, DemandStages, NoGrid
  <1> HIDE DEF blank, quoted
  <1>5. CASE v = NoGrid
    <2>1. demand' = [demand EXCEPT ![r] = blank]
      BY <1>1, <1>5
    <2>2. QED BY <1>1, <1>3, <2>1, RequestMoves
  <1>6. CASE v # NoGrid
    <2>1. demand' = [demand EXCEPT ![r] = quoted]
      BY <1>1, <1>6
    <2>2. QED BY <1>1, <1>4, <1>6, <2>1, RequestMoves
  <1>7. QED BY <1>5, <1>6

\* The copies and the requests once a refresh has ended.
LEMMA RefreshOver ==
  ASSUME GridInv, NEW r \in Demands, NEW v \in AnyVersion, refresh[r].at # "idle",
         RefreshEnds(r, v), published' = published, newest' = newest,
         gridRow' \in AnyVersion, gridRow # NoGrid => gridRow' # NoGrid,
         cachedGrid' \in [Instances -> CopyRow],
         \A i \in Instances : i \notin overtaken' => cachedGrid'[i].grid >= newest'[i]
  PROVE  GridInv'
  <1>1. /\ refreshing' \in [Instances -> Demands \cup {Unused}]
        /\ refresh' \in [Demands -> RefreshRecord] /\ DOMAIN demand' = Demands
        /\ \A q \in Demands : DemandOK(demand'[q], q, gridRow', refreshing')
        /\ \A q \in Demands : refresh'[q].at # "idle" => StillRefreshes(q, r)
    BY EndGivesAll
  <1>2. ASSUME NEW q \in Demands
        PROVE  /\ RefreshOK(refresh'[q], q, refreshing', newest')
               /\ refresh'[q].at = "answered" => refresh'[q].grid <= published'
    <2>1. CASE refresh'[q].at = "idle"
      BY <2>1 DEF RefreshOK
    <2>2. CASE refresh'[q].at # "idle"
      BY <1>1, <2>2 DEF StillRefreshes, RefreshOK, GridInv
    <2>3. QED BY <2>1, <2>2
  <1>3. ASSUME NEW q \in Demands, demand'[q].at \in {"reads", "kept"}
        PROVE  refresh'[q].at = "idle"
    <2>1. demand'[q] = demand[q]
      <3>1. CASE demand[q].at = "waits" /\ demand[q].on = refresh[r].on
        <4>1. demand'[q] = Given(q, v)
          BY <3>1 DEF RefreshEnds
        <4>2. DemandOK(demand[q], q, gridRow, refreshing)
          BY DEF GridInv
        <4>3. Given(q, v).at \in {"refused", "served"}
          BY <4>2 DEF Given, DemandOK
        <4>4. QED BY <1>3, <4>1, <4>3
      <3>2. CASE ~ (demand[q].at = "waits" /\ demand[q].on = refresh[r].on)
        BY <3>2 DEF RefreshEnds
      <3>3. QED BY <3>1, <3>2
    <2>2. refresh[q].at = "idle"
      BY <1>3, <2>1 DEF GridInv
    <2>3. QED BY <1>1, <2>2 DEF StillRefreshes
  <1>4. QED BY <1>1, <1>2, <1>3 DEF GridInv, GridTypeOK

LEMMA SiteAnswersOK ==
  ASSUME GridInv, NEW r \in Demands, SiteAnswers(r)
  PROVE  GridInv'
  <1>1. /\ refresh[r].at = "asked"
        /\ refresh' = [refresh EXCEPT ![r].at = "answered", ![r].grid = published]
        /\ UNCHANGED <<published, gridRow, cachedGrid, refreshing, demand, newest, overtaken>>
    BY DEF SiteAnswers
  <1>2. published \in AnyVersion /\ published # NoGrid
    BY VersionsAreNumbers DEF GridInv, GridTypeOK, AnyVersion
  <1>3. refresh' \in [Demands -> RefreshRecord]
    BY <1>1, <1>2 DEF GridInv, GridTypeOK, RefreshRecord
  <1>4. ASSUME NEW q \in Demands
        PROVE  /\ RefreshOK(refresh'[q], q, refreshing', newest')
               /\ refresh'[q].at = "answered" => refresh'[q].grid <= published'
               /\ refresh[q].at = "idle" => refresh'[q].at = "idle"
    <2>1. RefreshOK(refresh[q], q, refreshing, newest)
      BY DEF GridInv
    <2>2. CASE q = r
      <3>1. /\ refresh'[r].at = "answered" /\ refresh'[r].grid = published
            /\ refresh'[r].on = refresh[r].on
        BY <1>1 DEF GridInv, GridTypeOK, RefreshRecord
      <3>2. refresh[r].on \in Instances /\ refreshing[refresh[r].on] = r
        BY <1>1, <2>1, <2>2 DEF RefreshOK
      <3>3. published \in Nat /\ newest[refresh[r].on] <= published
        BY <3>2, VersionsAreNumbers DEF GridInv, GridTypeOK
      <3>4. newest[refresh[r].on] \in Nat
        BY <3>2 DEF GridInv, GridTypeOK
      <3>5. QED BY <1>1, <1>2, <2>2, <3>1, <3>2, <3>3, <3>4 DEF RefreshOK
    <2>3. CASE q # r
      <3>1. refresh'[q] = refresh[q]
        BY <1>1, <2>3 DEF GridInv, GridTypeOK
      <3>2. QED BY <1>1, <2>1, <3>1 DEF GridInv
    <2>4. QED BY <2>2, <2>3
  <1>5. ASSUME NEW q \in Demands PROVE DemandOK(demand'[q], q, gridRow', refreshing')
    BY <1>1 DEF GridInv
  <1>6. QED BY <1>1, <1>3, <1>4, <1>5 DEF GridInv, GridTypeOK

LEMMA FetchGridOK ==
  ASSUME GridInv, NEW r \in Demands, fetchGrid(r)
  PROVE  GridInv'
  <1> DEFINE i == refresh[r].on
             v == refresh[r].grid
  <1>1. /\ refresh[r].at = "answered"
        /\ cachedGrid' = [cachedGrid EXCEPT ![i] = [grid |-> v, fresh |-> TRUE]]
        /\ newest' = [newest EXCEPT ![i] = IF v > @ THEN v ELSE @]
        /\ overtaken' = overtaken \ {i}
        /\ refresh' = [refresh EXCEPT ![r].at = "remembers"]
        /\ UNCHANGED <<published, gridRow, refreshing, demand>>
    BY DEF fetchGrid
  <1>2. /\ i \in Instances /\ refreshing[i] = r /\ v \in AnyVersion /\ v \in Nat /\ v # NoGrid
        /\ v >= newest[i] /\ v <= published /\ newest[i] \in Nat /\ published \in Nat
    <2>1. RefreshOK(refresh[r], r, refreshing, newest)
      BY DEF GridInv
    <2>2. refresh[r] \in RefreshRecord /\ newest \in [Instances -> Nat] /\ published \in Nat
      BY VersionsAreNumbers DEF GridInv, GridTypeOK
    <2>3. QED BY <1>1, <2>1, <2>2, VersionsAreNumbers DEF RefreshOK, RefreshRecord, GridInv
  <1>3. newest' = [newest EXCEPT ![i] = v]
    <2>1. (IF v > newest[i] THEN v ELSE newest[i]) = v
      BY <1>2
    <2>2. QED BY <1>1, <2>1
  <1> HIDE DEF i, v
  <1>4. cachedGrid' \in [Instances -> CopyRow] /\ newest' \in [Instances -> Nat]
        /\ refresh' \in [Demands -> RefreshRecord]
    <2>1. [grid |-> v, fresh |-> TRUE] \in CopyRow
      BY <1>2 DEF CopyRow
    <2>2. cachedGrid' \in [Instances -> CopyRow]
      BY <1>1, <2>1 DEF GridInv, GridTypeOK
    <2>3. newest' \in [Instances -> Nat]
      BY <1>2, <1>3 DEF GridInv, GridTypeOK
    <2>4. refresh' \in [Demands -> RefreshRecord]
      BY <1>1 DEF GridInv, GridTypeOK, RefreshRecord
    <2>5. QED BY <2>2, <2>3, <2>4
  <1>5. ASSUME NEW j \in Instances
        PROVE  /\ newest'[j] <= published'
               /\ j \notin overtaken' => cachedGrid'[j].grid >= newest'[j]
    <2>1. CASE j = i
      BY <1>1, <1>2, <1>3, <2>1 DEF GridInv, GridTypeOK
    <2>2. CASE j # i
      BY <1>1, <1>3, <2>2 DEF GridInv, GridTypeOK
    <2>3. QED BY <2>1, <2>2
  <1>6. ASSUME NEW q \in Demands
        PROVE  /\ RefreshOK(refresh'[q], q, refreshing', newest')
               /\ refresh'[q].at = "answered" => refresh'[q].grid <= published'
               /\ refresh[q].at = "idle" => refresh'[q].at = "idle"
    <2>1. RefreshOK(refresh[q], q, refreshing, newest)
      BY DEF GridInv
    <2>2. CASE q = r
      <3>1. refresh'[q].at = "remembers" /\ refresh'[q].on = i /\ refresh'[q].grid = v
        BY <1>1, <2>2 DEF GridInv, GridTypeOK, RefreshRecord, i, v
      <3>2. QED BY <1>1, <1>2, <2>2, <3>1 DEF RefreshOK
    <2>3. CASE q # r
      <3>1. refresh'[q] = refresh[q]
        BY <1>1, <2>3 DEF GridInv, GridTypeOK
      <3>2. refresh[q].at # "idle" => newest'[refresh[q].on] = newest[refresh[q].on]
        BY <1>2, <1>3, <2>1, <2>3 DEF RefreshOK, GridInv, GridTypeOK
      <3>3. QED BY <1>1, <2>1, <3>1, <3>2 DEF RefreshOK, GridInv
    <2>4. QED BY <2>2, <2>3
  <1>7. ASSUME NEW q \in Demands PROVE DemandOK(demand'[q], q, gridRow', refreshing')
    BY <1>1 DEF GridInv
  <1>8. QED BY <1>1, <1>4, <1>5, <1>6, <1>7 DEF GridInv, GridTypeOK

LEMMA RememberGridOK ==
  ASSUME GridInv, NEW r \in Demands, rememberGrid(r)
  PROVE  GridInv'
  <1>1. /\ refresh[r].at = "remembers" /\ gridRow' \in {gridRow, refresh[r].grid}
        /\ RefreshEnds(r, refresh[r].grid)
        /\ UNCHANGED <<published, cachedGrid, newest, overtaken>>
    BY DEF rememberGrid
  <1>2. RefreshOK(refresh[r], r, refreshing, newest) /\ refresh[r] \in RefreshRecord
    BY DEF GridInv, GridTypeOK
  <1>3. refresh[r].grid \in AnyVersion /\ refresh[r].grid # NoGrid
    BY <1>1, <1>2 DEF RefreshOK, RefreshRecord
  <1>4. gridRow' \in AnyVersion /\ (gridRow # NoGrid => gridRow' # NoGrid)
    BY <1>1, <1>3 DEF GridInv, GridTypeOK
  <1>5. cachedGrid' \in [Instances -> CopyRow]
        /\ \A i \in Instances : i \notin overtaken' => cachedGrid'[i].grid >= newest'[i]
    BY <1>1 DEF GridInv, GridTypeOK
  <1>6. QED BY <1>1, <1>3, <1>4, <1>5, RefreshOver

LEMMA SiteSilentOK ==
  ASSUME GridInv, NEW r \in Demands, siteSilent(r)
  PROVE  GridInv'
  <1> DEFINE i == refresh[r].on
  <1>1. refresh[r].at = "asked" /\ UNCHANGED <<published, gridRow, cachedGrid, newest, overtaken>>
    BY DEF siteSilent
  <1>2. i \in Instances
    BY <1>1 DEF GridInv, RefreshOK
  <1>3. cachedGrid[i].grid \in AnyVersion
    BY <1>2 DEF GridInv, GridTypeOK, CopyRow
  <1>4. CASE cachedGrid[i].grid # NoGrid
    <2>1. RefreshEnds(r, cachedGrid[i].grid)
      BY <1>4 DEF siteSilent
    <2>2. QED BY <1>1, <1>3, <2>1, RefreshOver DEF GridInv, GridTypeOK
  <1>5. CASE cachedGrid[i].grid = NoGrid
    <2>0. UNCHANGED <<refreshing, demand>> /\ RowSays \subseteq AnyVersion
      BY <1>5, VersionsAreNumbers DEF siteSilent, RowSays, GridInv, GridTypeOK
    <2>1. PICK v \in AnyVersion :
            refresh' = [refresh EXCEPT ![r].at = "falls back", ![r].grid = v]
      BY <1>5, <2>0 DEF siteSilent
    <2>2. refresh' \in [Demands -> RefreshRecord]
      BY <2>1 DEF GridInv, GridTypeOK, RefreshRecord
    <2>3. ASSUME NEW q \in Demands
          PROVE  /\ RefreshOK(refresh'[q], q, refreshing', newest')
                 /\ refresh'[q].at = "answered" => refresh'[q].grid <= published'
                 /\ refresh[q].at = "idle" => refresh'[q].at = "idle"
      <3>1. RefreshOK(refresh[q], q, refreshing, newest)
        BY DEF GridInv
      <3>2. CASE q = r
        <4>1. refresh'[q].at = "falls back" /\ refresh'[q].on = refresh[q].on
          BY <2>1, <3>2 DEF GridInv, GridTypeOK, RefreshRecord
        <4>2. QED BY <1>1, <2>0, <2>1, <3>1, <3>2, <4>1 DEF RefreshOK
      <3>3. CASE q # r
        <4>1. refresh'[q] = refresh[q]
          BY <2>1, <3>3 DEF GridInv, GridTypeOK
        <4>2. QED BY <1>1, <2>0, <2>1, <3>1, <4>1 DEF GridInv
      <3>4. QED BY <3>2, <3>3
    <2>4. ASSUME NEW q \in Demands PROVE DemandOK(demand'[q], q, gridRow', refreshing')
      BY <1>1, <2>0 DEF GridInv
    <2>5. QED BY <1>1, <2>0, <2>1, <2>2, <2>3, <2>4 DEF GridInv, GridTypeOK
  <1>6. QED BY <1>4, <1>5

LEMMA FallsBackOK ==
  ASSUME GridInv, NEW r \in Demands, fallsBack(r)
  PROVE  GridInv'
  <1> DEFINE i == refresh[r].on
             v == refresh[r].grid
  <1>1. refresh[r].at = "falls back" /\ RefreshEnds(r, v) /\ UNCHANGED <<published, gridRow>>
    BY DEF fallsBack
  <1>2. i \in Instances /\ v \in AnyVersion
    BY <1>1 DEF GridInv, RefreshOK, GridTypeOK, RefreshRecord
  <1>3. /\ cachedGrid' \in [Instances -> CopyRow] /\ newest' = newest
        /\ \A j \in Instances : j \notin overtaken' => cachedGrid'[j].grid >= newest'[j]
    <2>1. CASE v = NoGrid
      BY <2>1 DEF fallsBack, GridInv, GridTypeOK
    <2>2. CASE v # NoGrid
      <3>1. Holds(i, v)
        BY <2>2 DEF fallsBack
      <3>2. QED BY <1>2, <3>1, HoldsIsOK
    <2>3. QED BY <2>1, <2>2
  <1>4. QED BY <1>1, <1>2, <1>3, RefreshOver DEF GridInv, GridTypeOK

LEMMA TimeToLiveOK ==
  ASSUME GridInv, NEW i \in Instances, TimeToLivePasses(i)
  PROVE  GridInv'
  <1>1. /\ cachedGrid' = [cachedGrid EXCEPT ![i].fresh = FALSE]
        /\ UNCHANGED <<published, gridRow, refreshing, refresh, demand, newest, overtaken>>
    BY DEF TimeToLivePasses
  <1>2. cachedGrid' \in [Instances -> CopyRow]
        /\ \A j \in Instances : cachedGrid'[j].grid = cachedGrid[j].grid
    BY <1>1 DEF GridInv, GridTypeOK, CopyRow
  <1>3. QED BY <1>1, <1>2 DEF GridInv, GridTypeOK

LEMMA RestartOK ==
  ASSUME GridInv, NEW i \in Instances, InstanceRestarts(i)
  PROVE  GridInv'
  <1>1. /\ cachedGrid' = [cachedGrid EXCEPT ![i] = [grid |-> NoGrid, fresh |-> FALSE]]
        /\ refreshing' = [refreshing EXCEPT ![i] = Unused]
        /\ refresh' = [r \in Demands |-> IF refresh[r].on = i THEN NoRefresh ELSE refresh[r]]
        /\ demand' = [r \in Demands |-> IF demand[r].on = i THEN NoDemand ELSE demand[r]]
        /\ newest' = [newest EXCEPT ![i] = NoGrid]
        /\ overtaken' = overtaken \ {i}
        /\ UNCHANGED <<published, gridRow>>
    BY DEF InstanceRestarts
  <1>2. /\ cachedGrid' \in [Instances -> CopyRow]
        /\ refreshing' \in [Instances -> Demands \cup {Unused}]
        /\ newest' \in [Instances -> Nat] /\ DOMAIN demand' = Demands
    <2>1. [grid |-> NoGrid, fresh |-> FALSE] \in CopyRow
      BY VersionsAreNumbers DEF CopyRow
    <2>2. QED BY <1>1, <2>1 DEF GridInv, GridTypeOK, NoGrid
  <1>3. refresh' \in [Demands -> RefreshRecord]
    <2>1. NoRefresh \in RefreshRecord
      BY VersionsAreNumbers DEF NoRefresh, RefreshRecord
    <2>2. QED BY <1>1, <2>1 DEF GridInv, GridTypeOK
  <1>4. ASSUME NEW j \in Instances
        PROVE  /\ newest'[j] <= published'
               /\ j \notin overtaken' => cachedGrid'[j].grid >= newest'[j]
    <2>1. CASE j = i
      BY <1>1, <2>1, VersionsAreNumbers DEF GridInv, GridTypeOK, NoGrid
    <2>2. CASE j # i
      BY <1>1, <2>2 DEF GridInv, GridTypeOK
    <2>3. QED BY <2>1, <2>2
  <1>5. ASSUME NEW q \in Demands
        PROVE  /\ RefreshOK(refresh'[q], q, refreshing', newest')
               /\ refresh'[q].at = "answered" => refresh'[q].grid <= published'
               /\ refresh[q].at = "idle" => refresh'[q].at = "idle"
    <2>1. RefreshOK(refresh[q], q, refreshing, newest)
      BY DEF GridInv
    <2>2. CASE refresh[q].on = i
      BY <1>1, <2>2 DEF NoRefresh, RefreshOK
    <2>3. CASE refresh[q].on # i
      <3>1. refresh'[q] = refresh[q]
        BY <1>1, <2>3
      <3>2. refresh[q].at # "idle" =>
              /\ newest'[refresh[q].on] = newest[refresh[q].on]
              /\ refreshing'[refresh[q].on] = refreshing[refresh[q].on]
        BY <1>1, <2>1, <2>3 DEF RefreshOK, GridInv, GridTypeOK
      <3>3. QED BY <1>1, <2>1, <3>1, <3>2 DEF RefreshOK, GridInv
    <2>4. QED BY <2>2, <2>3
  <1>6. ASSUME NEW q \in Demands
        PROVE  /\ DemandOK(demand'[q], q, gridRow', refreshing')
               /\ demand'[q].at \in {"reads", "kept"} => demand'[q] = demand[q]
    <2>1. CASE demand[q].on = i
      BY <1>1, <2>1, NothingKnownOK
    <2>2. CASE demand[q].on # i
      <3>1. demand'[q] = demand[q] /\ DemandOK(demand[q], q, gridRow, refreshing)
        BY <1>1, <2>2 DEF GridInv
      <3>2. demand[q].at = "waits" => refreshing'[demand[q].on] = refreshing[demand[q].on]
        BY <1>1, <2>2, <3>1 DEF DemandOK, GridInv, GridTypeOK
      <3>3. QED BY <1>1, <3>1, <3>2, DemandKeeps
    <2>3. QED BY <2>1, <2>2
  <1>7. QED BY <1>1, <1>2, <1>3, <1>4, <1>5, <1>6 DEF GridInv, GridTypeOK

LEMMA GridEditedOK ==
  ASSUME GridInv, GridIsEdited
  PROVE  GridInv'
  <1>1. /\ published + 1 \in Versions /\ published' = published + 1
        /\ UNCHANGED <<gridRow, cachedGrid, refreshing, refresh, demand, newest, overtaken>>
    BY DEF GridIsEdited
  <1>2. published \in Nat /\ \A w \in RefreshRecord : w.grid \in Nat
    BY VersionsAreNumbers DEF GridInv, GridTypeOK, RefreshRecord
  <1>3. \A i \in Instances : newest[i] <= published'
    BY <1>1, <1>2 DEF GridInv, GridTypeOK
  <1>4. \A r \in Demands : refresh[r].at = "answered" => refresh[r].grid <= published'
    BY <1>1, <1>2 DEF GridInv, GridTypeOK
  <1>5. QED BY <1>1, <1>3, <1>4 DEF GridInv, GridTypeOK

LEMMA GridStepInv ==
  ASSUME GridInv, [GridNext]_gridVars
  PROVE  GridInv'
  <1>1. CASE UNCHANGED gridVars
    BY <1>1 DEF gridVars, GridInv, GridTypeOK, DemandOK, RefreshOK
  <1>2. ASSUME NEW r \in Demands, NEW i \in Instances, deliveryGrid(r, i) PROVE GridInv'
    BY <1>2, OrdersAsk
  <1>3. ASSUME NEW r \in Demands,
               \/ readDeliveryGrid(r) \/ RowRead(r) \/ lastKnownGrid(r) \/ Answered(r)
        PROVE  GridInv'
    BY <1>3, QuotesRead, RowReadOK, RowIsKept, AnsweredOK
  <1>4. ASSUME NEW r \in Demands,
               \/ SiteAnswers(r) \/ fetchGrid(r) \/ rememberGrid(r) \/ siteSilent(r) \/ fallsBack(r)
        PROVE  GridInv'
    BY <1>4, SiteAnswersOK, FetchGridOK, RememberGridOK, SiteSilentOK, FallsBackOK
  <1>5. ASSUME NEW i \in Instances, TimeToLivePasses(i) \/ InstanceRestarts(i) PROVE GridInv'
    BY <1>5, TimeToLiveOK, RestartOK
  <1>6. QED BY <1>1, <1>2, <1>3, <1>4, <1>5, GridEditedOK DEF GridNext

(* Once a grid is known, no order is refused for want of it or left to wait *)
(* for it unless its own read of the row failed (the catch of lastKnownGrid), *)
(* none waits for nobody, none is served an older grid than its instance was *)
(* answered (but after a slow read of the row), and each gets the zone its   *)
(* customer chose: for any instances, requests, texts and grids             *)
(* (CatalogSyncService.deliveryGrid).                                       *)
THEOREM GridsAreKept == GridSpec => []GridIsKept
  <1>1. GridInit => GridInv
    BY GridInitInv
  <1>2. GridInv /\ [GridNext]_gridVars => GridInv'
    BY GridStepInv
  <1>3. GridInv => GridIsKept
    <2> SUFFICES ASSUME GridInv PROVE GridIsKept
      OBVIOUS
    <2>1. \A r \in Demands : DemandOK(demand[r], r, gridRow, refreshing)
      BY DEF GridInv
    <2>2. \A r \in Demands : demand[r].at \in {"waits", "refused"} =>
            ~ demand[r].known \/ demand[r].unread
      BY <2>1 DEF DemandOK
    <2>3. \A r \in Demands : demand[r].at = "waits" => refreshing[demand[r].on] # Unused
      BY <2>1 DEF DemandOK
    <2>4. \A r \in Demands : demand[r].at = "served" => demand[r].grid >= demand[r].least
      BY <2>1 DEF DemandOK
    <2>5. ASSUME NEW r \in Demands, demand[r].at \in {"served", "quoted"},
                 textOf[r].chosen \in ToSet(gridOf[demand[r].grid].zones),
                 textOf[r].ends \notin ToSet(gridOf[demand[r].grid].zones) \ {textOf[r].chosen}
          PROVE  demand[r].zone = textOf[r].chosen
      <3>1. demand[r].grid \in Versions /\ demand[r].zone = ZoneOf(r, demand[r].grid)
        BY <2>1, <2>5 DEF DemandOK, AnyVersion
      <3>2. QED BY <2>5, <3>1, ChosenZoneIsServed
    <2>6. QED BY <2>2, <2>3, <2>4, <2>5 DEF GridIsKept
  <1>4. QED BY <1>1, <1>2, <1>3, PTL DEF GridSpec
=============================================================================
