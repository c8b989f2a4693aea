-------------------------------- MODULE Cart --------------------------------
(***************************************************************************)
(* The cart of the telephone (store/cart.ts) and the screens around it.  Its *)
(* lines live in memory, are written to the disk after each change, and are  *)
(* read back when the application starts, while its screens already work.    *)
(* The shelves empty and fill behind the catalogue it shows; the order is a  *)
(* request that may be refused, lost, or answered after the customer has     *)
(* gone back to his cart.                                                   *)
(***************************************************************************)
EXTENDS Integers, FiniteSets

CONSTANTS
  Formats,                 \* variants on sale
  Stocks,                  \* stocks the catalogue may show
  MAX_QUANTITY_PER_LINE,   \* 99
  MaxPresses               \* bound: presses of the customer

ASSUME CartAssumption ==
  /\ Stocks \subseteq Nat
  /\ MAX_QUANTITY_PER_LINE \in Nat \ {0} /\ MaxPresses \in Nat

VARIABLES
  shown,       \* the stock of each variant, as the catalogue shows it
  cart,        \* hydration, and the lines in memory
  saved,       \* the lines on the disk; nothing before the first write
  order,       \* the order request
  wanted,      \* history: what the customer has put in the cart and not taken out
  excused,     \* history: the lines an answer, a start or a kill has overtaken
  presses,     \* number of presses
  chosen       \* the quantity chosen on the page of each variant

cartVars == <<shown, cart, saved, order, wanted, excused, presses, chosen>>

\* A line: its quantity (0: no line), the stock when it was added, and (history)
\* the greatest stock shown to whoever filled it.
NoLine == [quantity |-> 0, stockAtAdd |-> 0, most |-> 0]
NoLines == [v \in Formats |-> NoLine]
NothingSaved == [written |-> FALSE, lines |-> NoLines]
NoOrder == [at |-> "none", lines |-> NoLines]
InCart(lines) == {v \in Formats : lines[v].quantity > 0}

CartInit ==
  /\ shown \in [Formats -> Stocks]
  /\ cart = [at |-> "reading", lines |-> NoLines, read |-> NothingSaved, unsaved |-> FALSE]
  /\ saved = NothingSaved
  /\ order = NoOrder
  /\ wanted = {}
  /\ excused = {}
  /\ presses = 0
  /\ chosen = [v \in Formats |-> 1]

Lesser(a, b) == IF a < b THEN a ELSE b
Greater(a, b) == IF a < b THEN b ELSE a

\* Faulty variant: the stock is not looked at.
clampToMaximum(quantity, stock) == Greater(1, Lesser(quantity, MAX_QUANTITY_PER_LINE))

\* An unknown stock does not bound the line; at least one is kept.
clampQuantity(quantity, stock) ==
  LET ceiling == Lesser(MAX_QUANTITY_PER_LINE, IF stock > 0 THEN stock ELSE MAX_QUANTITY_PER_LINE)
  IN Greater(1, Lesser(quantity, ceiling))

\* The catalogue is read again; sales and deliveries have moved the stock.
CatalogueShows(v, stock) ==
  /\ shown' = [shown EXCEPT ![v] = stock]
  /\ shown' # shown
  /\ UNCHANGED <<cart, saved, order, wanted, excused, presses, chosen>>

-----------------------------------------------------------------------------
(* The presses of the customer.                                            *)

\* set(): the memory changes, the write to the disk leaves.
Puts(v, line) ==
  /\ cart.at # "killed"
  /\ presses < MaxPresses /\ presses' = presses + 1
  /\ cart' = [cart EXCEPT !.lines[v] = line, !.unsaved = TRUE]
  /\ wanted' = IF line = NoLine THEN wanted \ {v} ELSE wanted \cup {v}
  /\ excused' = excused \ {v}
  /\ UNCHANGED <<shown, saved, order>>

\* A line that is there keeps the stock it was added with.
addItem(v, quantity) ==
  LET line == cart.lines[v] IN
  Puts(v, IF line = NoLine
          THEN [quantity |-> clampQuantity(quantity, shown[v]), stockAtAdd |-> shown[v],
                most |-> shown[v]]
          ELSE [line EXCEPT !.quantity = clampQuantity(@ + quantity, shown[v]),
                            !.most = Greater(@, shown[v])])

\* app/produit/[slug]: a variant in stock; the stepper, then the button.
canOrder(v) == shown[v] > 0
maxQuantity(v) == Lesser(MAX_QUANTITY_PER_LINE, Greater(1, shown[v]))

chooses(v) ==
  /\ canOrder(v)
  /\ chosen' = [chosen EXCEPT ![v] = IF @ < maxQuantity(v) THEN @ + 1 ELSE 1]
  /\ UNCHANGED <<shown, cart, saved, order, wanted, excused, presses>>

\* The stock may have fallen below the quantity chosen.
handleAdd(v) ==
  /\ canOrder(v)
  /\ addItem(v, chosen[v])
  /\ chosen' = [chosen EXCEPT ![v] = 1]

\* app/(tabs)/catalogue: one of the first format in stock.
quickAdd(v) ==
  /\ canOrder(v)
  /\ addItem(v, 1)
  /\ UNCHANGED chosen

\* app/(tabs)/panier: the screen opens once the lines were read.
CartLine(v) == cart.at = "ready" /\ cart.lines[v] # NoLine

increment(v) ==
  /\ CartLine(v)
  /\ Puts(v, [cart.lines[v] EXCEPT !.quantity = clampQuantity(@ + 1, cart.lines[v].stockAtAdd)])
  /\ UNCHANGED chosen

decrement(v) ==
  /\ CartLine(v)
  /\ Puts(v, IF cart.lines[v].quantity <= 1 THEN NoLine
             ELSE [cart.lines[v] EXCEPT !.quantity = @ - 1])
  /\ UNCHANGED chosen

removeItem(v) ==
  /\ CartLine(v)
  /\ Puts(v, NoLine)
  /\ UNCHANGED chosen

clear ==
  /\ cart.at = "ready" /\ InCart(cart.lines) # {}
  /\ presses < MaxPresses /\ presses' = presses + 1
  /\ cart' = [cart EXCEPT !.lines = NoLines, !.unsaved = TRUE]
  /\ wanted' = {} /\ excused' = {}
  /\ UNCHANGED <<shown, saved, order, chosen>>

-----------------------------------------------------------------------------
(* The disk and the process.                                               *)

persisted ==
  /\ cart.at # "killed" /\ cart.unsaved
  /\ saved' = [written |-> TRUE, lines |-> cart.lines]
  /\ cart' = [cart EXCEPT !.unsaved = FALSE]
  /\ UNCHANGED <<shown, order, wanted, excused, presses, chosen>>

\* What was read at the start replaces what was added since.
hydrated ==
  /\ cart.at = "reading"
  /\ LET lines == IF cart.read.written THEN cart.read.lines ELSE cart.lines IN
     /\ cart' = [cart EXCEPT !.at = "ready", !.lines = lines, !.unsaved = TRUE]
     /\ excused' = excused \cup {v \in Formats : lines[v] # cart.lines[v]}
  /\ UNCHANGED <<shown, saved, order, wanted, presses, chosen>>

\* The application is killed: a write under way may not have reached the disk.
killed ==
  /\ cart.at # "killed"
  /\ \E late \in {cart.unsaved, FALSE} :
       /\ saved' = IF cart.unsaved /\ ~ late THEN [written |-> TRUE, lines |-> cart.lines] ELSE saved
       /\ excused' = IF late \/ (cart.at = "reading" /\ InCart(cart.lines) # {}) THEN Formats ELSE excused
  /\ cart' = [cart EXCEPT !.at = "killed", !.lines = NoLines, !.unsaved = FALSE]
  /\ order' = NoOrder
  /\ UNCHANGED <<shown, wanted, presses, chosen>>

launched ==
  /\ cart.at = "killed"
  /\ cart' = [cart EXCEPT !.at = "reading", !.read = saved]
  /\ UNCHANGED <<shown, saved, order, wanted, excused, presses, chosen>>

-----------------------------------------------------------------------------
(* The order (app/commande).                                               *)

\* submit: the form is complete, the telephone on line, no request under way.
submit ==
  /\ cart.at = "ready" /\ order = NoOrder
  /\ InCart(cart.lines) # {}
  /\ order' = [at |-> "sent", lines |-> cart.lines]
  /\ UNCHANGED <<shown, cart, saved, wanted, excused, presses, chosen>>

\* Refused, unanswered, or its payment access could not be kept: the cart stays.
orderFails ==
  /\ order.at = "sent"
  /\ order' = NoOrder
  /\ UNCHANGED <<shown, cart, saved, wanted, excused, presses, chosen>>

\* The order is made: the cart is cleared, with what came into it meanwhile.
orderAnswered ==
  /\ order.at = "sent"
  /\ cart' = [cart EXCEPT !.lines = NoLines, !.unsaved = TRUE]
  /\ wanted' = wanted \ {v \in Formats : cart.lines[v] = order.lines[v]}
  /\ excused' = excused \cup {v \in Formats : cart.lines[v] # order.lines[v]}
  /\ order' = NoOrder
  /\ UNCHANGED <<shown, saved, presses, chosen>>

CartNext ==
  \/ \E v \in Formats :
       \/ \E stock \in Stocks : CatalogueShows(v, stock)
       \/ chooses(v) \/ handleAdd(v) \/ quickAdd(v)
       \/ increment(v) \/ decrement(v) \/ removeItem(v)
  \/ clear \/ persisted \/ hydrated \/ killed \/ launched
  \/ submit \/ orderFails \/ orderAnswered

CartSpec == CartInit /\ [][CartNext]_cartVars

-----------------------------------------------------------------------------
(* Properties.                                                             *)

(* The cart survives stops, failed orders and a catalogue that moves: what   *)
(* the customer has put in it and not taken out is there once it was read,   *)
(* unless an answer, the start or a kill has overtaken his press; no line    *)
(* ever holds more than the catalogue showed to be in stock, or none at all. *)
CartIsKept ==
  /\ cart.at = "ready" => wanted \ excused \subseteq InCart(cart.lines)
  /\ \A v \in InCart(cart.lines) :
       cart.lines[v].quantity <= Lesser(MAX_QUANTITY_PER_LINE, cart.lines[v].most)
=============================================================================
