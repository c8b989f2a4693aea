---------------------------- MODULE AddressBook ----------------------------
(***************************************************************************)
(* The delivery addresses of one customer (AddressesService), one of them    *)
(* proposed by default, and the orders that name them.  Creating and         *)
(* correcting an address clear the former default and write the new one in   *)
(* one transaction, decided upon what was read before it; removing an        *)
(* address takes up to five statements in no transaction.  The book "must    *)
(* ALWAYS propose a default address" (addresses.service.ts:37).              *)
(***************************************************************************)
EXTENDS Naturals, FiniteSets

CONSTANTS
  Addresses,  \* addresses that may be written
  Writers     \* request contexts

VARIABLES
  book,      \* address rows: whether they exist, by default or not, in use or not, their age
  writer,    \* the requests under way, what they have read, whether others wrote since
  forsaken,  \* history: the default was taken from a used address, or its successor not named
  raced      \* history: a request has written upon what it had read before another's write

bookVars == <<book, writer, forsaken, raced>>

Unwrote == [exists |-> FALSE, isDefault |-> FALSE, used |-> FALSE, age |-> 0]
NoRead == [at |-> "idle", id |-> "none", default |-> FALSE, cleared |-> {}, stale |-> FALSE]

BookInit ==
  /\ book = [a \in Addresses |-> Unwrote]
  /\ writer = [w \in Writers |-> NoRead]
  /\ forsaken = FALSE
  /\ raced = FALSE

Book == {a \in Addresses : book[a].exists}
Defaults == {a \in Book : book[a].isDefault}

BookReads(w, context) ==
  /\ writer[w].at = "idle"
  /\ writer' = [writer EXCEPT ![w] = context]
  /\ UNCHANGED <<book, forsaken, raced>>

\* The rows are written: w goes on as context, what the others have read is old.
BookWrites(w, context, rows) ==
  /\ book' = rows
  /\ writer' = [o \in Writers |->
       IF o = w THEN context
       ELSE IF writer[o].at = "idle" THEN writer[o] ELSE [writer[o] EXCEPT !.stale = TRUE]]
  /\ raced' = (raced \/ writer[w].stale)

-----------------------------------------------------------------------------
(* An address is created, or corrected.                                     *)

\* The first address, or the first since none is proposed, becomes the default.
\* (An address is not written twice under one identifier.)
create(w, a, asked) ==
  /\ book[a].age = 0 /\ \A o \in Writers : writer[o].id # a
  /\ BookReads(w, [NoRead EXCEPT !.at = "create", !.id = a, !.default = asked \/ Defaults = {}])

\* assertOwned: the address is in the book of the customer.
update(w, a, asked) ==
  /\ a \in Book
  /\ BookReads(w, [NoRead EXCEPT !.at = "update", !.id = a, !.default = asked])

\* The transaction: the defaults its statement sees are cleared, which are not those
\* another transaction is about to write.
clearDefaults(w) ==
  /\ writer[w].at \in {"create", "update"}
  /\ writer' = [writer EXCEPT ![w].at = IF @ = "create" THEN "insert" ELSE "rewrite",
                              ![w].cleared = IF writer[w].default THEN Defaults \ {writer[w].id}
                                             ELSE {}]
  /\ UNCHANGED <<book, forsaken, raced>>

Oldest == Cardinality({a \in Addresses : book[a].age > 0})

\* The row of writer w as its transaction leaves it; an update without default keeps it.
Written(w) ==
  IF writer[w].at = "insert"
  THEN [Unwrote EXCEPT !.exists = TRUE, !.isDefault = writer[w].default, !.age = Oldest + 1]
  ELSE [book[writer[w].id] EXCEPT !.isDefault = @ \/ writer[w].default]

\* It commits; an address removed meanwhile is not found (P2025), and nothing is written.
commitAddress(w) ==
  /\ writer[w].at = "insert" \/ (writer[w].at = "rewrite" /\ writer[w].id \in Book)
  /\ BookWrites(w, NoRead,
       [a \in Addresses |->
          IF a = writer[w].id THEN Written(w)
          ELSE [book[a] EXCEPT !.isDefault = @ /\ a \notin writer[w].cleared]])
  /\ forsaken' = (forsaken /\ ~ writer[w].default)

-----------------------------------------------------------------------------
(* An address is removed.                                                   *)

\* assertOwned, with whether it is the default; the orders that use it are counted.
remove(w, a) ==
  /\ a \in Book
  /\ BookReads(w, [NoRead EXCEPT !.at = IF book[a].used THEN "demote" ELSE "delete",
                                 !.id = a, !.default = book[a].isDefault])

\* Used, it stays, and is proposed no more.
demote(w) ==
  LET a == writer[w].id IN
  /\ writer[w].at = "demote"
  /\ IF writer[w].default
     THEN /\ a \in Book
          /\ BookWrites(w, NoRead, [book EXCEPT ![a].isDefault = FALSE])
          /\ forsaken' = TRUE
     ELSE writer' = [writer EXCEPT ![w] = NoRead] /\ UNCHANGED <<book, forsaken, raced>>

\* Unused, it goes, unless an order names it by now (the foreign key restricts).
deleteAddress(w) ==
  LET a == writer[w].id IN
  /\ writer[w].at = "delete"
  /\ a \in Book /\ ~ book[a].used
  /\ BookWrites(w, IF writer[w].default THEN [writer[w] EXCEPT !.at = "promote"] ELSE NoRead,
                [book EXCEPT ![a] = [Unwrote EXCEPT !.age = book[a].age]])
  /\ UNCHANGED forsaken

\* The newest of the others, or nobody, becomes the default.
Newest == {a \in Book : \A b \in Book : book[b].age <= book[a].age}

\* Faulty variant: nobody takes the place of the default that was removed.
promoteNobody(w) ==
  /\ writer[w].at = "promote"
  /\ BookWrites(w, NoRead, book)
  /\ UNCHANGED forsaken

promoteNewest(w) ==
  /\ writer[w].at = "promote"
  /\ BookWrites(w, NoRead, [a \in Addresses |->
       IF a \in Newest THEN [book[a] EXCEPT !.isDefault = TRUE] ELSE book[a]])
  /\ forsaken' = (forsaken /\ Newest = {})

\* The statement fails, or the process is recycled: a transaction is undone, while what
\* remove has done stays done.
addressFails(w) ==
  /\ writer[w].at # "idle"
  /\ writer' = [writer EXCEPT ![w] = NoRead]
  /\ forsaken' = (forsaken \/ writer[w].at = "promote")
  /\ UNCHANGED <<book, raced>>

\* An order is placed to an address of the book; its foreign key keeps it there.
orderTo(a) ==
  /\ a \in Book /\ ~ book[a].used
  /\ book' = [book EXCEPT ![a].used = TRUE]
  /\ UNCHANGED <<writer, forsaken, raced>>

BookNext ==
  \/ \E w \in Writers, a \in Addresses :
       \/ \E asked \in BOOLEAN : create(w, a, asked) \/ update(w, a, asked)
       \/ remove(w, a)
  \/ \E w \in Writers :
       clearDefaults(w) \/ commitAddress(w) \/ demote(w) \/ deleteAddress(w) \/ promoteNewest(w)
         \/ addressFails(w)
  \/ \E a \in Addresses : orderTo(a)

BookSpec == BookInit /\ [][BookNext]_bookVars

-----------------------------------------------------------------------------
(* Properties.                                                             *)

(* The book of addresses proposes one default and no other, as the checkout  *)
(* expects of it.  Three things alone break it: a request that writes upon   *)
(* what it read before another wrote, the removal of a default that an order *)
(* has used (it stays in the book, demoted, and nobody takes its place), and *)
(* a removal cut before it names a successor; the next address written       *)
(* repairs the last two.  An address that an order names is never removed.   *)
OneDefaultAddress ==
  /\ ~ raced => Cardinality(Defaults) <= 1
  /\ ~ raced /\ ~ forsaken /\ (\A w \in Writers : writer[w].at # "promote") =>
       (Book # {} => Defaults # {})
  /\ \A a \in Addresses : book[a].used => a \in Book
=============================================================================
