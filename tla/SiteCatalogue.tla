---------------------------- MODULE SiteCatalogue ----------------------------
(***************************************************************************)
(* The copy of the web site's catalogue (CatalogSyncService.sync and diff).  *)
(* A synchronisation reads the whole feed, then writes the products and the  *)
(* variants one statement at a time, and last takes off sale what the feed   *)
(* did not name.  The timer of the process and the back office may each run  *)
(* one; the site is edited meanwhile.                                       *)
(***************************************************************************)
EXTENDS Integers, FiniteSets

CONSTANTS
  Refs,        \* references of the site
  Gammes,      \* its products (gammes)
  gammeOf,     \* the product of a reference
  Shelves,     \* variants here: (product, weight)
  shelfOf,     \* the (product, weight) of a reference
  Syncs,       \* runs that may overlap: the timer, the back office
  Prices,
  MaxEdits     \* bound: edits of the site's catalogue

NoRef == "none"

ASSUME CatalogueBounds ==
  /\ gammeOf \in [Refs -> Gammes] /\ shelfOf \in [Refs -> Shelves]
  /\ NoRef \notin Refs
  /\ MaxEdits \in Nat

VARIABLES
  site,      \* the site: what it lists, at which price, and whether it sells it
  edits,     \* number of edits
  variant,   \* productVariant rows
  product,   \* product rows: "none", "active" or "inactive"
  sync,      \* the synchronisations under way
  offered,   \* history: what the site has said of each reference
  clean,     \* history: the runs nothing has disturbed since they read the feed
  agreed     \* history: a clean and complete run has ended, and nothing was edited since

catalogueVars == <<site, edits, variant, product, sync, offered, clean, agreed>>

\* The field that decides of the sale: vendable, else disponibilite, else actif.
Says == {"vendable", "notVendable", "rupture", "actif", "inactif"}
estVendable(produit) == produit.says \in {"vendable", "actif"}

\* A reference counts when its product is listed too.
Listed(feed) == {r \in Refs : feed.produits[r].listed}
ListedGammes(feed) == {g \in Gammes : feed.gammes[g] # "absent"}
Sells(feed, r) ==
  /\ r \in Listed(feed) /\ gammeOf[r] \in ListedGammes(feed)
  /\ estVendable(feed.produits[r])
Offer(feed, r) == [price |-> feed.produits[r].price, sold |-> Sells(feed, r)]

NoFeed == "none"
NoSync == [at |-> "idle", feed |-> NoFeed, todo |-> {}, codes |-> {}, seen |-> {}, errors |-> FALSE]

CatalogueInit ==
  /\ \E p \in Prices :
       site = [produits |-> [r \in Refs |-> [listed |-> TRUE, price |-> p, says |-> "vendable"]],
               gammes |-> [g \in Gammes |-> "active"]]
  /\ edits = 0
  \* The seed: variants without a reference, on some shelves.
  /\ \E seeded \in SUBSET Shelves, p \in Prices :
       variant = [h \in Shelves |-> [exists |-> h \in seeded, ref |-> NoRef, price |-> p,
                                     available |-> h \in seeded]]
  /\ product \in [Gammes -> {"none", "active"}]
  /\ sync = [s \in Syncs |-> NoSync]
  /\ offered = [r \in Refs |-> {Offer(site, r)}]
  /\ clean = {}
  /\ agreed = FALSE

-----------------------------------------------------------------------------
(* The web site (external).                                                *)

SiteIsEdited ==
  /\ edits < MaxEdits
  /\ edits' = edits + 1
  /\ \/ \E r \in Refs : \E item \in [listed : BOOLEAN, price : Prices, says : Says] :
          site' = [site EXCEPT !.produits[r] = item]
     \/ \E g \in Gammes, state \in {"absent", "active", "inactive"} :
          site' = [site EXCEPT !.gammes[g] = state]
  /\ site' # site
  /\ offered' = [r \in Refs |-> offered[r] \cup {Offer(site', r)}]
  /\ clean' = {} /\ agreed' = FALSE
  /\ UNCHANGED <<variant, product, sync>>

-----------------------------------------------------------------------------
(* One synchronisation.                                                    *)

SyncAt(s, stage) == sync[s].at = stage
UNCHANGEDSite == UNCHANGED <<site, edits, offered>>

\* fetchSource, and the category of the brand.
fetchSource(s) ==
  /\ SyncAt(s, "idle")
  /\ sync' = [sync EXCEPT ![s] = [NoSync EXCEPT !.at = "products", !.feed = site, !.todo = ListedGammes(site)]]
  /\ clean' = IF \A z \in Syncs : SyncAt(z, "idle") THEN {s} ELSE {}
  /\ UNCHANGEDSite /\ UNCHANGED <<variant, product, agreed>>

\* A product: created, or adopted by its code or by its slug.
upsertProduct(s, g) ==
  /\ SyncAt(s, "products") /\ g \in sync[s].todo
  /\ product' = [product EXCEPT ![g] = sync[s].feed.gammes[g]]
  /\ sync' = [sync EXCEPT ![s].todo = @ \ {g}, ![s].codes = @ \cup {g}]
  /\ UNCHANGEDSite /\ UNCHANGED <<variant, clean, agreed>>

\* The statement of one product or of one variant fails: noted, and the run goes on.
upsertFails(s, x) ==
  /\ sync[s].at \in {"products", "variants"} /\ x \in sync[s].todo
  /\ sync' = [sync EXCEPT ![s].todo = @ \ {x}, ![s].errors = TRUE]
  /\ UNCHANGEDSite /\ UNCHANGED <<variant, product, clean, agreed>>

\* All products are written; the references of an unknown product are skipped.
skipOrphans(s) ==
  /\ SyncAt(s, "products") /\ sync[s].todo = {}
  /\ sync' = [sync EXCEPT ![s].at = "variants",
                          ![s].todo = {r \in Listed(sync[s].feed) : gammeOf[r] \in sync[s].codes}]
  /\ UNCHANGEDSite /\ UNCHANGED <<variant, product, clean, agreed>>

\* The variant a reference is written to: the one that has it, else the one of
\* its product and weight.
ShelfFor(r) ==
  IF \E h \in Shelves : variant[h].exists /\ variant[h].ref = r
  THEN CHOOSE h \in Shelves : variant[h].exists /\ variant[h].ref = r
  ELSE shelfOf[r]

upsertVariant(s, r) ==
  /\ SyncAt(s, "variants") /\ r \in sync[s].todo
  /\ LET produit == sync[s].feed.produits[r] IN
     variant' = [variant EXCEPT ![ShelfFor(r)] =
       [exists |-> TRUE, ref |-> r, price |-> produit.price, available |-> estVendable(produit)]]
  /\ sync' = [sync EXCEPT ![s].todo = @ \ {r}, ![s].seen = @ \cup {r}]
  /\ UNCHANGEDSite /\ UNCHANGED <<product, clean, agreed>>

\* Faulty variant: a partial run withdraws too.
MayWithdrawAnyway(s) == sync[s].seen # {}

\* Neither an empty feed nor a partial run empties the shop.
MayWithdraw(s) == sync[s].seen # {} /\ ~ sync[s].errors

\* What the feed did not name, and what never had a reference, is off sale.
withdrawVariants(s) ==
  /\ SyncAt(s, "variants") /\ sync[s].todo = {}
  /\ variant' = IF MayWithdraw(s)
                THEN [h \in Shelves |->
                        IF variant[h].ref \in sync[s].seen THEN variant[h]
                        ELSE [variant[h] EXCEPT !.available = FALSE]]
                ELSE variant
  /\ sync' = [sync EXCEPT ![s].at = "retire"]
  /\ UNCHANGEDSite /\ UNCHANGED <<product, clean, agreed>>

\* The same for the products; the run is over.
retireProducts(s) ==
  LET done == sync[s] IN
  /\ SyncAt(s, "retire")
  /\ product' = IF done.codes # {} /\ ~ done.errors
                THEN [g \in Gammes |-> IF g \in done.codes \/ product[g] = "none"
                                       THEN product[g] ELSE "inactive"]
                ELSE product
  /\ agreed' = (agreed \/ (s \in clean /\ done.seen # {} /\ ~ done.errors))
  /\ sync' = [sync EXCEPT ![s] = NoSync]
  /\ UNCHANGEDSite /\ UNCHANGED <<variant, clean>>

\* The category cannot be written, or the process stops: nothing more is written.
syncStops(s) ==
  /\ ~ SyncAt(s, "idle")
  /\ sync' = [sync EXCEPT ![s] = NoSync]
  /\ UNCHANGEDSite /\ UNCHANGED <<variant, product, clean, agreed>>

CatalogueNext ==
  \/ SiteIsEdited
  \/ \E s \in Syncs :
       \/ fetchSource(s) \/ skipOrphans(s) \/ withdrawVariants(s) \/ retireProducts(s) \/ syncStops(s)
       \/ \E g \in Gammes : upsertProduct(s, g) \/ upsertFails(s, g)
       \/ \E r \in Refs : upsertVariant(s, r) \/ upsertFails(s, r)

CatalogueSpec == CatalogueInit /\ [][CatalogueNext]_catalogueVars

-----------------------------------------------------------------------------
(* Properties.                                                             *)

\* diff(): what the site lists is here, at its price and with its permission
\* to sell; a missing product leaves its references out.
Compares(r) ==
  \E h \in Shelves :
    /\ variant[h].exists /\ variant[h].ref = r
    /\ variant[h].price = site.produits[r].price
    /\ variant[h].available = estVendable(site.produits[r])

Counts(r) == r \in Listed(site) /\ gammeOf[r] \in ListedGammes(site)

\* Two references of one product and weight take each other's row: one of them is there.
ShelfAgrees(r) == \E q \in Refs : shelfOf[q] = shelfOf[r] /\ Counts(q) /\ Compares(q)

\* A variant bound to a reference is on sale at a price at which the site once sold
\* it, and off sale only if the site once did not sell it.
RepeatsTheSite(v) ==
  IF v.available THEN [price |-> v.price, sold |-> TRUE] \in offered[v.ref]
                 ELSE \E offer \in offered[v.ref] : ~ offer.sold

(* The shop only repeats the site, whatever edits, partial answers, failures *)
(* and runs cross: a failed or partial run takes nothing off sale.  And a    *)
(* run that read the site as it still is, met no error and no other run,     *)
(* leaves the two catalogues equal: every reference is there, or another of *)
(* its product and weight, nothing else is on sale, and no other product is *)
(* shown.                                                                   *)
ShopSaysWhatTheSiteSaid ==
  /\ \A h \in Shelves : variant[h].ref # NoRef => RepeatsTheSite(variant[h])
  /\ agreed =>
       /\ \A r \in Refs : Counts(r) => ShelfAgrees(r)
       /\ \A h \in Shelves : variant[h].available => variant[h].ref \in {r \in Refs : Counts(r)}
       /\ \A g \in Gammes : product[g] = "active" => site.gammes[g] = "active"
=============================================================================
