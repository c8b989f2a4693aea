-------------------------- MODULE MCSideComponents --------------------------
(* Small instances of the components that share no state with one another:  *)
(* each initial state wakes one of them, and the others keep one initial     *)
(* state for the whole behaviour.                                           *)
EXTENDS PasswordResets, CourierTracking, SiteCatalogue, Screens, QueryCache, Producers,
        Notifications, PromoAdmin, Referrals, GuestPurchase, CustomerTracking, AddressBook,
        Analytics

CONSTANTS g1, g2, r1, r2, gamme, s1, s2, timer, c1, c2, t1, a1, f1, p1, h1, h2, n1,
          phone1, phone2, d1, d2, u1, u2, u3, o1, o2, o3, x1, x2, e1, e2, k1, k2,
          b1, b2, w1, w2, i1, i2, y1, y2

VARIABLE focus

MCgammeOf == r1 :> gamme @@ r2 :> gamme
MCshelfOf == r1 :> s1 @@ r2 :> s2
MCbuyerOf == o1 :> u1 @@ o2 :> u1 @@ o3 :> u2
MCtotalOf == i1 :> 1 @@ i2 :> 7
MCrangeOf == i1 :> "blanc" @@ i2 :> "etuve"
MCqueriesOf == [orders |-> {"catalog", "list", "detail"}, deliveries |-> {"list", "detail"},
                notifications |-> {"list", "detail"}, addresses |-> {"list"},
                payments |-> {"detail"}]
MCclosureOf == y1 :> "MANAGER_OVERRIDE" @@ y2 :> "MANAGER_OVERRIDE"

Focuses == {"resets", "tracking", "catalogue", "screens", "cache", "producers", "notices",
            "promos", "referrals", "guests", "live", "addresses", "analytics"}

\* Components with several initial states keep this one while another is awake.
CatalogueAsleep ==
  /\ \A r \in Refs : site.produits[r].price = 1
  /\ \A h \in Shelves : ~ variant[h].exists /\ variant[h].price = 1
  /\ \A g \in Gammes : product[g] = "none"
CacheAsleep == family = "orders"
ScreensAsleep == row.method = "CASH_ON_DELIVERY" /\ screen.of = "commande"

SideInit ==
  /\ focus \in Focuses
  /\ ResetInit /\ TrackingInit /\ ProducerInit /\ NoticeInit /\ PromoInit
  /\ ReferralInit /\ GuestInit /\ LiveInit /\ BookInit /\ AnalyticsInit
  /\ CacheInit /\ (focus # "cache" => CacheAsleep)
  /\ CatalogueInit /\ (focus # "catalogue" => CatalogueAsleep)
  /\ ScreenInit /\ (focus # "screens" => ScreensAsleep)

SideNext ==
  \/ /\ focus = "resets" /\ ResetNext
     /\ UNCHANGED <<focus, trackingVars, catalogueVars, screenVars, cacheVars, producerVars,
                    noticeVars, promoVars, referralVars, guestVars, liveVars, bookVars,
                    analyticsVars>>
  \/ /\ focus = "tracking" /\ TrackingNext
     /\ UNCHANGED <<focus, resetVars, catalogueVars, screenVars, cacheVars, producerVars,
                    noticeVars, promoVars, referralVars, guestVars, liveVars, bookVars,
                    analyticsVars>>
  \/ /\ focus = "catalogue" /\ CatalogueNext
     /\ UNCHANGED <<focus, resetVars, trackingVars, screenVars, cacheVars, producerVars,
                    noticeVars, promoVars, referralVars, guestVars, liveVars, bookVars,
                    analyticsVars>>
  \/ /\ focus = "screens" /\ ScreenNext
     /\ UNCHANGED <<focus, resetVars, trackingVars, catalogueVars, cacheVars, producerVars,
                    noticeVars, promoVars, referralVars, guestVars, liveVars, bookVars,
                    analyticsVars>>
  \/ /\ focus = "cache" /\ CacheNext
     /\ UNCHANGED <<focus, resetVars, trackingVars, catalogueVars, screenVars, producerVars,
                    noticeVars, promoVars, referralVars, guestVars, liveVars, bookVars,
                    analyticsVars>>
  \/ /\ focus = "producers" /\ ProducerNext
     /\ UNCHANGED <<focus, resetVars, trackingVars, catalogueVars, screenVars, cacheVars,
                    noticeVars, promoVars, referralVars, guestVars, liveVars, bookVars,
                    analyticsVars>>
  \/ /\ focus = "notices" /\ NoticeNext
     /\ UNCHANGED <<focus, resetVars, trackingVars, catalogueVars, screenVars, cacheVars,
                    producerVars, promoVars, referralVars, guestVars, liveVars, bookVars,
                    analyticsVars>>
  \/ /\ focus = "promos" /\ PromoNext
     /\ UNCHANGED <<focus, resetVars, trackingVars, catalogueVars, screenVars, cacheVars,
                    producerVars, noticeVars, referralVars, guestVars, liveVars, bookVars,
                    analyticsVars>>
  \/ /\ focus = "referrals" /\ ReferralNext
     /\ UNCHANGED <<focus, resetVars, trackingVars, catalogueVars, screenVars, cacheVars,
                    producerVars, noticeVars, promoVars, guestVars, liveVars, bookVars,
                    analyticsVars>>
  \/ /\ focus = "guests" /\ GuestNext
     /\ UNCHANGED <<focus, resetVars, trackingVars, catalogueVars, screenVars, cacheVars,
                    producerVars, noticeVars, promoVars, referralVars, liveVars, bookVars,
                    analyticsVars>>
  \/ /\ focus = "live" /\ LiveNext
     /\ UNCHANGED <<focus, resetVars, trackingVars, catalogueVars, screenVars, cacheVars,
                    producerVars, noticeVars, promoVars, referralVars, guestVars, bookVars,
                    analyticsVars>>
  \/ /\ focus = "addresses" /\ BookNext
     /\ UNCHANGED <<focus, resetVars, trackingVars, catalogueVars, screenVars, cacheVars,
                    producerVars, noticeVars, promoVars, referralVars, guestVars, liveVars,
                    analyticsVars>>
  \/ /\ focus = "analytics" /\ AnalyticsNext
     /\ UNCHANGED <<focus, resetVars, trackingVars, catalogueVars, screenVars, cacheVars,
                    producerVars, noticeVars, promoVars, referralVars, guestVars, liveVars,
                    bookVars>>

sideVars == <<focus, resetVars, trackingVars, catalogueVars, screenVars, cacheVars, producerVars,
              noticeVars, promoVars, referralVars, guestVars, liveVars, bookVars,
              analyticsVars>>

SideSpec == SideInit /\ [][SideNext]_sideVars
=============================================================================
