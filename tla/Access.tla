------------------------------- MODULE Access -------------------------------
(***************************************************************************)
(* Who may do what, in the three places where the code says it: the roles    *)
(* the controllers require, the calls of the mobile client and whether they  *)
(* carry its session, the groups of screens each role may open.             *)
(***************************************************************************)
ROLES == {"CLIENT", "LIVREUR", "PRODUCTEUR", "GESTIONNAIRE", "ADMIN", "DG"}

\* Somebody without a session.
GUEST == "GUEST"

Public == ROLES \cup {GUEST}
SignedIn == ROLES
Staff == {"GESTIONNAIRE", "ADMIN", "DG"}
Executives == {"ADMIN", "DG"}

-----------------------------------------------------------------------------
(* The routes of the API, each with the roles that may call it (@Roles, @Public). *)

DeliveriesController ==
  ({"listMine", "findDelivery", "updateStatus", "verifyOtp", "otpStatus",
     "pushLocations", "getRoute"} \X {"LIVREUR"})
    \cup ({"revealOtp", "resendOtp"} \X {"CLIENT"})
    \cup ({"closeManually"} \X (Staff \ {"DG"}))
    \cup ({"assign"} \X Staff)

ManagementController ==
  {"managerDashboard", "managedOrders", "updateOrderStatus", "listStock",
   "adjustStock", "stockMovements", "listCouriers"} \X Staff

OrdersController ==
  ({"createOrder", "listOrders", "findOrder", "getTracking", "cancel"} \X SignedIn)
    \cup ({"createGuestOrder"} \X Public)

DirectPaymentsController ==
  ({"listMethods", "guestInstructions", "guestDeclare"} \X Public)
    \cup ({"instructions", "declare"} \X SignedIn)

PaymentsController ==
  ({"initiate", "paymentStatus"} \X SignedIn)
    \cup ({"initiateGuest", "guestStatus", "callback"} \X Public)

PaymentAdminController ==
  ({"declarations", "proof", "review", "history", "adminMethods"} \X Staff)
    \cup ({"upsertMethod", "deactivateMethod"} \X Executives)

ProducersController ==
  ({"overview", "listFarms", "createFarm", "updateFarm", "deleteFarm",
     "listProductions", "createProduction", "updateProduction", "deleteProduction"} \X {"PRODUCTEUR"})
    \cup ({"reviewableProductions", "reviewProduction"} \X Staff)

PromoCodesController ==
  {"listCodes", "createCode", "updateCode", "deactivateCode", "redemptions"} \X Executives

AuthController ==
  ({"register", "login", "refresh", "forgotPassword", "resetPassword"} \X Public)
    \cup ({"logout", "me", "deleteMe", "changePassword"} \X SignedIn)

NotificationsController ==
  {"notifications", "markRead", "registerToken", "removeToken"} \X SignedIn

\* The catalogue is read by anybody and written by the staff.
CatalogController ==
  {"createProduct", "updateProduct", "removeProduct", "createVariant",
   "updateVariant", "createPromotion", "updatePromotion"} \X Staff

ShopControllers ==
  ({"products", "product", "categories", "productReviews", "deliveryZones",
     "quote", "appConfig"} \X Public)
    \cup ({"addReview", "addresses", "createAddress", "referralSummary"} \X SignedIn)

AppConfigController ==
  {"pointsOfSale", "savePointOfSale", "saveSupport", "saveAnnouncement"} \X Executives

AnalyticsController ==
  {"dashboard"} \X ({"DG", "ADMIN"})

Routes ==
  DeliveriesController \cup ManagementController \cup OrdersController \cup DirectPaymentsController
    \cup PaymentsController \cup PaymentAdminController \cup ProducersController
    \cup PromoCodesController \cup AuthController \cup NotificationsController
    \cup CatalogController \cup ShopControllers \cup AppConfigController \cup AnalyticsController

\* JwtAuthGuard then RolesGuard: a request without a session is a guest's.
canActivate(who, do) == <<do, who>> \in Routes

-----------------------------------------------------------------------------
(* The calls of the mobile client that do not carry the session (isPublic).  *)

AuthCalls == {"login", "register", "refresh", "logout", "forgotPassword", "resetPassword"}
CatalogCalls == {"categories", "products", "product"}
OrderCalls == {"deliveryZones", "quote", "createGuestOrder"}
PaymentCalls == {"initiateGuest", "guestStatus", "listMethods", "guestInstructions", "guestDeclare"}
ConfigCalls == {"appConfig", "productReviews"}

Anonymous == AuthCalls \cup CatalogCalls \cup OrderCalls \cup PaymentCalls \cup ConfigCalls

\* As whom the server sees a call of somebody.
Identity(who, do) == IF do \in Anonymous THEN GUEST ELSE who

-----------------------------------------------------------------------------
(* The groups of screens: who may open them, and the calls they make.       *)

SPACES ==
  {"tabs", "produit", "commande", "contact", "paiement", "confirmation", "auth", "commandes",
   "notifications", "parrainage", "tournee", "exploitation", "direction", "gestion"}

Spaces(space) ==
  CASE space \in {"tabs", "produit", "commande", "contact", "paiement", "confirmation"} -> Public
    [] space = "auth"                                      -> {GUEST}
    [] space \in {"commandes", "notifications", "parrainage"} -> SignedIn
    [] space = "tournee"                                   -> {"LIVREUR"}
    [] space = "exploitation"                              -> {"PRODUCTEUR"}
    [] space = "direction"                                 -> Executives
    [] space = "gestion"                                   -> Staff

\* The account screen shows each role the way to its spaces only.
AccountLinks(who) ==
  IF who = GUEST THEN {"auth"}
  ELSE {"commandes", "notifications", "commande"}
         \cup {space \in {"tournee", "gestion", "direction", "exploitation"} : who \in Spaces(space)}
         \cup (IF who = "CLIENT" THEN {"parrainage"} ELSE {})

CourierCalls == {"listMine", "findDelivery", "updateStatus", "verifyOtp", "otpStatus", "pushLocations"}
ProducerCalls ==
  {"overview", "listFarms", "listProductions", "createFarm", "deleteFarm", "createProduction"}
DashboardCalls == {"dashboard"}
PromotionCalls == {"listCodes", "createCode", "updateCode", "deactivateCode"}
QueueCalls == {"managerDashboard", "managedOrders", "updateOrderStatus", "assign", "listCouriers"}
StockCalls == {"listStock", "adjustStock"}
HarvestCalls == {"reviewableProductions", "reviewProduction"}
DeclarationCalls == {"declarations", "review"}

\* The code of a delivery is for customers; the other roles may have ordered too.
TrackingCalls(who) ==
  {"listOrders", "findOrder", "getTracking", "cancel", "initiate", "paymentStatus"}
    \cup (IF who = "CLIENT" THEN {"revealOtp", "resendOtp"} ELSE {})

\* A review is sent by somebody signed in; others are shown the way to the login.
ProductCalls(who) ==
  {"product", "productReviews"} \cup (IF who = GUEST THEN {} ELSE {"addReview"})

\* Addresses are reached from the account screen.
CheckoutCalls(who) ==
  {"deliveryZones", "quote", "createGuestOrder", "listMethods"}
    \cup (IF "commande" \in AccountLinks(who) THEN {"createAddress"} ELSE {})

\* Always with the token of a guest order, kept on the telephone.
TransferCalls == {"guestInstructions", "guestDeclare", "guestStatus"}

\* The screens of the group (auth); their routes are public, and nobody is signed in there.
LoginCalls == {"login"}
RegisterCalls == {"register"}
PasswordCalls == {"forgotPassword", "resetPassword"}

\* The coordinates of AGRIM, or those of the application if they cannot be read.
ContactCalls == {"appConfig"}
ReferralCalls == {"referralSummary"}

\* The journal; leaving the screen marks it as read, and a line opens its order.
JournalCalls == {"notifications", "markRead", "listOrders"}

\* The guest's payment is followed with the token of the order.
ConfirmationCalls == {"guestStatus"}

\* The account screen; the logout it also sends is the one call left out here,
\* for it carries no session to a route that requires one.
AccountCalls(who) == IF who = GUEST THEN {} ELSE {"notifications", "deleteMe"}

Calls(space, who) ==
  CASE space = "tabs"          -> {"products", "categories", "appConfig"} \cup AccountCalls(who)
    [] space = "produit"       -> ProductCalls(who)
    [] space = "commande"      -> CheckoutCalls(who)
    [] space = "contact"       -> ContactCalls
    [] space = "paiement"      -> TransferCalls
    [] space = "confirmation"  -> ConfirmationCalls
    [] space = "auth"          -> LoginCalls \cup RegisterCalls \cup PasswordCalls
    [] space = "commandes"     -> TrackingCalls(who)
    [] space = "notifications" -> JournalCalls
    [] space = "parrainage"    -> ReferralCalls
    [] space = "tournee"       -> CourierCalls
    [] space = "exploitation"  -> ProducerCalls
    [] space = "direction"     -> DashboardCalls \cup PromotionCalls
    [] space = "gestion"       -> QueueCalls \cup StockCalls \cup HarvestCalls \cup DeclarationCalls

\* The three places agree: nobody is shown the way to a closed space, and every
\* call of a space is one its visitors may make, as the server sees them.
ScreensReachTheirRoutes ==
  \A space \in SPACES : \A who \in Spaces(space) :
    /\ \A other \in AccountLinks(who) : who \in Spaces(other)
    /\ \A do \in Calls(space, who) : canActivate(Identity(who, do), do)
=============================================================================
