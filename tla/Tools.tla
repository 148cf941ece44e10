-------------------------------- MODULE Tools --------------------------------
(***************************************************************************)
(* Who may use which assistant tool.  The answer is kept in four places:   *)
(* the MCP server's registry, which decides what a caller is shown; the    *)
(* scopes its backend client asks a delegated token for; the policy of the *)
(* backend's route; and the scopes the authorization page offers a role.   *)
(*                                                                         *)
(* Every tool is taken to be enabled: its flag is the same in both servers.*)
(* Schemas, texts and paths are left out.                                  *)
(***************************************************************************)
EXTENDS Naturals, FiniteSets

Roles == {"user", "seller", "admin"}

\* The rows of several tables, no two of which have a tool in common.
Joined(tables) ==
    [t \in UNION {DOMAIN f : f \in tables} |-> (CHOOSE f \in tables : t \in DOMAIN f)[t]]

-----------------------------------------------------------------------------
(* The registry of the MCP server *)

\* The rows of tools that differ in nothing the policy reads.
Rows(tools, roles, scopes, verified, class) ==
    [t \in tools |-> [roles |-> roles, scopes |-> scopes,
                      verified |-> verified, class |-> class]]

LocalRows == Rows({"get_capabilities"}, {"public"}, {}, FALSE, "read")

AccountRows ==
    Joined({Rows({"get_my_profile_summary"}, Roles, {"profile:read"}, FALSE, "read"),
            Rows({"list_my_notifications"}, Roles, {"notifications:read"}, FALSE, "read")})

PublicRows ==
    Rows({"get_store_policy", "search_products", "compare_products", "get_product",
          "get_product_reviews", "get_recommendations"},
         {"public"}, {}, FALSE, "read")

CartRows ==
    Rows({"get_my_cart", "validate_promo_code", "preview_checkout"},
         {"user"}, {"cart:read"}, FALSE, "read")

OrderRows ==
    Rows({"list_my_orders", "get_my_order", "track_my_order", "get_my_bill_summary",
          "get_my_payment_status"}, {"user"}, {"orders:read"}, FALSE, "read")

SellerRows ==
    Joined({Rows({"list_my_products", "get_my_product", "get_my_inventory_summary"},
                 {"seller"}, {"catalog:read"}, TRUE, "read"),
            Rows({"list_my_seller_orders", "get_my_seller_order"},
                 {"seller"}, {"sales:read"}, TRUE, "read"),
            Rows({"get_my_revenue_summary"}, {"seller"}, {"revenue:read"}, TRUE, "read")})

PlatformRows ==
    Joined({Rows({"get_platform_revenue_summary"}, {"admin"}, {"platform:read"}, FALSE, "read"),
            Rows({"list_seller_applications"}, {"admin"}, {"sellers:read"}, FALSE, "read")})

DraftRows ==
    Rows({"draft_listing_copy", "save_listing_draft", "list_my_listing_drafts",
          "get_my_listing_draft"}, {"seller"}, {"listings:draft"}, FALSE, "draft")

BuyerProposalRows ==
    Joined({Rows({"propose_cart_change"}, {"user"}, {"cart:propose"}, FALSE, "propose"),
            Rows({"get_my_action_status"}, {"user"}, {"proposals:read"}, FALSE, "propose"),
            Rows({"propose_order_cancellation"}, {"user"}, {"orders:propose"}, FALSE, "propose"),
            Rows({"propose_order_return"}, {"user"}, {"returns:propose"}, FALSE, "propose")})

SellerProposalRows ==
    Joined({Rows({"propose_price_change"}, {"seller"}, {"pricing:propose"}, FALSE, "propose"),
            Rows({"propose_inventory_adjustment"},
                 {"seller"}, {"inventory:propose"}, FALSE, "propose"),
            Rows({"propose_fulfillment_transition"},
                 {"seller"}, {"fulfillment:propose"}, FALSE, "propose")})

QueueRows ==
    Rows({"list_order_exception_queue", "get_order_exception_detail", "list_return_queue"},
         {"admin"}, {"support:read"}, FALSE, "read")

SupportRows ==
    Rows({"draft_support_message"}, {"user"}, {"support:draft"}, FALSE, "draft")

PromotionRows ==
    Joined({Rows({"list_promotion_configuration", "get_promotion_usage_summary"},
                 {"admin"}, {"promotions:read"}, FALSE, "read"),
            Rows({"draft_seller_review_recommendation", "draft_return_review_recommendation",
                  "draft_promotion_recommendation"},
                 {"admin"}, {"recommendations:draft"}, FALSE, "draft")})

ListingProposalRows ==
    Rows({"propose_listing_publish", "propose_listing_content_change"},
         {"seller"}, {"listings:propose"}, FALSE, "propose")

Registry ==
    Joined({LocalRows, AccountRows, PublicRows, CartRows, OrderRows, SellerRows, PlatformRows,
            DraftRows, BuyerProposalRows, SellerProposalRows, QueueRows, SupportRows, PromotionRows,
            ListingProposalRows})

ToolNames == DOMAIN Registry
LocalTools == {"get_capabilities"}

-----------------------------------------------------------------------------
(* The scopes the MCP server's backend client asks for, "none" for a tool *)
(* that is called with the service's own token                            *)

Scoped(tools, scope) == [t \in tools |-> scope]

PrivateScopes ==
    Joined({Scoped({"get_my_profile_summary"}, "profile:read"),
            Scoped({"list_my_notifications"}, "notifications:read"),
            Scoped({"get_my_cart", "validate_promo_code", "preview_checkout"}, "cart:read"),
            Scoped({"list_my_orders", "get_my_order", "track_my_order", "get_my_bill_summary",
                    "get_my_payment_status"}, "orders:read"),
            Scoped({"list_my_products", "get_my_product", "get_my_inventory_summary"},
                   "catalog:read"),
            Scoped({"list_my_seller_orders", "get_my_seller_order"}, "sales:read"),
            Scoped({"get_my_revenue_summary"}, "revenue:read"),
            Scoped({"get_platform_revenue_summary"}, "platform:read"),
            Scoped({"list_seller_applications"}, "sellers:read"),
            Scoped({"draft_listing_copy", "save_listing_draft", "list_my_listing_drafts",
                    "get_my_listing_draft"}, "listings:draft"),
            Scoped({"propose_cart_change"}, "cart:propose"),
            Scoped({"propose_order_return"}, "returns:propose"),
            Scoped({"get_my_action_status"}, "proposals:read"),
            Scoped({"propose_order_cancellation"}, "orders:propose"),
            Scoped({"propose_listing_publish", "propose_listing_content_change"},
                   "listings:propose"),
            Scoped({"propose_price_change"}, "pricing:propose"),
            Scoped({"propose_inventory_adjustment"}, "inventory:propose"),
            Scoped({"propose_fulfillment_transition"}, "fulfillment:propose"),
            Scoped({"list_order_exception_queue", "get_order_exception_detail",
                    "list_return_queue"}, "support:read"),
            Scoped({"draft_support_message"}, "support:draft"),
            Scoped({"list_promotion_configuration", "get_promotion_usage_summary"},
                   "promotions:read"),
            Scoped({"draft_seller_review_recommendation", "draft_return_review_recommendation",
                    "draft_promotion_recommendation"}, "recommendations:draft")})

PrivateTools == DOMAIN PrivateScopes

\* The MCP server answers a local tool itself: no route of the backend serves it.
ASSUME ToolsAssumption == LocalTools \cap PrivateTools = {}

-----------------------------------------------------------------------------
(* The policies of the backend's routes: the roles and the scope it asks  *)
(* for, whether a seller must be verified (verified in the policy, gate in *)
(* a middleware of its own), whether it stores a row, and whether it does *)
(* so in one transaction with the audit row                               *)

Routes(tools, roles, scope, verified) ==
    [t \in tools |-> [roles |-> roles, scope |-> scope, verified |-> verified,
                      gate |-> FALSE, stores |-> FALSE, atomic |-> FALSE]]

StoringRoutes(tools, roles, scope, gate, atomic) ==
    [t \in tools |-> [roles |-> roles, scope |-> scope, verified |-> FALSE,
                      gate |-> gate, stores |-> TRUE, atomic |-> atomic]]

AccountRoutes ==
    Joined({Routes({"get_my_profile_summary"}, Roles, "profile:read", FALSE),
            Routes({"list_my_notifications"}, Roles, "notifications:read", FALSE)})

BuyerRoutes ==
    Joined({Routes({"get_my_cart", "validate_promo_code", "preview_checkout"},
                   {"user"}, "cart:read", FALSE),
            Routes({"list_my_orders", "get_my_order", "track_my_order", "get_my_bill_summary",
                    "get_my_payment_status"}, {"user"}, "orders:read", FALSE)})

SellerRoutes ==
    Joined({Routes({"list_my_products", "get_my_product", "get_my_inventory_summary"},
                   {"seller"}, "catalog:read", TRUE),
            Routes({"list_my_seller_orders", "get_my_seller_order"},
                   {"seller"}, "sales:read", TRUE),
            Routes({"get_my_revenue_summary"}, {"seller"}, "revenue:read", TRUE)})

PlatformRoutes ==
    Joined({Routes({"get_platform_revenue_summary"}, {"admin"}, "platform:read", FALSE),
            Routes({"list_seller_applications"}, {"admin"}, "sellers:read", FALSE)})

DraftRoutes ==
    Joined({Routes({"draft_listing_copy", "list_my_listing_drafts", "get_my_listing_draft"},
                   {"seller"}, "listings:draft", FALSE),
            StoringRoutes({"save_listing_draft"}, {"seller"}, "listings:draft", FALSE, TRUE)})

CartProposalRoutes ==
    Joined({StoringRoutes({"propose_cart_change"}, {"user"}, "cart:propose", FALSE, FALSE),
            Routes({"get_my_action_status"}, {"user"}, "proposals:read", FALSE)})

OrderProposalRoutes ==
    Joined({StoringRoutes({"propose_order_cancellation"},
                          {"user"}, "orders:propose", FALSE, FALSE),
            StoringRoutes({"propose_order_return"}, {"user"}, "returns:propose", FALSE, FALSE)})

ListingProposalRoutes ==
    StoringRoutes({"propose_listing_publish", "propose_listing_content_change"},
                  {"seller"}, "listings:propose", TRUE, FALSE)

PriceProposalRoutes ==
    StoringRoutes({"propose_price_change"}, {"seller"}, "pricing:propose", TRUE, FALSE)

StockProposalRoutes ==
    Joined({StoringRoutes({"propose_inventory_adjustment"},
                          {"seller"}, "inventory:propose", TRUE, FALSE),
            StoringRoutes({"propose_fulfillment_transition"},
                          {"seller"}, "fulfillment:propose", TRUE, FALSE)})

QueueRoutes ==
    Joined({Routes({"list_order_exception_queue", "get_order_exception_detail",
                    "list_return_queue"}, {"admin"}, "support:read", FALSE),
            Routes({"draft_support_message"}, {"user"}, "support:draft", FALSE)})

PromotionRoutes ==
    Joined({Routes({"list_promotion_configuration", "get_promotion_usage_summary"},
                   {"admin"}, "promotions:read", FALSE),
            Routes({"draft_seller_review_recommendation", "draft_return_review_recommendation",
                    "draft_promotion_recommendation"},
                   {"admin"}, "recommendations:draft", FALSE)})

Policy ==
    Joined({AccountRoutes, BuyerRoutes, SellerRoutes, PlatformRoutes, DraftRoutes,
            CartProposalRoutes, OrderProposalRoutes, ListingProposalRoutes, PriceProposalRoutes,
            StockProposalRoutes, QueueRoutes, PromotionRoutes})

-----------------------------------------------------------------------------
(* The scopes a role may be given on the authorization page *)

RoleScopes ==
    [user   |-> {"profile:read", "notifications:read", "orders:read", "cart:read",
                 "cart:propose", "orders:propose", "returns:propose", "proposals:read",
                 "support:draft"},
     seller |-> {"profile:read", "notifications:read", "catalog:read", "orders:read",
                 "sales:read", "revenue:read", "listings:draft", "listings:propose",
                 "pricing:propose", "inventory:propose", "fulfillment:propose"},
     admin  |-> {"profile:read", "notifications:read", "platform:read", "sellers:read",
                 "support:read", "promotions:read", "recommendations:draft"}]

-----------------------------------------------------------------------------
(* The two decisions *)

\* Mutant of Listed: the scopes are not asked for.
ListedWithoutScope(t, claims) ==
    \/ "public" \in Registry[t].roles
    \/ /\ claims.role \in Registry[t].roles
       /\ Registry[t].verified => claims.verified

\* isToolAvailable: the tool is shown to a caller with these claims.
Listed(t, claims) ==
    \/ "public" \in Registry[t].roles
    \/ /\ claims.role \in Registry[t].roles
       /\ Registry[t].verified => claims.verified
       /\ Registry[t].scopes \subseteq claims.scopes

\* validateAssistantAccess, for an account that is what the claims say.
Allowed(t, claims) ==
    /\ Policy[t].scope \in claims.scopes
    /\ claims.role \in Policy[t].roles
    /\ (Policy[t].verified /\ claims.role = "seller") => claims.verified

\* requireVerifiedSeller
PassesGate(t, claims) == Policy[t].gate => claims.verified

\* Everybody's tokens: a role, a seller's verification, and the scopes of the role
\* but for some that were not granted.
Tokens == UNION {[role : {r}, verified : BOOLEAN, scopes : SUBSET RoleScopes[r]] : r \in Roles}

\* A private tool's route serves the caller: for the one scope that the backend
\* client asks a delegated token for, if the caller has it to give.
Served(t, claims) ==
    /\ PrivateScopes[t] \in claims.scopes
    /\ Allowed(t, [claims EXCEPT !.scopes = {PrivateScopes[t]}])
=============================================================================
