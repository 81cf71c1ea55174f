----------------------------- MODULE Components -----------------------------
(***************************************************************************)
(* The checklist: the components the tool knows, the family each is in,    *)
(* who has to do it, what site it is expected of, and what is generated    *)
(* for it (app/core/components.py).                                        *)
(***************************************************************************)
EXTENDS TLC

\* COMPONENTS, by family.
PageKeys == {"cls", "semantic-html", "roles", "cursor", "labels", "tap-targets", "overlays",
             "aria-roles", "unique-ids"}
CrawlKeys == {"robots", "content-signals", "web-bot-auth"}
ContentKeys == {"llms-txt", "llms-full", "sitemap"}
AgentsKeys == {"agents-md"}
CapabilitiesKeys == {"ai-catalog", "mcp-card", "a2a-card", "oauth-resource", "skills",
                     "api-catalog", "commerce-protocols"}
DeliveryKeys == {"link-header", "markdown-negotiation", "webmcp"}

Families == {PageKeys, CrawlKeys, ContentKeys, AgentsKeys, CapabilitiesKeys, DeliveryKeys}
Keys == UNION Families

Layer1 == PageKeys

\* Effort.DROP_IN: what needs no developer.
DropIn == {"robots", "content-signals", "ai-catalog"} \cup ContentKeys \cup AgentsKeys
NeedsDeveloper(key) == key \notin DropIn

\* Applicability.NO, of the two types of site the tool tells apart; what is
\* conditional applies.
NotOn(type) ==
    IF type = "content"
    THEN {"ai-catalog", "a2a-card", "oauth-resource", "skills", "api-catalog", "commerce-protocols"}
    ELSE {"a2a-card", "skills"}
Applies(key, type) == key \notin NotOn(type)

\* The file that is generated, of the components that have one.
Artifact == [key \in {"robots", "content-signals"} |-> "robots.txt"]
    @@ ("llms-txt" :> "llms.txt") @@ ("llms-full" :> "llms-full.txt")
    @@ ("agents-md" :> "agents.md") @@ ("ai-catalog" :> "ai-catalog.json")
    @@ ("link-header" :> "_headers")

\* A starting point can be offered, never published as it is.
Templated == {"mcp-card", "a2a-card", "oauth-resource", "skills", "api-catalog"} \cup DeliveryKeys
=============================================================================
