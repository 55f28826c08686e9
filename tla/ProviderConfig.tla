---------------------------- MODULE ProviderConfig ----------------------------
(***************************************************************************)
(* The settings of a provider: what loadConfig makes of the environment    *)
(* (lib/schemas/config.ts), what it demands of the result                  *)
(* (getProviderConfigIssues), and what the provider itself demands when it *)
(* is called (requireFields in each provider).  The two lists are kept by  *)
(* hand in different files.                                                *)
(*                                                                         *)
(* A setting is "absent", "empty" (set to the empty string) or "set".      *)
(***************************************************************************)
EXTENDS DomainHost

Keys(p) ==
    CASE p = "cloudflare"   -> {"CLOUDFLARE_API_TOKEN", "UDDNS_TOKEN"}
      [] p = "duckdns"      -> {"DUCKDNS_TOKEN", "UDDNS_TOKEN"}
      [] p = "namecheap"    -> {"NAMECHEAP_PASSWORD", "UDDNS_PASS"}
      [] p \in {"noip", "dyndns", "dynu"} -> {"UDDNS_USER", "UDDNS_PASS", "UDDNS_TOKEN"}
      [] p = "route53"      -> {"ROUTE53_ACCESS_KEY_ID", "ROUTE53_SECRET_ACCESS_KEY"}
      [] p = "porkbun"      -> {"PORKBUN_API_KEY", "PORKBUN_SECRET_KEY"}
      [] p = "hetzner"      -> {"HETZNER_API_TOKEN"}
      [] p = "digitalocean" -> {"DIGITALOCEAN_API_TOKEN"}
      [] p = "gandi"        -> {"GANDI_API_TOKEN"}
      [] p = "linode"       -> {"LINODE_API_TOKEN"}
      [] p = "ovh"          -> {"OVH_APPLICATION_KEY", "OVH_APPLICATION_SECRET", "OVH_CONSUMER_KEY"}
      [] p = "bunny"        -> {"BUNNY_API_KEY"}
      [] p = "contabo"      -> {"CONTABO_CLIENT_ID", "CONTABO_CLIENT_SECRET", "CONTABO_API_USER",
                                "CONTABO_API_PASSWORD"}

OrElse(a, b) == IF a # "absent" THEN a ELSE b    \* a ?? b
Given(a)     == a = "set"                        \* Boolean(a)

\* config: the fields of the provider, from its settings s.  UDDNS_TOKEN and
\* UDDNS_PASS stand in for some; an empty setting hides them.
LoadedFields(p, s) ==
    CASE p = "cloudflare" -> [apiToken |-> OrElse(s["CLOUDFLARE_API_TOKEN"], s["UDDNS_TOKEN"])]
      [] p = "duckdns"    -> [token |-> OrElse(s["DUCKDNS_TOKEN"], s["UDDNS_TOKEN"])]
      [] p = "namecheap"  -> [password |-> OrElse(s["NAMECHEAP_PASSWORD"], s["UDDNS_PASS"])]
      [] p \in {"noip", "dyndns", "dynu"} ->
            [user     |-> s["UDDNS_USER"],
             password |-> s["UDDNS_PASS"],
             token    |-> s["UDDNS_TOKEN"],
             dyndnsPassword |-> OrElse(s["UDDNS_PASS"],
                                       IF p = "dynu" THEN s["UDDNS_TOKEN"] ELSE "absent")]
      [] OTHER -> s

\* Providers whose zone or domain is a required setting, and those that can derive it.
ZoneNameRequired == {"gandi", "linode", "ovh", "bunny", "contabo"}
ZoneIdRequired   == {"route53", "linode", "bunny"}
DerivesDomain    == {"namecheap", "porkbun", "digitalocean"}

\* getProviderConfigIssues finds nothing missing: the account may run.
Accepted(p, s, zoneName, zoneId, h) ==
    LET cfg == LoadedFields(p, s)
    IN  /\ p \in ZoneNameRequired => zoneName # NoDomain
        /\ p \in ZoneIdRequired   => zoneId # 0
        /\ p \in DerivesDomain    => zoneName # NoDomain \/ ~RequiresExplicitDomain(h)
        /\ CASE p \in {"noip", "dyndns"} -> Given(cfg.user) /\ Given(cfg.dyndnsPassword)
             [] p = "dynu" -> /\ Given(cfg.user)
                              /\ \/ Given(cfg.dyndnsPassword)
                                 \/ Given(cfg.password)
                                 \/ Given(cfg.token)
             [] OTHER -> \A k \in DOMAIN cfg : Given(cfg[k])

(***************************************************************************)
(* requireFields, provider by provider.                                    *)
(***************************************************************************)

RequireFields(required) == \A v \in required : Given(v)

DynuFields(cfg) ==
    {cfg.user, OrElse(OrElse(cfg.password, cfg.dyndnsPassword), cfg.token)}

\* The provider accepts its configuration: no "missing" result.  A required zone is
\* part of the same list.
Complete(p, s, zoneName, zoneId) ==
    LET cfg == LoadedFields(p, s)
    IN  /\ p \in ZoneNameRequired => zoneName # NoDomain
        /\ p \in ZoneIdRequired   => zoneId # 0
        /\ CASE p = "dynu"   -> RequireFields(DynuFields(cfg))
             [] p = "noip"   -> RequireFields({cfg.user, cfg.password})
             [] p = "dyndns" -> RequireFields({cfg.user, cfg.dyndnsPassword})
             [] OTHER        -> RequireFields({cfg[k] : k \in DOMAIN cfg})
=============================================================================
