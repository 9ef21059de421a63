------------------------------ MODULE Routing ------------------------------
(***************************************************************************)
(* Which upstream host a chat request of an account goes to                *)
(* (provider/client.go, gateway/service.go: chatOptionsFromAccount,        *)
(* accounts/pool.go: NormalizeAccount).  A URL is its host; the path that  *)
(* is appended to it decides nothing.  "" is a field that is not set.      *)
(***************************************************************************)
EXTENDS Integers

Regions == {"domestic", "global"}
Copilot == "copilot.tencent.com"
PortalCN == "www.codebuddy.cn"
PortalAI == "www.codebuddy.ai"
Hosts == {Copilot, PortalCN, PortalAI, "other"}

NormalizeSite(s) ==
    IF s \in {"domestic", "cn", "china", "internal"} THEN "domestic" ELSE "global"

(* The first of two values that is set. *)
FirstSet(a, b) == IF a # "" THEN a ELSE b

Portal(region) == IF region = "domestic" THEN PortalCN ELSE PortalAI

DomesticHost(host) == host \in {Copilot, PortalCN}

(* site "" counts as global, as it does in NormalizeSite. *)
IsDomestic(site, env, host) ==
    \/ NormalizeSite(site) = "domestic"
    \/ env \in {"domestic", "cn", "china", "internal"}
    \/ DomesticHost(host)

RegionOf(o) ==
    IF \/ IsDomestic(o.site, o.env, "")
       \/ o.site = "" /\ o.env = "" /\ IsDomestic("", "", o.base)
    THEN "domestic" ELSE "global"

ProtocolDirectBase(o) ==
    IF RegionOf(o) = "domestic" THEN Copilot
    ELSE IF o.base # "" /\ ~IsDomestic("", "", o.base) THEN o.base
    ELSE PortalAI

EndpointMatchesRegion(host, region) ==
    IF region = "domestic" THEN DomesticHost(host)
    ELSE ~DomesticHost(host) /\ host # ""

(* Faulty variant: an explicit endpoint is always taken.                   *)
EndpointAsConfigured(o) ==
    IF o.endpoint # "" THEN o.endpoint ELSE ProtocolDirectBase(o)

(* An explicit endpoint counts only within the region of the account.      *)
ProtocolDirectEndpoint(o) ==
    IF o.endpoint # "" /\ EndpointMatchesRegion(o.endpoint, RegionOf(o))
    THEN o.endpoint
    ELSE ProtocolDirectBase(o)

(* X-Domain: the endpoint always has a host, so that the rest of the       *)
(* function is never reached.                                              *)
ProtocolDirectDomain(o) == ProtocolDirectEndpoint(o)

(* An account as it is in the pool: NormalizeAccount fills what is empty.  *)
NormalizeAccount(a) ==
    LET site == NormalizeSite(a.site)
    IN  [site     |-> site,
         base     |-> FirstSet(a.base, Portal(site)),
         env      |-> FirstSet(a.env, IF site = "domestic" THEN "domestic"
                                      ELSE "public"),
         endpoint |-> a.endpoint]

(* chatOptionsFromAccount: the running configuration fills what is empty.  *)
ChatOptions(a, conf) ==
    LET site == NormalizeSite(FirstSet(a.site, conf.site))
    IN  [site     |-> site,
         env      |-> FirstSet(a.env, conf.env),
         base     |-> FirstSet(a.base, Portal(site)),
         endpoint |-> a.endpoint]

(***************************************************************************)
(* The accounts of the pool: a login or a file names the region, and may   *)
(* name any base URL and any endpoint, also of the other region.           *)
(***************************************************************************)
PoolAccounts ==
    {NormalizeAccount(a) :
        a \in [site : Regions, base : Hosts \cup {""}, env : {""},
               endpoint : Hosts \cup {""}]}
=============================================================================
