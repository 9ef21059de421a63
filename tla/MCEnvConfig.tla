---------------------------- MODULE MCEnvConfig ----------------------------
(***************************************************************************)
(* The instance of EnvConfig that TLC checks: environments and files as    *)
(* they occur, namely nothing at all, a copy of .env.example with an empty *)
(* key, an operator's key in the first file or in the second, an API that  *)
(* is open on purpose in the first file or in the second, older names with *)
(* a region that was edited without its base URL and with a flag that is   *)
(* commented out, such a flag at the end of a file, where the end of one   *)
(* text that is left behind another can begin behind its "#", and a region *)
(* given by the environment.                                               *)
(***************************************************************************)
EXTENDS EnvConfig, TLC

CONSTANTS a1, a2, k1, k2, k3

MCSymmetry == Permutations({a1, a2}) \cup Permutations({k1, k2, k3})

-----------------------------------------------------------------------------
(* Lines in bytes: NAME=value and the end of the line.                     *)

NewName ==
    [n \in DOMAIN Held |->
        CASE n = "API_KEY"  -> "CODEBUDDY_PROXY_API_KEY"
          [] n = "REQUIRE"  -> "CODEBUDDY_PROXY_REQUIRE_API_KEY"
          [] n = "SITE"     -> "CODEBUDDY_SITE"
          [] n = "BASE_URL" -> "CODEBUDDY_BASE_URL"
          [] n = "ENV"      -> "CODEBUDDY_INTERNET_ENVIRONMENT"
          [] n = "OTHER"    -> "CODEBUDDY_PROXY_PORT=32126"]

OldName ==
    [n \in DOMAIN Held |->
        CASE n = "API_KEY" -> "CURSOR_DIRECT_API_KEY"
          [] n = "REQUIRE" -> "CURSOR_DIRECT_REQUIRE_API_KEY"
          [] OTHER         -> "CURSOR_DIRECT_" \o NewName[n]]

ValueLen(n, x) ==
    CASE n = "API_KEY" /\ x \in ApiKeys -> Len("cbp_") + 48
      [] n = "API_KEY" /\ x = OwnKey    -> Len("own")
      [] n = "BASE_URL" /\ x # ""       -> Len("https://") + Len(x)
      [] OTHER                          -> Len(x)

MCWidth(n, age, x) ==
    Len(IF age = "new" THEN NewName[n] ELSE OldName[n]) + Len("=") + ValueLen(n, x) + 1

-----------------------------------------------------------------------------
(* Environments and files.                                                 *)

NothingGiven ==
    [env |-> [n \in Names |-> [age \in Ages |-> Unset]], custom |-> FALSE]
MCGivens ==
    {NothingGiven,
     [NothingGiven EXCEPT !.custom = TRUE],
     [NothingGiven EXCEPT !.env["API_KEY"]["new"] = OwnKey],
     [NothingGiven EXCEPT !.env["API_KEY"]["new"] = ""],
     [NothingGiven EXCEPT !.env["SITE"]["new"] = "domestic"]}

Other == [Fresh("OTHER", "") EXCEPT !.lead = 2]
OldLine(n, x) == [Fresh(n, x) EXCEPT !.age = "old"]
Commented(n, x) == [Fresh(n, x) EXCEPT !.lead = 2]

Example ==
    <<Other, Fresh("REQUIRE", "true"), Fresh("API_KEY", ""), Fresh("SITE", "domestic"),
      Fresh("ENV", "internal"), Fresh("BASE_URL", PortalCN)>>
Own == <<Fresh("API_KEY", OwnKey)>>
Keyed == Own \o <<Fresh("REQUIRE", "true")>>
OpenAPI == <<Fresh("REQUIRE", "false")>>
Legacy ==
    <<OldLine("API_KEY", OwnKey), OldLine("ENV", "internal"), Commented("REQUIRE", "false"),
      Fresh("SITE", "cn"), Fresh("BASE_URL", PortalAI)>>

Closed ==
    Own \o <<Fresh("SITE", ""), Fresh("BASE_URL", PortalAI), Fresh("ENV", "public"),
             Commented("REQUIRE", "false")>>

MCFirstFiles ==
    {<<NoFile, NoFile>>, <<Example, NoFile>>, <<Keyed, NoFile>>, <<NoFile, Own>>,
     <<OpenAPI, Own>>, <<Example, OpenAPI>>, <<Legacy, NoFile>>, <<Closed, NoFile>>}
=============================================================================
