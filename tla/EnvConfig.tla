----------------------------- MODULE EnvConfig -----------------------------
(***************************************************************************)
(* The gateway's configuration (config/config.go: Load; config/dotenv.go;  *)
(* gateway/service.go: updateConfig, SetAPIKey, SetPoolSite; server.go:    *)
(* generate-key; main.go: the key of a first run): the running snapshot,   *)
(* the .env files it was loaded from and is written back to, and the       *)
(* environment that whoever starts the process gives it.                   *)
(*                                                                         *)
(* UpsertEnvFile takes no lock.  Its steps are the read, the open of the   *)
(* temporary file (which truncates it), the write, from the start of the   *)
(* file, and the rename; what a process has open stays the same file when  *)
(* it is renamed.                                                          *)
(*                                                                         *)
(* A file is its lines, and a line is as many bytes as it has: where two   *)
(* writers share a file, the end of a longer text stays behind a shorter   *)
(* one, from any byte of any line.                                         *)
(***************************************************************************)
EXTENDS Routing, Sequences, FiniteSets

CONSTANTS
    Admins,       \* goroutines of the two handlers that write the .env file
    Main,         \* the goroutine of main
    ApiKeys,      \* the keys that can be generated
    OwnKey,       \* a key that the operator wrote
    Givens,       \* the environments that the process may be started in
    FirstFiles,   \* the .env files that there may be, in the order of loading
    Width(_, _, _), \* the bytes of a line: of its name, its age and its value
    Unset, NoFile,
    MaxUpdates, MaxFailures, MaxStarts

Names == {"API_KEY", "REQUIRE", "SITE", "BASE_URL", "ENV"}
SiteNames == {"SITE", "BASE_URL", "ENV"}

(* Every name has an older one: CURSOR_DIRECT_...; Load takes both.         *)
Ages == {"new", "old"}

(* What a line may say: any spelling of a flag is "true" or "false" here.   *)
(* OTHER is every line that decides nothing of all this.                   *)
Held ==
    [n \in Names \cup {"OTHER"} |->
        CASE n = "API_KEY"  -> ApiKeys \cup {OwnKey, ""}
          [] n = "REQUIRE"  -> {"true", "false", ""}
          [] n = "SITE"     -> Regions \cup {"cn", ""}
          [] n = "BASE_URL" -> Hosts \cup {""}
          [] n = "ENV"      -> {"internal", "domestic", "public", ""}
          [] n = "OTHER"    -> {""}]
Values == UNION {Held[n] : n \in DOMAIN Held}

(* A line: lead is how long the "# " of a comment is, cut how many bytes    *)
(* have been written over at its start.                                    *)
Line ==
    {l \in [name : DOMAIN Held, age : Ages, value : Values, lead : Nat, cut : Nat] :
        /\ l.value \in Held[l.name]
        /\ l.cut < l.lead + Width(l.name, l.age, l.value)}
Content == Seq(Line)
EmptyFile == << >>
Environment ==
    {e \in [Names -> [Ages -> Values \cup {Unset}]] :
        \A n \in Names, age \in Ages : e[n][age] \in Held[n] \cup {Unset}}
Places == {1, 2}  \* two of: CODEBUDDY_PROXY_ENV_FILE, ./.env, ../.env, exe/.env

ASSUME EnvAssumption ==
    /\ Main \notin Admins
    /\ Unset \notin Values
    /\ NoFile \notin Content
    /\ \A n \in DOMAIN Held, age \in Ages : \A x \in Held[n] : Width(n, age, x) \in Nat \ {0}
    /\ Givens \subseteq [env : Environment, custom : BOOLEAN]
    /\ FirstFiles \subseteq [Places -> Content \cup {NoFile}]
    /\ "" \notin ApiKeys \cup {OwnKey}
    /\ MaxUpdates \in Nat /\ MaxFailures \in Nat /\ MaxStarts \in Nat

Procs == Admins \cup {Main}

VARIABLES
    given,      \* the environment of the process, and whether it names a file
    file, tmp,  \* the .env files, and the temporary file beside the first
    conf,       \* runtimeCfg, or what Load returned
    up,         \* the process runs
    pc, values, \* of a writer: where it is, what it sets
    text, fd,   \* of a writer: the new content, the file it has open
    used,       \* the keys generated so far
    first,      \* not in the code: the .env files as the operator left them
    overlap,    \* not in the code: two updates overlapped since the start
    before,     \* not in the code: updates overlapped in an earlier run
    updates, failures, starts

vars == <<given, file, tmp, conf, up, pc, values, text, fd, used, first,
          overlap, before, updates, failures, starts>>
writerVars == <<pc, values, text, fd>>
bounds == <<updates, failures, starts>>

-----------------------------------------------------------------------------
(* Reading.                                                                *)

(* A line counts if nothing but the sign of a comment is gone from it.     *)
Bare(l) == IF l.lead = 0 THEN l.cut = 0 ELSE l.cut \in 1..l.lead

(* An old name of the region that loses its CURSOR_DIRECT_ is the new one.  *)
OldPrefix == 14

Sets(l, n, age) ==
    /\ l.name = n
    /\ \/ l.age = age /\ Bare(l)
       \/ n \in SiteNames /\ l.age = "old" /\ age = "new" /\ l.cut = l.lead + OldPrefix

Lines(f) == IF f = NoFile THEN EmptyFile ELSE f

At(f, n, age) == {i \in 1..Len(Lines(f)) : Sets(Lines(f)[i], n, age)}

LeastOf(S) == CHOOSE i \in S : \A j \in S : i <= j

(* What a file says of a name: the first line with it counts.              *)
Value(f, n, age) ==
    IF At(f, n, age) = {} THEN Unset ELSE Lines(f)[LeastOf(At(f, n, age))].value

(* LoadDotEnv: the environment wins, then the first file with the name.    *)
Lookup(env, files, n, age) ==
    IF env[n][age] # Unset THEN env[n][age]
    ELSE LET found == {i \in Places : Value(files[i], n, age) # Unset}
         IN  IF found = {} THEN "" ELSE Value(files[LeastOf(found)], n, age)

(* firstEnv: the old name counts where the new one is not set, or empty.   *)
FirstEnv(env, files, n) ==
    FirstSet(Lookup(env, files, n, "new"), Lookup(env, files, n, "old"))

DefaultBase(site, env) ==
    IF env = "internal" THEN Copilot
    ELSE IF site = "domestic" \/ env = "domestic" THEN PortalCN ELSE PortalAI

(* Faulty variant: without REQUIRE the API is open.                        *)
LoadOpen(g, files) ==
    LET v(n) == FirstEnv(g.env, files, n)
    IN  [apiKey  |-> v("API_KEY"),
         require |-> v("REQUIRE") = "true",
         site    |-> NormalizeSite(v("SITE")),
         base    |-> FirstSet(v("BASE_URL"), DefaultBase(NormalizeSite(v("SITE")), v("ENV"))),
         env     |-> v("ENV")]

Load(g, files) ==
    LET v(n) == FirstEnv(g.env, files, n)
    IN  [apiKey  |-> v("API_KEY"),
         require |-> IF v("REQUIRE") = "" THEN v("API_KEY") # ""
                     ELSE v("REQUIRE") = "true",
         site    |-> NormalizeSite(v("SITE")),
         base    |-> FirstSet(v("BASE_URL"), DefaultBase(NormalizeSite(v("SITE")), v("ENV"))),
         env     |-> v("ENV")]

(* Faulty variant: the last of the files that exist.                       *)
ResolveLast(g, files) ==
    IF \A i \in Places : files[i] = NoFile THEN 1
    ELSE CHOOSE i \in Places : files[i] # NoFile
                               /\ \A j \in Places : files[j] # NoFile => j <= i

(* ResolveEnvFilePath: the named file, or the first that exists, or ./.env *)
Resolve(g, files) ==
    IF g.custom \/ \A i \in Places : files[i] = NoFile THEN 1
    ELSE CHOOSE i \in Places : files[i] # NoFile
                               /\ \A j \in Places : files[j] # NoFile => i <= j

Target == Resolve(given, file)

-----------------------------------------------------------------------------
(* Writing.                                                                *)

KeyValues(k) == [n \in {"API_KEY", "REQUIRE"} |-> IF n = "API_KEY" THEN k ELSE "true"]

(* Faulty variant: the base URL is not written back.                       *)
SiteValuesOnly(s) ==
    [n \in {"SITE", "ENV"} |->
        IF n = "SITE" THEN s ELSE IF s = "domestic" THEN "internal" ELSE ""]

SiteValues(s) ==
    [n \in {"SITE", "BASE_URL", "ENV"} |->
        IF n = "SITE" THEN s
        ELSE IF n = "BASE_URL" THEN Portal(s)
        ELSE IF s = "domestic" THEN "internal" ELSE ""]

Fresh(n, x) == [name |-> n, age |-> "new", value |-> x, lead |-> 0, cut |-> 0]

Renewed(l, v) ==
    IF l.name \in DOMAIN v /\ Sets(l, l.name, "new") THEN Fresh(l.name, v[l.name]) ELSE l

Missing(f, v, n) ==
    IF n \in DOMAIN v /\ At(f, n, "new") = {} THEN <<Fresh(n, v[n])>> ELSE EmptyFile

(* The lines of a file with the values replaced or appended.               *)
Edited(f, v) ==
    [i \in 1..Len(Lines(f)) |-> Renewed(Lines(f)[i], v)]
        \o Missing(f, v, "API_KEY") \o Missing(f, v, "REQUIRE")
        \o Missing(f, v, "SITE") \o Missing(f, v, "BASE_URL") \o Missing(f, v, "ENV")

Size(l) == l.lead + Width(l.name, l.age, l.value) - l.cut

(* Where the lines of a text end, in bytes.                                *)
Ends(f) ==
    LET e[k \in 0..Len(f)] == IF k = 0 THEN 0 ELSE e[k - 1] + Size(f[k])
    IN  e

(* What follows the first n bytes of a text.                               *)
Behind(f, n) ==
    LET past == {k \in 1..Len(f) : Ends(f)[k] > n}
        k == LeastOf(past)
    IN  IF past = {} THEN EmptyFile
        ELSE <<[f[k] EXCEPT !.cut = @ + n - Ends(f)[k - 1]]>> \o SubSeq(f, k + 1, Len(f))

(* write(2) from the start of a file that holds something already.         *)
Overlay(new, under) == new \o Behind(Lines(under), Ends(new)[Len(new)])

Busy == {p \in Procs : pc[p] # "idle"}

(* Faulty variant: the file is written anew.                               *)
PrepareAnew(p, v) ==
    /\ pc' = [pc EXCEPT ![p] = "open"]
    /\ values' = [values EXCEPT ![p] = v]
    /\ text' = [text EXCEPT ![p] = Edited(NoFile, v)]

Prepare(p, v) ==
    /\ pc' = [pc EXCEPT ![p] = "open"]
    /\ values' = [values EXCEPT ![p] = v]
    /\ text' = [text EXCEPT ![p] = Edited(file[Target], v)]

(* The key of a first run: main generates one when there is none.          *)
FirstRun(c) == c.apiKey = ""

Init ==
    /\ given \in Givens /\ file \in FirstFiles
    /\ tmp = NoFile /\ up = FALSE
    /\ conf = Load(given, file)
    /\ pc = [p \in Procs |-> "idle"]
    /\ values = [p \in Procs |-> EmptyFile]
    /\ text = [p \in Procs |-> EmptyFile]
    /\ fd = [p \in Procs |-> "none"]
    /\ used = {} /\ overlap = FALSE /\ before = FALSE
    /\ first = file
    /\ updates = 0 /\ failures = 0 /\ starts = 0

Start ==
    /\ ~up /\ starts < MaxStarts
    /\ up' = TRUE /\ conf' = Load(given, file)
    /\ starts' = starts + 1
    /\ before' = (before \/ overlap) /\ overlap' = FALSE
    /\ IF FirstRun(Load(given, file))
       THEN \E k \in ApiKeys \ used : Prepare(Main, KeyValues(k)) /\ used' = used \cup {k}
       ELSE UNCHANGED <<pc, values, text, used>>
    /\ UNCHANGED <<given, file, tmp, fd, first, updates, failures>>

Serving == up /\ pc[Main] = "idle"

GenerateKey(p) ==
    /\ Serving /\ pc[p] = "idle" /\ updates < MaxUpdates
    /\ \E k \in ApiKeys \ used : Prepare(p, KeyValues(k)) /\ used' = used \cup {k}
    /\ updates' = updates + 1 /\ overlap' = (overlap \/ Busy # {})
    /\ UNCHANGED <<given, file, tmp, conf, up, fd, first, before, failures, starts>>

SetPoolSite(p, s) ==
    /\ Serving /\ pc[p] = "idle" /\ updates < MaxUpdates
    /\ Prepare(p, SiteValues(s))
    /\ updates' = updates + 1 /\ overlap' = (overlap \/ Busy # {})
    /\ UNCHANGED <<given, file, tmp, conf, up, fd, used, first, before, failures, starts>>

Goto(p, label) == pc' = [pc EXCEPT ![p] = label]

(* Faulty variant: the file itself is opened for writing.                  *)
OpenInPlace(p) ==
    /\ pc[p] = "open"
    /\ file' = [file EXCEPT ![Target] = EmptyFile]
    /\ tmp' = EmptyFile
    /\ fd' = [fd EXCEPT ![p] = "env"]
    /\ Goto(p, "write")
    /\ UNCHANGED <<given, conf, up, values, text, used, first, overlap, before, bounds>>

(* os.WriteFile(tmp): open with O_TRUNC, then write, from the start.       *)
Open(p) ==
    /\ pc[p] = "open"
    /\ tmp' = EmptyFile
    /\ fd' = [fd EXCEPT ![p] = "tmp"]
    /\ Goto(p, "write")
    /\ UNCHANGED <<given, file, conf, up, values, text, used, first, overlap, before, bounds>>

Write(p) ==
    /\ pc[p] = "write"
    /\ tmp' = IF fd[p] = "tmp" THEN Overlay(text[p], tmp) ELSE tmp
    /\ file' = IF fd[p] = "env"
               THEN [file EXCEPT ![Target] = Overlay(text[p], @)] ELSE file
    /\ fd' = [fd EXCEPT ![p] = "none"]
    /\ Goto(p, "rename")
    /\ UNCHANGED <<given, conf, up, values, text, used, first, overlap, before, bounds>>

(* An update that fails is answered with an error; main gives up.          *)
Refused(p) ==
    /\ Goto(p, "idle")
    /\ values' = [values EXCEPT ![p] = EmptyFile]
    /\ text' = [text EXCEPT ![p] = EmptyFile]
    /\ fd' = [fd EXCEPT ![p] = "none"]
    /\ up' = (up /\ p # Main)

WriteFails(p) ==
    /\ pc[p] = "write" /\ failures < MaxFailures
    /\ failures' = failures + 1
    /\ Refused(p)
    /\ UNCHANGED <<given, file, tmp, conf, used, first, overlap, before, updates, starts>>

(* Another update renamed the temporary file away.                         *)
RenameFails(p) ==
    /\ pc[p] = "rename" /\ tmp = NoFile
    /\ Refused(p)
    /\ UNCHANGED <<given, file, tmp, conf, used, first, overlap, before, bounds>>

Rename(p) ==
    /\ pc[p] = "rename" /\ tmp # NoFile
    /\ file' = [file EXCEPT ![Target] = tmp]
    /\ tmp' = NoFile
    /\ fd' = [q \in Procs |-> CASE fd[q] = "tmp" -> "env"
                                [] fd[q] = "env" -> "gone"
                                [] OTHER -> fd[q]]
    /\ Goto(p, "apply")
    /\ UNCHANGED <<given, conf, up, values, text, used, first, overlap, before, bounds>>

(* updateConfig: the snapshot is swapped as a whole.                       *)
Applied(c, v) ==
    IF "API_KEY" \in DOMAIN v
    THEN [c EXCEPT !.apiKey = v["API_KEY"], !.require = TRUE]
    ELSE [c EXCEPT !.site = v["SITE"], !.base = Portal(v["SITE"]), !.env = v["ENV"]]

Apply(p) ==
    /\ pc[p] = "apply"
    /\ conf' = Applied(conf, values[p])
    /\ Goto(p, "idle")
    /\ values' = [values EXCEPT ![p] = EmptyFile]
    /\ text' = [text EXCEPT ![p] = EmptyFile]
    /\ UNCHANGED <<given, file, tmp, up, fd, used, first, overlap, before, bounds>>

(* The process ends, at any time.                                          *)
Kill ==
    /\ up /\ up' = FALSE
    /\ pc' = [p \in Procs |-> "idle"]
    /\ values' = [p \in Procs |-> EmptyFile]
    /\ text' = [p \in Procs |-> EmptyFile]
    /\ fd' = [p \in Procs |-> "none"]
    /\ UNCHANGED <<given, file, tmp, conf, used, first, overlap, before, bounds>>

UpsertStep(p) ==
    Open(p) \/ Write(p) \/ WriteFails(p) \/ Rename(p) \/ RenameFails(p) \/ Apply(p)

Next ==
    \/ Start \/ Kill
    \/ \E p \in Admins : GenerateKey(p) \/ \E s \in Regions : SetPoolSite(p, s)
    \/ \E p \in Procs : UpsertStep(p)

Spec == Init /\ [][Next]_vars

-----------------------------------------------------------------------------
TypeOK ==
    /\ given \in Givens
    /\ {file, first} \subseteq [Places -> Content \cup {NoFile}] /\ tmp \in Content \cup {NoFile}
    /\ conf \in [apiKey : ApiKeys \cup {OwnKey, ""}, require : BOOLEAN,
                 site : Regions, base : Hosts, env : Held["ENV"]]
    /\ {up, overlap, before} \subseteq BOOLEAN
    /\ pc \in [Procs -> {"idle", "open", "write", "rename", "apply"}]
    /\ values \in [Procs -> {EmptyFile} \cup {KeyValues(k) : k \in ApiKeys}
                                        \cup {SiteValues(s) : s \in Regions}]
    /\ text \in [Procs -> Content]
    /\ fd \in [Procs -> {"none", "tmp", "env", "gone"}]
    /\ used \subseteq ApiKeys
    /\ updates \in 0..MaxUpdates /\ failures \in 0..MaxFailures /\ starts \in 0..MaxStarts

(***************************************************************************)
(* What an administrator changed survives a restart: with no update under  *)
(* way, and none that overlapped another since the start, the files say    *)
(* what runs, in all that the environment leaves to them (main.go:25,      *)
(* server.go:533, docs/api/http.md:197-198).  The exception is ENV: where  *)
(* the new name is empty, as SetPoolSite leaves it for the global region,  *)
(* the old name decides at the start and nothing does until then.          *)
(***************************************************************************)
LeftToFiles(ns) == \A n \in ns : given.env[n]["new"] = Unset

InFiles(c) ==
    LET d == Load(given, file)
    IN  /\ LeftToFiles({"API_KEY"}) => d.apiKey = c.apiKey
        /\ LeftToFiles({"REQUIRE"}) => d.require = c.require
        /\ LeftToFiles({"SITE"}) => d.site = c.site
        /\ LeftToFiles({"BASE_URL"}) => d.base = c.base
        /\ LeftToFiles({"ENV"}) =>
               d.env = FirstSet(c.env, Lookup(given.env, file, "ENV", "old"))

RestartKeepsConfig == up /\ Busy = {} /\ ~overlap => InFiles(conf)

(* No kill and no failing write takes a line out of a .env file, or changes *)
(* one but for the value that an update sets, as long as updates do not     *)
(* overlap (dotenv.go:139, 228-232).                                        *)
EnvKeepsLines ==
    [][~overlap' =>
        \A i \in Places : file[i] # NoFile =>
            /\ file'[i] # NoFile /\ Len(file[i]) <= Len(file'[i])
            /\ \A j \in 1..Len(file[i]) :
                   \/ file'[i][j] = file[i][j]
                   \/ \E n \in Names : Sets(file[i][j], n, "new") /\ Sets(file'[i][j], n, "new")
      ]_vars

(* What the operator wrote, be it commented out: when updates overlap, the *)
(* end of one that is left behind another may begin behind the "#".        *)
OperatorSaid(age) ==
    \E i \in Places : \E j \in 1..Len(Lines(first[i])) :
        LET l == first[i][j] IN l.name = "REQUIRE" /\ l.age = age /\ l.value = "false"

Opened ==
    \/ FirstEnv(given.env, first, "REQUIRE") = "false"
    \/ /\ overlap \/ before
       /\ \E age \in Ages :
              \/ given.env["REQUIRE"][age] = "false"
              \/ given.env["REQUIRE"][age] = Unset /\ OperatorSaid(age)

(* authorizeAPI. *)
Authorized(token) == conf.require => token # "" /\ token = conf.apiKey

(***************************************************************************)
(* Through kills and failing writes the gateway never serves without a key *)
(* unless the operator asked for it; nor through updates that overlap,     *)
(* unless the operator's files have a line that asks for it, though an     *)
(* older name, another file or a comment made it void.                     *)
(***************************************************************************)
NeverOpenByAccident ==
    Serving => conf.apiKey # "" /\ (Authorized("") => Opened)

(***************************************************************************)
(* Region and base URL are of one region, in the snapshot and after a      *)
(* restart at any moment, if what the operator wrote is, until updates     *)
(* overlap: from then on the files may be torn, and from the next start    *)
(* the snapshot as well.                                                   *)
(***************************************************************************)
Coherent(c) == IF c.site = "domestic" THEN DomesticHost(c.base) ELSE c.base = PortalAI

SiteMatchesBase ==
    LeftToFiles({"SITE", "BASE_URL"}) /\ Coherent(Load(given, first)) =>
        /\ ~before => Coherent(conf)
        /\ ~before /\ ~overlap => Coherent(Load(given, file))

(***************************************************************************)
(* An account's requests go to a host of its region, whatever region runs, *)
(* whatever base URL the process has and whatever endpoint the account has *)
(* (service.go:206, docs/guides/configuration.md, "endpoint by the         *)
(* account's own site").                                                   *)
(***************************************************************************)
RoutedToRegion ==
    \A a \in PoolAccounts :
        LET o == ChatOptions(a, conf)
        IN  /\ DomesticHost(ProtocolDirectEndpoint(o)) = (a.site = "domestic")
            /\ DomesticHost(ProtocolDirectDomain(o)) = (a.site = "domestic")

-----------------------------------------------------------------------------
(* The invariant that the proofs rest on.                                  *)

(* What the file that updates write can hold, of what they set: the values *)
(* as the operator left them, or as an update sets them together.          *)
Version(c) ==
    LET wrote(n, age) == Value(first[Resolve(given, first)], n, age)
    IN  /\ Value(c, "REQUIRE", "new") \in {wrote("REQUIRE", "new"), "true"}
        /\ \A n \in Names : Value(c, n, "old") = wrote(n, "old")
        /\ \/ \A n \in SiteNames : Value(c, n, "new") = wrote(n, "new")
           \/ \E s \in Regions : \A n \in SiteNames : Value(c, n, "new") = SiteValues(s)[n]

(* Only the first file is ever written, and until updates overlap only     *)
(* with versions of it.                                                    *)
FilesAreVersions ==
    /\ Target = Resolve(given, first)
    /\ \A i \in Places : i # Target => file[i] = first[i]
    /\ file[Target] = NoFile => first[Target] = NoFile
    /\ ~overlap /\ ~before => Version(file[Target])

(* Whoever overlaps whom, no line that opens the API comes from an update. *)
FlagIsOperators(f) ==
    \A j \in 1..Len(Lines(f)) :
        Lines(f)[j].name = "REQUIRE" /\ Lines(f)[j].value = "false" => OperatorSaid(Lines(f)[j].age)

FlagsAreOperators ==
    /\ \A i \in Places : FlagIsOperators(file[i])
    /\ FlagIsOperators(tmp) /\ \A p \in Procs : FlagIsOperators(text[p])

Writing(p) == pc[p] \in {"open", "write", "rename"}

(* Who writes: nobody while the process is down, main alone while it       *)
(* starts, one at a time until updates overlap.                            *)
WritersInTurn ==
    /\ ~up => Busy = {}
    /\ pc[Main] # "idle" =>
           Busy = {Main} /\ ~overlap /\ \E k \in ApiKeys : values[Main] = KeyValues(k)
    /\ \A p \in Busy : \/ \E k \in ApiKeys : values[p] = KeyValues(k)
                       \/ \E s \in Regions : values[p] = SiteValues(s)
    /\ \A p \in Procs : fd[p] # "none" <=> pc[p] = "write"
    /\ ~overlap => \A p, q \in Busy : p = q

(* A writer that is alone: its text is what it read with its change, and   *)
(* that is what the temporary file gets.                                   *)
AloneIsExact ==
    ~overlap => \A p \in Busy :
        /\ Writing(p) => text[p] = Edited(file[Target], values[p])
        /\ pc[p] = "write" => fd[p] = "tmp" /\ tmp = EmptyFile
        /\ pc[p] = "rename" => tmp = text[p]

(* The snapshot is what the files say, once a change that has been renamed *)
(* is applied to it as well.                                               *)
SnapshotInFiles ==
    up /\ ~overlap =>
        /\ (\A p \in Procs : pc[p] # "apply") => InFiles(conf)
        /\ \A p \in Procs : pc[p] = "apply" => InFiles(Applied(conf, values[p]))

ConfigInv ==
    /\ TypeOK /\ FilesAreVersions /\ FlagsAreOperators /\ WritersInTurn
    /\ AloneIsExact /\ SnapshotInFiles /\ NeverOpenByAccident /\ SiteMatchesBase
=============================================================================
