-------------------------- MODULE EnvConfigProofs --------------------------
(***************************************************************************)
(* Theorems about EnvConfig: whatever administrators, whatever keys, any   *)
(* environment, any two .env files and lines of any length, with any       *)
(* number of updates, failing writes, kills and restarts.                  *)
(*                                                                         *)
(* Until updates overlap, what stands in the file that they write is a     *)
(* version of what the operator wrote, and a writer that is alone leaves   *)
(* exactly its change.  When they overlap any end of one text may stand    *)
(* behind another; what is left then is that no update writes a line that  *)
(* opens the API.                                                          *)
(***************************************************************************)
EXTENDS EnvConfig, TLAPS, SequenceTheorems, WellFoundedInduction

Labels == {"idle", "open", "write", "rename", "apply"}
Fds == {"none", "tmp", "env", "gone"}
FileSets == [Places -> Content \cup {NoFile}]
Contexts == [env : Environment, custom : BOOLEAN]
Snapshots ==
    [apiKey : ApiKeys \cup {OwnKey, ""}, require : BOOLEAN,
     site : Regions, base : Hosts, env : Held["ENV"]]

(* What an update sets. *)
IsUpdate(v) == \/ \E k \in ApiKeys : v = KeyValues(k)
               \/ \E s \in Regions : v = SiteValues(s)

-----------------------------------------------------------------------------
(* Numbers.                                                                *)

(* A set of numbers that is not empty has a least one. *)
LEMMA NatHasLeast ==
    ASSUME NEW S, S \subseteq Nat, S # {}
    PROVE  \E k \in S : \A j \in S : k <= j
<1> DEFINE R == OpToRel(<, Nat)
<1>1. IsWellFoundedOn(R, Nat)
  BY NatLessThanWellFounded
<1>2. \A x, y \in Nat : x < y => <<x, y>> \in R
  BY DEF OpToRel
<1> HIDE DEF R
<1>3. \E x \in S : \A y \in S : ~ (<<y, x>> \in R)
  BY <1>1, WFMin, Zenon
<1>4. PICK x \in S : \A y \in S : ~ (<<y, x>> \in R)
  BY <1>3
<1>5. \A y \in S : ~ (y < x)
  BY <1>2, <1>4
<1>6. \A y \in S : x <= y
  BY <1>5, SMT
<1> QED BY <1>6

LEMMA LeastIs ==
    ASSUME NEW S, S \subseteq Nat, S # {}
    PROVE  LeastOf(S) \in S /\ \A j \in S : LeastOf(S) <= j
BY NatHasLeast DEF LeastOf

(* Induction: without a least number that is missing, none is missing. *)
LEMMA NatSetInduction ==
    ASSUME NEW S, 0 \in S, \A n \in Nat : n \in S => n + 1 \in S
    PROVE  Nat \subseteq S
<1> SUFFICES ASSUME Nat \ S # {} PROVE FALSE
  OBVIOUS
<1>1. PICK k \in Nat \ S : \A j \in Nat \ S : k <= j
  BY NatHasLeast
<1>2. k # 0 /\ k - 1 \in Nat /\ (k - 1) + 1 = k
  BY <1>1
<1>3. k - 1 \in S
  BY <1>1, <1>2
<1> QED BY <1>1, <1>2, <1>3

-----------------------------------------------------------------------------
(* Lines and contents.                                                     *)

LEMMA HeldIs ==
    /\ Held["API_KEY"] = ApiKeys \cup {OwnKey, ""}
    /\ Held["REQUIRE"] = {"true", "false", ""}
    /\ Held["SITE"] = Regions \cup {"cn", ""}
    /\ Held["BASE_URL"] = Hosts \cup {""}
    /\ Held["ENV"] = {"internal", "domestic", "public", ""}
    /\ DOMAIN Held = Names \cup {"OTHER"}
BY DEF Held, Names

LEMMA HeldIsValue ==
    ASSUME NEW n \in DOMAIN Held, NEW x \in Held[n]
    PROVE  x \in Values /\ x # Unset
<1>1. Held[n] \in {Held[m] : m \in DOMAIN Held}
  OBVIOUS
<1>2. x \in Values
  BY <1>1, Zenon DEF Values
<1> QED BY <1>2, EnvAssumption

LEMMA LineIs ==
    ASSUME NEW l \in Line
    PROVE  /\ l \in [name : DOMAIN Held, age : Ages, value : Values, lead : Nat, cut : Nat]
           /\ l.value \in Held[l.name] /\ l.value # Unset
           /\ l.cut < l.lead + Width(l.name, l.age, l.value)
           /\ Width(l.name, l.age, l.value) \in Nat
           /\ Size(l) \in Nat
<1>1. /\ l \in [name : DOMAIN Held, age : Ages, value : Values, lead : Nat, cut : Nat]
      /\ l.value \in Held[l.name]
      /\ l.cut < l.lead + Width(l.name, l.age, l.value)
  BY DEF Line
<1>2. l.name \in DOMAIN Held /\ l.age \in Ages /\ l.lead \in Nat /\ l.cut \in Nat
  BY <1>1
<1>3. Width(l.name, l.age, l.value) \in Nat
  BY <1>1, <1>2, EnvAssumption
<1>4. Size(l) \in Nat
  BY <1>1, <1>2, <1>3 DEF Size
<1> QED BY <1>1, <1>2, <1>3, <1>4, HeldIsValue

(* A line of which more is written over. *)
LEMMA CutLine ==
    ASSUME NEW l \in Line, NEW more \in Nat, more < Size(l)
    PROVE  LET c == [l EXCEPT !.cut = l.cut + more]
           IN  c \in Line /\ c.name = l.name /\ c.age = l.age /\ c.value = l.value
<1> DEFINE c == [l EXCEPT !.cut = l.cut + more]
<1>1. /\ c \in [name : DOMAIN Held, age : Ages, value : Values, lead : Nat, cut : Nat]
      /\ c.name = l.name /\ c.age = l.age /\ c.value = l.value /\ c.lead = l.lead
      /\ c.cut = l.cut + more
  BY LineIs
<1> HIDE DEF c
<1>2. l.cut \in Nat /\ l.lead \in Nat
  BY LineIs
<1>3. c.cut < c.lead + Width(c.name, c.age, c.value)
  <2>1. Width(l.name, l.age, l.value) \in Nat
    BY LineIs
  <2>2. l.cut + more < l.lead + Width(l.name, l.age, l.value)
    BY <1>2, <2>1 DEF Size
  <2> QED BY <1>1, <2>2
<1>4. c \in Line
  BY <1>1, <1>3, LineIs DEF Line
<1> QED BY <1>1, <1>4 DEF c

LEMMA FreshIsLine ==
    ASSUME NEW n \in Names, NEW x \in Held[n]
    PROVE  /\ Fresh(n, x) \in Line
           /\ Fresh(n, x).name = n /\ Fresh(n, x).age = "new" /\ Fresh(n, x).value = x
           /\ \A m, age : Sets(Fresh(n, x), m, age) <=> m = n /\ age = "new"
<1>1. n \in DOMAIN Held /\ "new" \in Ages /\ x \in Values
  BY HeldIs, HeldIsValue DEF Ages
<1>2. Width(n, "new", x) \in Nat \ {0}
  BY <1>1, EnvAssumption
<1> DEFINE f == Fresh(n, x)
<1>3. /\ f \in [name : DOMAIN Held, age : Ages, value : Values, lead : Nat, cut : Nat]
      /\ f.name = n /\ f.age = "new" /\ f.value = x /\ f.lead = 0 /\ f.cut = 0
  BY <1>1 DEF Fresh
<1> HIDE DEF f
<1>4. f \in Line
  BY <1>2, <1>3 DEF Line
<1>5. \A m, age : Sets(f, m, age) <=> m = n /\ age = "new"
  BY <1>3 DEF Sets, Bare
<1> QED BY <1>3, <1>4, <1>5 DEF f

(* A line sets one name at most. *)
LEMMA SetsOne ==
    ASSUME NEW l \in Line, NEW m, NEW n, NEW age \in Ages, NEW other \in Ages,
           Sets(l, m, age), Sets(l, n, other)
    PROVE  m = n /\ n = l.name /\ age = other
<1>1. l.lead \in Nat /\ l.cut \in Nat
  BY LineIs
<1>2. m = n /\ n = l.name
  BY DEF Sets
<1>3. Bare(l) => l.cut # l.lead + OldPrefix
  BY <1>1 DEF Bare, OldPrefix
<1> QED BY <1>2, <1>3 DEF Sets, Ages

LEMMA LinesIs ==
    /\ Lines(NoFile) = EmptyFile /\ EmptyFile \in Content
    /\ \A f \in Content : f # NoFile /\ Lines(f) = f
    /\ \A f \in Content \cup {NoFile} : Lines(f) \in Content
<1>1. EmptyFile \in Content
  BY DEF EmptyFile, Content
<1>2. NoFile \notin Content
  BY EnvAssumption
<1> QED BY <1>1, <1>2 DEF Lines

LEMMA ContentIs ==
    ASSUME NEW f \in Content
    PROVE  /\ f \in Seq(Line) /\ Len(f) \in Nat /\ f # NoFile /\ Lines(f) = f
           /\ \A i \in 1..Len(f) : f[i] \in Line
BY LinesIs DEF Content

(* What an update sets is what a line may say. *)
LEMMA UpdateIsHeld ==
    ASSUME NEW v, IsUpdate(v)
    PROVE  /\ DOMAIN v \subseteq Names
           /\ \A n \in DOMAIN v : v[n] \in Held[n] /\ v[n] # Unset
<1>1. CASE \E k \in ApiKeys : v = KeyValues(k)
  <2>1. PICK k \in ApiKeys : v = KeyValues(k)
    BY <1>1
  <2>2. DOMAIN v = {"API_KEY", "REQUIRE"} /\ v["API_KEY"] = k /\ v["REQUIRE"] = "true"
    BY <2>1 DEF KeyValues
  <2>3. v["API_KEY"] \in Held["API_KEY"] /\ v["REQUIRE"] \in Held["REQUIRE"]
    BY <2>2, HeldIs
  <2>4. DOMAIN v \subseteq Names /\ \A n \in DOMAIN v : v[n] \in Held[n]
    BY <2>2, <2>3 DEF Names
  <2> QED BY <2>4, HeldIs, HeldIsValue
<1>2. CASE \E s \in Regions : v = SiteValues(s)
  <2>1. PICK s \in Regions : v = SiteValues(s)
    BY <1>2
  <2>2. /\ DOMAIN v = {"SITE", "BASE_URL", "ENV"}
        /\ v["SITE"] = s /\ v["BASE_URL"] = Portal(s)
        /\ v["ENV"] = IF s = "domestic" THEN "internal" ELSE ""
    BY <2>1 DEF SiteValues
  <2>3. Portal(s) \in Hosts
    BY DEF Portal, Hosts
  <2>4. /\ v["SITE"] \in Held["SITE"] /\ v["BASE_URL"] \in Held["BASE_URL"]
        /\ v["ENV"] \in Held["ENV"]
    BY <2>2, <2>3, HeldIs
  <2>5. DOMAIN v \subseteq Names /\ \A n \in DOMAIN v : v[n] \in Held[n]
    BY <2>2, <2>4 DEF Names
  <2> QED BY <2>5, HeldIs, HeldIsValue
<1> QED BY <1>1, <1>2 DEF IsUpdate

-----------------------------------------------------------------------------
(* What a text says of a name.                                             *)

LEMMA AtIs ==
    ASSUME NEW f \in Content \cup {NoFile}, NEW n, NEW age
    PROVE  /\ At(f, n, age) = {i \in 1..Len(Lines(f)) : Sets(Lines(f)[i], n, age)}
           /\ At(f, n, age) \subseteq Nat
BY LinesIs, ContentIs DEF At

(* The line that counts, where there is one. *)
LEMMA ValueIs ==
    ASSUME NEW f \in Content \cup {NoFile}, NEW n, NEW age
    PROVE  /\ At(f, n, age) = {} => Value(f, n, age) = Unset
           /\ At(f, n, age) # {} =>
                  \E i \in At(f, n, age) :
                      /\ \A j \in At(f, n, age) : i <= j
                      /\ Value(f, n, age) = Lines(f)[i].value
                      /\ Lines(f)[i] \in Line
                      /\ Value(f, n, age) \in Held[n] /\ Value(f, n, age) # Unset
<1>1. At(f, n, age) = {} => Value(f, n, age) = Unset
  BY DEF Value
<1>2. ASSUME At(f, n, age) # {}
      PROVE  \E i \in At(f, n, age) :
                 /\ \A j \in At(f, n, age) : i <= j
                 /\ Value(f, n, age) = Lines(f)[i].value
                 /\ Lines(f)[i] \in Line
                 /\ Value(f, n, age) \in Held[n] /\ Value(f, n, age) # Unset
  <2> DEFINE i == LeastOf(At(f, n, age))
  <2>1. i \in At(f, n, age) /\ \A j \in At(f, n, age) : i <= j
    BY <1>2, AtIs, LeastIs
  <2>2. Value(f, n, age) = Lines(f)[i].value
    BY <1>2 DEF Value
  <2> HIDE DEF i
  <2>3. Lines(f)[i] \in Line /\ Sets(Lines(f)[i], n, age)
    BY <2>1, AtIs, LinesIs, ContentIs
  <2>4. Value(f, n, age) \in Held[n] /\ Value(f, n, age) # Unset
    BY <2>2, <2>3, LineIs DEF Sets
  <2> QED BY <2>1, <2>2, <2>3, <2>4
<1> QED BY <1>1, <1>2

LEMMA ValueHeld ==
    ASSUME NEW f \in Content \cup {NoFile}, NEW n, NEW age
    PROVE  /\ Value(f, n, age) \in Held[n] \cup {Unset}
           /\ Value(f, n, age) = Unset <=> At(f, n, age) = {}
BY ValueIs

(* A value is found by the least position that sets the name. *)
LEMMA ValueAt ==
    ASSUME NEW f \in Content \cup {NoFile}, NEW n, NEW age, NEW i \in At(f, n, age),
           \A j \in At(f, n, age) : i <= j
    PROVE  Value(f, n, age) = Lines(f)[i].value
<1>1. PICK k \in At(f, n, age) : /\ \A j \in At(f, n, age) : k <= j
                                 /\ Value(f, n, age) = Lines(f)[k].value
  BY ValueIs
<1>2. i = k
  BY <1>1, AtIs
<1> QED BY <1>1, <1>2

LEMMA NothingSaid ==
    \A n, age : /\ At(EmptyFile, n, age) = {} /\ At(NoFile, n, age) = {}
                /\ Value(EmptyFile, n, age) = Unset /\ Value(NoFile, n, age) = Unset
<1>1. Lines(EmptyFile) = << >> /\ Lines(NoFile) = << >>
  BY LinesIs DEF EmptyFile
<1>2. \A n, age : At(EmptyFile, n, age) = {} /\ At(NoFile, n, age) = {}
  BY <1>1 DEF At
<1> QED BY <1>2 DEF Value

(* Two texts one behind the other: what the first says counts. *)
LEMMA ValueConcat ==
    ASSUME NEW f \in Content, NEW g \in Content, NEW n, NEW age
    PROVE  /\ f \o g \in Content
           /\ Value(f \o g, n, age) =
                  IF Value(f, n, age) # Unset THEN Value(f, n, age) ELSE Value(g, n, age)
<1> DEFINE h == f \o g
<1>1. /\ h \in Content /\ Len(h) = Len(f) + Len(g)
      /\ \A i \in 1..Len(f) : h[i] = f[i]
      /\ \A i \in 1..Len(g) : h[Len(f) + i] = g[i]
  BY ContentIs DEF Content
<1>2. Len(f) \in Nat /\ Len(g) \in Nat /\ Lines(f) = f /\ Lines(g) = g /\ Lines(h) = h
  BY <1>1, ContentIs
<1> HIDE DEF h
<1>3. /\ \A i \in At(f, n, age) : i \in At(h, n, age) /\ i \in 1..Len(f)
      /\ \A i \in At(h, n, age) : i \in 1..Len(f) => i \in At(f, n, age)
      /\ \A i \in At(g, n, age) : Len(f) + i \in At(h, n, age) /\ i \in 1..Len(g)
      /\ \A i \in At(h, n, age) :
             i \notin 1..Len(f) => i - Len(f) \in At(g, n, age) /\ i > Len(f) /\ i \in Nat
  <2>1. \A i \in At(h, n, age) : i \notin 1..Len(f) =>
            /\ i > Len(f) /\ i \in Nat /\ i - Len(f) \in 1..Len(g) /\ Len(f) + (i - Len(f)) = i
    BY <1>1, <1>2 DEF At
  <2>2. \A i \in At(h, n, age) : i \notin 1..Len(f) => Sets(g[i - Len(f)], n, age)
    <3> SUFFICES ASSUME NEW i \in At(h, n, age), i \notin 1..Len(f)
                 PROVE  Sets(g[i - Len(f)], n, age)
      OBVIOUS
    <3>1. h[Len(f) + (i - Len(f))] = g[i - Len(f)] /\ Len(f) + (i - Len(f)) = i
      BY <1>1, <2>1
    <3>2. Sets(h[i], n, age)
      BY <1>2 DEF At
    <3> QED BY <3>1, <3>2
  <2>3. \A i \in At(g, n, age) : i \in 1..Len(g) /\ Len(f) + i \in 1..Len(h)
    BY <1>1, <1>2 DEF At
  <2> QED BY <1>1, <1>2, <2>1, <2>2, <2>3 DEF At
<1>4. CASE At(f, n, age) # {}
  <2>1. PICK i \in At(f, n, age) : /\ \A j \in At(f, n, age) : i <= j
                                   /\ Value(f, n, age) = f[i].value
                                   /\ Value(f, n, age) # Unset
    BY <1>2, <1>4, ValueIs
  <2>2. \A j \in At(h, n, age) : i <= j
    <3> SUFFICES ASSUME NEW j \in At(h, n, age) PROVE i <= j
      OBVIOUS
    <3>1. CASE j \in 1..Len(f)
      BY <1>3, <2>1, <3>1
    <3>2. CASE j \notin 1..Len(f)
      BY <1>2, <1>3, <2>1, <3>2
    <3> QED BY <3>1, <3>2
  <2>3. Value(h, n, age) = h[i].value
    BY <1>1, <1>2, <1>3, <2>1, <2>2, ValueAt
  <2> QED BY <1>1, <1>3, <2>1, <2>3 DEF h
<1>5. CASE At(f, n, age) = {} /\ At(g, n, age) # {}
  <2>1. PICK i \in At(g, n, age) : /\ \A j \in At(g, n, age) : i <= j
                                   /\ Value(g, n, age) = g[i].value
    BY <1>2, <1>5, ValueIs
  <2>2. Len(f) + i \in At(h, n, age) /\ i \in 1..Len(g)
    BY <1>3
  <2>3. \A j \in At(h, n, age) : Len(f) + i <= j
    <3> SUFFICES ASSUME NEW j \in At(h, n, age) PROVE Len(f) + i <= j
      OBVIOUS
    <3>1. j - Len(f) \in At(g, n, age) /\ j \in Nat
      BY <1>3, <1>5
    <3>2. i <= j - Len(f) /\ i \in Nat
      BY <2>1, <2>2, <3>1
    <3> QED BY <1>2, <3>1, <3>2
  <2>4. Value(h, n, age) = h[Len(f) + i].value
    BY <1>1, <1>2, <2>2, <2>3, ValueAt
  <2> QED BY <1>1, <1>5, <2>1, <2>2, <2>4, ValueIs DEF h
<1>6. CASE At(f, n, age) = {} /\ At(g, n, age) = {}
  <2>1. At(h, n, age) = {}
    BY <1>3, <1>6
  <2> QED BY <1>1, <1>6, <2>1, ValueIs DEF h
<1> QED BY <1>4, <1>5, <1>6

LEMMA ValueOfOne ==
    ASSUME NEW l \in Line, NEW n, NEW age
    PROVE  /\ <<l>> \in Content
           /\ Value(<<l>>, n, age) = IF Sets(l, n, age) THEN l.value ELSE Unset
<1>1. <<l>> \in Content /\ Lines(<<l>>) = <<l>>
  <2>1. <<l>> \in Content
    BY DEF Content
  <2> QED BY <2>1, LinesIs
<1>2. CASE Sets(l, n, age)
  <2>1. 1 \in At(<<l>>, n, age) /\ \A j \in At(<<l>>, n, age) : 1 <= j
    BY <1>1, <1>2 DEF At
  <2> QED BY <1>1, <1>2, <2>1, ValueAt
<1>3. CASE ~Sets(l, n, age)
  <2>1. At(<<l>>, n, age) = {}
    BY <1>1, <1>3 DEF At
  <2> QED BY <1>1, <1>3, <2>1, ValueIs
<1> QED BY <1>1, <1>2, <1>3

-----------------------------------------------------------------------------
(* The lines of an update.                                                 *)

Kept(f, v) == [i \in 1..Len(Lines(f)) |-> Renewed(Lines(f)[i], v)]

LEMMA RenewedIs ==
    ASSUME NEW l \in Line, NEW v, IsUpdate(v)
    PROVE  /\ Renewed(l, v) \in Line
           /\ \A n \in Names, age \in Ages : Sets(Renewed(l, v), n, age) <=> Sets(l, n, age)
           /\ \A n \in Names, age \in Ages : Sets(l, n, age) =>
                  Renewed(l, v).value = IF n \in DOMAIN v /\ age = "new" THEN v[n] ELSE l.value
           /\ \/ Renewed(l, v) = l
              \/ Sets(l, l.name, "new") /\ l.name \in DOMAIN v
                 /\ Renewed(l, v) = Fresh(l.name, v[l.name])
<1>1. CASE l.name \in DOMAIN v /\ Sets(l, l.name, "new")
  <2>1. Renewed(l, v) = Fresh(l.name, v[l.name]) /\ l.name \in Names /\ v[l.name] \in Held[l.name]
    BY <1>1, UpdateIsHeld DEF Renewed
  <2>2. \A n \in Names, age \in Ages : Sets(l, n, age) <=> n = l.name /\ age = "new"
    BY <1>1, SetsOne DEF Ages
  <2>3. /\ \A n, age : Sets(Renewed(l, v), n, age) <=> n = l.name /\ age = "new"
        /\ Renewed(l, v) \in Line /\ Renewed(l, v).value = v[l.name]
    BY <2>1, FreshIsLine
  <2>4. \A n \in Names, age \in Ages : Sets(Renewed(l, v), n, age) <=> Sets(l, n, age)
    BY <2>2, <2>3
  <2>5. \A n \in Names, age \in Ages : Sets(l, n, age) =>
            Renewed(l, v).value = IF n \in DOMAIN v /\ age = "new" THEN v[n] ELSE l.value
    BY <1>1, <2>2, <2>3
  <2> QED BY <1>1, <2>1, <2>3, <2>4, <2>5
<1>2. CASE ~(l.name \in DOMAIN v /\ Sets(l, l.name, "new"))
  <2>1. Renewed(l, v) = l
    BY <1>2 DEF Renewed
  <2>2. \A n \in Names, age \in Ages : Sets(l, n, age) => ~(n \in DOMAIN v /\ age = "new")
    BY <1>2 DEF Sets
  <2>3. \A n \in Names, age \in Ages : Sets(l, n, age) =>
            Renewed(l, v).value = IF n \in DOMAIN v /\ age = "new" THEN v[n] ELSE l.value
    BY <2>1, <2>2
  <2> QED BY <2>1, <2>3
<1> QED BY <1>1, <1>2

LEMMA KeptIs ==
    ASSUME NEW f \in Content \cup {NoFile}, NEW v, IsUpdate(v)
    PROVE  /\ Kept(f, v) \in Content /\ Len(Kept(f, v)) = Len(Lines(f))
           /\ \A i \in 1..Len(Lines(f)) : Kept(f, v)[i] = Renewed(Lines(f)[i], v)
           /\ \A n \in Names, age \in Ages :
                  Value(Kept(f, v), n, age) =
                      IF Value(f, n, age) = Unset THEN Unset
                      ELSE IF n \in DOMAIN v /\ age = "new" THEN v[n] ELSE Value(f, n, age)
<1> DEFINE k == Kept(f, v)
<1>1. Lines(f) \in Content /\ Len(Lines(f)) \in Nat
      /\ \A i \in 1..Len(Lines(f)) : Lines(f)[i] \in Line
  BY LinesIs, ContentIs
<1>2. /\ k \in Content /\ Len(k) = Len(Lines(f))
      /\ \A i \in 1..Len(Lines(f)) : k[i] = Renewed(Lines(f)[i], v)
  BY <1>1, RenewedIs DEF Kept, Content
<1> HIDE DEF k
<1>3. Lines(k) = k
  BY <1>2, ContentIs
<1>4. ASSUME NEW n \in Names, NEW age \in Ages
      PROVE  Value(k, n, age) =
                 IF Value(f, n, age) = Unset THEN Unset
                 ELSE IF n \in DOMAIN v /\ age = "new" THEN v[n] ELSE Value(f, n, age)
  <2>1. At(k, n, age) = At(f, n, age)
    <3>1. \A i \in 1..Len(Lines(f)) : Sets(k[i], n, age) <=> Sets(Lines(f)[i], n, age)
      BY <1>1, <1>2, RenewedIs
    <3> QED BY <1>2, <1>3, <3>1 DEF At
  <2>2. CASE At(f, n, age) = {}
    BY <1>2, <2>1, <2>2, ValueIs
  <2>3. CASE At(f, n, age) # {}
    <3>1. PICK i \in At(f, n, age) : /\ \A j \in At(f, n, age) : i <= j
                                     /\ Value(f, n, age) = Lines(f)[i].value
                                     /\ Value(f, n, age) # Unset
      BY <2>3, ValueIs
    <3>2. Value(k, n, age) = k[i].value
      BY <1>2, <1>3, <2>1, <3>1, ValueAt
    <3>3. i \in 1..Len(Lines(f)) /\ Sets(Lines(f)[i], n, age)
      BY DEF At
    <3>4. Renewed(Lines(f)[i], v).value =
              IF n \in DOMAIN v /\ age = "new" THEN v[n] ELSE Lines(f)[i].value
      BY <1>1, <3>3, RenewedIs
    <3> QED BY <1>2, <3>1, <3>2, <3>3, <3>4
  <2> QED BY <2>2, <2>3
<1> QED BY <1>2, <1>4 DEF k

LEMMA MissingIs ==
    ASSUME NEW f \in Content \cup {NoFile}, NEW v, IsUpdate(v), NEW m \in Names
    PROVE  /\ Missing(f, v, m) \in Content
           /\ \A i \in 1..Len(Missing(f, v, m)) :
                  m \in DOMAIN v /\ Missing(f, v, m)[i] = Fresh(m, v[m])
           /\ \A n \in Names, age \in Ages :
                  Value(Missing(f, v, m), n, age) =
                      IF n = m /\ age = "new" /\ n \in DOMAIN v /\ Value(f, n, "new") = Unset
                      THEN v[n] ELSE Unset
<1>1. Value(f, m, "new") = Unset <=> At(f, m, "new") = {}
  BY ValueHeld
<1>2. CASE m \in DOMAIN v /\ At(f, m, "new") = {}
  <2>1. Missing(f, v, m) = <<Fresh(m, v[m])>> /\ v[m] \in Held[m]
    BY <1>2, UpdateIsHeld DEF Missing
  <2>2. /\ Fresh(m, v[m]) \in Line /\ Fresh(m, v[m]).value = v[m]
        /\ \A n, age : Sets(Fresh(m, v[m]), n, age) <=> n = m /\ age = "new"
    BY <2>1, FreshIsLine
  <2>3. \A n, age : Value(<<Fresh(m, v[m])>>, n, age) =
                        IF n = m /\ age = "new" THEN v[m] ELSE Unset
    BY <2>2, ValueOfOne
  <2> HIDE DEF Fresh
  <2>4. \A n \in Names, age \in Ages :
            Value(Missing(f, v, m), n, age) =
                IF n = m /\ age = "new" /\ n \in DOMAIN v /\ Value(f, n, "new") = Unset
                THEN v[n] ELSE Unset
    BY <1>1, <1>2, <2>1, <2>3
  <2> QED BY <1>2, <2>1, <2>2, <2>4, ValueOfOne
<1>3. CASE ~(m \in DOMAIN v /\ At(f, m, "new") = {})
  <2>1. Missing(f, v, m) = EmptyFile
    BY <1>3 DEF Missing
  <2>2. EmptyFile \in Content /\ Len(EmptyFile) = 0
    BY LinesIs DEF EmptyFile
  <2> QED BY <1>1, <1>3, <2>1, <2>2, NothingSaid
<1> QED BY <1>2, <1>3

LinesOf(f) == {f[i] : i \in 1..Len(f)}

LEMMA LinesOfConcat ==
    ASSUME NEW f \in Content, NEW g \in Content
    PROVE  /\ f \o g \in Content /\ Len(f \o g) = Len(f) + Len(g)
           /\ \A i \in 1..Len(f) : (f \o g)[i] = f[i]
           /\ LinesOf(f \o g) \subseteq LinesOf(f) \cup LinesOf(g)
<1> DEFINE h == f \o g
<1>1. /\ h \in Content /\ Len(h) = Len(f) + Len(g)
      /\ \A i \in 1..Len(f) : h[i] = f[i]
      /\ \A i \in 1..Len(g) : h[Len(f) + i] = g[i]
  BY ContentIs DEF Content
<1>2. Len(f) \in Nat /\ Len(g) \in Nat
  BY ContentIs
<1> HIDE DEF h
<1>3. ASSUME NEW i \in 1..Len(h)
      PROVE  h[i] \in LinesOf(f) \cup LinesOf(g)
  <2>1. CASE i \in 1..Len(f)
    BY <1>1, <2>1 DEF LinesOf
  <2>2. CASE i \notin 1..Len(f)
    <3>1. i - Len(f) \in 1..Len(g) /\ Len(f) + (i - Len(f)) = i
      BY <1>1, <1>2, <2>2
    <3> QED BY <1>1, <3>1 DEF LinesOf
  <2> QED BY <2>1, <2>2
<1>4. LinesOf(h) \subseteq LinesOf(f) \cup LinesOf(g)
  BY <1>3 DEF LinesOf
<1> QED BY <1>1, <1>4 DEF h

(* What an update makes of a file. *)
LEMMA EditedIs ==
    ASSUME NEW f \in Content \cup {NoFile}, NEW v, IsUpdate(v)
    PROVE  /\ Edited(f, v) \in Content
           /\ \A n \in Names, age \in Ages :
                  Value(Edited(f, v), n, age) =
                      IF n \in DOMAIN v /\ age = "new" THEN v[n] ELSE Value(f, n, age)
           /\ Len(Lines(f)) <= Len(Edited(f, v))
           /\ \A i \in 1..Len(Lines(f)) : Edited(f, v)[i] = Renewed(Lines(f)[i], v)
           /\ LinesOf(Edited(f, v)) \subseteq
                  LinesOf(Lines(f)) \cup {Fresh(n, v[n]) : n \in DOMAIN v}
<1> DEFINE M(n) == Missing(f, v, n)
           k == Kept(f, v)
           e1 == k \o M("API_KEY")
           e2 == e1 \o M("REQUIRE")
           e3 == e2 \o M("SITE")
           e4 == e3 \o M("BASE_URL")
           e5 == e4 \o M("ENV")
           new == {Fresh(n, v[n]) : n \in DOMAIN v}
<1>1. Edited(f, v) = e5
  BY DEF Edited, Kept
<1>2. \A n \in Names :
          /\ M(n) \in Content
          /\ LinesOf(M(n)) \subseteq new
          /\ \A m \in Names, age \in Ages :
                 Value(M(n), m, age) =
                     IF m = n /\ age = "new" /\ m \in DOMAIN v /\ Value(f, m, "new") = Unset
                     THEN v[m] ELSE Unset
  <2> SUFFICES ASSUME NEW n \in Names
               PROVE  /\ M(n) \in Content
                      /\ LinesOf(M(n)) \subseteq new
                      /\ \A m \in Names, age \in Ages :
                             Value(M(n), m, age) =
                                 IF m = n /\ age = "new" /\ m \in DOMAIN v
                                    /\ Value(f, m, "new") = Unset
                                 THEN v[m] ELSE Unset
    OBVIOUS
  <2>1. \A i \in 1..Len(M(n)) : n \in DOMAIN v /\ M(n)[i] = Fresh(n, v[n])
    BY MissingIs
  <2>2. LinesOf(M(n)) \subseteq new
    <3> HIDE DEF M
    <3> QED BY <2>1 DEF LinesOf
  <2> QED BY <2>2, MissingIs
<1>3. /\ k \in Content /\ Len(k) = Len(Lines(f)) /\ Len(k) \in Nat
      /\ \A i \in 1..Len(Lines(f)) : k[i] = Renewed(Lines(f)[i], v)
      /\ \A n \in Names, age \in Ages :
             Value(k, n, age) =
                 IF Value(f, n, age) = Unset THEN Unset
                 ELSE IF n \in DOMAIN v /\ age = "new" THEN v[n] ELSE Value(f, n, age)
  BY KeptIs, ContentIs
<1>4. LinesOf(k) \subseteq LinesOf(Lines(f)) \cup new
  <2> SUFFICES ASSUME NEW i \in 1..Len(k) PROVE k[i] \in LinesOf(Lines(f)) \cup new
    BY DEF LinesOf
  <2>1. Lines(f)[i] \in Line /\ Lines(f)[i] \in LinesOf(Lines(f))
    BY <1>3, LinesIs, ContentIs DEF LinesOf
  <2>2. k[i] = Lines(f)[i] \/ k[i] \in new
    BY <1>3, <2>1, RenewedIs
  <2> QED BY <2>1, <2>2
<1>5. /\ "API_KEY" \in Names /\ "REQUIRE" \in Names /\ "SITE" \in Names
      /\ "BASE_URL" \in Names /\ "ENV" \in Names
  BY DEF Names
<1> HIDE DEF M, k, new
<1>6. /\ e1 \in Content /\ e2 \in Content /\ e3 \in Content /\ e4 \in Content /\ e5 \in Content
  BY <1>2, <1>3, <1>5, LinesOfConcat
<1>7. \A n \in Names, age \in Ages :
          Value(e5, n, age) = IF n \in DOMAIN v /\ age = "new" THEN v[n] ELSE Value(f, n, age)
  <2> SUFFICES ASSUME NEW n \in Names, NEW age \in Ages
               PROVE  Value(e5, n, age) =
                          IF n \in DOMAIN v /\ age = "new" THEN v[n] ELSE Value(f, n, age)
    OBVIOUS
  <2> DEFINE Or(x, y) == IF x # Unset THEN x ELSE y
             W(m) == Value(M(m), n, age)
  <2>1. /\ Value(e1, n, age) = Or(Value(k, n, age), W("API_KEY"))
        /\ Value(e2, n, age) = Or(Value(e1, n, age), W("REQUIRE"))
        /\ Value(e3, n, age) = Or(Value(e2, n, age), W("SITE"))
        /\ Value(e4, n, age) = Or(Value(e3, n, age), W("BASE_URL"))
        /\ Value(e5, n, age) = Or(Value(e4, n, age), W("ENV"))
    <3> HIDE DEF e1, e2, e3, e4, e5
    <3>1. Value(e1, n, age) = Or(Value(k, n, age), W("API_KEY"))
      BY <1>2, <1>3, <1>5, ValueConcat DEF e1
    <3>2. Value(e2, n, age) = Or(Value(e1, n, age), W("REQUIRE"))
      BY <1>2, <1>5, <1>6, ValueConcat DEF e2
    <3>3. Value(e3, n, age) = Or(Value(e2, n, age), W("SITE"))
      BY <1>2, <1>5, <1>6, ValueConcat DEF e3
    <3>4. Value(e4, n, age) = Or(Value(e3, n, age), W("BASE_URL"))
      BY <1>2, <1>5, <1>6, ValueConcat DEF e4
    <3>5. Value(e5, n, age) = Or(Value(e4, n, age), W("ENV"))
      BY <1>2, <1>5, <1>6, ValueConcat DEF e5
    <3> QED BY <3>1, <3>2, <3>3, <3>4, <3>5
  <2> HIDE DEF e1, e2, e3, e4, e5, W
  <2>2. \A m \in Names : W(m) = IF n = m /\ age = "new" /\ n \in DOMAIN v
                                   /\ Value(f, n, "new") = Unset THEN v[n] ELSE Unset
    BY <1>2 DEF W
  <2>3. n \in DOMAIN v => v[n] # Unset
    BY UpdateIsHeld
  <2>4. CASE Value(k, n, age) # Unset
    <3>1. Value(e5, n, age) = Value(k, n, age)
      BY <2>1, <2>4
    <3> QED BY <1>3, <2>4, <3>1
  <2>5. CASE Value(k, n, age) = Unset /\ n \in DOMAIN v /\ age = "new"
    <3>1. Value(f, n, age) = Unset
      BY <1>3, <2>3, <2>5
    <3>2. \A m \in Names : W(m) = IF n = m THEN v[n] ELSE Unset
      BY <2>2, <2>5, <3>1
    <3>3. n \in {"API_KEY", "REQUIRE", "SITE", "BASE_URL", "ENV"}
      BY DEF Names
    <3>4. Value(e5, n, age) = v[n]
      BY <1>5, <2>1, <2>3, <2>5, <3>2, <3>3
    <3> QED BY <2>5, <3>4
  <2>6. CASE Value(k, n, age) = Unset /\ ~(n \in DOMAIN v /\ age = "new")
    <3>1. Value(f, n, age) = Unset
      BY <1>3, <2>6
    <3>2. \A m \in Names : W(m) = Unset
      BY <2>2, <2>6
    <3>3. Value(e5, n, age) = Unset
      BY <1>5, <2>1, <2>6, <3>2
    <3> QED BY <2>6, <3>1, <3>3
  <2> QED BY <2>4, <2>5, <2>6
<1>8. /\ Len(k) <= Len(e5) /\ \A i \in 1..Len(k) : e5[i] = k[i]
      /\ LinesOf(e5) \subseteq LinesOf(Lines(f)) \cup new
  <2> DEFINE Extends(a, b) ==
                 /\ Len(a) \in Nat /\ Len(b) \in Nat /\ Len(a) <= Len(b)
                 /\ \A i \in 1..Len(a) : b[i] = a[i]
                 /\ LinesOf(b) \subseteq LinesOf(a) \cup new
  <2>1. ASSUME NEW a \in Content, NEW n \in Names
        PROVE  Extends(a, a \o M(n))
    <3>1. M(n) \in Content /\ LinesOf(M(n)) \subseteq new
      BY <1>2
    <3>2. Len(a) \in Nat /\ Len(M(n)) \in Nat
      BY <3>1, ContentIs
    <3> QED BY <3>1, <3>2, LinesOfConcat
  <2>2. ASSUME NEW a, NEW b, NEW c, Extends(a, b), Extends(b, c)
        PROVE  Extends(a, c)
    BY <2>2
  <2>3. Extends(k, e1) /\ Extends(e1, e2) /\ Extends(e2, e3) /\ Extends(e3, e4) /\ Extends(e4, e5)
    BY <1>3, <1>5, <1>6, <2>1
  <2> HIDE DEF Extends, e1, e2, e3, e4, e5
  <2>4. Extends(k, e5)
    <3>1. Extends(k, e2)
      BY <2>2, <2>3
    <3>2. Extends(k, e3)
      BY <2>2, <2>3, <3>1
    <3>3. Extends(k, e4)
      BY <2>2, <2>3, <3>2
    <3> QED BY <2>2, <2>3, <3>3
  <2> QED BY <1>4, <2>4 DEF Extends
<1> HIDE DEF e5
<1> QED BY <1>1, <1>3, <1>6, <1>7, <1>8 DEF new

-----------------------------------------------------------------------------
(* Texts in bytes.                                                         *)

EndsUpTo(f, m, e) == e = [k \in 0..m |-> IF k = 0 THEN 0 ELSE e[k - 1] + Size(f[k])]

LEMMA EndsExist ==
    ASSUME NEW f
    PROVE  \A m \in Nat : \E e : EndsUpTo(f, m, e)
<1> DEFINE S == {m \in Nat : \E e : EndsUpTo(f, m, e)}
<1>1. 0 \in S
  <2>1. EndsUpTo(f, 0, [k \in 0..0 |-> 0])
    BY DEF EndsUpTo
  <2> QED BY <2>1
<1>2. ASSUME NEW m \in Nat, m \in S PROVE m + 1 \in S
  <2>1. PICK e : EndsUpTo(f, m, e)
    BY <1>2
  <2> DEFINE h == [k \in 0..(m + 1) |-> IF k = m + 1 THEN e[m] + Size(f[m + 1]) ELSE e[k]]
  <2>2. ASSUME NEW k \in 0..(m + 1)
        PROVE  h[k] = IF k = 0 THEN 0 ELSE h[k - 1] + Size(f[k])
    <3>1. h[k] = IF k = m + 1 THEN e[m] + Size(f[m + 1]) ELSE e[k]
      OBVIOUS
    <3>2. k # 0 => k - 1 \in 0..m /\ h[k - 1] = e[k - 1]
      OBVIOUS
    <3>3. k # m + 1 => k \in 0..m /\ e[k] = IF k = 0 THEN 0 ELSE e[k - 1] + Size(f[k])
      BY <2>1 DEF EndsUpTo
    <3>4. k = m + 1 => k # 0 /\ k - 1 = m
      OBVIOUS
    <3> HIDE DEF h
    <3> QED BY <3>1, <3>2, <3>3, <3>4
  <2>3. h = [k \in 0..(m + 1) |-> h[k]]
    OBVIOUS
  <2> HIDE DEF h
  <2>4. EndsUpTo(f, m + 1, h)
    BY <2>2, <2>3 DEF EndsUpTo
  <2> QED BY <2>4
<1> HIDE DEF S
<1>3. Nat \subseteq S
  BY <1>1, <1>2, NatSetInduction
<1> QED BY <1>3 DEF S

LEMMA EndsAre ==
    ASSUME NEW f \in Content
    PROVE  /\ Ends(f)[0] = 0
           /\ \A k \in 1..Len(f) : Ends(f)[k] = Ends(f)[k - 1] + Size(f[k])
           /\ \A k \in 0..Len(f) : Ends(f)[k] \in Nat
<1> DEFINE e == Ends(f)
           S == {k \in Nat : k <= Len(f) => e[k] \in Nat}
<1>1. Len(f) \in Nat /\ \A k \in 1..Len(f) : Size(f[k]) \in Nat
  BY ContentIs, LineIs
<1>2. EndsUpTo(f, Len(f), e)
  <2>1. \E x : EndsUpTo(f, Len(f), x)
    BY <1>1, EndsExist
  <2> QED BY <2>1 DEF Ends, EndsUpTo
<1> HIDE DEF e
<1>3. /\ e[0] = 0
      /\ \A k \in 1..Len(f) : e[k] = e[k - 1] + Size(f[k])
  BY <1>1, <1>2 DEF EndsUpTo
<1>4. 0 \in S
  BY <1>3
<1>5. ASSUME NEW k \in Nat, k \in S PROVE k + 1 \in S
  <2>1. CASE k + 1 <= Len(f)
    <3>1. k + 1 \in 1..Len(f) /\ (k + 1) - 1 = k /\ e[k] \in Nat
      BY <1>1, <1>5, <2>1
    <3> QED BY <1>1, <1>3, <3>1
  <2>2. CASE ~(k + 1 <= Len(f))
    BY <2>2
  <2> QED BY <2>1, <2>2
<1> HIDE DEF S
<1>6. Nat \subseteq S
  BY <1>4, <1>5, NatSetInduction
<1>7. \A k \in 0..Len(f) : e[k] \in Nat
  BY <1>1, <1>6 DEF S
<1> QED BY <1>3, <1>7 DEF e

(* A line that says what one of a text says. *)
SaysAs(l, f) ==
    \E i \in 1..Len(f) : l.name = f[i].name /\ l.age = f[i].age /\ l.value = f[i].value

(* What is left of a text is the end of it, its first line perhaps cut.    *)
LEMMA BehindIs ==
    ASSUME NEW f \in Content, NEW n \in Nat
    PROVE  /\ Behind(f, n) \in Content
           /\ \A l \in LinesOf(Behind(f, n)) : SaysAs(l, f)
           /\ f = EmptyFile => Behind(f, n) = EmptyFile
<1> DEFINE past == {k \in 1..Len(f) : Ends(f)[k] > n}
<1>1. Len(f) \in Nat /\ \A i \in 1..Len(f) : f[i] \in Line
  BY ContentIs
<1>2. CASE past = {}
  <2>1. Behind(f, n) = EmptyFile
    BY <1>2 DEF Behind
  <2>2. LinesOf(EmptyFile) = {}
    BY DEF LinesOf, EmptyFile
  <2> QED BY <2>1, <2>2, LinesIs
<1>3. CASE past # {}
  <2> DEFINE k == LeastOf(past)
             cut == [f[k] EXCEPT !.cut = f[k].cut + n - Ends(f)[k - 1]]
             rest == SubSeq(f, k + 1, Len(f))
  <2>1. k \in past /\ \A j \in past : k <= j
    <3>1. past \subseteq Nat
      BY <1>1
    <3> HIDE DEF past
    <3> QED BY <1>3, <3>1, LeastIs
  <2>2. Behind(f, n) = <<cut>> \o rest
    BY <1>3 DEF Behind
  <2> HIDE DEF k
  <2>3. /\ k \in 1..Len(f) /\ Ends(f)[k] > n /\ f # EmptyFile
    BY <2>1 DEF EmptyFile
  <2>4. k - 1 \in 0..Len(f) /\ Ends(f)[k - 1] \in Nat /\ Ends(f)[k - 1] <= n
    <3>1. k - 1 \in 0..Len(f)
      BY <1>1, <2>3
    <3>2. Ends(f)[k - 1] \in Nat
      BY <3>1, EndsAre
    <3>3. CASE k - 1 = 0
      BY <3>2, <3>3, EndsAre
    <3>4. CASE k - 1 # 0
      <4>1. k - 1 \in 1..Len(f) /\ k - 1 \notin past
        BY <1>1, <2>1, <2>3, <3>1, <3>4
      <4> QED BY <3>2, <4>1
    <3> QED BY <3>1, <3>2, <3>3, <3>4
  <2>5. Ends(f)[k] = Ends(f)[k - 1] + Size(f[k])
    BY <2>3, EndsAre
  <2>6. f[k] \in Line /\ Size(f[k]) \in Nat /\ f[k].cut \in Nat
    BY <1>1, <2>3, LineIs
  <2>7. n - Ends(f)[k - 1] \in Nat /\ n - Ends(f)[k - 1] < Size(f[k])
    BY <2>3, <2>4, <2>5, <2>6
  <2>8. cut = [f[k] EXCEPT !.cut = f[k].cut + (n - Ends(f)[k - 1])]
    <3>1. f[k].cut + n - Ends(f)[k - 1] = f[k].cut + (n - Ends(f)[k - 1])
      BY <2>4, <2>6
    <3> QED BY <3>1
  <2>9. cut \in Line /\ cut.name = f[k].name /\ cut.age = f[k].age /\ cut.value = f[k].value
    BY <2>6, <2>7, <2>8, CutLine
  <2> HIDE DEF cut
  <2>10. <<cut>> \in Content /\ LinesOf(<<cut>>) = {cut}
    BY <2>9 DEF Content, LinesOf
  <2>11. rest \in Content /\ LinesOf(rest) \subseteq LinesOf(f)
    <3>1. rest \in Seq(Line) /\ Len(rest) = Len(f) - k
          /\ \A i \in 1..Len(rest) : rest[i] = f[k + i]
      BY <1>1, <2>3, ContentIs
    <3>2. \A i \in 1..Len(rest) : k + i \in 1..Len(f)
      BY <1>1, <2>3, <3>1
    <3> QED BY <3>1, <3>2 DEF LinesOf, Content
  <2> HIDE DEF rest
  <2>12. Behind(f, n) \in Content /\ LinesOf(Behind(f, n)) \subseteq {cut} \cup LinesOf(f)
    BY <2>2, <2>10, <2>11, LinesOfConcat
  <2>13. ASSUME NEW l \in LinesOf(Behind(f, n)) PROVE SaysAs(l, f)
    <3>1. CASE l = cut
      BY <2>3, <2>9, <3>1 DEF SaysAs
    <3>2. CASE l \in LinesOf(f)
      BY <3>2 DEF SaysAs, LinesOf
    <3> QED BY <2>12, <3>1, <3>2
  <2> QED BY <2>3, <2>12, <2>13
<1> QED BY <1>2, <1>3

(* Every line of an overlay is of one text or of the other.                *)
LEMMA OverlayIs ==
    ASSUME NEW f \in Content, NEW under \in Content \cup {NoFile}
    PROVE  /\ Overlay(f, under) \in Content
           /\ \A l \in LinesOf(Overlay(f, under)) : l \in LinesOf(f) \/ SaysAs(l, Lines(under))
           /\ under = EmptyFile => Overlay(f, under) = f
<1> DEFINE b == Behind(Lines(under), Ends(f)[Len(f)])
<1>1. Ends(f)[Len(f)] \in Nat
  BY ContentIs, EndsAre
<1>2. Lines(under) \in Content /\ (under = EmptyFile => Lines(under) = EmptyFile)
  BY LinesIs
<1>3. /\ b \in Content /\ \A l \in LinesOf(b) : SaysAs(l, Lines(under))
      /\ under = EmptyFile => b = EmptyFile
  BY <1>1, <1>2, BehindIs
<1>4. Overlay(f, under) = f \o b
  BY DEF Overlay
<1> HIDE DEF b
<1>5. f \o EmptyFile = f
  BY ContentIs DEF EmptyFile
<1> QED BY <1>3, <1>4, <1>5, LinesOfConcat

-----------------------------------------------------------------------------
(* What Lookup, Resolve and Load return.                                   *)

Says(fs, i, n, age) == Value(fs[i], n, age) # Unset

LEMMA LookupIs ==
    ASSUME NEW env, NEW fs, NEW n, NEW age
    PROVE  Lookup(env, fs, n, age) =
               IF env[n][age] # Unset THEN env[n][age]
               ELSE IF Says(fs, 1, n, age) THEN Value(fs[1], n, age)
               ELSE IF Says(fs, 2, n, age) THEN Value(fs[2], n, age) ELSE ""
<1> DEFINE found == {i \in Places : Value(fs[i], n, age) # Unset}
           least == LeastOf(found)
<1>1. Lookup(env, fs, n, age) =
          IF env[n][age] # Unset THEN env[n][age]
          ELSE IF found = {} THEN "" ELSE Value(fs[least], n, age)
  BY DEF Lookup
<1>2. CASE Says(fs, 1, n, age)
  <2>1. 1 \in found /\ \A j \in found : 1 <= j
    BY <1>2 DEF Says, Places
  <2>2. least \in found /\ \A j \in found : least <= j
    BY <2>1 DEF LeastOf
  <2>3. least = 1
    BY <2>1, <2>2 DEF Places
  <2> QED BY <1>1, <1>2, <2>1, <2>3
<1>3. CASE ~Says(fs, 1, n, age) /\ Says(fs, 2, n, age)
  <2>1. found = {2}
    BY <1>3 DEF Says, Places
  <2>2. least = 2
    BY <2>1 DEF LeastOf
  <2> QED BY <1>1, <1>3, <2>1, <2>2
<1>4. CASE ~Says(fs, 1, n, age) /\ ~Says(fs, 2, n, age)
  <2>1. found = {}
    BY <1>4 DEF Says, Places
  <2> QED BY <1>1, <1>4, <2>1
<1> QED BY <1>2, <1>3, <1>4

LEMMA ResolveIs ==
    ASSUME NEW g, NEW fs
    PROVE  Resolve(g, fs) = IF ~g.custom /\ fs[1] = NoFile /\ fs[2] # NoFile THEN 2 ELSE 1
<1> DEFINE first1 == CHOOSE i \in Places : fs[i] # NoFile
                         /\ \A j \in Places : fs[j] # NoFile => i <= j
<1>1. CASE g.custom \/ (fs[1] = NoFile /\ fs[2] = NoFile)
  BY <1>1 DEF Resolve, Places
<1>2. CASE ~g.custom /\ fs[1] # NoFile
  <2>1. fs[1] # NoFile /\ \A j \in Places : fs[j] # NoFile => 1 <= j
    BY <1>2 DEF Places
  <2>2. first1 \in Places /\ \A j \in Places : fs[j] # NoFile => first1 <= j
    BY <2>1 DEF Places
  <2>3. first1 = 1
    BY <2>1, <2>2 DEF Places
  <2> QED BY <1>2, <2>3 DEF Resolve, Places
<1>3. CASE ~g.custom /\ fs[1] = NoFile /\ fs[2] # NoFile
  <2>1. fs[2] # NoFile /\ \A j \in Places : fs[j] # NoFile => 2 <= j
    BY <1>3 DEF Places
  <2>2. first1 \in Places /\ fs[first1] # NoFile
    BY <2>1 DEF Places
  <2>3. first1 = 2
    BY <1>3, <2>2 DEF Places
  <2> QED BY <1>3, <2>3 DEF Resolve, Places
<1> QED BY <1>1, <1>2, <1>3

(* An update goes to the file that Lookup reads first. *)
LEMMA ResolveFirst ==
    ASSUME NEW g, NEW fs
    PROVE  /\ Resolve(g, fs) \in Places
           /\ Resolve(g, fs) = 2 => fs[1] = NoFile
BY ResolveIs DEF Places

(* Once the file is written it stays the one that is written. *)
LEMMA ResolveStable ==
    ASSUME NEW g, NEW fs \in FileSets, NEW c \in Content
    PROVE  Resolve(g, [fs EXCEPT ![Resolve(g, fs)] = c]) = Resolve(g, fs)
<1> DEFINE t == Resolve(g, fs)
           gs == [fs EXCEPT ![t] = c]
<1>1. t \in {1, 2} /\ c # NoFile
  BY ResolveFirst, ContentIs DEF Places
<1>2. gs[1] = (IF t = 1 THEN c ELSE fs[1]) /\ gs[2] = (IF t = 2 THEN c ELSE fs[2])
  BY <1>1 DEF FileSets, Places
<1>3. t = IF ~g.custom /\ fs[1] = NoFile /\ fs[2] # NoFile THEN 2 ELSE 1
  BY ResolveIs
<1>4. Resolve(g, gs) = IF ~g.custom /\ gs[1] = NoFile /\ gs[2] # NoFile THEN 2 ELSE 1
  BY ResolveIs
<1> QED BY <1>1, <1>2, <1>3, <1>4

LEMMA EnvironmentIs ==
    ASSUME NEW env \in Environment, NEW n \in Names, NEW age \in Ages
    PROVE  env[n][age] \in Held[n] \cup {Unset}
BY DEF Environment

LEMMA LookupHeld ==
    ASSUME NEW env \in Environment, NEW fs \in FileSets, NEW n \in Names, NEW age \in Ages
    PROVE  Lookup(env, fs, n, age) \in Held[n]
<1>1. fs[1] \in Content \cup {NoFile} /\ fs[2] \in Content \cup {NoFile}
  BY DEF FileSets, Places
<1>2. "" \in Held[n]
  BY HeldIs DEF Names
<1>3. env[n][age] # Unset => env[n][age] \in Held[n]
  BY EnvironmentIs
<1>4. Says(fs, 1, n, age) => Value(fs[1], n, age) \in Held[n]
  BY <1>1, ValueHeld DEF Says
<1>5. Says(fs, 2, n, age) => Value(fs[2], n, age) \in Held[n]
  BY <1>1, ValueHeld DEF Says
<1> QED BY <1>2, <1>3, <1>4, <1>5, LookupIs

LEMMA FirstEnvHeld ==
    ASSUME NEW env \in Environment, NEW fs \in FileSets, NEW n \in Names
    PROVE  FirstEnv(env, fs, n) \in Held[n]
BY LookupHeld DEF FirstEnv, FirstSet, Ages

(* Two sets of files that say the same of a name are the same for it. *)
LEMMA LookupAgrees ==
    ASSUME NEW env, NEW fs, NEW gs, NEW n, NEW age,
           \A i \in Places : Value(fs[i], n, age) = Value(gs[i], n, age)
    PROVE  Lookup(env, fs, n, age) = Lookup(env, gs, n, age)
BY LookupIs DEF Places, Says

(* What the file that updates write says is what is found. *)
LEMMA SaidFirst ==
    ASSUME NEW g, NEW fs, NEW n, NEW age, g.env[n][age] = Unset,
           Says(fs, Resolve(g, fs), n, age)
    PROVE  Lookup(g.env, fs, n, age) = Value(fs[Resolve(g, fs)], n, age)
<1>1. Resolve(g, fs) \in {1, 2} /\ (Resolve(g, fs) = 2 => ~Says(fs, 1, n, age))
  BY ResolveFirst, NothingSaid DEF Places, Says
<1>2. CASE Resolve(g, fs) = 1
  BY <1>2, LookupIs
<1>3. CASE Resolve(g, fs) = 2
  BY <1>1, <1>3, LookupIs
<1> QED BY <1>1, <1>2, <1>3

(* What an update sets is found, and else what was found before. *)
LEMMA LookupEdited ==
    ASSUME NEW g, NEW fs \in FileSets, NEW v, IsUpdate(v), NEW n \in Names, NEW age \in Ages
    PROVE  LET t == Resolve(g, fs)
           IN  Lookup(g.env, [fs EXCEPT ![t] = Edited(fs[t], v)], n, age) =
                   IF g.env[n][age] = Unset /\ n \in DOMAIN v /\ age = "new" THEN v[n]
                   ELSE Lookup(g.env, fs, n, age)
<1> DEFINE t == Resolve(g, fs)
           e == Edited(fs[t], v)
           gs == [fs EXCEPT ![t] = e]
<1>1. t \in Places /\ (t = 2 => fs[1] = NoFile)
  BY ResolveFirst
<1>2. fs[t] \in Content \cup {NoFile}
  BY <1>1 DEF FileSets
<1>3. Value(e, n, age) = IF n \in DOMAIN v /\ age = "new" THEN v[n] ELSE Value(fs[t], n, age)
  BY <1>2, EditedIs
<1>4. e \in Content /\ Resolve(g, gs) = t
  BY <1>2, EditedIs, ResolveStable
<1>5. \A i \in Places : gs[i] = IF i = t THEN e ELSE fs[i]
  BY <1>1 DEF FileSets
<1> HIDE DEF t, e, gs
<1>6. CASE g.env[n][age] # Unset
  BY <1>6, LookupIs DEF t, e, gs
<1>7. CASE g.env[n][age] = Unset /\ n \in DOMAIN v /\ age = "new"
  <2>1. Value(gs[t], n, age) = v[n] /\ v[n] # Unset
    BY <1>1, <1>3, <1>5, <1>7, UpdateIsHeld
  <2>2. Lookup(g.env, gs, n, age) = v[n]
    BY <1>4, <1>7, <2>1, SaidFirst DEF Says
  <2> QED BY <1>7, <2>2 DEF t, e, gs
<1>8. CASE g.env[n][age] = Unset /\ ~(n \in DOMAIN v /\ age = "new")
  <2>1. \A i \in Places : Value(gs[i], n, age) = Value(fs[i], n, age)
    BY <1>1, <1>3, <1>5, <1>8
  <2>2. Lookup(g.env, gs, n, age) = Lookup(g.env, fs, n, age)
    BY <2>1, LookupAgrees
  <2> QED BY <1>8, <2>2 DEF t, e, gs
<1> QED BY <1>6, <1>7, <1>8

LEMMA LoadIs ==
    ASSUME NEW g, NEW fs
    PROVE  LET v(n) == FirstEnv(g.env, fs, n)
           IN  /\ Load(g, fs).apiKey = v("API_KEY")
               /\ Load(g, fs).require =
                      IF v("REQUIRE") = "" THEN v("API_KEY") # "" ELSE v("REQUIRE") = "true"
               /\ Load(g, fs).site = NormalizeSite(v("SITE"))
               /\ Load(g, fs).base =
                      FirstSet(v("BASE_URL"), DefaultBase(NormalizeSite(v("SITE")), v("ENV")))
               /\ Load(g, fs).env = v("ENV")
BY DEF Load

LEMMA LoadIsSnapshot ==
    ASSUME NEW g \in Contexts, NEW fs \in FileSets
    PROVE  Load(g, fs) \in Snapshots
<1> DEFINE v(n) == FirstEnv(g.env, fs, n)
<1>1. g.env \in Environment
  BY DEF Contexts
<1>2. /\ v("API_KEY") \in ApiKeys \cup {OwnKey, ""}
      /\ v("BASE_URL") \in Hosts \cup {""}
      /\ v("ENV") \in Held["ENV"]
  BY <1>1, FirstEnvHeld, HeldIs DEF Names
<1>3. NormalizeSite(v("SITE")) \in Regions
  BY DEF NormalizeSite, Regions
<1>4. DefaultBase(NormalizeSite(v("SITE")), v("ENV")) \in Hosts
  BY DEF DefaultBase, Hosts
<1>5. FirstSet(v("BASE_URL"), DefaultBase(NormalizeSite(v("SITE")), v("ENV"))) \in Hosts
  BY <1>2, <1>4 DEF FirstSet
<1> QED BY <1>2, <1>3, <1>5 DEF Load, Snapshots

-----------------------------------------------------------------------------
(* What an update does to the snapshot is what it does to the files.       *)

LEMMA KeyUpdate ==
    ASSUME NEW k \in ApiKeys
    PROVE  /\ DOMAIN KeyValues(k) = {"API_KEY", "REQUIRE"}
           /\ KeyValues(k)["API_KEY"] = k /\ KeyValues(k)["REQUIRE"] = "true"
           /\ IsUpdate(KeyValues(k)) /\ k # ""
BY EnvAssumption DEF KeyValues, IsUpdate

LEMMA KeyApplied ==
    ASSUME NEW k \in ApiKeys, NEW c \in Snapshots
    PROVE  /\ Applied(c, KeyValues(k)) \in Snapshots
           /\ Applied(c, KeyValues(k)).apiKey = k
           /\ Applied(c, KeyValues(k)).require = TRUE
           /\ Applied(c, KeyValues(k)).site = c.site
           /\ Applied(c, KeyValues(k)).base = c.base
           /\ Applied(c, KeyValues(k)).env = c.env
<1> DEFINE d == [c EXCEPT !.apiKey = k, !.require = TRUE]
<1>1. /\ d.apiKey = k /\ d.require = TRUE
      /\ d.site = c.site /\ d.base = c.base /\ d.env = c.env
  BY DEF Snapshots
<1>2. d \in Snapshots
  BY DEF Snapshots
<1>3. Applied(c, KeyValues(k)) = d
  BY KeyUpdate DEF Applied
<1> HIDE DEF d
<1> QED BY <1>1, <1>2, <1>3

LEMMA SiteUpdate ==
    ASSUME NEW s \in Regions
    PROVE  /\ DOMAIN SiteValues(s) = SiteNames
           /\ SiteValues(s)["SITE"] = s /\ SiteValues(s)["BASE_URL"] = Portal(s)
           /\ SiteValues(s)["ENV"] = (IF s = "domestic" THEN "internal" ELSE "")
           /\ IsUpdate(SiteValues(s))
           /\ s # "" /\ NormalizeSite(s) = s /\ Portal(s) # ""
<1>1. /\ DOMAIN SiteValues(s) = SiteNames
      /\ SiteValues(s)["SITE"] = s /\ SiteValues(s)["BASE_URL"] = Portal(s)
      /\ SiteValues(s)["ENV"] = (IF s = "domestic" THEN "internal" ELSE "")
  BY DEF SiteValues, SiteNames
<1>2. IsUpdate(SiteValues(s)) /\ s # "" /\ NormalizeSite(s) = s /\ Portal(s) # ""
  BY DEF IsUpdate, NormalizeSite, Regions, Portal, PortalCN, PortalAI
<1> QED BY <1>1, <1>2

LEMMA SiteApplied ==
    ASSUME NEW s \in Regions, NEW c \in Snapshots
    PROVE  /\ Applied(c, SiteValues(s)) \in Snapshots
           /\ Applied(c, SiteValues(s)).apiKey = c.apiKey
           /\ Applied(c, SiteValues(s)).require = c.require
           /\ Applied(c, SiteValues(s)).site = s
           /\ Applied(c, SiteValues(s)).base = Portal(s)
           /\ Applied(c, SiteValues(s)).env = SiteValues(s)["ENV"]
<1>1. Portal(s) \in Hosts /\ SiteValues(s)["ENV"] \in Held["ENV"]
  BY SiteUpdate, HeldIs DEF Portal, Hosts
<1> DEFINE b == Portal(s)
           e == SiteValues(s)["ENV"]
<1>2. "API_KEY" \notin DOMAIN SiteValues(s)
  <2>1. DOMAIN SiteValues(s) = SiteNames
    BY SiteUpdate
  <2>2. "API_KEY" \notin SiteNames
    BY DEF SiteNames
  <2> QED BY <2>1, <2>2
<1>3. SiteValues(s)["SITE"] = s
  BY SiteUpdate
<1>4. Applied(c, SiteValues(s)) = [c EXCEPT !.site = s, !.base = b, !.env = e]
  BY <1>2, <1>3 DEF Applied
<1>5. b \in Hosts /\ e \in Held["ENV"]
  BY <1>1
<1> HIDE DEF b, e
<1>6. /\ Applied(c, SiteValues(s)) \in Snapshots
      /\ Applied(c, SiteValues(s)).apiKey = c.apiKey
      /\ Applied(c, SiteValues(s)).require = c.require
      /\ Applied(c, SiteValues(s)).site = s
      /\ Applied(c, SiteValues(s)).base = b
      /\ Applied(c, SiteValues(s)).env = e
  <2> DEFINE d == Applied(c, SiteValues(s))
  <2>1. d = [c EXCEPT !.site = s, !.base = b, !.env = e]
    BY <1>4
  <2> HIDE DEF d
  <2>2. /\ d \in Snapshots
        /\ d.apiKey = c.apiKey /\ d.require = c.require
        /\ d.site = s /\ d.base = b /\ d.env = e
    BY <1>5, <2>1 DEF Snapshots
  <2> QED BY <2>2 DEF d
<1> QED BY <1>6 DEF b, e

LEMMA AppliedIsSnapshot ==
    ASSUME NEW c \in Snapshots, NEW v, IsUpdate(v)
    PROVE  Applied(c, v) \in Snapshots
<1>1. CASE \E k \in ApiKeys : v = KeyValues(k)
  BY <1>1, KeyApplied
<1>2. CASE \E s \in Regions : v = SiteValues(s)
  BY <1>2, SiteApplied
<1> QED BY <1>1, <1>2 DEF IsUpdate

(* InFiles, of any environment, any files and any snapshot. *)
Leaves(g, n) == g.env[n]["new"] = Unset
InFilesOf(g, fs, c) ==
    LET d == Load(g, fs)
    IN  /\ Leaves(g, "API_KEY") => d.apiKey = c.apiKey
        /\ Leaves(g, "REQUIRE") => d.require = c.require
        /\ Leaves(g, "SITE") => d.site = c.site
        /\ Leaves(g, "BASE_URL") => d.base = c.base
        /\ Leaves(g, "ENV") => d.env = FirstSet(c.env, Lookup(g.env, fs, "ENV", "old"))

LEMMA InFilesIs ==
    ASSUME NEW c
    PROVE  InFiles(c) <=> InFilesOf(given, file, c)
BY DEF InFiles, InFilesOf, LeftToFiles, Leaves

LEMMA LoadIsInFiles ==
    ASSUME NEW g, NEW fs
    PROVE  InFilesOf(g, fs, Load(g, fs))
<1>1. Load(g, fs).env = FirstSet(Lookup(g.env, fs, "ENV", "new"), Lookup(g.env, fs, "ENV", "old"))
  BY LoadIs DEF FirstEnv
<1>2. Load(g, fs).env = FirstSet(Load(g, fs).env, Lookup(g.env, fs, "ENV", "old"))
  BY <1>1 DEF FirstSet
<1> QED BY <1>2 DEF InFilesOf

LEMMA AppliedIsInFiles ==
    ASSUME NEW g \in Contexts, NEW fs \in FileSets,
           NEW v, IsUpdate(v), NEW c \in Snapshots, InFilesOf(g, fs, c)
    PROVE  LET t == Resolve(g, fs)
           IN  InFilesOf(g, [fs EXCEPT ![t] = Edited(fs[t], v)], Applied(c, v))
<1> DEFINE t == Resolve(g, fs)
           gs == [fs EXCEPT ![t] = Edited(fs[t], v)]
           old(n) == FirstEnv(g.env, fs, n)
           new(n) == FirstEnv(g.env, gs, n)
           alias == Lookup(g.env, fs, "ENV", "old")
<1>1. \A n \in Names : n \notin DOMAIN v => new(n) = old(n)
  BY LookupEdited DEF FirstEnv, Ages
<1>2. \A n \in Names : n \in DOMAIN v /\ Leaves(g, n) =>
          new(n) = FirstSet(v[n], Lookup(g.env, fs, n, "old"))
  BY LookupEdited DEF FirstEnv, Ages, Leaves
<1>3. Lookup(g.env, gs, "ENV", "old") = alias
  BY LookupEdited DEF Names, Ages
<1>4. /\ Load(g, gs).apiKey = new("API_KEY")
      /\ Load(g, gs).require = IF new("REQUIRE") = "" THEN new("API_KEY") # ""
                               ELSE new("REQUIRE") = "true"
      /\ Load(g, gs).site = NormalizeSite(new("SITE"))
      /\ Load(g, gs).base = FirstSet(new("BASE_URL"),
                                     DefaultBase(NormalizeSite(new("SITE")), new("ENV")))
      /\ Load(g, gs).env = new("ENV")
  BY LoadIs
<1>5. /\ Load(g, fs).apiKey = old("API_KEY")
      /\ Load(g, fs).require = IF old("REQUIRE") = "" THEN old("API_KEY") # ""
                               ELSE old("REQUIRE") = "true"
      /\ Load(g, fs).site = NormalizeSite(old("SITE"))
      /\ Load(g, fs).base = FirstSet(old("BASE_URL"),
                                     DefaultBase(NormalizeSite(old("SITE")), old("ENV")))
      /\ Load(g, fs).env = old("ENV")
  BY LoadIs
<1>6. /\ "API_KEY" \in Names /\ "REQUIRE" \in Names
      /\ "SITE" \in Names /\ "BASE_URL" \in Names /\ "ENV" \in Names
  BY DEF Names
<1>7. LET d == Load(g, fs)
          IN  /\ Leaves(g, "API_KEY") => d.apiKey = c.apiKey
              /\ Leaves(g, "REQUIRE") => d.require = c.require
              /\ Leaves(g, "SITE") => d.site = c.site
              /\ Leaves(g, "BASE_URL") => d.base = c.base
              /\ Leaves(g, "ENV") => d.env = FirstSet(c.env, alias)
  BY DEF InFilesOf
<1>8. \A d : InFilesOf(g, gs, d) <=>
          LET l == Load(g, gs)
          IN  /\ Leaves(g, "API_KEY") => l.apiKey = d.apiKey
              /\ Leaves(g, "REQUIRE") => l.require = d.require
              /\ Leaves(g, "SITE") => l.site = d.site
              /\ Leaves(g, "BASE_URL") => l.base = d.base
              /\ Leaves(g, "ENV") => l.env = FirstSet(d.env, alias)
  BY <1>3 DEF InFilesOf
<1> HIDE DEF old, new, gs, alias
<1>9. CASE \E k \in ApiKeys : v = KeyValues(k)
  <2>1. PICK k \in ApiKeys : v = KeyValues(k)
    BY <1>9
  <2>2. /\ DOMAIN v = {"API_KEY", "REQUIRE"} /\ v["API_KEY"] = k /\ v["REQUIRE"] = "true"
        /\ k # ""
        /\ Applied(c, v).apiKey = k /\ Applied(c, v).require = TRUE
        /\ Applied(c, v).site = c.site /\ Applied(c, v).base = c.base
        /\ Applied(c, v).env = c.env
    <3>1. /\ Applied(c, v).apiKey = k /\ Applied(c, v).require = TRUE
          /\ Applied(c, v).site = c.site /\ Applied(c, v).base = c.base
          /\ Applied(c, v).env = c.env
      BY <2>1, KeyApplied
    <3> QED BY <2>1, <3>1, KeyUpdate
  <2>3. /\ Leaves(g, "API_KEY") => new("API_KEY") = k
        /\ Leaves(g, "REQUIRE") => new("REQUIRE") = "true"
    BY <1>2, <1>6, <2>2 DEF FirstSet
  <2>4. /\ new("SITE") = old("SITE") /\ new("BASE_URL") = old("BASE_URL")
        /\ new("ENV") = old("ENV")
    BY <1>1, <1>6, <2>2
  <2>5. /\ Load(g, gs).site = Load(g, fs).site
        /\ Load(g, gs).base = Load(g, fs).base
        /\ Load(g, gs).env = Load(g, fs).env
    BY <2>4, <1>4, <1>5
  <2>6. Leaves(g, "REQUIRE") => Load(g, gs).require = TRUE
    BY <2>3, <1>4
  <2>7. /\ Leaves(g, "API_KEY") => Load(g, gs).apiKey = Applied(c, v).apiKey
        /\ Leaves(g, "REQUIRE") => Load(g, gs).require = Applied(c, v).require
    BY <2>2, <2>3, <2>6, <1>4
  <2>8. /\ Leaves(g, "SITE") => Load(g, gs).site = Applied(c, v).site
        /\ Leaves(g, "BASE_URL") => Load(g, gs).base = Applied(c, v).base
        /\ Leaves(g, "ENV") => Load(g, gs).env = FirstSet(Applied(c, v).env, alias)
    BY <2>2, <2>5, <1>7
  <2>9. InFilesOf(g, gs, Applied(c, v))
    BY <2>7, <2>8, <1>8
  <2> QED BY <2>9 DEF gs
<1>10. CASE \E s \in Regions : v = SiteValues(s)
  <2>1. PICK s \in Regions : v = SiteValues(s)
    BY <1>10
  <2>2. /\ DOMAIN v = SiteNames /\ v["SITE"] = s /\ v["BASE_URL"] = Portal(s)
        /\ s # "" /\ NormalizeSite(s) = s /\ Portal(s) # ""
        /\ Applied(c, v).apiKey = c.apiKey /\ Applied(c, v).require = c.require
        /\ Applied(c, v).site = s /\ Applied(c, v).base = Portal(s)
        /\ Applied(c, v).env = v["ENV"]
    <3>1. /\ Applied(c, v).apiKey = c.apiKey /\ Applied(c, v).require = c.require
          /\ Applied(c, v).site = s /\ Applied(c, v).base = Portal(s)
          /\ Applied(c, v).env = v["ENV"]
      BY <2>1, SiteApplied
    <3> QED BY <2>1, <3>1, SiteUpdate
  <2>3. /\ Leaves(g, "SITE") => new("SITE") = s
        /\ Leaves(g, "BASE_URL") => new("BASE_URL") = Portal(s)
        /\ Leaves(g, "ENV") => new("ENV") = FirstSet(v["ENV"], alias)
    BY <1>2, <1>6, <2>2 DEF FirstSet, SiteNames, alias
  <2>4. new("API_KEY") = old("API_KEY") /\ new("REQUIRE") = old("REQUIRE")
    BY <1>1, <1>6, <2>2 DEF SiteNames
  <2>5. Load(g, gs).apiKey = Load(g, fs).apiKey /\ Load(g, gs).require = Load(g, fs).require
    BY <2>4, <1>4, <1>5
  <2>6. /\ Leaves(g, "SITE") => Load(g, gs).site = s
        /\ Leaves(g, "BASE_URL") => Load(g, gs).base = Portal(s)
    BY <2>2, <2>3, <1>4 DEF FirstSet
  <2>7. /\ Leaves(g, "API_KEY") => Load(g, gs).apiKey = Applied(c, v).apiKey
        /\ Leaves(g, "REQUIRE") => Load(g, gs).require = Applied(c, v).require
    BY <2>2, <2>5, <1>7
  <2>8. /\ Leaves(g, "SITE") => Load(g, gs).site = Applied(c, v).site
        /\ Leaves(g, "BASE_URL") => Load(g, gs).base = Applied(c, v).base
        /\ Leaves(g, "ENV") => Load(g, gs).env = FirstSet(Applied(c, v).env, alias)
    BY <2>2, <2>3, <2>6, <1>4
  <2>9. InFilesOf(g, gs, Applied(c, v))
    BY <2>7, <2>8, <1>8
  <2> QED BY <2>9 DEF gs
<1> QED BY <1>9, <1>10 DEF IsUpdate

-----------------------------------------------------------------------------
(* What versions of the operator's files say.                              *)

LEMMA TypesOfFiles ==
    ASSUME TypeOK
    PROVE  /\ given \in Contexts /\ given.env \in Environment
           /\ file \in FileSets /\ first \in FileSets
           /\ conf \in Snapshots
           /\ \A p \in Procs : values[p] = EmptyFile \/ IsUpdate(values[p])
           /\ Target \in Places
           /\ \A i \in Places : file[i] \in Content \cup {NoFile}
                                /\ first[i] \in Content \cup {NoFile}
<1>1. given \in Contexts /\ given.env \in Environment
  BY EnvAssumption DEF TypeOK, Contexts
<1>2. file \in FileSets /\ first \in FileSets
  BY DEF TypeOK, FileSets
<1>3. conf \in Snapshots
  BY DEF TypeOK, Snapshots
<1>4. ASSUME NEW p \in Procs
      PROVE  values[p] = EmptyFile \/ IsUpdate(values[p])
  <2>1. values[p] \in {EmptyFile} \cup {KeyValues(k) : k \in ApiKeys}
                                  \cup {SiteValues(s) : s \in Regions}
    BY DEF TypeOK
  <2> QED BY <2>1 DEF IsUpdate
<1>5. Target \in Places
  BY ResolveFirst DEF Target
<1>6. \A i \in Places : file[i] \in Content \cup {NoFile} /\ first[i] \in Content \cup {NoFile}
  BY <1>2 DEF FileSets
<1> QED BY <1>1, <1>2, <1>3, <1>4, <1>5, <1>6

(* A line that is as the operator left it is found as he left it. *)
LEMMA FoundAsWritten ==
    ASSUME FilesAreVersions, NEW n, NEW age,
           Value(file[Target], n, age) = Value(first[Target], n, age)
    PROVE  Lookup(given.env, file, n, age) = Lookup(given.env, first, n, age)
<1>1. \A i \in Places : i # Target => file[i] = first[i]
  BY DEF FilesAreVersions
<1>2. \A i \in Places : Value(file[i], n, age) = Value(first[i], n, age)
  BY <1>1
<1> QED BY <1>2, LookupAgrees

(* A line that opens the API is one that the operator wrote. *)
LEMMA FlagIsSaid ==
    ASSUME NEW f \in Content \cup {NoFile}, FlagIsOperators(f), NEW age \in Ages,
           Value(f, "REQUIRE", age) = "false"
    PROVE  OperatorSaid(age)
<1>1. "false" # Unset
  BY HeldIs, HeldIsValue DEF Names
<1>2. PICK i \in At(f, "REQUIRE", age) : Value(f, "REQUIRE", age) = Lines(f)[i].value
  BY <1>1, ValueIs
<1>3. i \in 1..Len(Lines(f)) /\ Sets(Lines(f)[i], "REQUIRE", age)
  BY <1>2 DEF At
<1>4. Lines(f)[i].name = "REQUIRE" /\ Lines(f)[i].age = age
  BY <1>3 DEF Sets, SiteNames
<1> QED BY <1>2, <1>3, <1>4 DEF FlagIsOperators

(* The API is open to be loaded only where the operator wrote so. *)
LEMMA OpenIsWritten ==
    ASSUME TypeOK, FilesAreVersions, FlagsAreOperators,
           FirstEnv(given.env, file, "REQUIRE") = "false"
    PROVE  Opened
<1> DEFINE n == "REQUIRE"
           found(age) == Lookup(given.env, file, n, age)
           wrote(age) == Lookup(given.env, first, n, age)
<1>1. FirstEnv(given.env, file, n) = FirstSet(found("new"), found("old"))
      /\ FirstEnv(given.env, first, n) = FirstSet(wrote("new"), wrote("old"))
  BY DEF FirstEnv
<1>2. CASE ~overlap /\ ~before
  <2>1. Version(file[Target]) /\ Target = Resolve(given, first)
    BY <1>2 DEF FilesAreVersions
  <2>2. /\ Value(file[Target], n, "new") \in {Value(first[Target], n, "new"), "true"}
        /\ Value(file[Target], n, "old") = Value(first[Target], n, "old")
    BY <2>1 DEF Version, Names
  <2>3. found("old") = wrote("old")
    BY <2>2, FoundAsWritten
  <2>4. CASE Value(file[Target], n, "new") = Value(first[Target], n, "new")
    <3>1. found("new") = wrote("new")
      BY <2>4, FoundAsWritten
    <3> HIDE DEF found, wrote
    <3>2. FirstEnv(given.env, first, n) = "false"
      BY <1>1, <2>3, <3>1
    <3> QED BY <3>2 DEF Opened
  <2>5. CASE Value(file[Target], n, "new") = "true" /\ given.env[n]["new"] # Unset
    <3>1. found("new") = given.env[n]["new"] /\ wrote("new") = given.env[n]["new"]
      BY <2>5, LookupIs
    <3> HIDE DEF found, wrote
    <3>2. FirstEnv(given.env, first, n) = "false"
      BY <1>1, <2>3, <3>1
    <3> QED BY <3>2 DEF Opened
  <2>6. CASE Value(file[Target], n, "new") = "true" /\ given.env[n]["new"] = Unset
    <3>1. "true" # Unset
      BY HeldIs, HeldIsValue DEF Names
    <3>2. found("new") = "true"
      BY <2>6, <3>1, SaidFirst DEF Target, Says
    <3> HIDE DEF found, wrote
    <3>3. FirstEnv(given.env, file, n) = "true"
      BY <1>1, <3>2 DEF FirstSet
    <3> QED BY <3>3
  <2> QED BY <2>2, <2>4, <2>5, <2>6
<1>3. CASE overlap \/ before
  <2>1. PICK age \in Ages : found(age) = "false"
    <3> HIDE DEF found, wrote
    <3> QED BY <1>1 DEF FirstSet, Ages
  <2>2. CASE given.env[n][age] # Unset
    <3>1. given.env[n][age] = "false"
      BY <2>1, <2>2, LookupIs
    <3> QED BY <1>3, <3>1 DEF Opened
  <2>3. CASE given.env[n][age] = Unset
    <3>1. PICK i \in Places : Value(file[i], n, age) = "false"
      BY <2>1, <2>3, LookupIs DEF Places
    <3>2. OperatorSaid(age)
      BY <3>1, FlagIsSaid, TypesOfFiles DEF FlagsAreOperators
    <3> QED BY <1>3, <2>3, <3>2 DEF Opened
  <2> QED BY <2>2, <2>3
<1> QED BY <1>2, <1>3

(* The same names found give the same region and base URL. *)
LEMMA CoherentAgrees ==
    ASSUME NEW g, NEW fs, NEW gs,
           \A n \in SiteNames, age \in Ages : Lookup(g.env, fs, n, age) = Lookup(g.env, gs, n, age),
           Coherent(Load(g, gs))
    PROVE  Coherent(Load(g, fs))
<1>1. \A n \in SiteNames : FirstEnv(g.env, fs, n) = FirstEnv(g.env, gs, n)
  BY DEF FirstEnv, Ages
<1>2. /\ FirstEnv(g.env, fs, "SITE") = FirstEnv(g.env, gs, "SITE")
      /\ FirstEnv(g.env, fs, "BASE_URL") = FirstEnv(g.env, gs, "BASE_URL")
      /\ FirstEnv(g.env, fs, "ENV") = FirstEnv(g.env, gs, "ENV")
  BY <1>1 DEF SiteNames
<1> DEFINE Site(h) == NormalizeSite(FirstEnv(g.env, h, "SITE"))
           Base(h) == FirstSet(FirstEnv(g.env, h, "BASE_URL"),
                               DefaultBase(Site(h), FirstEnv(g.env, h, "ENV")))
<1>3. \A h : Load(g, h).site = Site(h) /\ Load(g, h).base = Base(h)
  BY LoadIs
<1>4. Site(fs) = Site(gs) /\ Base(fs) = Base(gs)
  BY <1>2
<1> HIDE DEF Site, Base
<1>5. Load(g, fs).site = Load(g, gs).site /\ Load(g, fs).base = Load(g, gs).base
  BY <1>3, <1>4
<1> QED BY <1>5 DEF Coherent

LEMMA PortalCoherent ==
    ASSUME NEW s \in Regions, NEW c, c.site = s, c.base = Portal(s)
    PROVE  Coherent(c)
BY DEF Coherent, Portal, DomesticHost, Regions, PortalCN, PortalAI, Copilot

(* What is loaded is of one region if what the operator wrote is. *)
LEMMA LoadedCoherent ==
    ASSUME TypeOK, FilesAreVersions, ~overlap, ~before,
           LeftToFiles({"SITE", "BASE_URL"}), Coherent(Load(given, first))
    PROVE  Coherent(Load(given, file))
<1>1. SiteNames \subseteq Names
  BY DEF SiteNames, Names
<1> DEFINE c == file[Target]
           wrote == first[Target]
<1>2. Version(c) /\ Target = Resolve(given, first)
  BY DEF FilesAreVersions
<1>3. \A n \in SiteNames : Value(c, n, "old") = Value(wrote, n, "old")
  BY <1>1, <1>2 DEF Version
<1>4. CASE \A n \in SiteNames : Value(c, n, "new") = Value(wrote, n, "new")
  <2>1. \A n \in SiteNames, age \in Ages :
            Lookup(given.env, file, n, age) = Lookup(given.env, first, n, age)
    BY <1>3, <1>4, FoundAsWritten DEF Ages
  <2> QED BY <2>1, CoherentAgrees
<1>5. CASE \E s \in Regions : \A n \in SiteNames : Value(c, n, "new") = SiteValues(s)[n]
  <2>1. PICK s \in Regions : \A n \in SiteNames : Value(c, n, "new") = SiteValues(s)[n]
    BY <1>5
  <2>2. /\ DOMAIN SiteValues(s) = SiteNames /\ IsUpdate(SiteValues(s))
        /\ SiteValues(s)["SITE"] = s /\ SiteValues(s)["BASE_URL"] = Portal(s)
        /\ s # "" /\ NormalizeSite(s) = s /\ Portal(s) # ""
    BY SiteUpdate
  <2>3. s # Unset /\ Portal(s) # Unset
    BY <2>2, UpdateIsHeld DEF SiteNames
  <2>4. Value(c, "SITE", "new") = s /\ Value(c, "BASE_URL", "new") = Portal(s)
    BY <2>1, <2>2 DEF SiteNames
  <2>5. given.env["SITE"]["new"] = Unset /\ given.env["BASE_URL"]["new"] = Unset
    BY DEF LeftToFiles
  <2>6. /\ Lookup(given.env, file, "SITE", "new") = s
        /\ Lookup(given.env, file, "BASE_URL", "new") = Portal(s)
    BY <2>3, <2>4, <2>5, SaidFirst DEF Target, Says
  <2>7. FirstEnv(given.env, file, "SITE") = s /\ FirstEnv(given.env, file, "BASE_URL") = Portal(s)
    BY <2>2, <2>6 DEF FirstEnv, FirstSet
  <2>8. Load(given, file).site = s /\ Load(given, file).base = Portal(s)
    BY <2>2, <2>7, LoadIs DEF FirstSet
  <2> QED BY <2>8, PortalCoherent
<1> QED BY <1>2, <1>4, <1>5 DEF Version

(* An update of a version is a version. *)
LEMMA EditedIsVersion ==
    ASSUME NEW f \in Content \cup {NoFile}, Version(f), NEW v, IsUpdate(v)
    PROVE  Version(Edited(f, v))
<1> DEFINE e == Edited(f, v)
           wrote(n, age) == Value(first[Resolve(given, first)], n, age)
<1>1. \A n \in Names, age \in Ages :
          Value(e, n, age) = IF n \in DOMAIN v /\ age = "new" THEN v[n] ELSE Value(f, n, age)
  BY EditedIs
<1>2. SiteNames \subseteq Names /\ "REQUIRE" \in Names /\ "REQUIRE" \notin SiteNames
  BY DEF SiteNames, Names
<1>3. \A n \in Names : Value(f, n, "old") = wrote(n, "old")
  BY DEF Version
<1>4. Value(f, "REQUIRE", "new") \in {wrote("REQUIRE", "new"), "true"}
  BY DEF Version
<1>5. \/ \A n \in SiteNames : Value(f, n, "new") = wrote(n, "new")
      \/ \E s \in Regions : \A n \in SiteNames : Value(f, n, "new") = SiteValues(s)[n]
  BY DEF Version
<1> HIDE DEF e, wrote
<1>6. \A n \in Names : Value(e, n, "old") = wrote(n, "old")
  BY <1>1, <1>3 DEF Ages
<1>7. /\ Value(e, "REQUIRE", "new") \in {wrote("REQUIRE", "new"), "true"}
      /\ \/ \A n \in SiteNames : Value(e, n, "new") = wrote(n, "new")
         \/ \E s \in Regions : \A n \in SiteNames : Value(e, n, "new") = SiteValues(s)[n]
  <2>1. CASE \E k \in ApiKeys : v = KeyValues(k)
    <3>1. /\ "REQUIRE" \in DOMAIN v /\ v["REQUIRE"] = "true"
          /\ \A n \in SiteNames : n \notin DOMAIN v
      BY <2>1, KeyUpdate DEF SiteNames
    <3>2. Value(e, "REQUIRE", "new") = "true"
      BY <1>1, <1>2, <3>1 DEF Ages
    <3>3. \A n \in SiteNames : Value(e, n, "new") = Value(f, n, "new")
      BY <1>1, <1>2, <3>1 DEF Ages
    <3> QED BY <1>5, <3>2, <3>3
  <2>2. CASE \E s \in Regions : v = SiteValues(s)
    <3>1. PICK s \in Regions : v = SiteValues(s)
      BY <2>2
    <3>2. DOMAIN v = SiteNames
      BY <3>1, SiteUpdate
    <3>3. \A n \in SiteNames : Value(e, n, "new") = SiteValues(s)[n]
      BY <1>1, <1>2, <3>1, <3>2 DEF Ages
    <3>4. Value(e, "REQUIRE", "new") = Value(f, "REQUIRE", "new")
      BY <1>1, <1>2, <3>2 DEF Ages
    <3> QED BY <1>4, <3>3, <3>4
  <2> QED BY <2>1, <2>2 DEF IsUpdate
<1> QED BY <1>6, <1>7 DEF Version, e, wrote

-----------------------------------------------------------------------------
(* Lines that open the API.                                                *)

LEMMA FlagIs ==
    ASSUME NEW f
    PROVE  FlagIsOperators(f) <=>
               \A l \in LinesOf(Lines(f)) :
                   l.name = "REQUIRE" /\ l.value = "false" => OperatorSaid(l.age)
BY DEF FlagIsOperators, LinesOf

LEMMA FlagOfNone == FlagIsOperators(NoFile) /\ FlagIsOperators(EmptyFile)
<1>1. Len(Lines(NoFile)) = 0 /\ Len(Lines(EmptyFile)) = 0
  BY LinesIs DEF EmptyFile
<1> QED BY <1>1 DEF FlagIsOperators

LEMMA FlagOfEdited ==
    ASSUME NEW f \in Content \cup {NoFile}, FlagIsOperators(f), NEW v, IsUpdate(v)
    PROVE  FlagIsOperators(Edited(f, v))
<1>1. /\ Lines(Edited(f, v)) = Edited(f, v)
      /\ LinesOf(Edited(f, v)) \subseteq LinesOf(Lines(f)) \cup {Fresh(n, v[n]) : n \in DOMAIN v}
  BY EditedIs, LinesIs
<1>2. "REQUIRE" \in DOMAIN v => v["REQUIRE"] = "true"
  <2>1. CASE \E k \in ApiKeys : v = KeyValues(k)
    BY <2>1, KeyUpdate
  <2>2. CASE \E s \in Regions : v = SiteValues(s)
    <3>1. DOMAIN v = SiteNames
      BY <2>2, SiteUpdate
    <3> QED BY <3>1 DEF SiteNames
  <2> QED BY <2>1, <2>2 DEF IsUpdate
<1>3. ASSUME NEW n \in DOMAIN v, Fresh(n, v[n]).name = "REQUIRE"
      PROVE  Fresh(n, v[n]).value = "true"
  BY <1>2, <1>3 DEF Fresh
<1>4. ASSUME NEW l \in LinesOf(Edited(f, v)), l.name = "REQUIRE", l.value = "false"
      PROVE  OperatorSaid(l.age)
  <2>1. l \in LinesOf(Lines(f))
    BY <1>1, <1>3, <1>4
  <2> QED BY <1>4, <2>1, FlagIs
<1> QED BY <1>1, <1>4, FlagIs

LEMMA FlagOfOverlay ==
    ASSUME NEW f \in Content, NEW under \in Content \cup {NoFile},
           FlagIsOperators(f), FlagIsOperators(under)
    PROVE  FlagIsOperators(Overlay(f, under))
<1>1. /\ Lines(f) = f /\ Lines(Overlay(f, under)) = Overlay(f, under)
      /\ \A l \in LinesOf(Overlay(f, under)) : l \in LinesOf(f) \/ SaysAs(l, Lines(under))
  BY OverlayIs, LinesIs
<1>2. ASSUME NEW l \in LinesOf(Overlay(f, under)), l.name = "REQUIRE", l.value = "false"
      PROVE  OperatorSaid(l.age)
  <2>1. CASE l \in LinesOf(f)
    BY <1>1, <1>2, <2>1, FlagIs
  <2>2. CASE SaysAs(l, Lines(under))
    <3>1. PICK i \in 1..Len(Lines(under)) :
              /\ l.name = Lines(under)[i].name /\ l.age = Lines(under)[i].age
              /\ l.value = Lines(under)[i].value
      BY <2>2 DEF SaysAs
    <3> QED BY <1>2, <3>1 DEF FlagIsOperators
  <2> QED BY <1>1, <2>1, <2>2
<1> QED BY <1>1, <1>2, FlagIs

-----------------------------------------------------------------------------
(* The parts of a state that do not change with given and first.           *)

LEMMA SameOperator ==
    ASSUME UNCHANGED <<given, first>>
    PROVE  /\ \A c : Version(c)' <=> Version(c)
           /\ \A c : FlagIsOperators(c)' <=> FlagIsOperators(c)
           /\ (overlap \/ before => overlap' \/ before') => (Opened => Opened')
           /\ \A ns : LeftToFiles(ns)' <=> LeftToFiles(ns)
<1>1. \A age : OperatorSaid(age)' <=> OperatorSaid(age)
  BY DEF OperatorSaid
<1>2. \A c : Version(c)' <=> Version(c)
  BY DEF Version
<1>3. \A c : FlagIsOperators(c)' <=> FlagIsOperators(c)
  BY <1>1 DEF FlagIsOperators
<1>4. (overlap \/ before => overlap' \/ before') => (Opened => Opened')
  BY <1>1 DEF Opened
<1> QED BY <1>2, <1>3, <1>4 DEF LeftToFiles

(* Where the files do not change they stay versions. *)
LEMMA SameVersions ==
    ASSUME FilesAreVersions, UNCHANGED <<given, first, file>>,
           ~overlap' /\ ~before' => ~overlap /\ ~before
    PROVE  FilesAreVersions' /\ Target' = Target
<1>1. /\ Target' = Target /\ Resolve(given', first') = Resolve(given, first)
      /\ file' = file /\ first' = first
  BY DEF Target
<1>2. Version(file[Target])' <=> Version(file[Target])
  BY <1>1 DEF Version
<1> QED BY <1>1, <1>2 DEF FilesAreVersions

(* Where no file but the temporary one changes, and no text. *)
LEMMA SameFlags ==
    ASSUME FlagsAreOperators, UNCHANGED <<given, first, file>>, FlagIsOperators(tmp'),
           \A p \in Procs : FlagIsOperators(text'[p])
    PROVE  FlagsAreOperators'
<1>1. \A c : FlagIsOperators(c)' <=> FlagIsOperators(c)
  BY SameOperator
<1>2. (\A i \in Places : FlagIsOperators(file[i]))'
  BY <1>1 DEF FlagsAreOperators, FlagIsOperators, OperatorSaid
<1>3. FlagIsOperators(tmp)' /\ (\A p \in Procs : FlagIsOperators(text[p]))'
  BY DEF FlagIsOperators, OperatorSaid
<1> QED BY <1>2, <1>3 DEF FlagsAreOperators

LEMMA SameFiles ==
    ASSUME UNCHANGED <<given, file>>
    PROVE  Target' = Target /\ \A c : InFiles(c)' <=> InFiles(c)
BY DEF Target, InFiles, LeftToFiles

LEMMA UpdateTypes ==
    ASSUME NEW v, IsUpdate(v)
    PROVE  v \in {EmptyFile} \cup {KeyValues(k) : k \in ApiKeys}
                             \cup {SiteValues(s) : s \in Regions}
BY DEF IsUpdate

LEMMA LoadedCoherentInv ==
    TypeOK /\ FilesAreVersions /\ ~overlap /\ ~before =>
        (LeftToFiles({"SITE", "BASE_URL"}) /\ Coherent(Load(given, first))
         => Coherent(Load(given, file)))
BY LoadedCoherent

(* Region and base URL of what is loaded stay together, so that only a     *)
(* snapshot that changes has to be looked at.                              *)
LEMMA SiteMatchesNext ==
    ASSUME TypeOK', FilesAreVersions', UNCHANGED <<given, first>>, SiteMatchesBase,
           before => before',
           \/ conf' = conf
           \/ Coherent(conf')
           \/ conf' = Load(given', file') /\ overlap' = FALSE
           \/ conf'.site = conf.site /\ conf'.base = conf.base
    PROVE  SiteMatchesBase'
<1> SUFFICES ASSUME LeftToFiles({"SITE", "BASE_URL"})', Coherent(Load(given, first))', ~before'
             PROVE  /\ Coherent(conf')
                    /\ ~overlap' => Coherent(Load(given', file'))
  BY DEF SiteMatchesBase, Coherent
<1>1. (TypeOK /\ FilesAreVersions /\ ~overlap /\ ~before)' =>
        (LeftToFiles({"SITE", "BASE_URL"}) /\ Coherent(Load(given, first))
         => Coherent(Load(given, file)))'
  BY LoadedCoherentInv, PTL
<1>2. ~overlap' => Coherent(Load(given', file'))
  BY <1>1 DEF Coherent
<1>3. Coherent(conf)
  BY SameOperator DEF SiteMatchesBase, Coherent
<1> QED BY <1>2, <1>3 DEF Coherent

-----------------------------------------------------------------------------
(* The invariant at the start.                                             *)

LEMMA BoundsAreNat == MaxUpdates \in Nat /\ MaxFailures \in Nat /\ MaxStarts \in Nat
BY EnvAssumption

LEMMA InitTypeOK == Init => TypeOK
<1> SUFFICES ASSUME Init PROVE TypeOK
  OBVIOUS
<1>1. given \in Contexts /\ file \in FileSets /\ first = file
  BY EnvAssumption DEF Init, FileSets, Contexts
<1>2. conf \in Snapshots
  BY <1>1, LoadIsSnapshot DEF Init
<1>3. {up, overlap, before} \subseteq BOOLEAN /\ used \subseteq ApiKeys
  BY DEF Init
<1>4. updates \in 0..MaxUpdates /\ failures \in 0..MaxFailures /\ starts \in 0..MaxStarts
  <2>1. updates = 0 /\ failures = 0 /\ starts = 0
    BY DEF Init
  <2> QED BY <2>1, BoundsAreNat
<1>5. /\ pc \in [Procs -> {"idle", "open", "write", "rename", "apply"}]
      /\ values \in [Procs -> {EmptyFile} \cup {KeyValues(k) : k \in ApiKeys}
                                          \cup {SiteValues(s) : s \in Regions}]
      /\ text \in [Procs -> Content]
      /\ fd \in [Procs -> {"none", "tmp", "env", "gone"}]
  BY LinesIs DEF Init
<1>6. given \in Givens /\ tmp = NoFile
  BY DEF Init
<1> QED BY <1>1, <1>2, <1>3, <1>4, <1>5, <1>6 DEF TypeOK, FileSets, Snapshots

LEMMA InitConfigInv == Init => ConfigInv
<1> SUFFICES ASSUME Init PROVE ConfigInv
  OBVIOUS
<1>1. TypeOK
  BY InitTypeOK
<1>2. FilesAreVersions /\ FlagsAreOperators
  <2>1. file = first /\ tmp = NoFile /\ \A p \in Procs : text[p] = EmptyFile
    BY DEF Init
  <2>2. Version(file[Target])
    BY <2>1 DEF Version, Target
  <2>3. \A i \in Places : FlagIsOperators(first[i])
    <3>1. SUFFICES ASSUME NEW i \in Places, NEW j \in 1..Len(Lines(first[i])),
                          Lines(first[i])[j].name = "REQUIRE",
                          Lines(first[i])[j].value = "false"
                   PROVE  OperatorSaid(Lines(first[i])[j].age)
      BY DEF FlagIsOperators
    <3>2. Len(EmptyFile) = 0
      BY DEF EmptyFile
    <3>3. Lines(first[i]) = first[i]
      BY <3>2 DEF Lines
    <3>4. first[i][j].name = "REQUIRE" /\ first[i][j].value = "false"
          /\ Lines(first[i])[j].age = first[i][j].age
      BY <3>1, <3>3
    <3> QED BY <3>4 DEF OperatorSaid
  <2>4. FlagIsOperators(tmp) /\ \A p \in Procs : FlagIsOperators(text[p])
    BY <2>1, FlagOfNone
  <2> QED BY <2>1, <2>2, <2>3, <2>4 DEF FilesAreVersions, FlagsAreOperators, Target
<1>3. Busy = {} /\ \A p \in Procs : pc[p] = "idle" /\ fd[p] = "none"
  BY DEF Init, Busy
<1>4. WritersInTurn
  BY <1>3 DEF WritersInTurn, Procs
<1>5. AloneIsExact
  BY <1>3 DEF AloneIsExact
<1>6. ~up /\ SnapshotInFiles /\ NeverOpenByAccident
  BY DEF Init, SnapshotInFiles, NeverOpenByAccident, Serving
<1>7. SiteMatchesBase
  BY DEF Init, SiteMatchesBase
<1> QED BY <1>1, <1>2, <1>4, <1>5, <1>6, <1>7 DEF ConfigInv

-----------------------------------------------------------------------------
(* The steps that begin an update.                                         *)

LEMMA BeginPreserves ==
    ASSUME ConfigInv, NEW p \in Admins, NEW v, IsUpdate(v),
           Serving, pc[p] = "idle", Prepare(p, v),
           updates < MaxUpdates, updates' = updates + 1,
           overlap' = (overlap \/ Busy # {}), used' \subseteq ApiKeys,
           UNCHANGED <<given, file, tmp, conf, up, fd, first, before, failures, starts>>
    PROVE  ConfigInv'
<1> USE DEF ConfigInv
<1>0. p \in Procs /\ Main \in Procs /\ p # Main
  BY EnvAssumption DEF Procs
<1>1. /\ \A q \in Procs : pc'[q] = IF q = p THEN "open" ELSE pc[q]
      /\ \A q \in Procs : values'[q] = IF q = p THEN v ELSE values[q]
      /\ \A q \in Procs : text'[q] = IF q = p THEN Edited(file[Target], v) ELSE text[q]
  BY DEF Prepare, TypeOK
<1>2. file[Target] \in Content \cup {NoFile}
  BY TypesOfFiles
<1>3. TypeOK'
  <2>1. Edited(file[Target], v) \in Content
    BY <1>2, EditedIs
  <2>2. text' \in [Procs -> Content]
    BY <2>1, <1>0 DEF Prepare, TypeOK
  <2>3. values' \in [Procs -> {EmptyFile} \cup {KeyValues(k) : k \in ApiKeys}
                                          \cup {SiteValues(s) : s \in Regions}]
    BY <1>0, UpdateTypes DEF Prepare, TypeOK
  <2>4. pc' \in [Procs -> {"idle", "open", "write", "rename", "apply"}]
    BY <1>0 DEF Prepare, TypeOK
  <2>5. updates' \in 0..MaxUpdates
    <3>1. updates \in 0..MaxUpdates
      BY DEF TypeOK
    <3> QED BY <3>1, BoundsAreNat
  <2>6. overlap' \in BOOLEAN
    BY DEF TypeOK
  <2> QED BY <2>2, <2>3, <2>4, <2>5, <2>6 DEF TypeOK
<1>4. FilesAreVersions' /\ FlagsAreOperators'
  <2>1. FlagIsOperators(Edited(file[Target], v))
    BY <1>2, FlagOfEdited, TypesOfFiles DEF FlagsAreOperators
  <2>2. \A q \in Procs : FlagIsOperators(text'[q])
    BY <1>1, <2>1 DEF FlagsAreOperators
  <2>3. FlagIsOperators(tmp')
    BY DEF FlagsAreOperators
  <2> QED BY <2>2, <2>3, SameVersions, SameFlags
<1>5. pc[Main] = "idle" /\ pc'[Main] = "idle" /\ up
  BY <1>0, <1>1 DEF Serving
<1>6. Busy' = Busy \cup {p}
  BY <1>0, <1>1 DEF Busy
<1>7. WritersInTurn'
  <2>1. \A q \in Busy' : \/ \E k \in ApiKeys : values'[q] = KeyValues(k)
                         \/ \E s \in Regions : values'[q] = SiteValues(s)
    BY <1>1, <1>6 DEF WritersInTurn, Busy, IsUpdate
  <2>2. \A q \in Procs : fd'[q] # "none" <=> pc'[q] = "write"
    BY <1>1 DEF WritersInTurn
  <2>3. ~overlap' => \A q, r \in Busy' : q = r
    BY <1>6
  <2> QED BY <1>5, <2>1, <2>2, <2>3 DEF WritersInTurn
<1>8. AloneIsExact'
  <2> SUFFICES ASSUME ~overlap', NEW q \in Busy'
               PROVE  /\ Writing(q)' => text'[q] = Edited(file[Target], values'[q])
                      /\ pc'[q] = "write" => fd'[q] = "tmp" /\ tmp' = EmptyFile
                      /\ pc'[q] = "rename" => tmp' = text'[q]
    BY SameFiles DEF AloneIsExact
  <2>1. q = p
    BY <1>6
  <2> QED BY <1>0, <1>1, <2>1
<1>9. SnapshotInFiles'
  <2> SUFFICES ASSUME up', ~overlap'
               PROVE  /\ InFiles(conf)'
                      /\ \A q \in Procs : pc'[q] # "apply"
    BY DEF SnapshotInFiles
  <2>1. Busy = {} /\ ~overlap
    OBVIOUS
  <2>2. \A q \in Procs : pc[q] = "idle"
    BY <2>1 DEF Busy
  <2>3. InFiles(conf)
    BY <1>5, <2>1, <2>2 DEF SnapshotInFiles
  <2> QED BY <1>1, <2>2, <2>3 DEF InFiles, LeftToFiles
<1>10. NeverOpenByAccident'
  BY <1>5, SameOperator DEF NeverOpenByAccident, Serving, Authorized
<1>11. SiteMatchesBase'
  BY <1>3, <1>4, SiteMatchesNext
<1> QED BY <1>3, <1>4, <1>7, <1>8, <1>9, <1>10, <1>11

LEMMA GenerateKeyPreserves ==
    ASSUME ConfigInv, NEW p \in Admins, GenerateKey(p)
    PROVE  ConfigInv'
<1>1. PICK k \in ApiKeys \ used : Prepare(p, KeyValues(k)) /\ used' = used \cup {k}
  BY DEF GenerateKey
<1>2. IsUpdate(KeyValues(k)) /\ used' \subseteq ApiKeys
  BY <1>1 DEF IsUpdate, ConfigInv, TypeOK
<1> QED BY <1>1, <1>2, BeginPreserves DEF GenerateKey

LEMMA SetPoolSitePreserves ==
    ASSUME ConfigInv, NEW p \in Admins, NEW s \in Regions, SetPoolSite(p, s)
    PROVE  ConfigInv'
<1>1. IsUpdate(SiteValues(s)) /\ used' \subseteq ApiKeys
  BY DEF IsUpdate, ConfigInv, TypeOK, SetPoolSite
<1> QED BY <1>1, BeginPreserves DEF SetPoolSite

-----------------------------------------------------------------------------
(* The start and the end of a process.                                     *)

LEMMA StartPreserves ==
    ASSUME ConfigInv, Start
    PROVE  ConfigInv'
<1> DEFINE loaded == Load(given, file)
<1>1. TypeOK /\ FilesAreVersions /\ FlagsAreOperators /\ SiteMatchesBase
  BY DEF ConfigInv
<1>2. \A p \in Procs : pc[p] = "idle" /\ fd[p] = "none"
  BY DEF ConfigInv, WritersInTurn, Busy, Start, TypeOK
<1>3. Main \in Procs
  BY DEF Procs
<1>4. /\ up' = TRUE /\ conf' = loaded /\ overlap' = FALSE /\ before' = (before \/ overlap)
      /\ UNCHANGED <<given, file, tmp, fd, first>>
  BY DEF Start
<1>5. /\ loaded \in Snapshots
      /\ Target \in Places /\ file[Target] \in Content \cup {NoFile}
  BY <1>1, LoadIsSnapshot, TypesOfFiles
<1>6. InFiles(loaded)
  BY InFilesIs, LoadIsInFiles
<1>7. loaded.apiKey # "" /\ ~loaded.require => Opened'
  <2>1. loaded.apiKey # "" /\ ~loaded.require =>
            FirstEnv(given.env, file, "REQUIRE") # "true"
            /\ FirstEnv(given.env, file, "REQUIRE") # ""
    BY LoadIs
  <2>2. FirstEnv(given.env, file, "REQUIRE") \in {"true", "false", ""}
    BY <1>1, TypesOfFiles, FirstEnvHeld, HeldIs DEF Names
  <2>3. Opened => Opened'
    BY <1>4, SameOperator
  <2> QED BY <1>1, <2>1, <2>2, <2>3, OpenIsWritten
<1>8. /\ starts' \in 0..MaxStarts /\ updates' \in 0..MaxUpdates /\ failures' \in 0..MaxFailures
  <2>1. /\ starts \in 0..MaxStarts /\ updates \in 0..MaxUpdates /\ failures \in 0..MaxFailures
    BY <1>1 DEF TypeOK
  <2>2. starts < MaxStarts /\ starts' = starts + 1 /\ UNCHANGED <<updates, failures>>
    BY DEF Start
  <2> QED BY <2>1, <2>2, BoundsAreNat
<1> HIDE DEF loaded
<1>9. CASE FirstRun(loaded)
  <2>1. PICK k \in ApiKeys \ used : Prepare(Main, KeyValues(k)) /\ used' = used \cup {k}
    BY <1>9 DEF Start, loaded
  <2> DEFINE v == KeyValues(k)
  <2>2. IsUpdate(v)
    BY DEF IsUpdate
  <2> HIDE DEF v
  <2>3. /\ \A q \in Procs : pc'[q] = IF q = Main THEN "open" ELSE pc[q]
        /\ \A q \in Procs : values'[q] = IF q = Main THEN v ELSE values[q]
        /\ \A q \in Procs : text'[q] = IF q = Main THEN Edited(file[Target], v) ELSE text[q]
    BY <1>1, <2>1 DEF Prepare, TypeOK, v
  <2>4. TypeOK'
    <3>1. Edited(file[Target], v) \in Content
      BY <1>5, <2>2, EditedIs
    <3>2. text' \in [Procs -> Content]
      BY <1>1, <1>3, <2>1, <3>1 DEF Prepare, TypeOK, v
    <3>3. values' \in [Procs -> {EmptyFile} \cup {KeyValues(q) : q \in ApiKeys}
                                            \cup {SiteValues(s) : s \in Regions}]
      BY <1>1, <1>3, <2>1, <2>2, UpdateTypes DEF Prepare, TypeOK, v
    <3>4. pc' \in [Procs -> {"idle", "open", "write", "rename", "apply"}]
      BY <1>1, <1>3, <2>1 DEF Prepare, TypeOK
    <3>5. used' \subseteq ApiKeys
      BY <1>1, <2>1 DEF TypeOK
    <3>6. conf' \in Snapshots
      BY <1>4, <1>5
    <3> QED BY <1>1, <1>4, <1>8, <3>2, <3>3, <3>4, <3>5, <3>6 DEF TypeOK, Snapshots
  <2>5. FilesAreVersions' /\ FlagsAreOperators'
    <3>1. FlagIsOperators(Edited(file[Target], v))
      BY <1>1, <1>5, <2>2, FlagOfEdited DEF FlagsAreOperators
    <3>2. FlagIsOperators(tmp') /\ \A q \in Procs : FlagIsOperators(text'[q])
      BY <1>1, <1>4, <2>3, <3>1 DEF FlagsAreOperators
    <3> QED BY <1>1, <1>4, <3>2, SameVersions, SameFlags
  <2>6. Busy' = {Main}
    BY <1>2, <1>3, <2>3 DEF Busy
  <2>7. WritersInTurn'
    <3>1. values'[Main] = KeyValues(k)
      BY <1>3, <2>3 DEF v
    <3>2. \A q \in Procs : fd'[q] # "none" <=> pc'[q] = "write"
      BY <1>2, <1>4, <2>3
    <3> QED BY <1>4, <2>6, <3>1, <3>2 DEF WritersInTurn
  <2>8. AloneIsExact'
    <3>1. Target' = Target
      BY <1>4 DEF Target
    <3>2. /\ text'[Main] = Edited(file[Target], values'[Main])
          /\ pc'[Main] = "open"
      BY <1>3, <2>3
    <3> QED BY <1>4, <2>6, <3>1, <3>2 DEF AloneIsExact
  <2>9. SnapshotInFiles'
    <3>1. \A q \in Procs : pc'[q] # "apply"
      BY <1>2, <2>3
    <3>2. InFiles(conf)'
      BY <1>4, <1>6 DEF InFiles, LeftToFiles
    <3> QED BY <3>1, <3>2 DEF SnapshotInFiles
  <2>10. NeverOpenByAccident'
    BY <1>3, <2>3 DEF NeverOpenByAccident, Serving
  <2>11. SiteMatchesBase'
    <3>1. conf' = Load(given', file') /\ overlap' = FALSE /\ (before => before')
      BY <1>4 DEF loaded
    <3> QED BY <1>1, <1>4, <2>4, <2>5, <3>1, SiteMatchesNext
  <2> QED BY <2>4, <2>5, <2>7, <2>8, <2>9, <2>10, <2>11 DEF ConfigInv
<1>10. CASE ~FirstRun(loaded)
  <2>1. UNCHANGED <<pc, values, text, used>>
    BY <1>10 DEF Start, loaded
  <2>2. loaded.apiKey # ""
    BY <1>10 DEF FirstRun
  <2>3. TypeOK'
    <3>1. conf' \in Snapshots
      BY <1>4, <1>5
    <3> QED BY <1>1, <1>4, <1>8, <2>1, <3>1 DEF TypeOK, Snapshots
  <2>4. FilesAreVersions' /\ FlagsAreOperators'
    <3>1. FlagIsOperators(tmp') /\ \A q \in Procs : FlagIsOperators(text'[q])
      BY <1>1, <1>4, <2>1 DEF FlagsAreOperators
    <3> QED BY <1>1, <1>4, <3>1, SameVersions, SameFlags
  <2>5. Busy' = {}
    BY <1>2, <2>1 DEF Busy
  <2>6. WritersInTurn'
    <3>1. pc'[Main] = "idle" /\ \A q \in Procs : fd'[q] # "none" <=> pc'[q] = "write"
      BY <1>2, <1>3, <1>4, <2>1
    <3> QED BY <1>4, <2>5, <3>1 DEF WritersInTurn
  <2>7. AloneIsExact'
    BY <2>5 DEF AloneIsExact
  <2>8. SnapshotInFiles'
    <3>1. \A q \in Procs : pc'[q] # "apply"
      BY <1>2, <2>1
    <3>2. InFiles(conf)'
      BY <1>4, <1>6 DEF InFiles, LeftToFiles
    <3> QED BY <3>1, <3>2 DEF SnapshotInFiles
  <2>9. NeverOpenByAccident'
    BY <1>4, <1>7, <2>2, SameOperator DEF NeverOpenByAccident, Serving, Authorized
  <2>10. SiteMatchesBase'
    <3>1. conf' = Load(given', file') /\ overlap' = FALSE /\ (before => before')
      BY <1>4 DEF loaded
    <3> QED BY <1>1, <1>4, <2>3, <2>4, <3>1, SiteMatchesNext
  <2> QED BY <2>3, <2>4, <2>6, <2>7, <2>8, <2>9, <2>10 DEF ConfigInv
<1> QED BY <1>9, <1>10

LEMMA KillPreserves ==
    ASSUME ConfigInv, Kill
    PROVE  ConfigInv'
<1>1. TypeOK /\ FilesAreVersions /\ FlagsAreOperators /\ SiteMatchesBase
  BY DEF ConfigInv
<1>2. /\ \A p \in Procs : pc'[p] = "idle" /\ fd'[p] = "none" /\ text'[p] = EmptyFile
      /\ up' = FALSE
      /\ UNCHANGED <<given, file, tmp, conf, first, overlap, before>>
  BY DEF Kill
<1>3. TypeOK'
  <2>1. /\ pc' \in [Procs -> {"idle", "open", "write", "rename", "apply"}]
        /\ values' \in [Procs -> {EmptyFile} \cup {KeyValues(k) : k \in ApiKeys}
                                             \cup {SiteValues(s) : s \in Regions}]
        /\ text' \in [Procs -> Content]
        /\ fd' \in [Procs -> {"none", "tmp", "env", "gone"}]
    BY LinesIs DEF Kill
  <2>2. up' \in BOOLEAN /\ UNCHANGED <<used, updates, failures, starts>>
    BY DEF Kill, bounds
  <2> QED BY <1>1, <1>2, <2>1, <2>2 DEF TypeOK
<1>4. FilesAreVersions' /\ FlagsAreOperators'
  <2>1. FlagIsOperators(tmp') /\ \A q \in Procs : FlagIsOperators(text'[q])
    BY <1>1, <1>2, FlagOfNone DEF FlagsAreOperators
  <2> QED BY <1>1, <1>2, <2>1, SameVersions, SameFlags
<1>5. Busy' = {} /\ pc'[Main] = "idle"
  BY <1>2 DEF Busy, Procs
<1>6. WritersInTurn'
  BY <1>2, <1>5 DEF WritersInTurn
<1>7. AloneIsExact'
  BY <1>5 DEF AloneIsExact
<1>8. SnapshotInFiles' /\ NeverOpenByAccident'
  BY <1>2 DEF SnapshotInFiles, NeverOpenByAccident, Serving
<1>9. SiteMatchesBase'
  BY <1>1, <1>2, <1>3, <1>4, SiteMatchesNext
<1> QED BY <1>3, <1>4, <1>6, <1>7, <1>8, <1>9 DEF ConfigInv

(* A step that fails leaves the files, and the other writers, as they are. *)
LEMMA RefusedPreserves ==
    ASSUME ConfigInv, NEW p \in Procs, pc[p] # "idle", pc[p] # "apply", Refused(p),
           failures' \in 0..MaxFailures,
           UNCHANGED <<given, file, tmp, conf, used, first, overlap, before, updates, starts>>
    PROVE  ConfigInv'
<1>1. TypeOK /\ FilesAreVersions /\ FlagsAreOperators /\ SiteMatchesBase
      /\ WritersInTurn /\ AloneIsExact
  BY DEF ConfigInv
<1>2. /\ \A q \in Procs : pc'[q] = IF q = p THEN "idle" ELSE pc[q]
      /\ \A q \in Procs : values'[q] = IF q = p THEN EmptyFile ELSE values[q]
      /\ \A q \in Procs : text'[q] = IF q = p THEN EmptyFile ELSE text[q]
      /\ \A q \in Procs : fd'[q] = IF q = p THEN "none" ELSE fd[q]
      /\ up' = (up /\ p # Main)
  BY <1>1 DEF Refused, Goto, TypeOK
<1>3. TypeOK'
  <2>1. /\ pc' \in [Procs -> {"idle", "open", "write", "rename", "apply"}]
        /\ values' \in [Procs -> {EmptyFile} \cup {KeyValues(k) : k \in ApiKeys}
                                             \cup {SiteValues(s) : s \in Regions}]
        /\ text' \in [Procs -> Content]
        /\ fd' \in [Procs -> {"none", "tmp", "env", "gone"}]
    BY <1>1, LinesIs DEF Refused, Goto, TypeOK
  <2>2. up' \in BOOLEAN
    BY <1>2
  <2> QED BY <1>1, <2>1, <2>2 DEF TypeOK
<1>4. FilesAreVersions' /\ FlagsAreOperators'
  <2>1. FlagIsOperators(tmp') /\ \A q \in Procs : FlagIsOperators(text'[q])
    BY <1>1, <1>2, FlagOfNone DEF FlagsAreOperators
  <2> QED BY <1>1, <2>1, SameVersions, SameFlags
<1>5. Busy' = Busy \ {p} /\ p \in Busy
  BY <1>2 DEF Busy
<1>6. Main \in Procs
  BY DEF Procs
<1>7. p = Main => Busy = {Main}
  BY <1>1, <1>5 DEF WritersInTurn, Busy
<1>8. WritersInTurn'
  <2>1. ~up' => Busy' = {}
    BY <1>1, <1>2, <1>5, <1>7 DEF WritersInTurn
  <2>2. pc'[Main] # "idle" => FALSE
    BY <1>1, <1>2, <1>5, <1>6 DEF WritersInTurn
  <2>3. \A q \in Busy' : \/ \E k \in ApiKeys : values'[q] = KeyValues(k)
                         \/ \E s \in Regions : values'[q] = SiteValues(s)
    BY <1>1, <1>2, <1>5 DEF WritersInTurn, Busy
  <2>4. \A q \in Procs : fd'[q] # "none" <=> pc'[q] = "write"
    BY <1>1, <1>2 DEF WritersInTurn
  <2>5. ~overlap' => \A q, r \in Busy' : q = r
    BY <1>1, <1>5 DEF WritersInTurn
  <2> QED BY <2>1, <2>2, <2>3, <2>4, <2>5 DEF WritersInTurn
<1>9. ~overlap => Busy' = {}
  BY <1>1, <1>5 DEF WritersInTurn
<1>10. AloneIsExact'
  BY <1>9 DEF AloneIsExact
<1>11. SnapshotInFiles'
  <2> SUFFICES ASSUME up', ~overlap'
               PROVE  InFiles(conf)' /\ \A q \in Procs : pc'[q] # "apply"
    BY DEF SnapshotInFiles
  <2>1. \A q \in Procs : pc[q] # "apply" /\ pc'[q] # "apply"
    BY <1>1, <1>2, <1>5 DEF WritersInTurn, Busy
  <2>2. InFiles(conf)
    BY <1>2, <2>1 DEF ConfigInv, SnapshotInFiles
  <2> QED BY <2>1, <2>2 DEF InFiles, LeftToFiles
<1>12. NeverOpenByAccident'
  <2>1. up' /\ pc'[Main] = "idle" => up /\ pc[Main] = "idle"
    BY <1>2, <1>6
  <2> QED BY <2>1, SameOperator DEF ConfigInv, NeverOpenByAccident, Serving, Authorized
<1>13. SiteMatchesBase'
  BY <1>1, <1>3, <1>4, SiteMatchesNext
<1> QED BY <1>3, <1>4, <1>8, <1>10, <1>11, <1>12, <1>13 DEF ConfigInv

-----------------------------------------------------------------------------
(* The steps of a writer.                                                  *)

(* A text in place of the file that updates write: only with one that is  *)
(* alone it has to be a version.                                           *)
LEMMA FileWritten ==
    ASSUME TypeOK, FilesAreVersions, FlagsAreOperators, NEW c \in Content,
           FlagIsOperators(c), ~overlap /\ ~before => Version(c),
           file' = [file EXCEPT ![Target] = c], UNCHANGED <<given, first, overlap, before>>,
           FlagIsOperators(tmp'), \A p \in Procs : FlagIsOperators(text'[p])
    PROVE  /\ FilesAreVersions' /\ FlagsAreOperators'
           /\ file' \in FileSets /\ Target' = Target
<1>1. file \in FileSets /\ Target \in Places /\ c # NoFile
  BY TypesOfFiles, ContentIs
<1>2. \A i \in Places : file'[i] = IF i = Target THEN c ELSE file[i]
  BY <1>1 DEF FileSets
<1>3. Target' = Target
  BY <1>1, ResolveStable DEF Target
<1>4. file' \in FileSets
  BY <1>1 DEF FileSets
<1>5. Target = Resolve(given, first) /\ Resolve(given', first') = Resolve(given, first)
  BY DEF FilesAreVersions
<1>6. file'[Target'] = c
  BY <1>1, <1>2, <1>3
<1>7. Version(c)' <=> Version(c)
  BY SameOperator
<1>8. (~overlap /\ ~before => Version(file[Target]))'
  BY <1>6, <1>7 DEF Version
<1>9. \A i \in Places : i # Target' => file'[i] = first'[i]
  BY <1>2, <1>3 DEF FilesAreVersions
<1>10. FilesAreVersions'
  BY <1>1, <1>3, <1>5, <1>6, <1>8, <1>9 DEF FilesAreVersions
<1>11. \A d : FlagIsOperators(d)' <=> FlagIsOperators(d)
  BY SameOperator
<1>12. \A i \in Places : FlagIsOperators(file'[i])
  BY <1>2 DEF FlagsAreOperators
<1>13. FlagsAreOperators'
  <2>1. (\A i \in Places : FlagIsOperators(file[i]))'
    BY <1>12 DEF FlagIsOperators, OperatorSaid
  <2>2. FlagIsOperators(tmp)' /\ (\A p \in Procs : FlagIsOperators(text[p]))'
    BY DEF FlagIsOperators, OperatorSaid
  <2> QED BY <2>1, <2>2 DEF FlagsAreOperators
<1> QED BY <1>3, <1>4, <1>10, <1>13

LEMMA OpenPreserves ==
    ASSUME ConfigInv, NEW p \in Procs, Open(p)
    PROVE  ConfigInv'
<1>1. TypeOK /\ FilesAreVersions /\ FlagsAreOperators /\ SiteMatchesBase
      /\ WritersInTurn /\ AloneIsExact
  BY DEF ConfigInv
<1>2. /\ \A q \in Procs : pc'[q] = IF q = p THEN "write" ELSE pc[q]
      /\ \A q \in Procs : fd'[q] = IF q = p THEN "tmp" ELSE fd[q]
      /\ pc[p] = "open" /\ tmp' = EmptyFile
      /\ UNCHANGED <<given, file, conf, up, values, text, used, first, overlap, before,
                     updates, failures, starts>>
  BY <1>1 DEF Open, Goto, TypeOK, bounds
<1>3. TypeOK'
  <2>1. /\ pc' \in [Procs -> {"idle", "open", "write", "rename", "apply"}]
        /\ fd' \in [Procs -> {"none", "tmp", "env", "gone"}]
    BY <1>1 DEF Open, Goto, TypeOK
  <2> QED BY <1>1, <1>2, <2>1, LinesIs DEF TypeOK
<1>4. FilesAreVersions' /\ FlagsAreOperators'
  <2>1. FlagIsOperators(tmp') /\ \A q \in Procs : FlagIsOperators(text'[q])
    BY <1>1, <1>2, FlagOfNone DEF FlagsAreOperators
  <2> QED BY <1>1, <1>2, <2>1, SameVersions, SameFlags
<1>5. Busy' = Busy /\ p \in Busy /\ Main \in Procs
  BY <1>2 DEF Busy, Procs
<1>6. WritersInTurn'
  <2>1. \A q \in Procs : fd'[q] # "none" <=> pc'[q] = "write"
    BY <1>1, <1>2 DEF WritersInTurn
  <2>2. pc'[Main] # "idle" => pc[Main] # "idle"
    BY <1>2, <1>5
  <2> QED BY <1>1, <1>2, <1>5, <2>1, <2>2 DEF WritersInTurn
<1>7. ~overlap => Busy = {p}
  BY <1>1, <1>5 DEF WritersInTurn
<1>8. AloneIsExact'
  <2>1. ~overlap => text[p] = Edited(file[Target], values[p])
    BY <1>1, <1>2, <1>5 DEF AloneIsExact, Writing
  <2>2. pc'[p] = "write" /\ fd'[p] = "tmp" /\ tmp' = EmptyFile
    BY <1>2
  <2> QED BY <1>2, <1>5, <1>7, <2>1, <2>2 DEF AloneIsExact, Writing, Target
<1>9. SnapshotInFiles'
  <2> SUFFICES ASSUME up', ~overlap'
               PROVE  InFiles(conf)' /\ \A q \in Procs : pc'[q] # "apply"
    BY DEF SnapshotInFiles
  <2>1. \A q \in Procs : pc[q] # "apply" /\ pc'[q] # "apply"
    BY <1>2, <1>7 DEF Busy
  <2>2. InFiles(conf)
    BY <1>2, <2>1 DEF ConfigInv, SnapshotInFiles
  <2> QED BY <1>2, <2>1, <2>2 DEF InFiles, LeftToFiles
<1>10. NeverOpenByAccident'
  <2>1. pc'[Main] = "idle" => pc[Main] = "idle"
    BY <1>2, <1>5
  <2> QED BY <1>2, <2>1, SameOperator
          DEF ConfigInv, NeverOpenByAccident, Serving, Authorized
<1>11. SiteMatchesBase'
  BY <1>1, <1>2, <1>3, <1>4, SiteMatchesNext
<1> QED BY <1>3, <1>4, <1>6, <1>8, <1>9, <1>10, <1>11 DEF ConfigInv

LEMMA WritePreserves ==
    ASSUME ConfigInv, NEW p \in Procs, Write(p)
    PROVE  ConfigInv'
<1>1. /\ TypeOK /\ FilesAreVersions /\ FlagsAreOperators /\ SiteMatchesBase
      /\ WritersInTurn /\ AloneIsExact
  BY DEF ConfigInv
<1> DEFINE onTmp == Overlay(text[p], tmp)
           onFile == Overlay(text[p], file[Target])
<1>2. /\ \A q \in Procs : pc'[q] = IF q = p THEN "rename" ELSE pc[q]
      /\ \A q \in Procs : fd'[q] = IF q = p THEN "none" ELSE fd[q]
      /\ pc[p] = "write"
      /\ tmp' = IF fd[p] = "tmp" THEN onTmp ELSE tmp
      /\ file' = IF fd[p] = "env" THEN [file EXCEPT ![Target] = onFile] ELSE file
      /\ UNCHANGED <<given, conf, up, values, text, used, first, overlap, before,
                     updates, failures, starts>>
  BY <1>1 DEF Write, Goto, TypeOK, bounds
<1>3. /\ text[p] \in Content /\ tmp \in Content \cup {NoFile}
      /\ file[Target] \in Content \cup {NoFile} /\ Target \in Places
  BY <1>1, TypesOfFiles DEF TypeOK
<1>4. /\ onTmp \in Content /\ onFile \in Content
      /\ tmp = EmptyFile => onTmp = text[p]
      /\ FlagIsOperators(onTmp) /\ FlagIsOperators(onFile)
  BY <1>1, <1>3, OverlayIs, FlagOfOverlay DEF FlagsAreOperators
<1> HIDE DEF onTmp, onFile
<1>4a. p \in Busy
  BY <1>2 DEF Busy
<1>4b. ~overlap => fd[p] = "tmp" /\ tmp = EmptyFile
  BY <1>1, <1>2, <1>4a DEF AloneIsExact
<1>5. FilesAreVersions' /\ FlagsAreOperators' /\ file' \in FileSets
  <2>1. FlagIsOperators(tmp') /\ \A q \in Procs : FlagIsOperators(text'[q])
    BY <1>1, <1>2, <1>4 DEF FlagsAreOperators
  <2>2. CASE fd[p] = "env"
    <3>1. overlap
      BY <1>4b, <2>2
    <3> QED BY <1>1, <1>2, <1>4, <2>1, <2>2, <3>1, FileWritten
  <2>3. CASE fd[p] # "env"
    BY <1>1, <1>2, <2>1, <2>3, SameVersions, SameFlags, TypesOfFiles
  <2> QED BY <2>2, <2>3
<1>6. TypeOK'
  <2>1. /\ pc' \in [Procs -> {"idle", "open", "write", "rename", "apply"}]
        /\ fd' \in [Procs -> {"none", "tmp", "env", "gone"}]
    BY <1>1 DEF Write, Goto, TypeOK
  <2>2. tmp' \in Content \cup {NoFile}
    BY <1>2, <1>3, <1>4
  <2> QED BY <1>1, <1>2, <1>5, <2>1, <2>2 DEF TypeOK, FileSets
<1>7. Busy' = Busy /\ p \in Busy /\ Main \in Procs
  BY <1>2 DEF Busy, Procs
<1>8. WritersInTurn'
  <2>1. \A q \in Procs : fd'[q] # "none" <=> pc'[q] = "write"
    BY <1>1, <1>2 DEF WritersInTurn
  <2>2. pc'[Main] # "idle" => pc[Main] # "idle"
    BY <1>2, <1>7
  <2> QED BY <1>1, <1>2, <1>7, <2>1, <2>2 DEF WritersInTurn
<1>9. ~overlap => Busy = {p}
  BY <1>1, <1>7 DEF WritersInTurn
<1>10. ~overlap => /\ text[p] = Edited(file[Target], values[p])
                   /\ fd[p] = "tmp" /\ file' = file /\ tmp' = text[p]
  BY <1>1, <1>2, <1>4, <1>7, <1>4b DEF AloneIsExact, Writing
<1>11. AloneIsExact'
  <2>1. pc'[p] = "rename"
    BY <1>2
  <2> QED BY <1>2, <1>7, <1>9, <1>10, <2>1 DEF AloneIsExact, Writing, Target
<1>12. SnapshotInFiles'
  <2> SUFFICES ASSUME up', ~overlap'
               PROVE  InFiles(conf)' /\ \A q \in Procs : pc'[q] # "apply"
    BY DEF SnapshotInFiles
  <2>1. \A q \in Procs : pc[q] # "apply" /\ pc'[q] # "apply"
    BY <1>2, <1>9 DEF Busy
  <2>2. InFiles(conf)
    BY <1>2, <2>1 DEF ConfigInv, SnapshotInFiles
  <2> QED BY <1>2, <1>10, <2>1, <2>2 DEF InFiles, LeftToFiles
<1>13. NeverOpenByAccident'
  <2>1. pc'[Main] = "idle" => pc[Main] = "idle"
    BY <1>2, <1>7
  <2> QED BY <1>2, <2>1, SameOperator
          DEF ConfigInv, NeverOpenByAccident, Serving, Authorized
<1>14. SiteMatchesBase'
  BY <1>1, <1>2, <1>5, <1>6, SiteMatchesNext
<1> QED BY <1>5, <1>6, <1>8, <1>11, <1>12, <1>13, <1>14 DEF ConfigInv

LEMMA RenamePreserves ==
    ASSUME ConfigInv, NEW p \in Procs, Rename(p)
    PROVE  ConfigInv'
<1>1. TypeOK /\ FilesAreVersions /\ FlagsAreOperators /\ SiteMatchesBase
      /\ WritersInTurn /\ AloneIsExact
  BY DEF ConfigInv
<1>2. /\ \A q \in Procs : pc'[q] = IF q = p THEN "apply" ELSE pc[q]
      /\ pc[p] = "rename" /\ tmp # NoFile /\ tmp' = NoFile
      /\ file' = [file EXCEPT ![Target] = tmp]
      /\ UNCHANGED <<given, conf, up, values, text, used, first, overlap, before,
                     updates, failures, starts>>
  BY <1>1 DEF Rename, Goto, TypeOK, bounds
<1>3. /\ fd' \in [Procs -> {"none", "tmp", "env", "gone"}]
      /\ \A q \in Procs : fd'[q] # "none" <=> fd[q] # "none"
  <2>1. fd \in [Procs -> {"none", "tmp", "env", "gone"}]
    BY <1>1 DEF TypeOK
  <2>2. fd' = [q \in Procs |-> CASE fd[q] = "tmp" -> "env"
                                 [] fd[q] = "env" -> "gone"
                                 [] OTHER -> fd[q]]
    BY DEF Rename
  <2> QED BY <2>1, <2>2
<1>4. /\ tmp \in Content /\ FlagIsOperators(tmp) /\ FlagIsOperators(tmp')
      /\ \A q \in Procs : FlagIsOperators(text'[q])
  BY <1>1, <1>2, FlagOfNone DEF TypeOK, FlagsAreOperators
<1>4a. ~overlap /\ ~before => Version(tmp)
  <2> SUFFICES ASSUME ~overlap, ~before PROVE Version(tmp)
    OBVIOUS
  <2>1. p \in Busy
    BY <1>2 DEF Busy
  <2>2. tmp = Edited(file[Target], values[p]) /\ IsUpdate(values[p])
    BY <1>1, <1>2, <2>1 DEF AloneIsExact, Writing, WritersInTurn, IsUpdate
  <2>3. Version(file[Target]) /\ file[Target] \in Content \cup {NoFile}
    BY <1>1, TypesOfFiles DEF FilesAreVersions
  <2> QED BY <2>2, <2>3, EditedIsVersion
<1>5. /\ FilesAreVersions' /\ FlagsAreOperators'
      /\ file' \in FileSets /\ Target' = Target
  BY <1>1, <1>2, <1>4, <1>4a, FileWritten
<1>6. TypeOK'
  <2>1. pc' \in [Procs -> {"idle", "open", "write", "rename", "apply"}]
    BY <1>1 DEF Rename, Goto, TypeOK
  <2> QED BY <1>1, <1>2, <1>3, <1>5, <2>1 DEF TypeOK, FileSets
<1>7. Busy' = Busy /\ p \in Busy /\ Main \in Procs
  BY <1>2 DEF Busy, Procs
<1>8. WritersInTurn'
  <2>1. \A q \in Procs : fd'[q] # "none" <=> pc'[q] = "write"
    BY <1>1, <1>2, <1>3 DEF WritersInTurn
  <2>2. pc'[Main] # "idle" => pc[Main] # "idle"
    BY <1>2, <1>7
  <2> QED BY <1>1, <1>2, <1>7, <2>1, <2>2 DEF WritersInTurn
<1>9. ~overlap => Busy = {p}
  BY <1>1, <1>7 DEF WritersInTurn
<1>10. ~overlap => tmp = Edited(file[Target], values[p])
  BY <1>1, <1>2, <1>7 DEF AloneIsExact, Writing
<1>11. AloneIsExact'
  <2>1. pc'[p] = "apply"
    BY <1>2
  <2> QED BY <1>2, <1>7, <1>9, <2>1 DEF AloneIsExact, Writing
<1>12. SnapshotInFiles'
  <2> SUFFICES ASSUME up', ~overlap'
               PROVE  \A q \in Procs : pc'[q] = "apply" => InFiles(Applied(conf, values[q]))'
    BY <1>2 DEF SnapshotInFiles
  <2>1. \A q \in Procs : pc[q] # "apply" /\ (pc'[q] = "apply" => q = p)
    BY <1>2, <1>9 DEF Busy
  <2>2. InFiles(conf)
    BY <1>2, <2>1 DEF ConfigInv, SnapshotInFiles
  <2>3. IsUpdate(values[p])
    BY <1>1, <1>7 DEF WritersInTurn, IsUpdate
  <2>4. InFilesOf(given, file', Applied(conf, values[p]))
    <3>1. InFilesOf(given, file, conf)
      BY <2>2, InFilesIs
    <3>2. /\ given \in Contexts
          /\ file \in FileSets /\ conf \in Snapshots
      BY <1>1, TypesOfFiles
    <3>3. file' = [file EXCEPT ![Resolve(given, file)]
                       = Edited(file[Resolve(given, file)], values[p])]
      BY <1>2, <1>10 DEF Target
    <3> QED BY <2>3, <3>1, <3>2, <3>3, AppliedIsInFiles
  <2>5. InFiles(Applied(conf, values[p]))'
    BY <1>2, <2>4 DEF InFiles, InFilesOf, LeftToFiles, Leaves
  <2> QED BY <2>1, <2>5
<1>13. NeverOpenByAccident'
  <2>1. pc'[Main] = "idle" => pc[Main] = "idle"
    BY <1>2, <1>7
  <2> QED BY <1>2, <2>1, SameOperator
          DEF ConfigInv, NeverOpenByAccident, Serving, Authorized
<1>14. SiteMatchesBase'
  BY <1>1, <1>2, <1>5, <1>6, SiteMatchesNext
<1> QED BY <1>5, <1>6, <1>8, <1>11, <1>12, <1>13, <1>14 DEF ConfigInv

LEMMA ApplyPreserves ==
    ASSUME ConfigInv, NEW p \in Procs, Apply(p)
    PROVE  ConfigInv'
<1>1. TypeOK /\ FilesAreVersions /\ FlagsAreOperators /\ SiteMatchesBase
      /\ WritersInTurn /\ AloneIsExact
  BY DEF ConfigInv
<1>2. /\ \A q \in Procs : pc'[q] = IF q = p THEN "idle" ELSE pc[q]
      /\ \A q \in Procs : values'[q] = IF q = p THEN EmptyFile ELSE values[q]
      /\ \A q \in Procs : text'[q] = IF q = p THEN EmptyFile ELSE text[q]
      /\ pc[p] = "apply" /\ conf' = Applied(conf, values[p])
      /\ UNCHANGED <<given, file, tmp, up, fd, used, first, overlap, before,
                     updates, failures, starts>>
  BY <1>1 DEF Apply, Goto, TypeOK, bounds
<1>3. IsUpdate(values[p]) /\ conf \in Snapshots
  BY <1>1, <1>2, TypesOfFiles DEF WritersInTurn, Busy, IsUpdate
<1>4. TypeOK'
  <2>1. /\ pc' \in [Procs -> {"idle", "open", "write", "rename", "apply"}]
        /\ values' \in [Procs -> {EmptyFile} \cup {KeyValues(k) : k \in ApiKeys}
                                             \cup {SiteValues(s) : s \in Regions}]
        /\ text' \in [Procs -> Content]
    BY <1>1, LinesIs DEF Apply, Goto, TypeOK
  <2>2. conf' \in Snapshots
    BY <1>2, <1>3, AppliedIsSnapshot
  <2> QED BY <1>1, <1>2, <2>1, <2>2 DEF TypeOK, Snapshots
<1>5. FilesAreVersions' /\ FlagsAreOperators'
  <2>1. FlagIsOperators(tmp') /\ \A q \in Procs : FlagIsOperators(text'[q])
    BY <1>1, <1>2, FlagOfNone DEF FlagsAreOperators
  <2> QED BY <1>1, <1>2, <2>1, SameVersions, SameFlags
<1>6. Busy' = Busy \ {p} /\ p \in Busy /\ Main \in Procs
  BY <1>2 DEF Busy, Procs
<1>7. pc'[Main] = "idle" /\ (p # Main => pc[Main] = "idle")
  BY <1>1, <1>2, <1>6 DEF WritersInTurn
<1>8. WritersInTurn'
  <2>1. \A q \in Busy' : \/ \E k \in ApiKeys : values'[q] = KeyValues(k)
                         \/ \E s \in Regions : values'[q] = SiteValues(s)
    BY <1>1, <1>2, <1>6 DEF WritersInTurn, Busy
  <2>2. \A q \in Procs : fd'[q] # "none" <=> pc'[q] = "write"
    BY <1>1, <1>2 DEF WritersInTurn
  <2>3. /\ ~overlap' => \A q, r \in Busy' : q = r
        /\ ~up' => Busy' = {}
    BY <1>1, <1>2, <1>6 DEF WritersInTurn
  <2> QED BY <1>7, <2>1, <2>2, <2>3 DEF WritersInTurn
<1>9. ~overlap => Busy' = {}
  BY <1>1, <1>6 DEF WritersInTurn
<1>10. AloneIsExact'
  BY <1>2, <1>9 DEF AloneIsExact
<1>11. SnapshotInFiles'
  <2> SUFFICES ASSUME up', ~overlap'
               PROVE  InFiles(conf)' /\ \A q \in Procs : pc'[q] # "apply"
    BY DEF SnapshotInFiles
  <2>1. \A q \in Procs : pc'[q] # "apply"
    BY <1>2, <1>9 DEF Busy
  <2>2. InFiles(Applied(conf, values[p]))
    BY <1>2 DEF ConfigInv, SnapshotInFiles
  <2> QED BY <1>2, <2>1, <2>2 DEF InFiles, LeftToFiles
<1>12. CASE \E k \in ApiKeys : values[p] = KeyValues(k)
  <2>1. PICK k \in ApiKeys : values[p] = KeyValues(k)
    BY <1>12
  <2>2. /\ conf'.apiKey = k /\ conf'.require = TRUE /\ k # ""
        /\ conf'.site = conf.site /\ conf'.base = conf.base
    <3>1. conf' = Applied(conf, KeyValues(k)) /\ conf \in Snapshots
      BY <1>2, <1>3, <2>1
    <3> QED BY <3>1, KeyUpdate, KeyApplied
  <2>3. NeverOpenByAccident'
    BY <2>2 DEF NeverOpenByAccident, Authorized
  <2>4. SiteMatchesBase'
    BY <1>1, <1>2, <1>4, <1>5, <2>2, SiteMatchesNext
  <2> QED BY <1>4, <1>5, <1>8, <1>10, <1>11, <2>3, <2>4 DEF ConfigInv
<1>13. CASE \E s \in Regions : values[p] = SiteValues(s)
  <2>1. PICK s \in Regions : values[p] = SiteValues(s)
    BY <1>13
  <2>2. /\ conf'.apiKey = conf.apiKey /\ conf'.require = conf.require
        /\ conf'.site = s /\ conf'.base = Portal(s)
    <3>1. conf' = Applied(conf, SiteValues(s)) /\ conf \in Snapshots
      BY <1>2, <1>3, <2>1
    <3> QED BY <3>1, SiteApplied
  <2>3. p # Main
    <3>1. ASSUME p = Main PROVE FALSE
      <4>1. PICK k \in ApiKeys : values[p] = KeyValues(k)
        BY <1>1, <1>2, <3>1 DEF WritersInTurn
      <4>2. DOMAIN values[p] = {"API_KEY", "REQUIRE"}
        BY <4>1, KeyUpdate
      <4>3. DOMAIN values[p] = SiteNames
        BY <2>1, SiteUpdate
      <4> QED BY <4>2, <4>3 DEF SiteNames
    <3> QED BY <3>1
  <2>4. NeverOpenByAccident'
    BY <1>2, <1>7, <2>2, <2>3, SameOperator
       DEF ConfigInv, NeverOpenByAccident, Serving, Authorized
  <2>5. Coherent(conf')
    BY <2>2, PortalCoherent
  <2>6. SiteMatchesBase'
    BY <1>1, <1>2, <1>4, <1>5, <2>5, SiteMatchesNext
  <2> QED BY <1>4, <1>5, <1>8, <1>10, <1>11, <2>4, <2>6 DEF ConfigInv
<1> QED BY <1>3, <1>12, <1>13 DEF IsUpdate

-----------------------------------------------------------------------------
(* The theorems.                                                           *)

LEMMA StepPreserves ==
    ASSUME ConfigInv, [Next]_vars
    PROVE  ConfigInv'
<1>1. CASE Start
  BY <1>1, StartPreserves
<1>2. CASE Kill
  BY <1>2, KillPreserves
<1>3. ASSUME NEW p \in Admins, GenerateKey(p)
      PROVE  ConfigInv'
  BY <1>3, GenerateKeyPreserves
<1>4. ASSUME NEW p \in Admins, NEW s \in Regions, SetPoolSite(p, s)
      PROVE  ConfigInv'
  BY <1>4, SetPoolSitePreserves
<1>5. ASSUME NEW p \in Procs, WriteFails(p)
      PROVE  ConfigInv'
  <2>1. failures' \in 0..MaxFailures
    <3>1. failures \in 0..MaxFailures /\ failures < MaxFailures /\ failures' = failures + 1
      BY <1>5 DEF WriteFails, ConfigInv, TypeOK
    <3> QED BY <3>1, BoundsAreNat
  <2> QED BY <1>5, <2>1, RefusedPreserves DEF WriteFails
<1>6. ASSUME NEW p \in Procs, RenameFails(p)
      PROVE  ConfigInv'
  <2>1. failures' \in 0..MaxFailures
    BY <1>6 DEF RenameFails, bounds, ConfigInv, TypeOK
  <2> QED BY <1>6, <2>1, RefusedPreserves DEF RenameFails, bounds
<1>7. ASSUME NEW p \in Procs, Open(p) \/ Write(p) \/ Rename(p) \/ Apply(p)
      PROVE  ConfigInv'
  BY <1>7, OpenPreserves, WritePreserves, RenamePreserves, ApplyPreserves
<1>8. CASE UNCHANGED vars
  <2>1. UNCHANGED <<given, file, tmp, conf, up, pc, values, text, fd, used, first, overlap,
                    before, updates, failures, starts>>
    BY <1>8 DEF vars
  <2>2. TypeOK'
    BY <2>1 DEF ConfigInv, TypeOK
  <2>3. FilesAreVersions' /\ FlagsAreOperators'
    BY <2>1, SameVersions, SameFlags DEF ConfigInv, FlagsAreOperators
  <2>4. Busy' = Busy
    BY <2>1 DEF Busy
  <2>5. WritersInTurn' /\ AloneIsExact'
    BY <2>1, <2>4 DEF ConfigInv, WritersInTurn, AloneIsExact, Writing, Target
  <2>6. SnapshotInFiles'
    BY <2>1 DEF ConfigInv, SnapshotInFiles, InFiles, LeftToFiles
  <2>7. NeverOpenByAccident'
    BY <2>1, SameOperator DEF ConfigInv, NeverOpenByAccident, Serving, Authorized
  <2>8. SiteMatchesBase'
    BY <2>1, <2>2, <2>3, SiteMatchesNext DEF ConfigInv
  <2> QED BY <2>2, <2>3, <2>5, <2>6, <2>7, <2>8 DEF ConfigInv
<1> QED BY <1>1, <1>2, <1>3, <1>4, <1>5, <1>6, <1>7, <1>8 DEF Next, UpsertStep

(***************************************************************************)
(* Until updates overlap nothing but versions of what the operator wrote   *)
(* stands in the file that is read first, which is the one that is         *)
(* written; whoever overlaps whom, no line that opens the API comes from   *)
(* an update; a writer that is alone leaves exactly its change; and what   *)
(* runs is what the files say (dotenv.go:142-232, service.go:141).         *)
(***************************************************************************)
THEOREM ConfigInvariant == Spec => []ConfigInv
<1>1. Init => ConfigInv
  BY InitConfigInv
<1>2. ConfigInv /\ [Next]_vars => ConfigInv'
  BY StepPreserves
<1> QED BY <1>1, <1>2, PTL DEF Spec

(***************************************************************************)
(* What UpsertEnvFile wrote and updateConfig applied is what Load finds    *)
(* after the next start, older names included, as far as the environment   *)
(* leaves it to the files, unless two updates overlapped; where the new    *)
(* name of ENV is left empty the older one decides (dotenv.go:142,         *)
(* config.go:51-82, service.go:141).                                       *)
(***************************************************************************)
THEOREM ConfigSurvivesRestart == Spec => []RestartKeepsConfig
<1>1. ConfigInv => RestartKeepsConfig
  <2> SUFFICES ASSUME ConfigInv, up, Busy = {}, ~overlap
               PROVE  InFiles(conf)
    BY DEF RestartKeepsConfig
  <2>1. \A p \in Procs : pc[p] # "apply"
    BY DEF Busy
  <2> QED BY <2>1 DEF ConfigInv, SnapshotInFiles
<1> QED BY <1>1, ConfigInvariant, PTL

(***************************************************************************)
(* Whatever is killed or fails, a gateway that serves has a key, and asks  *)
(* for it unless the operator wrote that it need not; and where updates    *)
(* write over each other, from whatever byte, unless some line of his      *)
(* says so, void or not (main.go:23-41, config.go:76, dotenv.go:229,       *)
(* server.go:128).                                                         *)
(***************************************************************************)
THEOREM NeverOpen == Spec => []NeverOpenByAccident
<1>1. ConfigInv => NeverOpenByAccident
  BY DEF ConfigInv
<1> QED BY <1>1, ConfigInvariant, PTL

(***************************************************************************)
(* If the operator's region and base URL fit, they fit in what runs, also  *)
(* while updates overlap, and in what a restart would load until they do   *)
(* (service.go:519-541, config.go:77-78, dotenv.go:229).                   *)
(***************************************************************************)
THEOREM SiteStaysWithBase == Spec => []SiteMatchesBase
<1>1. ConfigInv => SiteMatchesBase
  BY DEF ConfigInv
<1> QED BY <1>1, ConfigInvariant, PTL

(* What is added behind, and what is renewed, of the lines of a text.      *)
LEMMA EditedKeeps ==
    ASSUME NEW f \in Content, NEW v, IsUpdate(v)
    PROVE  /\ Edited(f, v) # NoFile /\ Len(f) <= Len(Edited(f, v))
           /\ \A j \in 1..Len(f) :
                  \/ Edited(f, v)[j] = f[j]
                  \/ \E n \in Names : Sets(f[j], n, "new") /\ Sets(Edited(f, v)[j], n, "new")
<1>1. /\ Edited(f, v) \in Content /\ Len(f) <= Len(Edited(f, v))
      /\ \A j \in 1..Len(f) : Edited(f, v)[j] = Renewed(f[j], v) /\ f[j] \in Line
  BY EditedIs, ContentIs
<1>2. ASSUME NEW j \in 1..Len(f)
      PROVE  \/ Edited(f, v)[j] = f[j]
             \/ \E n \in Names : Sets(f[j], n, "new") /\ Sets(Edited(f, v)[j], n, "new")
  <2>1. CASE Renewed(f[j], v) = f[j]
    BY <1>1, <2>1
  <2>2. CASE Sets(f[j], f[j].name, "new") /\ f[j].name \in DOMAIN v
    <3>1. f[j].name \in Names /\ "new" \in Ages
      BY <2>2, UpdateIsHeld DEF Ages
    <3>2. Sets(Renewed(f[j], v), f[j].name, "new")
      BY <1>1, <2>2, <3>1, RenewedIs
    <3> QED BY <1>1, <2>2, <3>1, <3>2
  <2> QED BY <1>1, <2>1, <2>2, RenewedIs
<1> QED BY <1>1, <1>2, ContentIs

(* What LinesAreKept says of one file. *)
Keeps(i) ==
    file[i] # NoFile =>
        /\ file'[i] # NoFile /\ Len(file[i]) <= Len(file'[i])
        /\ \A j \in 1..Len(file[i]) :
               \/ file'[i][j] = file[i][j]
               \/ \E n \in Names : Sets(file[i][j], n, "new") /\ Sets(file'[i][j], n, "new")

LEMMA StepKeepsLines ==
    ASSUME ConfigInv, [Next]_vars, ~overlap', NEW i \in Places
    PROVE  Keeps(i)
<1>1. TypeOK /\ WritersInTurn /\ AloneIsExact
  BY DEF ConfigInv
<1>2. CASE UNCHANGED file
  <2>1. file[i] # NoFile => Len(file[i]) \in Nat
    BY <1>1, TypesOfFiles, ContentIs
  <2> QED BY <1>2, <2>1 DEF Keeps
<1>3. ASSUME NEW p \in Procs, Write(p)
      PROVE  UNCHANGED file
  <2>1. p \in Busy /\ ~overlap /\ pc[p] = "write"
    BY <1>3 DEF Write, Busy
  <2>2. fd[p] = "tmp"
    BY <1>1, <2>1 DEF AloneIsExact
  <2> QED BY <1>3, <2>2 DEF Write
<1>4. ASSUME NEW p \in Procs, Rename(p)
      PROVE  Keeps(i)
  <2>1. p \in Busy /\ ~overlap /\ pc[p] = "rename"
    BY <1>4 DEF Rename, Busy
  <2>2. tmp = Edited(file[Target], values[p]) /\ IsUpdate(values[p])
    BY <1>1, <2>1 DEF AloneIsExact, Writing, WritersInTurn, IsUpdate
  <2>3. file \in FileSets /\ file' = [file EXCEPT ![Target] = tmp]
    BY <1>1, <1>4, TypesOfFiles DEF Rename
  <2>4. CASE i = Target
    <3>1. file'[i] = Edited(file[i], values[p])
      BY <2>2, <2>3, <2>4 DEF FileSets
    <3>2. file[i] # NoFile => file[i] \in Content
      BY <1>1, TypesOfFiles
    <3> QED BY <2>2, <3>1, <3>2, EditedKeeps DEF Keeps
  <2>5. CASE i # Target
    <3>1. UNCHANGED file[i]
      BY <2>3, <2>5 DEF FileSets
    <3>2. file[i] # NoFile => Len(file[i]) \in Nat
      BY <1>1, TypesOfFiles, ContentIs
    <3> QED BY <3>1, <3>2 DEF Keeps
  <2> QED BY <2>4, <2>5
<1>5. \/ UNCHANGED file
      \/ \E p \in Procs : Write(p) \/ Rename(p)
  BY DEF Next, UpsertStep, Start, Kill, GenerateKey, SetPoolSite, Open, WriteFails,
         RenameFails, Apply, vars
<1> QED BY <1>2, <1>3, <1>4, <1>5

(***************************************************************************)
(* No step takes a line out of a .env file, or changes one but for the     *)
(* value an update sets, unless updates overlap: not a kill between        *)
(* truncation and rename, not a write that fails (dotenv.go:228-232).      *)
(***************************************************************************)
THEOREM LinesAreKept == Spec => EnvKeepsLines
<1>1. ConfigInv /\ [Next]_vars =>
          [~overlap' => \A i \in Places : file[i] # NoFile =>
              /\ file'[i] # NoFile /\ Len(file[i]) <= Len(file'[i])
              /\ \A j \in 1..Len(file[i]) :
                     \/ file'[i][j] = file[i][j]
                     \/ \E n \in Names : Sets(file[i][j], n, "new")
                                         /\ Sets(file'[i][j], n, "new")]_vars
  BY StepKeepsLines DEF Keeps
<1> QED BY <1>1, ConfigInvariant, PTL DEF Spec, EnvKeepsLines

(* The region that NormalizeAccount writes into an account decides alone.  *)
LEMMA AccountIs ==
    ASSUME NEW a \in PoolAccounts
    PROVE  /\ a.site \in Regions /\ a.base # "" /\ a.endpoint \in Hosts \cup {""}
           /\ a.env = IF a.site = "domestic" THEN "domestic" ELSE "public"
<1>1. PICK b \in [site : Regions, base : Hosts \cup {""}, env : {""},
                  endpoint : Hosts \cup {""}] : a = NormalizeAccount(b)
  BY DEF PoolAccounts
<1>2. /\ a.site = NormalizeSite(b.site) /\ a.endpoint = b.endpoint
      /\ a.base = FirstSet(b.base, Portal(a.site))
      /\ a.env = FirstSet(b.env, IF a.site = "domestic" THEN "domestic" ELSE "public")
  BY <1>1 DEF NormalizeAccount
<1>3. a.site \in Regions /\ Portal(a.site) # ""
  BY <1>2 DEF NormalizeSite, Regions, Portal, PortalCN, PortalAI
<1> QED BY <1>1, <1>2, <1>3 DEF FirstSet

LEMMA DomesticHosts ==
    /\ DomesticHost(Copilot) /\ ~DomesticHost(PortalAI) /\ ~DomesticHost("")
    /\ \A h : IsDomestic("", "", h) <=> DomesticHost(h)
BY DEF DomesticHost, IsDomestic, NormalizeSite, Copilot, PortalCN, PortalAI

(* Requests of an account stay in its region, whatever configuration runs. *)
LEMMA RoutedWhatever ==
    ASSUME NEW a \in PoolAccounts, NEW c
    PROVE  LET o == ChatOptions(a, c)
           IN  /\ DomesticHost(ProtocolDirectEndpoint(o)) = (a.site = "domestic")
               /\ DomesticHost(ProtocolDirectDomain(o)) = (a.site = "domestic")
<1> DEFINE o == ChatOptions(a, c)
<1>1. /\ a.site \in Regions /\ a.base # ""
      /\ a.env = IF a.site = "domestic" THEN "domestic" ELSE "public"
  BY AccountIs
<1>2. NormalizeSite(a.site) = a.site /\ a.site # "" /\ a.env # ""
  BY <1>1 DEF Regions, NormalizeSite
<1>3. o.site = a.site /\ o.env = a.env /\ o.base = a.base /\ o.endpoint = a.endpoint
  BY <1>1, <1>2 DEF ChatOptions, FirstSet
<1> HIDE DEF o
<1>4. IsDomestic(o.site, o.env, "") <=> a.site = "domestic"
  BY <1>1, <1>2, <1>3, DomesticHosts DEF IsDomestic, Regions
<1>5. RegionOf(o) = a.site
  BY <1>1, <1>2, <1>3, <1>4 DEF RegionOf, Regions
<1>6. DomesticHost(ProtocolDirectBase(o)) <=> a.site = "domestic"
  BY <1>5, DomesticHosts DEF ProtocolDirectBase
<1>7. EndpointMatchesRegion(o.endpoint, RegionOf(o)) =>
          (DomesticHost(o.endpoint) <=> a.site = "domestic")
  BY <1>5 DEF EndpointMatchesRegion
<1>8. DomesticHost(ProtocolDirectEndpoint(o)) <=> a.site = "domestic"
  BY <1>6, <1>7 DEF ProtocolDirectEndpoint
<1> QED BY <1>8 DEF ProtocolDirectDomain, DomesticHost, o

(***************************************************************************)
(* Every account's chat goes to a host of the account's own region, for    *)
(* every configuration that can run (service.go:206, client.go:192-247).   *)
(***************************************************************************)
THEOREM Routed == Spec => []RoutedToRegion
<1>1. RoutedToRegion
  BY RoutedWhatever DEF RoutedToRegion
<1> QED BY <1>1, PTL
=============================================================================
