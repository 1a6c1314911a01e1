------------------------- MODULE ConfigurationProofs -------------------------
(***************************************************************************)
(* What the configuration pipeline makes of labels, for any labels; and what *)
(* it means that two services compare equal.                                *)
(***************************************************************************)
EXTENDS Configuration, FiniteSetTheorems, TLAPS

-----------------------------------------------------------------------------
(* Precedence *)

\* The first of two values that is set.
Or(a, b) == IF a = None THEN b ELSE a

\* The four groups of settings by where a value may come from do not overlap.
LEMMA Groups ==
    /\ DOMAIN ServiceDefaults = {"whois_enabled", "whois_timeout", "tls_mode"}
    /\ DOMAIN ServiceDefaults \subseteq OwnOnly
    /\ Inherited \cap OwnOnly = {}
    /\ "tags" \notin Inherited \cup OwnOnly
    /\ Headers \subseteq OwnOnly /\ "ephemeral" \in OwnOnly
    /\ "ephemeral" \notin DOMAIN ServiceDefaults \cup Headers \cup Texts
    /\ Headers \cap (DOMAIN ServiceDefaults \cup Texts) = {}
    /\ Texts \cap Settings = {"tls_mode", "listen_addr"}
BY DEF ServiceDefaults, OwnOnly, Inherited, Timeouts, Headers, Texts, Settings

LEMMA GlobalGroups ==
    /\ DOMAIN GlobalDefaults \subseteq GlobalSettings
    /\ DOMAIN GlobalDefaults \cap Settings \subseteq Inherited
    /\ Inherited \subseteq GlobalSettings
    /\ Inherited \cap (Texts \cup Headers) = {}
BY DEF GlobalDefaults, GlobalSettings, TransportTimeouts, Settings, OwnOnly, Inherited, Timeouts,
       Texts, Headers

\* A service, and what an assignment to its settings does to it.
Svc(name, addr, set) == [name |-> name, backend_addr |-> addr, set |-> set]

LEMMA Replaced ==
    ASSUME NEW n, NEW a, NEW s, NEW t
    PROVE  [Svc(n, a, s) EXCEPT !.set = t] = Svc(n, a, t) /\ Svc(n, a, s).set = s
BY DEF Svc

\* What SetDefaults and Normalize leave of a global setting.
LEMMA GlobalValue ==
    ASSUME NEW self, NEW key \in Inherited
    PROVE  SetGlobalDefaults(parseGlobalConfig(self)).set[key] =
               Or(Get(self.labels, key),
                  IF key \in DOMAIN GlobalDefaults THEN GlobalDefaults[key] ELSE None)
BY GlobalGroups DEF SetGlobalDefaults, parseGlobalConfig, Completed, Or

\* The value of a setting after parsing, SetDefaults and Normalize.
LEMMA Pipeline ==
    ASSUME NEW self, NEW c, NEW key \in Settings
    PROVE  LET own == parseServiceConfig(c).set[key]
               value == Processed(self, c).set[key]
           IN /\ key \in Inherited =>
                    value = Or(own, Or(Get(self.labels, key),
                                       IF key \in DOMAIN GlobalDefaults
                                          THEN GlobalDefaults[key] ELSE None))
              /\ key = "tags" => value = Or(own, Get(self.labels, "default_tags"))
              /\ key \in DOMAIN ServiceDefaults => value = Or(own, ServiceDefaults[key])
              /\ key \in OwnOnly \ DOMAIN ServiceDefaults => value = own
<1> DEFINE own == [k \in Settings |-> IF k = "ephemeral" THEN Get(c.labels, k) = TRUE
                                                        ELSE Get(c.labels, k)]
           parsed == Svc(parseServiceConfig(c).name, BackendAddr(c), own)
           svc == SetServiceDefaults(parsed)
           global == SetGlobalDefaults(parseGlobalConfig(self))
<1>0. parseServiceConfig(c) = parsed
  BY Zenon DEF parseServiceConfig, Svc
<1>a. DOMAIN own = Settings
  OBVIOUS
<1> HIDE DEF own
<1>1. svc = Svc(parseServiceConfig(c).name, BackendAddr(c), Completed(own, ServiceDefaults))
  BY Replaced DEF SetServiceDefaults
<1>2. global.default_tags = Get(self.labels, "default_tags")
  BY DEF SetGlobalDefaults, parseGlobalConfig
<1> DEFINE shared == [k \in Inherited |-> global.set[k]]
           tags == [k \in {"tags"} |-> global.default_tags]
           filled == Completed(svc.set, shared)
<1>3. Processed(self, c) = Svc(parseServiceConfig(c).name, BackendAddr(c), Completed(filled, tags))
  <2>1. Processed(self, c) = Normalize(svc, global)
    BY <1>0 DEF Processed
  <2> QED  BY <2>1, <1>1, Replaced DEF Normalize
<1>4. /\ svc.set[key] = IF own[key] = None /\ key \in DOMAIN ServiceDefaults
                        THEN ServiceDefaults[key] ELSE own[key]
      /\ DOMAIN filled = Settings
      /\ filled[key] = IF svc.set[key] = None /\ key \in Inherited
                       THEN global.set[key] ELSE svc.set[key]
      /\ Processed(self, c).set[key] = IF filled[key] = None /\ key = "tags"
                                       THEN global.default_tags ELSE filled[key]
  <2>1. svc.set = Completed(own, ServiceDefaults)
    BY <1>1 DEF Svc
  <2>2. Processed(self, c).set = Completed(filled, tags)
    BY <1>3 DEF Svc
  <2>3. DOMAIN svc.set = Settings /\ DOMAIN filled = Settings
    BY <2>1, <1>a DEF Completed
  <2>4. svc.set[key] = IF own[key] = None /\ key \in DOMAIN ServiceDefaults
                        THEN ServiceDefaults[key] ELSE own[key]
    BY <2>1, <1>a DEF Completed
  <2>5. filled[key] = IF svc.set[key] = None /\ key \in Inherited
                       THEN global.set[key] ELSE svc.set[key]
    BY <2>3 DEF Completed
  <2>6. Processed(self, c).set[key] = IF filled[key] = None /\ key = "tags"
                                       THEN global.default_tags ELSE filled[key]
    BY <2>2, <2>3 DEF Completed
  <2> QED  BY <2>3, <2>4, <2>5, <2>6
<1>b. parseServiceConfig(c).set = own
  BY <1>0 DEF Svc
<1> HIDE DEF parsed, svc, shared, tags, filled
<1>5. CASE key \in Inherited
  BY <1>4, <1>5, Groups, <1>b, GlobalValue DEF Or
<1>6. CASE key = "tags"
  BY <1>2, <1>4, <1>6, <1>b, Groups DEF Or
<1>7. CASE key \in OwnOnly
  BY <1>4, <1>7, <1>b, Groups DEF Or
<1> QED  BY <1>5, <1>6, <1>7 DEF Settings

\* The first of the sources that is set is what Promise asks for.
LEMMA FirstSet ==
    ASSUME NEW self, NEW c, NEW key, NEW value,
           LET from == Sources(self, c, key)
           IN value = Or(from[1], Or(from[2], Or(from[3], Or(from[4], Or(from[5], from[6])))))
    PROVE  Promise(self, c, key, value)
<1> DEFINE from == Sources(self, c, key)
           sets(i) == from[i] # None
<1>1. DOMAIN from = 1 .. 6
  BY DEF Sources
<1> HIDE DEF from
<1>2. SUFFICES \/ value = None /\ \A i \in DOMAIN from : ~sets(i)
               \/ \E i \in DOMAIN from :
                     value = from[i] /\ sets(i) /\ \A j \in 1 .. i - 1 : ~sets(j)
  BY DEF Promise, from
<1>3. value = Or(from[1], Or(from[2], Or(from[3], Or(from[4], Or(from[5], from[6])))))
  BY DEF from
<1>4. CASE \E i \in 1 .. 6 : sets(i)
  <2>1. PICK i \in 1 .. 6 : sets(i) /\ \A j \in 1 .. i - 1 : ~sets(j)
    <3>1. CASE sets(1)
      BY <3>1
    <3>2. CASE ~sets(1) /\ sets(2)
      BY <3>2
    <3>3. CASE ~sets(1) /\ ~sets(2) /\ sets(3)
      BY <3>3
    <3>4. CASE ~sets(1) /\ ~sets(2) /\ ~sets(3) /\ sets(4)
      BY <3>4
    <3>5. CASE ~sets(1) /\ ~sets(2) /\ ~sets(3) /\ ~sets(4) /\ sets(5)
      BY <3>5
    <3>6. CASE ~sets(1) /\ ~sets(2) /\ ~sets(3) /\ ~sets(4) /\ ~sets(5) /\ sets(6)
      BY <3>6
    <3> QED  BY <1>4, <3>1, <3>2, <3>3, <3>4, <3>5, <3>6
  <2>2. value = from[i]
    BY <1>3, <2>1 DEF Or
  <2> QED  BY <1>1, <2>1, <2>2
<1>5. CASE \A i \in 1 .. 6 : ~sets(i)
  BY <1>1, <1>3, <1>5 DEF Or
<1> QED  BY <1>4, <1>5

\* What parseServiceConfig reads is the label, unless that does not parse.
LEMMA OwnLabel ==
    ASSUME NEW self, NEW c, NEW key \in Settings,
           Has(c.labels, "ephemeral") => c.labels["ephemeral"] \in BOOLEAN \cup {Garbled}
    PROVE  LET own == parseServiceConfig(c).set[key]
               label == Sources(self, c, key)[1]
           IN /\ key \notin Texts \cup {"ephemeral"} => own = label
              /\ key \in Texts => own \in {label, Garbled}
              /\ key = "ephemeral" => own = Or(label, FALSE)
<1> DEFINE own == parseServiceConfig(c).set[key]
           label == Sources(self, c, key)[1]
           read == Get(c.labels, key)
<1>1. own = IF key = "ephemeral" THEN read = TRUE ELSE read
  BY Zenon DEF parseServiceConfig
<1>2. label = IF Readable(c.labels, key)
              THEN (IF key \in Headers THEN c.labels[key] \ {Garbled} ELSE c.labels[key])
              ELSE None
  BY DEF Sources
<1>3. /\ key \notin DOMAIN c.labels => read = None
      /\ key \in DOMAIN c.labels /\ key \in Headers =>
            read = IF c.labels[key] \ {Garbled} = {} THEN None ELSE c.labels[key] \ {Garbled}
      /\ key \in DOMAIN c.labels /\ key \notin Headers =>
            read = IF c.labels[key] = Garbled /\ key \notin Texts THEN None ELSE c.labels[key]
  BY DEF Get, Has
<1>4. read = IF key \in Texts /\ key \in DOMAIN c.labels THEN c.labels[key] ELSE label
  BY <1>2, <1>3, Groups DEF Readable, Has
<1>5. key # "ephemeral" => own = read
  BY <1>1
<1>6. key \in Texts => read \in {label, Garbled}
  BY <1>2, <1>3, Groups DEF Readable, Has
<1> HIDE DEF own, label, read
<1>7. CASE key # "ephemeral"
  BY <1>4, <1>5, <1>6, <1>7 DEF own, label
<1>8. CASE key = "ephemeral"
  <2>1. read = label
    BY <1>4, <1>8, Groups
  <2>2. label \in BOOLEAN \cup {None}
    BY <1>2, <1>8, Groups DEF label, Readable, Has
  <2>3. own = (read = TRUE)
    BY <1>1, <1>8, Zenon
  <2>4. CASE label = None
    <3>1. ~(read = TRUE)
      BY <2>1, <2>4, ConfigurationAssumption
    <3> QED  BY <3>1, <2>3, <2>4, <1>8, Groups DEF Or, own, label
  <2>5. CASE label = TRUE
    BY <2>1, <2>3, <2>5, <1>8, ConfigurationAssumption, Groups DEF Or, own, label
  <2>6. CASE label = FALSE
    BY <2>1, <2>3, <2>6, <1>8, ConfigurationAssumption, Groups DEF Or, own, label
  <2> QED  BY <2>2, <2>4, <2>5, <2>6
<1> QED  BY <1>7, <1>8 DEF own, label, read

\* The pipeline touches nothing but the settings.
LEMMA NameKept ==
    ASSUME NEW self, NEW c
    PROVE  /\ Processed(self, c).name = IF Has(c.labels, "name") THEN c.labels["name"] ELSE c.name
           /\ Processed(self, c).backend_addr = BackendAddr(c)
<1> DEFINE parsed == parseServiceConfig(c)
<1>1. parsed = Svc(parsed.name, BackendAddr(c), parsed.set)
  BY Zenon DEF parseServiceConfig, Svc
<1>2. parsed.name = IF Has(c.labels, "name") THEN c.labels["name"] ELSE c.name
  BY Zenon DEF parseServiceConfig
<1> HIDE DEF parsed
<1> DEFINE svc == SetServiceDefaults(parsed)
           global == SetGlobalDefaults(parseGlobalConfig(self))
<1>3. svc = Svc(parsed.name, BackendAddr(c), Completed(parsed.set, ServiceDefaults))
  BY <1>1, Replaced DEF SetServiceDefaults
<1>4. PICK set : Processed(self, c) = Svc(parsed.name, BackendAddr(c), set)
  <2>1. Processed(self, c) = Normalize(svc, global)
    BY DEF Processed, parsed
  <2>2. PICK set : Normalize(svc, global) = [svc EXCEPT !.set = set]
    BY DEF Normalize
  <2>3. [svc EXCEPT !.set = set] = Svc(parsed.name, BackendAddr(c), set)
    BY <1>3, Replaced
  <2> QED  BY <2>1, <2>2, <2>3
<1> QED  BY <1>2, <1>4 DEF Svc

\* A service Validate has accepted has in every setting what the labels of its container
\* promise, for any labels of its own and of tsbridge's container.
THEOREM LabelsAreKept ==
    ASSUME NEW self, NEW c, NEW oauth,
           Has(c.labels, "ephemeral") => c.labels["ephemeral"] \in BOOLEAN \cup {Garbled},
           validateService(Processed(self, c), oauth)
    PROVE  Honours(self, c, Processed(self, c))
<1>1. Processed(self, c).name = IF Has(c.labels, "name") THEN c.labels["name"] ELSE c.name
  BY NameKept
<1>2. ASSUME NEW key \in Settings
      PROVE  Promise(self, c, key, Processed(self, c).set[key])
  <2> DEFINE value == Processed(self, c).set[key]
             own == parseServiceConfig(c).set[key]
             from == Sources(self, c, key)
  <2>1. value = Or(from[1], Or(from[2], Or(from[3], Or(from[4], Or(from[5], from[6])))))
    <3>1. /\ from[2] = IF key = "tags" /\ Readable(self.labels, "default_tags")
                       THEN self.labels["default_tags"] ELSE None
          /\ from[3] = IF key \in Inherited /\ Readable(self.labels, key)
                       THEN self.labels[key] ELSE None
          /\ from[4] = IF key \in DOMAIN GlobalDefaults THEN GlobalDefaults[key] ELSE None
          /\ from[5] = IF key \in DOMAIN ServiceDefaults THEN ServiceDefaults[key] ELSE None
          /\ from[6] = IF key = "ephemeral" THEN FALSE ELSE None
      BY DEF Sources
    <3>2. /\ key \notin Texts \cup {"ephemeral"} => own = from[1]
          /\ key \in Texts => own \in {from[1], Garbled}
          /\ key = "ephemeral" => own = Or(from[1], FALSE)
      BY OwnLabel
    <3>3. /\ key \in Inherited =>
                value = Or(own, Or(Get(self.labels, key),
                                   IF key \in DOMAIN GlobalDefaults
                                      THEN GlobalDefaults[key] ELSE None))
          /\ key = "tags" => value = Or(own, Get(self.labels, "default_tags"))
          /\ key \in DOMAIN ServiceDefaults => value = Or(own, ServiceDefaults[key])
          /\ key \in OwnOnly \ DOMAIN ServiceDefaults => value = own
      BY Pipeline
    <3>4. /\ value \in {None, "auto", "off"} \/ key # "tls_mode"
          /\ value # Garbled \/ key # "listen_addr"
      BY DEF validateService
    <3> HIDE DEF value, own, from
    <3>5. CASE key \in Inherited
      <4>1. Get(self.labels, key) = from[3]
        BY <3>1, <3>5, GlobalGroups DEF Get, Readable, Has
      <4>2. own = from[1]
        BY <3>2, <3>5, GlobalGroups, Groups
      <4> QED  BY <3>1, <3>3, <3>5, <4>1, <4>2, Groups DEF Or
    <3>6. CASE key = "tags"
      <4>1. Get(self.labels, "default_tags") = from[2]
        BY <3>1, <3>6 DEF Get, Readable, Has, Texts, Headers
      <4>2. own = from[1] /\ key \notin DOMAIN GlobalDefaults
        BY <3>2, <3>6, Groups, GlobalGroups
      <4> QED  BY <3>1, <3>3, <3>6, <4>1, <4>2, Groups DEF Or
    <3>7. CASE key \in OwnOnly
      <4>1. key \notin DOMAIN GlobalDefaults \cup Inherited /\ key # "tags"
        BY <3>7, Groups, GlobalGroups
      <4>2. key \in Texts => own = from[1]
        BY <3>2, <3>3, <3>4, <3>7, Groups, ConfigurationAssumption DEF Or
      <4> QED  BY <3>1, <3>2, <3>3, <3>7, <4>1, <4>2, Groups DEF Or
    <3> QED  BY <3>5, <3>6, <3>7 DEF Settings
  <2> QED  BY <2>1, FirstSet
<1> QED  BY <1>1, <1>2 DEF Honours

-----------------------------------------------------------------------------
(* Comparison *)

LEMMA OccurrencesPositive ==
    ASSUME NEW s, IsFiniteSet(DOMAIN s), NEW x
    PROVE  Occurrences(s, x) \in Nat /\ (x \in Members(s) <=> Occurrences(s, x) # 0)
<1> DEFINE at == {i \in DOMAIN s : s[i] = x}
<1>1. IsFiniteSet(at)
  BY FS_Subset
<1>2. Cardinality(at) \in Nat /\ (Cardinality(at) = 0 <=> at = {})
  BY <1>1, FS_CardinalityType, FS_EmptySet
<1> QED  BY <1>2 DEF Occurrences, Members

\* Tags that compare equal are the same tags the same number of times.
LEMMA SameTagsSameBag ==
    ASSUME NEW s, NEW t, IsFiniteSet(DOMAIN s), IsFiniteSet(DOMAIN t),
           \A x \in Members(s) \cup Members(t) : Occurrences(s, x) = Occurrences(t, x)
    PROVE  {<<s[i], Occurrences(s, s[i])>> : i \in DOMAIN s} =
           {<<t[i], Occurrences(t, t[i])>> : i \in DOMAIN t}
<1>1. Members(s) = Members(t)
  BY OccurrencesPositive
<1>2. \A i \in DOMAIN s : \E j \in DOMAIN t :
          s[i] = t[j] /\ Occurrences(s, s[i]) = Occurrences(t, t[j])
  BY <1>1 DEF Members
<1>3. \A j \in DOMAIN t : \E i \in DOMAIN s :
          s[i] = t[j] /\ Occurrences(s, s[i]) = Occurrences(t, t[j])
  BY <1>1 DEF Members
<1> QED  BY <1>2, <1>3

\* And the other way round.
LEMMA SameBagSameTags ==
    ASSUME NEW s, NEW t,
           {<<s[i], Occurrences(s, s[i])>> : i \in DOMAIN s} =
           {<<t[i], Occurrences(t, t[i])>> : i \in DOMAIN t}
    PROVE  \A x \in Members(s) \cup Members(t) : Occurrences(s, x) = Occurrences(t, x)
<1>1. ASSUME NEW u, NEW v, NEW x \in Members(u),
             {<<u[i], Occurrences(u, u[i])>> : i \in DOMAIN u} \subseteq
             {<<v[i], Occurrences(v, v[i])>> : i \in DOMAIN v}
      PROVE  Occurrences(u, x) = Occurrences(v, x)
  <2>1. PICK i \in DOMAIN u : x = u[i]
    BY DEF Members
  <2>2. PICK j \in DOMAIN v : <<x, Occurrences(u, x)>> = <<v[j], Occurrences(v, v[j])>>
    BY <1>1, <2>1
  <2>3. x = v[j] /\ Occurrences(u, x) = Occurrences(v, v[j])
    BY <2>2
  <2> QED  BY <2>3
<1>2. \A x \in Members(s) : Occurrences(s, x) = Occurrences(t, x)
  BY <1>1
<1>3. \A x \in Members(t) : Occurrences(t, x) = Occurrences(s, x)
  BY <1>1
<1> QED  BY <1>2, <1>3

\* configEqual looks only the services of one side up in the other: with unique names, and
\* as many services on both sides, that is enough.
LEMMA EqualBothWays ==
    ASSUME NEW as, NEW bs, IsFiniteSet(as), IsFiniteSet(bs), configEqual(as, bs),
           \A x, y \in as : x.name = y.name => x = y
    PROVE  \A b \in bs : \E a \in as : ServiceConfigEqual(a, b)
<1> DEFINE found == [a \in as |-> CHOOSE b \in bs : ServiceConfigEqual(a, b)]
<1>1. \A a \in as : found[a] \in bs /\ ServiceConfigEqual(a, found[a])
  BY DEF configEqual
<1>2. found \in [as -> bs]
  BY <1>1
<1> HIDE DEF found
<1>3. ASSUME NEW x \in as, NEW y \in as, found[x] = found[y]
      PROVE  x = y
  <2>1. ServiceConfigEqual(x, found[x]) /\ ServiceConfigEqual(y, found[x])
    BY <1>1, <1>3
  <2>2. x.name = y.name
    BY <2>1 DEF ServiceConfigEqual
  <2> QED  BY <2>2
<1>4. found \in Injection(as, bs)
  BY <1>2, <1>3 DEF Injection, IsInjective
<1>5. found \in Surjection(as, bs)
  BY <1>4, FS_Injection DEF configEqual
<1>6. \A b \in bs : \E a \in as : found[a] = b
  BY <1>5 DEF Surjection
<1> QED  BY <1>1, <1>6

\* Services with unique names that can be paired off one by one are as many on both sides:
\* configEqual's count never refuses what its lookups would accept.
LEMMA PairedOff ==
    ASSUME NEW as, NEW bs, IsFiniteSet(as),
           \A x, y \in as : x.name = y.name => x = y,
           \A x, y \in bs : x.name = y.name => x = y,
           \A a \in as : \E b \in bs : ServiceConfigEqual(a, b),
           \A b \in bs : \E a \in as : ServiceConfigEqual(a, b)
    PROVE  configEqual(as, bs)
<1> DEFINE found == [a \in as |-> CHOOSE b \in bs : ServiceConfigEqual(a, b)]
<1>1. \A a \in as : found[a] \in bs /\ ServiceConfigEqual(a, found[a])
  OBVIOUS
<1>2. found \in [as -> bs]
  BY <1>1
<1> HIDE DEF found
<1>3. \A a \in as : found[a].name = a.name
  BY <1>1 DEF ServiceConfigEqual
<1>4. found \in Injection(as, bs)
  <2>1. ASSUME NEW x \in as, NEW y \in as, found[x] = found[y]
        PROVE  x = y
    <3>1. x.name = y.name
      BY <1>3, <2>1
    <3> QED  BY <3>1
  <2> QED  BY <1>2, <2>1 DEF Injection, IsInjective
<1>5. ASSUME NEW b \in bs PROVE \E a \in as : found[a] = b
  <2>1. PICK a \in as : ServiceConfigEqual(a, b)
    OBVIOUS
  <2>2. found[a].name = b.name /\ found[a] \in bs
    BY <1>1, <1>3, <2>1 DEF ServiceConfigEqual
  <2> QED  BY <2>2
<1>6. found \in Bijection(as, bs)
  BY <1>2, <1>4, <1>5 DEF Bijection, Surjection
<1>7. Cardinality(as) = Cardinality(bs)
  BY <1>6, FS_Bijection DEF ExistsBijection
<1> QED  BY <1>7 DEF configEqual
=============================================================================
