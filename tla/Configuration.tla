---------------------------- MODULE Configuration ----------------------------
(***************************************************************************)
(* From the labels of containers to the services tsbridge runs:             *)
(* internal/docker/labels.go, and ProcessLoadedConfigWithProvider and        *)
(* ServiceConfigEqual of internal/config.  Pure operators; DockerProvider    *)
(* says when they are applied to what.                                      *)
(*                                                                         *)
(* Labels are functions from the names after the prefix ("service.", "global."  *)
(* or "tailscale.") to values: durations in milliseconds, sizes in bytes, tags as   *)
(* sequences, headers as sets.  A label that does not parse has the value    *)
(* Garbled.  A setting that is nil, or the empty string, in the code is None. *)
(***************************************************************************)
EXTENDS Integers, Sequences, FiniteSets

CONSTANTS
    None,       \* not set
    Garbled     \* what no parser or validation accepts

ASSUME ConfigurationAssumption ==
    /\ None \notin BOOLEAN
    /\ Garbled # None /\ Garbled \notin BOOLEAN /\ Garbled \notin {"auto", "off"}

\* The settings of a service by where else they may come from.
Timeouts == {"startup_timeout", "read_header_timeout", "write_timeout", "idle_timeout",
             "response_header_timeout"}
Inherited == Timeouts \cup {"flush_interval", "access_log", "max_request_body_size"}
OwnOnly == {"whois_enabled", "whois_timeout", "tls_mode", "listen_addr", "funnel_enabled",
            "insecure_skip_verify", "ephemeral", "oauth_preauthorized",
            "upstream_headers", "downstream_headers", "remove_upstream", "remove_downstream"}
Settings == Inherited \cup OwnOnly \cup {"tags"}

TransportTimeouts == {"dial_timeout", "keep_alive_timeout", "idle_conn_timeout",
                      "tls_handshake_timeout", "expect_continue_timeout",
                      "metrics_read_header_timeout"}
GlobalSettings == Inherited \cup TransportTimeouts \cup
                  {"shutdown_timeout", "metrics_addr", "trusted_proxies"}

\* Passed on as they are, for Validate to judge.
Texts == {"tls_mode", "listen_addr", "metrics_addr", "trusted_proxies"}
Headers == {"upstream_headers", "downstream_headers"}

-----------------------------------------------------------------------------
(* The label parser *)

\* getBool, getDuration, getByteSize: what does not parse counts as not set.  getHeaders
\* drops the headers that are not valid, one by one.
Get(labels, key) ==
    IF key \notin DOMAIN labels THEN None
    ELSE IF key \in Headers THEN LET kept == labels[key] \ {Garbled}
                                 IN IF kept = {} THEN None ELSE kept
    ELSE IF labels[key] = Garbled /\ key \notin Texts THEN None ELSE labels[key]

Has(labels, key) == key \in DOMAIN labels

\* An address is [scheme, host, port], or Garbled.
ValidateBackendAddress(addr) ==
    /\ addr \notin {None, Garbled}
    /\ addr.host # Garbled
    /\ addr.port \in 1 .. 65535 \/ (addr.port = None /\ addr.scheme # "tcp")
    /\ addr.scheme = "unix" => addr.port = None

\* c is a running container: its name, its ports as the daemon lists them, its labels.
\* No backend can be told when it lists no port or more than one.
BackendAddr(c) ==
    LET exposed == SelectSeq(c.ports, LAMBDA p : p # 0)
        port == IF Has(c.labels, "port") THEN c.labels["port"]
                ELSE IF Len(exposed) = 1 THEN exposed[1] ELSE None
    IN IF Has(c.labels, "backend_addr") THEN c.labels["backend_addr"]
       ELSE IF port = None THEN None
       ELSE [scheme |-> "tcp", host |-> c.name, port |-> port]

SkipsVerify(labels, addr) ==
    Get(labels, "insecure_skip_verify") = TRUE /\ addr.scheme # "https"

\* Whether parseServiceConfig returns no error; Load leaves out a container it does.
Parses(c) ==
    LET addr == BackendAddr(c)
    IN ValidateBackendAddress(addr) /\ ~SkipsVerify(c.labels, addr)

parseServiceConfig(c) ==
    [name |-> IF Has(c.labels, "name") THEN c.labels["name"] ELSE c.name,
     backend_addr |-> BackendAddr(c),
     set |-> [key \in Settings |->
                 IF key = "ephemeral" THEN Get(c.labels, key) = TRUE ELSE Get(c.labels, key)]]

\* self is the container tsbridge runs in: its labels, and whether it uses OAuth.
parseGlobalConfig(self) ==
    [set |-> [key \in GlobalSettings |-> Get(self.labels, key)],
     default_tags |-> Get(self.labels, "default_tags"),
     oauth |-> self.oauth]

-----------------------------------------------------------------------------
(* SetDefaults *)

GlobalDefaults ==
    [read_header_timeout |-> 30000, write_timeout |-> 30000, idle_timeout |-> 120000,
     shutdown_timeout |-> 30000, startup_timeout |-> 30000, access_log |-> TRUE,
     max_request_body_size |-> 52428800, dial_timeout |-> 30000,
     keep_alive_timeout |-> 30000, idle_conn_timeout |-> 90000,
     tls_handshake_timeout |-> 10000, expect_continue_timeout |-> 1000,
     metrics_read_header_timeout |-> 5000]

ServiceDefaults == [whois_enabled |-> FALSE, whois_timeout |-> 5000, tls_mode |-> "auto"]

\* What is not set is taken from other, if that has it.
Completed(set, other) ==
    [key \in DOMAIN set |->
        IF set[key] = None /\ key \in DOMAIN other THEN other[key] ELSE set[key]]

SetGlobalDefaults(global) == [global EXCEPT !.set = Completed(@, GlobalDefaults)]

SetServiceDefaults_All(svc) ==
    [svc EXCEPT !.set = Completed(Completed(@, ServiceDefaults), GlobalDefaults)]

SetServiceDefaults(svc) == [svc EXCEPT !.set = Completed(@, ServiceDefaults)]

-----------------------------------------------------------------------------
(* Normalize *)

\* Settings a service shares with the global section, and its tags.
Normalize(svc, global) ==
    LET shared == [key \in Inherited |-> global.set[key]]
        tags == [key \in {"tags"} |-> global.default_tags]
    IN [svc EXCEPT !.set = Completed(Completed(@, shared), tags)]

-----------------------------------------------------------------------------
(* Validate *)

ImmediateFlushInterval == -1

validateTimeout(d, allowNegativeOne) ==
    d = None \/ (allowNegativeOne /\ d = ImmediateFlushInterval) \/ d >= 0

validateTimeoutPositive(d) == d = None \/ d > 0

validateGlobal(set) ==
    /\ \A key \in (Timeouts \cup TransportTimeouts) \ {"startup_timeout"} :
          validateTimeout(set[key], FALSE)
    /\ \A key \in {"shutdown_timeout", "startup_timeout"} : validateTimeoutPositive(set[key])
    /\ validateTimeout(set["flush_interval"], TRUE)
    /\ set["metrics_addr"] # Garbled /\ set["trusted_proxies"] # Garbled

validateService(svc, oauth) ==
    /\ ValidateBackendAddress(svc.backend_addr)
    /\ svc.set["insecure_skip_verify"] = TRUE => svc.backend_addr.scheme = "https"
    /\ svc.set["whois_enabled"] # FALSE => validateTimeout(svc.set["whois_timeout"], FALSE)
    /\ svc.set["tls_mode"] \in {None, "auto", "off"}
    /\ validateTimeoutPositive(svc.set["startup_timeout"])
    /\ \A key \in Timeouts \ {"startup_timeout"} : validateTimeout(svc.set[key], FALSE)
    /\ validateTimeout(svc.set["flush_interval"], TRUE)
    /\ svc.set["listen_addr"] # Garbled
    /\ oauth => svc.set["tags"] \notin {None, <<>>}

\* One bad service refuses the whole configuration.  No service at all is fine with Docker.
Validate(global, services) ==
    /\ validateGlobal(global.set)
    /\ \A c \in DOMAIN services : validateService(services[c], global.oauth)
    /\ \A c, d \in DOMAIN services : services[c].name = services[d].name => c = d

-----------------------------------------------------------------------------
(* The pipeline, over the containers a list has shown. *)

Processed(self, c) ==
    Normalize(SetServiceDefaults(parseServiceConfig(c)),
              SetGlobalDefaults(parseGlobalConfig(self)))

\* listing is a function from containers to what the list shows of them.
Services(self, listing) ==
    [c \in {d \in DOMAIN listing : Parses(listing[d])} |-> Processed(self, listing[c])]

Accepted(self, listing) ==
    Validate(SetGlobalDefaults(parseGlobalConfig(self)), Services(self, listing))

-----------------------------------------------------------------------------
(* Comparison *)

Occurrences(s, x) == Cardinality({i \in DOMAIN s : s[i] = x})

Members(s) == {s[i] : i \in DOMAIN s}

\* Tags in any order (sorted, they are equal), and none like no tags.
SameTags(s, t) ==
    \/ s \in {None, <<>>} /\ t \in {None, <<>>}
    \/ /\ s # None /\ t # None
       /\ \A x \in Members(s) \cup Members(t) : Occurrences(s, x) = Occurrences(t, x)

ServiceConfigEqual(a, b) ==
    /\ a.name = b.name /\ a.backend_addr = b.backend_addr
    /\ \A key \in Settings \ {"tags"} : a.set[key] = b.set[key]
    /\ SameTags(a.set["tags"], b.set["tags"])

\* docker.Provider's, over the services of two configurations: each of a's services is
\* looked up by name.
configEqual(as, bs) ==
    /\ Cardinality(as) = Cardinality(bs)
    /\ \A a \in as : \E b \in bs : ServiceConfigEqual(a, b)

-----------------------------------------------------------------------------
(* What the labels of a container promise (docs/docker-labels.md, and            *)
(* docs/configuration-reference.md, "All settings here provide defaults that can  *)
(* be overridden per-service"): the container's own label, else the global one,   *)
(* else the default.                                                            *)

Readable(labels, key) ==
    /\ Has(labels, key)
    /\ IF key \in Headers THEN labels[key] \ {Garbled} # {} ELSE labels[key] # Garbled

Sources(self, c, key) ==
    <<IF Readable(c.labels, key)
         THEN (IF key \in Headers THEN c.labels[key] \ {Garbled} ELSE c.labels[key])
         ELSE None,
      IF key = "tags" /\ Readable(self.labels, "default_tags")
         THEN self.labels["default_tags"] ELSE None,
      IF key \in Inherited /\ Readable(self.labels, key) THEN self.labels[key] ELSE None,
      IF key \in DOMAIN GlobalDefaults THEN GlobalDefaults[key] ELSE None,
      IF key \in DOMAIN ServiceDefaults THEN ServiceDefaults[key] ELSE None,
      IF key = "ephemeral" THEN FALSE ELSE None>>

\* The first source that has it, or nothing.
Promise(self, c, key, value) ==
    LET from == Sources(self, c, key)
        sets(i) == from[i] # None
    IN \/ value = None /\ \A i \in DOMAIN from : ~sets(i)
       \/ \E i \in DOMAIN from :
             value = from[i] /\ sets(i) /\ \A j \in 1 .. i - 1 : ~sets(j)

\* tls_mode and listen_addr reach Validate as they are, so that what it has accepted had
\* no garbled one.
Honours(self, c, svc) ==
    /\ svc.name = (IF Has(c.labels, "name") THEN c.labels["name"] ELSE c.name)
    /\ \A key \in Settings : Promise(self, c, key, svc.set[key])
=============================================================================
