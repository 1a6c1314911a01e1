----------------------------- MODULE RequestPath -----------------------------
(***************************************************************************)
(* One service's requests, from net/http through the chain CreateHandler    *)
(* builds (access log, metrics, strip, whois, body limit, proxy) to the      *)
(* backend and back, and the life of that handler: its collector goroutine, *)
(* Stop and Close.  A status goes out through the response wrappers in the   *)
(* order of the chain; an identity comes in from the cache or from whois.    *)
(***************************************************************************)
EXTENDS Integers, Sequences, FiniteSets

CONSTANTS
    Slots,          \* requests in progress at one time
    Addrs, Users,   \* client addresses; the users whois knows
    FirstHolders,   \* whose node has which address in the beginning
    None, Forged,   \* no value; an identity header a client sent itself
    Unset,          \* a setting nobody gave
    Trusted,        \* the addresses in trusted_proxies
    Inputs,         \* the requests clients send
    Services,       \* the settings a service may have
    DefaultMaxRequestBodySize, CacheSize, MaxTries,
    MaxRequests, MaxMoves   \* bounds: requests sent, addresses changing hands

ASSUME RequestAssumption ==
    /\ Trusted \subseteq Addrs /\ FirstHolders \in [Addrs -> Users]
    /\ None \notin Addrs \cup Users /\ Forged \notin Users \cup {None}
    /\ \A in \in Inputs :
          in \in [addr : Addrs, identity : {None, Forged}, claim : Seq(Addrs),
                  funnel : Addrs \cup {None}, size : Nat, declared : BOOLEAN,
                  expects : BOOLEAN, upgrade : BOOLEAN]
    /\ Services \subseteq
          [metrics : BOOLEAN, whois : BOOLEAN, accessLog : BOOLEAN \cup {Unset},
           globalAccessLog : BOOLEAN \cup {Unset}, max : Int \cup {Unset},
           globalMax : Int \cup {Unset}]
    /\ DefaultMaxRequestBodySize \in Int
    /\ \A n \in {CacheSize, MaxTries} : n \in Nat \ {0}
    /\ IsFiniteSet(Slots) /\ MaxRequests \in Nat /\ MaxMoves \in Nat

VARIABLES
    svc,        \* the service's settings
    req,        \* for each slot its request, or the last one it held
    holder,     \* for each address the user whose node has it
    ever,       \* for each address the users that have had it
    moves,
    cache,      \* the whois cache, most recently used first
    active,     \* activeRequests
    pool,       \* the connection pool gauge
    phase,      \* "serving", "stopping" (http.Server.Shutdown) or "closed"
    collector,  \* whether the goroutine of startMetricsCollection runs
    arrived, total, lines   \* requests so far; RequestsTotal; access log lines

netVars == <<holder, ever, moves>>
lifeVars == <<phase, collector>>
countVars == <<arrived, total, lines>>
vars == <<svc, req, netVars, cache, active, pool, lifeVars, countVars>>

-----------------------------------------------------------------------------
\* The service's settings.

isAccessLogEnabled(sv) ==
    IF sv.accessLog # Unset THEN sv.accessLog
    ELSE IF sv.globalAccessLog # Unset THEN sv.globalAccessLog ELSE TRUE

getMaxRequestBodySize(sv) ==
    IF sv.max # Unset THEN sv.max
    ELSE IF sv.globalMax # Unset THEN sv.globalMax ELSE DefaultMaxRequestBodySize

\* CreateHandler puts MaxBytesHandler into the chain only for a positive limit.
Limited(sv) == getMaxRequestBodySize(sv) > 0

\* MaxBytesHandler compares the Content-Length before it wraps the body.
\* (Mutant: a body of just the limit is refused.)
Refused_AtLimit(sv, in) ==
    Limited(sv) /\ in.declared /\ in.size >= getMaxRequestBodySize(sv)

Refused(sv, in) == Limited(sv) /\ in.declared /\ in.size > getMaxRequestBodySize(sv)

\* How many bytes MaxBytesReader lets the transport read.
Fits(sv, in) == ~Limited(sv) \/ in.size <= getMaxRequestBodySize(sv)

-----------------------------------------------------------------------------
\* What the backend is told about the client.

\* The identity headers left when the next handler is called.
\* (Mutant: they are left in.)
StripTailscaleHeaders_Off(in) == in.identity

StripTailscaleHeaders(in) == None

isTrustedProxy(a) == a \in Trusted

\* X-Forwarded-For: what the request brings with it counts only if it comes from
\* a trusted proxy; a Funnel connection's source stands in for it; SetXForwarded
\* appends the peer.
\* (Mutant: the inbound header is copied whoever sends it.)
ForwardedFor_Copied(in) ==
    Append(IF in.funnel # None THEN <<in.funnel>> ELSE in.claim, in.addr)

ForwardedFor(in) ==
    LET prior == IF in.funnel # None THEN <<in.funnel>>
                 ELSE IF isTrustedProxy(in.addr) THEN in.claim ELSE <<>>
    IN  Append(prior, in.addr)

RealIP(in) ==
    IF in.funnel # None THEN in.funnel
    ELSE IF isTrustedProxy(in.addr) /\ in.claim # <<>> THEN Head(in.claim)
    ELSE in.addr

-----------------------------------------------------------------------------
\* The statuses of a response on its way out.

Informational(c) == c \in {100, 102, 103}

\* net/http: informational responses go out at once, the first other status is
\* the response's, later ones are ignored.
Send(r, c) ==
    IF Informational(c) \/ r.sent # 0 THEN r ELSE [r EXCEPT !.sent = c]

\* accessLogResponseWriter.WriteHeader
LogStatus(r, c) == Send([r EXCEPT !.log = c], c)

\* responseWriter.WriteHeader
CountStatus(r, c) ==
    IF r.wrote THEN r ELSE LogStatus([r EXCEPT !.code = c, !.wrote = TRUE], c)

\* What WriteHeader does to a response when proxy or body limit call it.
WriteHeader(r, c) == IF svc.metrics THEN CountStatus(r, c) ELSE LogStatus(r, c)

\* net/http when a handler writes a body, or returns, and has sent no status.
Finished(r) == Send(r, 200)

-----------------------------------------------------------------------------
NoRequest ==
    [at |-> "idle", in |-> None, id |-> None, user |-> None, tries |-> 0,
     chain |-> <<>>, real |-> None, body |-> "none",
     code |-> 200, wrote |-> FALSE, log |-> 200, sent |-> 0, meant |-> 0,
     informed |-> FALSE, upgraded |-> FALSE]

LookingUp(r) == r.at \in {"cache", "whois", "answered"}
InProxy(r) == r.at \in {"sent", "copying", "tunnel", "returning"}
InProgress(r) == r.at \notin {"idle", "done", "aborted"}

Init ==
    /\ svc \in Services
    /\ req = [s \in Slots |-> NoRequest]
    /\ holder = FirstHolders
    /\ ever = [a \in Addrs |-> {holder[a]}]
    /\ moves = 0 /\ cache = <<>>
    /\ active = 0 /\ pool = 0
    /\ phase = "serving" /\ collector = svc.metrics
    /\ arrived = 0 /\ total = 0 /\ lines = 0

\* A request comes in and its identity headers are stripped; with whois enabled the
\* lookup is next.
Arrives(s) ==
    /\ phase = "serving"
    /\ arrived < MaxRequests
    /\ ~InProgress(req[s])
    /\ \E in \in Inputs :
          req' = [req EXCEPT ![s] = [NoRequest EXCEPT
                    !.at = IF svc.whois THEN "cache" ELSE "ready",
                    !.in = in, !.id = StripTailscaleHeaders(in)]]
    /\ arrived' = arrived + 1
    /\ UNCHANGED <<svc, netVars, cache, active, pool, lifeVars, total, lines>>

\* The tailnet changes: an address goes to another user's node.  Only whois could
\* tell.
AddressMoves ==
    /\ svc.whois /\ moves < MaxMoves
    /\ \E a \in Addrs : \E u \in Users \ {holder[a]} :
          /\ holder' = [holder EXCEPT ![a] = u]
          /\ ever' = [ever EXCEPT ![a] = @ \cup {u}]
    /\ moves' = moves + 1
    /\ UNCHANGED <<svc, req, cache, active, pool, lifeVars, countVars>>

-----------------------------------------------------------------------------
\* The whois middleware.

At(s, p) == req[s].at = p
Identified(s, u) ==
    req' = [req EXCEPT ![s] = [@ EXCEPT !.at = "ready", !.id = u, !.user = None, !.tries = 0]]
Unidentified(s) == req' = [req EXCEPT ![s] = [@ EXCEPT !.at = "ready", !.tries = 0]]

Entries(a) == {i \in DOMAIN cache : cache[i].addr = a}
Without(i) == [j \in 1 .. Len(cache) - 1 |-> cache[IF j < i THEN j ELSE j + 1]]

\* (Mutant: the cache keeps every answer.)
WithFirst_Grows(e) == <<e>> \o cache

WithFirst(e) ==
    LET others == IF Entries(e.addr) = {} THEN cache
                  ELSE Without(CHOOSE i \in Entries(e.addr) : TRUE)
        kept == <<e>> \o others
    IN  IF Len(kept) > CacheSize THEN SubSeq(kept, 1, CacheSize) ELSE kept

\* cache.Get: a hit makes the entry the most recent one.
CacheHits(s) ==
    /\ At(s, "cache")
    /\ \E i \in Entries(req[s].in.addr) :
          /\ Identified(s, cache[i].user)
          /\ cache' = WithFirst(cache[i])
    /\ UNCHANGED <<svc, netVars, active, pool, lifeVars, countVars>>

CacheMisses(s) ==
    /\ At(s, "cache")
    /\ Entries(req[s].in.addr) = {}
    /\ req' = [req EXCEPT ![s] = [@ EXCEPT !.at = "whois", !.tries = 1]]
    /\ UNCHANGED <<svc, netVars, cache, active, pool, lifeVars, countVars>>

\* The local daemon answers an attempt.
Answered(s) ==
    /\ At(s, "whois")
    /\ req' = [req EXCEPT ![s] = [@ EXCEPT !.at = "answered",
                                                !.user = holder[req[s].in.addr]]]
    /\ UNCHANGED <<svc, netVars, cache, active, pool, lifeVars, countVars>>

\* An attempt fails, or its timeout ends it, with an error worth another attempt.
\* (Mutant: attempts are not limited.)
Retries_Forever(s) ==
    /\ At(s, "whois")
    /\ req' = [req EXCEPT ![s].tries = IF @ < MaxTries THEN @ + 1 ELSE 1]
    /\ UNCHANGED <<svc, netVars, cache, active, pool, lifeVars, countVars>>

Retries(s) ==
    /\ At(s, "whois")
    /\ req[s].tries < MaxTries
    /\ req' = [req EXCEPT ![s] = [@ EXCEPT !.tries = req[s].tries + 1]]
    /\ UNCHANGED <<svc, netVars, cache, active, pool, lifeVars, countVars>>

\* The last attempt fails; or one fails with another error, or too late, or the
\* client has gone.  The request goes on without an identity.
GivesUp(s) ==
    /\ At(s, "whois")
    /\ Unidentified(s)
    /\ UNCHANGED <<svc, netVars, cache, active, pool, lifeVars, countVars>>

\* The answer is cached, whatever has been cached for the address since, and
\* identifies the request.
Stores(s) ==
    /\ At(s, "answered")
    /\ cache' = WithFirst([addr |-> req[s].in.addr, user |-> req[s].user])
    /\ Identified(s, req[s].user)
    /\ UNCHANGED <<svc, netVars, active, pool, lifeVars, countVars>>

\* An entry reaches the end of its time.
EntryExpires ==
    /\ \E i \in DOMAIN cache : cache' = Without(i)
    /\ UNCHANGED <<svc, req, netVars, active, pool, lifeVars, countVars>>

-----------------------------------------------------------------------------
\* The body limit and the proxy.

\* (Mutant: the body limit stands outside the metrics.)
Refuse_Outside(s) ==
    /\ At(s, "ready")
    /\ Refused(svc, req[s].in)
    /\ req' = [req EXCEPT ![s] = LogStatus([@ EXCEPT !.at = "refused", !.meant = 413], 413)]
    /\ UNCHANGED <<svc, netVars, cache, active, pool, lifeVars, countVars>>

Refuse(s) ==
    /\ At(s, "ready")
    /\ Refused(svc, req[s].in)
    /\ req' = [req EXCEPT ![s] = WriteHeader([@ EXCEPT !.at = "refused", !.meant = 413], 413)]
    /\ UNCHANGED <<svc, netVars, cache, active, pool, lifeVars, countVars>>

\* httpHandler.ServeHTTP counts the request, rewrites its headers and sends it.
Forwards(s) ==
    /\ At(s, "ready")
    /\ ~Refused(svc, req[s].in)
    /\ active' = active + 1
    /\ req' = [req EXCEPT ![s] = [@ EXCEPT !.at = "sent", !.chain = ForwardedFor(req[s].in),
                                           !.real = RealIP(req[s].in)]]
    /\ UNCHANGED <<svc, netVars, cache, pool, lifeVars, countVars>>

\* The response for slot s gets a status; it goes on at p.
Respond(s, c, p) ==
    req' = [req EXCEPT ![s] = WriteHeader([@ EXCEPT !.at = p, !.meant = c], c)]

\* The transport has read the whole body.
BodyPasses(s) ==
    /\ At(s, "sent") /\ req[s].body = "none"
    /\ req[s].in.size > 0 /\ Fits(svc, req[s].in)
    /\ req' = [req EXCEPT ![s] = [@ EXCEPT !.body = "whole"]]
    /\ UNCHANGED <<svc, netVars, cache, active, pool, lifeVars, countVars>>

\* MaxBytesReader stops the transport in the middle of a body.  The error reaches
\* createErrorHandler, which knows only timeouts from the rest: 502.  Nobody calls
\* maxBytesResponseWriter.Error, so no 413 follows.
BodyTooLong(s) ==
    /\ At(s, "sent") /\ req[s].body = "none"
    /\ ~Fits(svc, req[s].in)
    /\ req' = [req EXCEPT ![s] = WriteHeader(
                 [@ EXCEPT !.at = "returning", !.body = "part", !.meant = 502], 502)]
    /\ UNCHANGED <<svc, netVars, cache, active, pool, lifeVars, countVars>>

\* The backend sends an informational response, which ReverseProxy hands on.
\* Bound: 100 alone, once, and if the client expects it.
Informs(s) ==
    /\ At(s, "sent") /\ req[s].in.expects /\ ~req[s].informed
    /\ req' = [req EXCEPT ![s] = WriteHeader([@ EXCEPT !.informed = TRUE], 100)]
    /\ UNCHANGED <<svc, netVars, cache, active, pool, lifeVars, countVars>>

\* The backend answers: 404 stands for any status of its own.
Responds(s) ==
    /\ At(s, "sent")
    /\ Respond(s, 404, "copying")
    /\ UNCHANGED <<svc, netVars, cache, active, pool, lifeVars, countVars>>

\* It switches protocols: the proxy takes the connection over and writes the
\* response to it, past every wrapper.
Upgrades(s) ==
    /\ At(s, "sent") /\ req[s].in.upgrade
    /\ req' = [req EXCEPT ![s] = [@ EXCEPT !.at = "tunnel", !.upgraded = TRUE,
                                           !.meant = 101, !.sent = 101]]
    /\ UNCHANGED <<svc, netVars, cache, active, pool, lifeVars, countVars>>

\* No answer: refused, broken, too late, or the client gone.  502 stands for 504 too.
Fails(s) ==
    /\ At(s, "sent")
    /\ Respond(s, 502, "returning")
    /\ UNCHANGED <<svc, netVars, cache, active, pool, lifeVars, countVars>>

-----------------------------------------------------------------------------
\* The chain unwinds when the body is copied or the tunnel has ended: the proxy's
\* deferred decrement, the metrics, the access log.

One(b) == IF b THEN 1 ELSE 0

Returns(s) ==
    /\ req[s].at \in {"refused", "returning", "copying", "tunnel"}
    /\ active' = active - One(InProxy(req[s]))
    /\ total' = total + One(svc.metrics)
    /\ lines' = lines + One(isAccessLogEnabled(svc))
    /\ req' = [req EXCEPT ![s] = Finished([@ EXCEPT !.at = "done"])]
    /\ UNCHANGED <<svc, netVars, cache, pool, lifeVars, arrived>>

\* Copying fails and ReverseProxy panics with ErrAbortHandler.  The metrics
\* middleware recovers it, and the response ends as if it were complete; without
\* one it passes the access log by and net/http breaks the connection.
\* (Mutants: the decrement, or the counting, is not deferred.)
Breaks_NotDeferred(s) ==
    /\ At(s, "copying")
    /\ active' = active
    /\ total' = total + One(svc.metrics)
    /\ lines' = lines + One(svc.metrics /\ isAccessLogEnabled(svc))
    /\ req' = [req EXCEPT ![s] = Finished([@ EXCEPT !.at = IF svc.metrics THEN "done"
                                                                          ELSE "aborted"])]
    /\ UNCHANGED <<svc, netVars, cache, pool, lifeVars, arrived>>

Breaks_NotCounted(s) ==
    /\ At(s, "copying")
    /\ active' = active - 1
    /\ total' = total
    /\ lines' = lines + One(svc.metrics /\ isAccessLogEnabled(svc))
    /\ req' = [req EXCEPT ![s] = Finished([@ EXCEPT !.at = IF svc.metrics THEN "done"
                                                                          ELSE "aborted"])]
    /\ UNCHANGED <<svc, netVars, cache, pool, lifeVars, arrived>>

Breaks(s) ==
    /\ At(s, "copying")
    /\ active' = active - 1
    /\ total' = total + One(svc.metrics)
    /\ lines' = lines + One(svc.metrics /\ isAccessLogEnabled(svc))
    /\ req' = [req EXCEPT ![s] = Finished([@ EXCEPT !.at = IF svc.metrics THEN "done"
                                                                          ELSE "aborted"])]
    /\ UNCHANGED <<svc, netVars, cache, pool, lifeVars, arrived>>

-----------------------------------------------------------------------------
\* The handler's life.

\* (Mutant: an idle proxy is not worth a tick.)
collectMetrics_WhenBusy == pool' = IF active > 0 THEN active ELSE pool

collectMetrics == pool' = active

\* The collector's select: a tick, or the closed channel; when both are ready, any.
Tick ==
    /\ collector
    /\ collectMetrics
    /\ UNCHANGED <<svc, req, netVars, cache, active, lifeVars, countVars>>

CollectorEnds ==
    /\ collector /\ phase = "closed"
    /\ collector' = FALSE
    /\ UNCHANGED <<svc, req, netVars, cache, active, pool, phase, countVars>>

\* Service.Stop: Shutdown closes the listener and waits for the requests, but not for
\* connections that were taken over; then the handler is closed.
StopBegins ==
    /\ phase = "serving"
    /\ phase' = "stopping"
    /\ UNCHANGED <<svc, req, netVars, cache, active, pool, collector, countVars>>

CloseHandler ==
    /\ phase = "stopping"
    /\ \A s \in Slots : InProgress(req[s]) => req[s].upgraded
    /\ phase' = "closed"
    /\ UNCHANGED <<svc, req, netVars, cache, active, pool, collector, countVars>>

-----------------------------------------------------------------------------
Lookup(s) ==
    CacheHits(s) \/ CacheMisses(s) \/ Answered(s) \/ Retries(s) \/ GivesUp(s) \/ Stores(s)

Proxying(s) ==
    \/ Refuse(s) \/ Forwards(s) \/ BodyPasses(s) \/ BodyTooLong(s) \/ Informs(s)
    \/ Responds(s) \/ Upgrades(s) \/ Fails(s) \/ Returns(s) \/ Breaks(s)

Next ==
    \/ \E s \in Slots : Arrives(s) \/ Lookup(s) \/ Proxying(s)
    \/ AddressMoves \/ EntryExpires
    \/ Tick \/ CollectorEnds \/ StopBegins \/ CloseHandler

\* Every attempt has a timeout, the ticker ticks; backends and clients owe nothing.
Fairness == WF_vars(Tick) /\ \A s \in Slots : WF_vars(Lookup(s))

Spec == Init /\ [][Next]_vars /\ Fairness

-----------------------------------------------------------------------------
Codes == {0, 100, 101, 200, 404, 413, 502}

RequestType ==
    [at : {"idle", "cache", "whois", "answered", "ready", "refused", "sent", "copying",
           "tunnel", "returning", "done", "aborted"},
     in : Inputs \cup {None}, id : Users \cup {None, Forged}, user : Users \cup {None},
     tries : 0 .. MaxTries, chain : Seq(Addrs), real : Addrs \cup {None},
     body : {"none", "part", "whole"}, code : Codes, wrote : BOOLEAN, log : Codes,
     sent : Codes, meant : Codes, informed : BOOLEAN, upgraded : BOOLEAN]

\* Type: the variables keep their types.  The cache holds at most CacheSize entries,
\* no two for one address.
TypeOK ==
    /\ svc \in Services
    /\ req \in [Slots -> RequestType]
    /\ holder \in [Addrs -> Users] /\ ever \in [Addrs -> SUBSET Users]
    /\ moves \in 0 .. MaxMoves
    /\ cache \in Seq([addr : Addrs, user : Users]) /\ Len(cache) <= CacheSize
    /\ \A i, j \in DOMAIN cache : cache[i].addr = cache[j].addr => i = j
    /\ active \in 0 .. Cardinality(Slots) /\ pool \in 0 .. Cardinality(Slots)
    /\ phase \in {"serving", "stopping", "closed"} /\ collector \in BOOLEAN
    /\ arrived \in 0 .. MaxRequests
    /\ total \in 0 .. MaxRequests /\ lines \in 0 .. MaxRequests

\* Identity: a request that reaches the backend under a user's name comes from an
\* address that user's node has had, and whois is enabled: neither a header the
\* client sent nor another address's cache entry gets through (whois.go,
\* strip_tailscale_headers.go).
IdentityVouchedFor ==
    \A s \in Slots :
        req[s].chain # <<>> /\ req[s].id # None =>
            svc.whois /\ req[s].id \in ever[req[s].in.addr]

\* Client address: in the X-Forwarded-For the backend gets, whoever added the last
\* element is trusted if there is anything before it, and X-Real-IP is the first
\* element (createProxyRewrite).
ChainVouchedFor ==
    \A s \in Slots :
        LET r == req[s] IN
        r.chain # <<>> =>
            /\ r.real = Head(r.chain)
            /\ r.chain[Len(r.chain)] = r.in.addr
            /\ Len(r.chain) > 1 => r.in.funnel # None \/ r.in.addr \in Trusted

\* Status: unless informational responses pass through the metrics wrapper, or the
\* connection is taken over, the client gets the status the proxy or the body limit gave,
\* and it is the one that is counted and logged (metrics.go, accesslog.go).  Which status a
\* body found too long while it is read should get is left open: the comments at
\* bodylimit.go:38 and :64 mean a 413, the proxy gives 502.
StatusFaithful ==
    \A s \in Slots :
        LET r == req[s] IN
        /\ r.at \in {"done", "aborted"}
        /\ ~r.upgraded /\ ~(svc.metrics /\ r.informed)
        => /\ r.body # "part" => r.sent = r.meant
           /\ svc.metrics => r.code = r.sent
           /\ r.log = r.sent

\* Limit: a body longer than the limit never reaches the backend whole, one that is not is
\* never cut and never refused, and a negative limit is none (bodylimit.go:12, service.go:391).
\* A limit of zero is left open: service.go:394 has it for a limit, CreateHandler for none.
LimitIsExact ==
    \A s \in Slots :
        LET r == req[s]
            limit == getMaxRequestBodySize(svc)
            tooLong == limit > 0 /\ r.in.size > limit
        IN  limit # 0 /\ (InProgress(r) \/ r.at = "done") =>
                /\ r.body = "whole" => ~tooLong
                /\ r.body = "part" \/ r.sent = 413 => tooLong
                /\ r.in.declared /\ tooLong => r.chain = <<>>

\* Accounting: every request that has ended is in RequestsTotal once, and has a line
\* in the access log unless its connection was broken (metrics.go:262, accesslog.go:60).
Accounted ==
    LET ended == arrived - Cardinality({s \in Slots : InProgress(req[s])}) IN
    /\ svc.metrics => total = ended
    /\ svc.metrics /\ isAccessLogEnabled(svc) => lines = ended

\* Gauge: activeRequests is the number of requests in the proxy, whichever way the
\* others left it (proxy.go:138).
ActiveCounts == active = Cardinality({s \in Slots : InProxy(req[s])})

\* How many steps a request has before it at most.
StepsLeft(r) ==
    CASE r.at \in {"idle", "done", "aborted"} -> 0
      [] r.at \in {"refused", "copying", "tunnel", "returning"} -> 1
      [] r.at = "sent" -> 2 + One(r.body = "none") + One(~r.informed)
      [] r.at = "ready" -> 5
      [] r.at = "answered" -> 6
      [] r.at = "whois" -> 7 + MaxTries - r.tries
      [] r.at = "cache" -> 7 + MaxTries

\* Progress: every step of a request brings it nearer to the end of the chain; none repeats
\* a handler, and none touches a request of somebody else (whois.go, performWhoisWithRetryLogic;
\* proxy.go; metrics.go).
RequestAdvances ==
    [][\A s \in Slots :
          /\ InProgress(req[s]) /\ req'[s] # req[s] => StepsLeft(req'[s]) < StepsLeft(req[s])
          /\ req'[s] # req[s] => \A q \in Slots \ {s} : req'[q] = req[q]]_vars

\* Stop: once Stop has closed the handler nothing is in the chain but connections that were
\* taken over, which Shutdown does not wait for, and nothing enters it again (service.go,
\* Stop; proxy.go, Close).
OnlyTunnelsOutlive ==
    phase = "closed" => \A s \in Slots : InProgress(req[s]) => req[s].at = "tunnel"

\* Lookups end: however the daemon behaves, a request gets past whois.
WhoisEnds == \A s \in Slots : LookingUp(req[s]) ~> ~LookingUp(req[s])

\* Gauge: once the proxy of a service that is not stopped stays idle, the connection
\* pool gauge goes back to zero (proxy.go:359).
GaugeSettles == <>[](phase = "serving" /\ active = 0) => <>[](pool = 0)

\* docs/metrics.md: tsbridge_requests_total is labelled with "status (HTTP status
\* code)", and metrics.go:216 has the wrapper there "to capture status code": what is
\* counted for a proxied request is the status its client got.
CountedAsSent ==
    \A s \in Slots :
        svc.metrics /\ req[s].at = "done" /\ ~req[s].upgraded => req[s].code = req[s].sent

=============================================================================
