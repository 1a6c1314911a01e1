---------------------------- MODULE RequestProofs ----------------------------
(***************************************************************************)
(* The safety properties of RequestPath, for any number of requests at once, *)
(* any addresses and users, any settings and any requests of clients.        *)
(*                                                                         *)
(* Each property speaks of one moment of a request's way or of the sum of all *)
(* requests; the invariant says of each step of the way what the request has *)
(* by then, and what the cache may hold.                                    *)
(***************************************************************************)
EXTENDS RequestPath, FiniteSetTheorems, SequenceTheorems, TLAPS

-----------------------------------------------------------------------------
(* The invariant *)

\* No status has passed the wrappers.
Silent(r) == /\ r.sent = 0 /\ r.meant = 0 /\ r.code = 200 /\ r.log = 200
             /\ ~r.wrote /\ ~r.informed

\* The status that was meant has passed them all.
Settled(r, sv) == /\ r.sent = r.meant /\ r.sent # 0 /\ r.log = r.sent
                  /\ sv.metrics => r.code = r.sent

Before == {"idle", "cache", "whois", "answered", "ready"}
After == {"refused", "copying", "returning", "done", "aborted"}

\* Whom the request stands for; known are the users each address has had.
IdentityInv(r, sv, known) ==
    /\ r.at # "idle" => r.in \in Inputs
    /\ LookingUp(r) => sv.whois
    /\ r.at = "answered" => r.user \in known[r.in.addr]
    /\ r.id # None => sv.whois /\ r.in \in Inputs /\ r.id \in known[r.in.addr]

\* What the backend is told, and whether it is asked at all.
ChainInv(r, sv) ==
    /\ r.at \in Before \cup {"refused"} => r.chain = <<>>
    /\ r.at = "refused" => Refused(sv, r.in)
    /\ r.chain # <<>> => /\ r.in \in Inputs /\ ~Refused(sv, r.in)
                         /\ r.chain = ForwardedFor(r.in) /\ r.real = RealIP(r.in)
    /\ r.sent = 413 => Refused(sv, r.in)
    /\ r.body = "whole" => Fits(sv, r.in)
    /\ r.body = "part" => ~Fits(sv, r.in)
    /\ r.at \in Before => r.body = "none"

\* How far the response is.
StatusInv(r, sv) ==
    /\ r.at \in Before => Silent(r) /\ ~r.upgraded
    /\ r.at = "sent" => /\ ~r.upgraded /\ r.sent = 0
                        /\ r.wrote => sv.metrics /\ r.informed
                        /\ ~r.informed => Silent(r)
    /\ r.at = "tunnel" => r.upgraded
    /\ r.upgraded => r.at \in {"tunnel", "done"} /\ r.sent = 101
    /\ r.at \in After /\ ~r.upgraded /\ ~(sv.metrics /\ r.informed) => Settled(r, sv)

RequestInv(r, sv, known) ==
    IdentityInv(r, sv, known) /\ ChainInv(r, sv) /\ StatusInv(r, sv)

CacheInv(c, known) ==
    /\ c \in Seq([addr : Addrs, user : Users]) /\ Len(c) <= CacheSize
    /\ \A i, j \in DOMAIN c : c[i].addr = c[j].addr => i = j
    /\ \A i \in DOMAIN c : c[i].user \in known[c[i].addr]

Underway == {s \in Slots : InProgress(req[s])}
Proxied == {s \in Slots : InProxy(req[s])}

CountInv ==
    LET ended == arrived - Cardinality(Underway)
    IN /\ arrived \in 0 .. MaxRequests /\ total \in Nat /\ lines \in Nat
       /\ total <= ended /\ lines <= ended
       /\ svc.metrics => total = ended
       /\ svc.metrics /\ isAccessLogEnabled(svc) => lines = ended
       /\ active = Cardinality(Proxied)

NetInv ==
    /\ holder \in [Addrs -> Users] /\ ever \in [Addrs -> SUBSET Users]
    /\ moves \in 0 .. MaxMoves
    /\ \A a \in Addrs : holder[a] \in ever[a]

LifeInv ==
    /\ svc \in Services /\ pool \in 0 .. Cardinality(Slots)
    /\ phase \in {"serving", "stopping", "closed"} /\ collector \in BOOLEAN

IInv ==
    /\ req \in [Slots -> RequestType]
    /\ \A s \in Slots : RequestInv(req[s], svc, ever)
    /\ CacheInv(cache, ever)
    /\ CountInv /\ NetInv /\ LifeInv

-----------------------------------------------------------------------------
(* Counting *)

\* A set that changes by one slot at most.
LEMMA CountOne ==
    ASSUME NEW T \in SUBSET Slots, NEW U \in SUBSET Slots, NEW s \in Slots,
           \A q \in Slots \ {s} : q \in T <=> q \in U
    PROVE  /\ Cardinality(U) = Cardinality(T) + One(s \in U) - One(s \in T)
           /\ Cardinality(T) \in 0 .. Cardinality(Slots)
           /\ Cardinality(U) \in 0 .. Cardinality(Slots)
<1>1. IsFiniteSet(T) /\ IsFiniteSet(U) /\ IsFiniteSet(Slots)
      /\ Cardinality(T) <= Cardinality(Slots) /\ Cardinality(U) <= Cardinality(Slots)
  BY RequestAssumption, FS_Subset
<1>2. Cardinality(T) \in Nat /\ Cardinality(U) \in Nat /\ Cardinality(Slots) \in Nat
  BY <1>1, FS_CardinalityType
<1>3. CASE s \in T <=> s \in U
  <2>1. T = U
    BY <1>3
  <2> QED  BY <1>1, <1>2, <1>3, <2>1 DEF One
<1>4. CASE s \in T /\ s \notin U
  <2>1. U = T \ {s}
    BY <1>4
  <2>2. Cardinality(U) = Cardinality(T) - 1
    BY <1>1, <1>4, <2>1, FS_RemoveElement
  <2> QED  BY <1>1, <1>2, <1>4, <2>2 DEF One
<1>5. CASE s \notin T /\ s \in U
  <2>1. U = T \cup {s}
    BY <1>5
  <2>2. Cardinality(U) = Cardinality(T) + 1
    BY <1>1, <1>5, <2>1, FS_AddElement
  <2> QED  BY <1>1, <1>2, <1>5, <2>2 DEF One
<1> QED  BY <1>3, <1>4, <1>5

LEMMA CountsTyped ==
    /\ Cardinality(Slots) \in Nat
    /\ Cardinality(Underway) \in 0 .. Cardinality(Slots)
    /\ Cardinality(Proxied) \in 0 .. Cardinality(Slots)
BY RequestAssumption, FS_Subset, FS_CardinalityType DEF Underway, Proxied

-----------------------------------------------------------------------------
(* The cache *)

\* A function on 1 .. n is a sequence of length n.
LEMMA FunctionSeq ==
    ASSUME NEW S, NEW n \in Nat, NEW f \in [1 .. n -> S]
    PROVE  f \in Seq(S) /\ Len(f) = n /\ DOMAIN f = 1 .. n
<1>1. f \in Seq(S)
  BY SeqDef
<1>2. Len(f) \in Nat /\ DOMAIN f = 1 .. Len(f)
  BY <1>1, LenProperties
<1> QED  BY <1>1, <1>2

LEMMA WithoutKeeps ==
    ASSUME NEW known, CacheInv(cache, known), NEW i \in DOMAIN cache
    PROVE  /\ CacheInv(Without(i), known)
           /\ Len(Without(i)) = Len(cache) - 1
           /\ \A j \in DOMAIN Without(i) : Without(i)[j].addr # cache[i].addr
<1> DEFINE Entry == [addr : Addrs, user : Users]
           less == Without(i)
           at(j) == IF j < i THEN j ELSE j + 1
<1>1. cache \in Seq(Entry) /\ Len(cache) \in Nat /\ DOMAIN cache = 1 .. Len(cache) /\ i \in 1 .. Len(cache)
  BY DEF CacheInv
<1>2. /\ less \in Seq(Entry) /\ Len(less) = Len(cache) - 1
      /\ DOMAIN less = 1 .. Len(cache) - 1
      /\ \A j \in DOMAIN less : less[j] = cache[at(j)] /\ at(j) \in DOMAIN cache /\ at(j) # i
  <2>1. less = [j \in 1 .. Len(cache) - 1 |-> cache[at(j)]]
    BY DEF Without
  <2>2. \A j \in 1 .. Len(cache) - 1 : at(j) \in DOMAIN cache /\ at(j) # i
    BY <1>1
  <2>3. \A k \in DOMAIN cache : cache[k] \in Entry
    <3> HIDE DEF Entry
    <3> QED  BY <1>1, ElementOfSeq
  <2> HIDE DEF at, Entry
  <2>4. less \in [1 .. Len(cache) - 1 -> Entry]
    BY <2>1, <2>2, <2>3
  <2>5. less \in Seq(Entry) /\ Len(less) = Len(cache) - 1
    <3>1. Len(cache) - 1 \in Nat
      BY <1>1
    <3> HIDE DEF less
    <3> QED  BY <2>4, <3>1, FunctionSeq
  <2> QED  BY <2>1, <2>2, <2>5
<1>3. \A j, k \in DOMAIN less : at(j) = at(k) => j = k
  BY <1>1, <1>2
<1> HIDE DEF less, Entry
<1>4. \A j, k \in DOMAIN less : less[j].addr = less[k].addr => j = k
  BY <1>2, <1>3 DEF CacheInv
<1>5. \A j \in DOMAIN less : less[j].addr # cache[i].addr /\ less[j].user \in known[less[j].addr]
  BY <1>2 DEF CacheInv
<1>6. Len(less) <= CacheSize
  BY <1>1, <1>2, RequestAssumption DEF CacheInv
<1> QED  BY <1>2, <1>4, <1>5, <1>6 DEF CacheInv, less, Entry

LEMMA WithFirstKeeps ==
    ASSUME NEW known, CacheInv(cache, known), NEW e \in [addr : Addrs, user : Users],
           e.user \in known[e.addr]
    PROVE  CacheInv(WithFirst(e), known)
<1> DEFINE Entry == [addr : Addrs, user : Users]
           others == IF Entries(e.addr) = {} THEN cache
                     ELSE Without(CHOOSE i \in Entries(e.addr) : TRUE)
           kept == <<e>> \o others
           new == WithFirst(e)
<1>1. /\ CacheInv(others, known)
      /\ \A j \in DOMAIN others : others[j].addr # e.addr
  <2>1. CASE Entries(e.addr) = {}
    BY <2>1 DEF Entries
  <2>2. CASE Entries(e.addr) # {}
    <3>1. PICK i \in DOMAIN cache : i = (CHOOSE k \in Entries(e.addr) : TRUE) /\ cache[i].addr = e.addr
      BY <2>2 DEF Entries
    <3> QED  BY <2>2, <3>1, WithoutKeeps
  <2> QED  BY <2>1, <2>2
<1> HIDE DEF others
<1>2. others \in Seq(Entry) /\ Len(others) \in Nat /\ DOMAIN others = 1 .. Len(others)
      /\ <<e>> \in Seq(Entry) /\ Len(<<e>>) = 1 /\ <<e>>[1] = e
  BY <1>1 DEF CacheInv
<1>3. /\ kept \in Seq(Entry) /\ Len(kept) = Len(others) + 1
      /\ \A j \in 1 .. Len(kept) : kept[j] = IF j = 1 THEN e ELSE others[j - 1]
  <2>1. /\ kept \in Seq(Entry) /\ Len(kept) = 1 + Len(others)
        /\ \A j \in 1 .. 1 + Len(others) :
              kept[j] = IF j <= 1 THEN <<e>>[j] ELSE others[j - 1]
    BY <1>2, ConcatProperties
  <2> HIDE DEF kept
  <2> QED  BY <1>2, <2>1
<1> HIDE DEF kept
<1>4. /\ new \in Seq(Entry) /\ Len(new) <= CacheSize /\ Len(new) <= Len(kept)
      /\ \A j \in 1 .. Len(new) : new[j] = kept[j]
  <2>1. new = IF Len(kept) > CacheSize THEN SubSeq(kept, 1, CacheSize) ELSE kept
    BY DEF WithFirst, kept, others
  <2>2. CacheSize \in Nat \ {0} /\ Len(kept) \in Nat
    BY <1>2, <1>3, RequestAssumption
  <2>3. CASE Len(kept) > CacheSize
    <3>1. \A j \in 1 .. CacheSize : kept[j] \in Entry
      <4> HIDE DEF Entry
      <4> QED  BY <1>3, <2>2, <2>3, ElementOfSeq
    <3>2. /\ SubSeq(kept, 1, CacheSize) \in Seq(Entry)
          /\ Len(SubSeq(kept, 1, CacheSize)) = CacheSize
          /\ \A j \in 1 .. CacheSize : SubSeq(kept, 1, CacheSize)[j] = kept[j]
      BY <2>2, <3>1, SubSeqProperties
    <3> QED  BY <2>1, <2>2, <2>3, <3>2
  <2>4. CASE Len(kept) <= CacheSize
    BY <1>3, <2>1, <2>2, <2>4
  <2> QED  BY <2>2, <2>3, <2>4
<1> HIDE DEF new
<1>5. DOMAIN new = 1 .. Len(new) /\ Len(new) \in Nat /\ Len(kept) \in Nat
  BY <1>2, <1>3, <1>4
<1>6. \A j \in DOMAIN new : new[j] = IF j = 1 THEN e ELSE others[j - 1]
  BY <1>3, <1>4, <1>5
<1>7. \A j \in DOMAIN new : j # 1 => j - 1 \in DOMAIN others
  BY <1>2, <1>3, <1>4, <1>5
<1>8. \A j, k \in DOMAIN new : new[j].addr = new[k].addr => j = k
  BY <1>1, <1>5, <1>6, <1>7 DEF CacheInv
<1>9. \A j \in DOMAIN new : new[j].user \in known[new[j].addr]
  BY <1>1, <1>6, <1>7 DEF CacheInv
<1> QED  BY <1>4, <1>8, <1>9 DEF CacheInv, new, Entry

-----------------------------------------------------------------------------
(* What a step of one request has to show *)

LEMMA InputTyped ==
    ASSUME NEW in \in Inputs
    PROVE  /\ in.addr \in Addrs /\ in.claim \in Seq(Addrs) /\ in.funnel \in Addrs \cup {None}
           /\ in.size \in Nat /\ in.declared \in BOOLEAN
BY RequestAssumption

\* What the backend is told of where a request comes from.
LEMMA ChainTold ==
    ASSUME NEW in \in Inputs
    PROVE  LET chain == ForwardedFor(in)
           IN /\ chain \in Seq(Addrs) /\ chain # <<>>
              /\ RealIP(in) = Head(chain) /\ RealIP(in) \in Addrs
              /\ chain[Len(chain)] = in.addr
              /\ Len(chain) > 1 => in.funnel # None \/ in.addr \in Trusted
<1>1. in.addr \in Addrs /\ in.claim \in Seq(Addrs) /\ in.funnel \in Addrs \cup {None}
  BY InputTyped
<1>2. CASE in.funnel # None
  BY <1>1, <1>2 DEF ForwardedFor, RealIP
<1>3. CASE in.funnel = None /\ in.addr \in Trusted
  <2>1. CASE in.claim = <<>>
    BY <1>1, <1>3, <2>1 DEF ForwardedFor, RealIP, isTrustedProxy
  <2>2. CASE in.claim # <<>>
    <3>1. ForwardedFor(in) = Append(in.claim, in.addr) /\ RealIP(in) = Head(in.claim)
      BY <1>3, <2>2 DEF ForwardedFor, RealIP, isTrustedProxy
    <3>2. /\ Append(in.claim, in.addr) \in Seq(Addrs) /\ Append(in.claim, in.addr) # <<>>
          /\ Len(Append(in.claim, in.addr)) = Len(in.claim) + 1
          /\ \A i \in 1 .. Len(in.claim) : Append(in.claim, in.addr)[i] = in.claim[i]
          /\ Append(in.claim, in.addr)[Len(in.claim) + 1] = in.addr
      BY <1>1, AppendProperties
    <3>3. Len(in.claim) \in Nat \ {0} /\ Head(in.claim) = in.claim[1] /\ in.claim[1] \in Addrs
      BY <1>1, <2>2, EmptySeq, ElementOfSeq
    <3>4. Head(Append(in.claim, in.addr)) = in.claim[1]
      BY <3>2, <3>3
    <3> QED  BY <1>3, <3>1, <3>2, <3>3, <3>4
  <2> QED  BY <2>1, <2>2
<1>4. CASE in.funnel = None /\ in.addr \notin Trusted
  BY <1>1, <1>4 DEF ForwardedFor, RealIP, isTrustedProxy
<1> QED  BY <1>2, <1>3, <1>4

LEMMA LimitTyped ==
    ASSUME NEW sv \in Services
    PROVE  getMaxRequestBodySize(sv) \in Int
BY RequestAssumption DEF getMaxRequestBodySize

\* A response and what one more status makes of it: the fields no wrapper touches.
Untouched(w, r) ==
    /\ w.at = r.at /\ w.in = r.in /\ w.id = r.id /\ w.user = r.user
    /\ w.chain = r.chain /\ w.real = r.real /\ w.body = r.body
    /\ w.meant = r.meant /\ w.informed = r.informed /\ w.upgraded = r.upgraded

LEMMA Sent ==
    ASSUME NEW r \in RequestType, NEW c \in Codes
    PROVE  LET w == Send(r, c)
           IN /\ w \in RequestType /\ Untouched(w, r)
              /\ w.log = r.log /\ w.code = r.code /\ w.wrote = r.wrote
              /\ w.sent = IF Informational(c) \/ r.sent # 0 THEN r.sent ELSE c
<1> DEFINE set == [r EXCEPT !.sent = c]
<1>1. set \in RequestType /\ Untouched(set, r) /\ set.sent = c
      /\ set.log = r.log /\ set.code = r.code /\ set.wrote = r.wrote
  BY DEF RequestType, Untouched
<1> HIDE DEF set
<1>2. Send(r, c) = IF Informational(c) \/ r.sent # 0 THEN r ELSE set
  BY DEF Send, set
<1>3. Untouched(r, r)
  BY DEF Untouched
<1> QED  BY <1>1, <1>2, <1>3

LEMMA Logged ==
    ASSUME NEW r \in RequestType, NEW c \in Codes
    PROVE  LET w == LogStatus(r, c)
           IN /\ w \in RequestType /\ Untouched(w, r)
              /\ w.log = c /\ w.code = r.code /\ w.wrote = r.wrote
              /\ w.sent = IF Informational(c) \/ r.sent # 0 THEN r.sent ELSE c
<1> DEFINE set == [r EXCEPT !.log = c]
<1>1. set \in RequestType /\ Untouched(set, r) /\ set.log = c
      /\ set.sent = r.sent /\ set.code = r.code /\ set.wrote = r.wrote
  BY DEF RequestType, Untouched
<1>2. LogStatus(r, c) = Send(set, c)
  BY DEF LogStatus
<1> HIDE DEF set
<1> QED  BY <1>1, <1>2, Sent DEF Untouched

\* The status that reaches the client, and the one each wrapper has seen.
LEMMA Written ==
    ASSUME NEW r \in RequestType, NEW c \in Codes
    PROVE  LET w == WriteHeader(r, c)
           IN /\ w \in RequestType /\ Untouched(w, r)
              /\ svc.metrics => w.wrote
              /\ ~svc.metrics => w.wrote = r.wrote
              /\ svc.metrics /\ r.wrote => w = r
              /\ ~(svc.metrics /\ r.wrote) =>
                    /\ w.log = c
                    /\ w.sent = IF Informational(c) \/ r.sent # 0 THEN r.sent ELSE c
                    /\ w.code = IF svc.metrics THEN c ELSE r.code
<1> DEFINE set == [r EXCEPT !.code = c, !.wrote = TRUE]
<1>1. set \in RequestType /\ Untouched(set, r) /\ set.code = c /\ set.wrote
      /\ set.sent = r.sent /\ set.log = r.log
  BY DEF RequestType, Untouched
<1>2. WriteHeader(r, c) = IF svc.metrics THEN (IF r.wrote THEN r ELSE LogStatus(set, c))
                                         ELSE LogStatus(r, c)
  BY DEF WriteHeader, CountStatus
<1> HIDE DEF set
<1>3. CASE svc.metrics /\ r.wrote
  BY <1>2, <1>3 DEF Untouched
<1>4. CASE svc.metrics /\ ~r.wrote
  BY <1>1, <1>2, <1>4, Logged DEF Untouched
<1>5. CASE ~svc.metrics
  BY <1>2, <1>5, Logged
<1> QED  BY <1>3, <1>4, <1>5

LEMMA Completed ==
    ASSUME NEW r \in RequestType
    PROVE  LET w == Finished(r)
           IN /\ w \in RequestType /\ Untouched(w, r)
              /\ w.sent = IF r.sent # 0 THEN r.sent ELSE 200
              /\ w.log = r.log /\ w.code = r.code /\ w.wrote = r.wrote
<1>1. 200 \in Codes /\ ~Informational(200)
  BY DEF Codes, Informational
<1> QED  BY <1>1, Sent DEF Finished

LEMMA OneStep ==
    ASSUME IInv, NEW s \in Slots, NEW new \in RequestType, RequestInv(new, svc, ever),
           req' = [req EXCEPT ![s] = new],
           UNCHANGED <<svc, holder, ever, moves, pool, phase, collector>>,
           CacheInv(cache', ever),
           active' = active + One(InProxy(new)) - One(InProxy(req[s])),
           \/ /\ InProgress(req[s]) <=> InProgress(new)
              /\ UNCHANGED <<arrived, total, lines>>
           \/ /\ ~InProgress(req[s]) /\ InProgress(new)
              /\ arrived < MaxRequests /\ arrived' = arrived + 1
              /\ UNCHANGED <<total, lines>>
           \/ /\ InProgress(req[s]) /\ ~InProgress(new)
              /\ UNCHANGED arrived
              /\ total' = total + One(svc.metrics)
              /\ lines' \in {lines, lines + 1}
              /\ svc.metrics /\ isAccessLogEnabled(svc) => lines' = lines + 1
    PROVE  IInv'
<1>1. req' \in [Slots -> RequestType] /\ req'[s] = new
      /\ \A q \in Slots \ {s} : req'[q] = req[q]
  BY DEF IInv
<1>2. \A q \in Slots : RequestInv(req[q], svc, ever)'
  <2>1. \A q \in Slots : RequestInv(req'[q], svc, ever)
    BY <1>1 DEF IInv
  <2> QED  BY <2>1
<1>3. CacheInv(cache, ever)'
  OBVIOUS
<1>4. NetInv' /\ LifeInv'
  BY DEF IInv, NetInv, LifeInv
<1>5. /\ Cardinality(Proxied') = Cardinality(Proxied) + One(InProxy(new)) - One(InProxy(req[s]))
      /\ Cardinality(Proxied) \in Nat
  <2>1. /\ Proxied \in SUBSET Slots /\ Proxied' \in SUBSET Slots
        /\ \A q \in Slots \ {s} : q \in Proxied <=> q \in Proxied'
        /\ s \in Proxied <=> InProxy(req[s])
        /\ s \in Proxied' <=> InProxy(new)
    BY <1>1 DEF Proxied
  <2>2. Cardinality(Proxied') = Cardinality(Proxied) + One(s \in Proxied') - One(s \in Proxied)
        /\ Cardinality(Proxied) \in 0 .. Cardinality(Slots)
    BY <2>1, CountOne
  <2> QED  BY <2>1, <2>2, CountsTyped DEF One
<1>6. /\ Cardinality(Underway') =
             Cardinality(Underway) + One(InProgress(new)) - One(InProgress(req[s]))
      /\ Cardinality(Underway) \in Nat /\ Cardinality(Underway') \in Nat
  <2>1. /\ Underway \in SUBSET Slots /\ Underway' \in SUBSET Slots
        /\ \A q \in Slots \ {s} : q \in Underway <=> q \in Underway'
        /\ s \in Underway <=> InProgress(req[s])
        /\ s \in Underway' <=> InProgress(new)
    BY <1>1 DEF Underway
  <2>2. /\ Cardinality(Underway') = Cardinality(Underway) + One(s \in Underway') - One(s \in Underway)
        /\ Cardinality(Underway) \in 0 .. Cardinality(Slots)
        /\ Cardinality(Underway') \in 0 .. Cardinality(Slots)
    BY <2>1, CountOne
  <2> QED  BY <2>1, <2>2, CountsTyped DEF One
<1>7. CountInv'
  <2> DEFINE was == Cardinality(Underway)
             now == Cardinality(Underway')
             busy == Cardinality(Proxied)
  <2>1. /\ arrived \in 0 .. MaxRequests /\ total \in Nat /\ lines \in Nat
        /\ total <= arrived - was /\ lines <= arrived - was
        /\ svc.metrics => total = arrived - was
        /\ svc.metrics /\ isAccessLogEnabled(svc) => lines = arrived - was
        /\ active = busy
    BY DEF IInv, CountInv
  <2>2. active' = Cardinality(Proxied')
    BY <1>5, <2>1
  <2>3. /\ now = was + One(InProgress(new)) - One(InProgress(req[s]))
        /\ was \in Nat /\ now \in Nat /\ MaxRequests \in Nat
    BY <1>6, RequestAssumption
  <2> HIDE DEF was, now, busy
  <2>4. /\ arrived' \in 0 .. MaxRequests /\ total' \in Nat /\ lines' \in Nat
        /\ total' <= arrived' - now /\ lines' <= arrived' - now
        /\ svc.metrics => total' = arrived' - now
        /\ svc.metrics /\ isAccessLogEnabled(svc) => lines' = arrived' - now
    BY <2>1, <2>3 DEF One
  <2>5. now = Cardinality(Underway)'
    BY DEF now
  <2>6. isAccessLogEnabled(svc)' = isAccessLogEnabled(svc)
    OBVIOUS
  <2> QED  BY <2>2, <2>4, <2>5, <2>6 DEF CountInv
<1> QED  BY <1>1, <1>2, <1>3, <1>4, <1>7 DEF IInv

-----------------------------------------------------------------------------
(* Initially *)

LEMMA NothingYet ==
    /\ NoRequest \in RequestType /\ NoRequest.at = "idle"
    /\ NoRequest.in = None /\ NoRequest.id = None /\ NoRequest.user = None
    /\ NoRequest.chain = <<>> /\ NoRequest.body = "none"
    /\ Silent(NoRequest) /\ ~NoRequest.upgraded
<1>1. NoRequest.chain \in Seq(Addrs)
  BY DEF NoRequest
<1>2. 0 \in 0 .. MaxTries
  BY RequestAssumption
<1> QED  BY <1>1, <1>2 DEF NoRequest, RequestType, Codes, Silent

LEMMA InitIInv == Init => IInv
<1> SUFFICES ASSUME Init PROVE IInv
  OBVIOUS
<1>1. req \in [Slots -> RequestType] /\ \A s \in Slots : req[s] = NoRequest
  BY NothingYet DEF Init
<1>2. RequestInv(NoRequest, svc, ever)
  BY NothingYet DEF RequestInv, IdentityInv, ChainInv, StatusInv, LookingUp, Before, After, Silent
<1>3. CacheInv(cache, ever)
  BY RequestAssumption, EmptySeq DEF Init, CacheInv
<1>4. Underway = {} /\ Proxied = {}
  BY <1>1, NothingYet DEF Underway, Proxied, InProgress, InProxy
<1>5. CountInv
  BY <1>4, FS_EmptySet, RequestAssumption DEF CountInv, Init
<1>6. NetInv
  <2>1. holder \in [Addrs -> Users] /\ ever = [a \in Addrs |-> {holder[a]}] /\ moves = 0
    BY RequestAssumption DEF Init
  <2> QED  BY <2>1, RequestAssumption DEF NetInv
<1>7. LifeInv
  <2>1. svc \in Services /\ svc.metrics \in BOOLEAN /\ collector = svc.metrics
    BY RequestAssumption DEF Init
  <2>2. pool \in 0 .. Cardinality(Slots)
    BY CountsTyped DEF Init
  <2> QED  BY <2>1, <2>2 DEF LifeInv, Init
<1> QED  BY <1>1, <1>2, <1>3, <1>5, <1>6, <1>7 DEF IInv

-----------------------------------------------------------------------------
(* The steps of a request *)

SameWho(w, r) == w.in = r.in /\ w.id = r.id /\ w.user = r.user
SameChain(w, r) == w.chain = r.chain /\ w.real = r.real /\ w.body = r.body
SameStatus(w, r) == /\ w.sent = r.sent /\ w.meant = r.meant /\ w.code = r.code /\ w.log = r.log
                    /\ w.wrote = r.wrote /\ w.informed = r.informed /\ w.upgraded = r.upgraded

\* What is known of a request on its way.
LEMMA OnItsWay ==
    ASSUME IInv, NEW s \in Slots
    PROVE  /\ req[s] \in RequestType /\ RequestInv(req[s], svc, ever) /\ svc \in Services
           /\ CacheInv(cache, ever)
           /\ req[s].at # "idle" => /\ req[s].in \in Inputs
                                    /\ req[s].in.addr \in Addrs
                                    /\ holder[req[s].in.addr] \in ever[req[s].in.addr] \cap Users
<1>1. req[s] \in RequestType /\ RequestInv(req[s], svc, ever) /\ svc \in Services
      /\ CacheInv(cache, ever)
  BY DEF IInv, LifeInv
<1>2. req[s].at # "idle" => req[s].in \in Inputs /\ req[s].in.addr \in Addrs
  BY <1>1, InputTyped DEF RequestInv, IdentityInv
<1> QED  BY <1>1, <1>2 DEF IInv, NetInv

LEMMA ArrivesStep ==
    ASSUME IInv, NEW s \in Slots, Arrives(s)
    PROVE  IInv'
<1>1. PICK in \in Inputs :
          req' = [req EXCEPT ![s] = [NoRequest EXCEPT
                    !.at = IF svc.whois THEN "cache" ELSE "ready",
                    !.in = in, !.id = StripTailscaleHeaders(in)]]
  BY Zenon DEF Arrives
<1> DEFINE new == [NoRequest EXCEPT !.at = IF svc.whois THEN "cache" ELSE "ready",
                                    !.in = in, !.id = StripTailscaleHeaders(in)]
<1>2. /\ new \in RequestType /\ new.at = IF svc.whois THEN "cache" ELSE "ready"
      /\ new.in = in /\ new.id = None /\ SameChain(new, NoRequest) /\ SameStatus(new, NoRequest)
  BY NothingYet DEF RequestType, SameChain, SameStatus, StripTailscaleHeaders
<1> HIDE DEF new
<1>3. RequestInv(new, svc, ever)
  BY <1>2, NothingYet DEF RequestInv, IdentityInv, ChainInv, StatusInv, LookingUp, Before, After,
                          Silent, SameChain, SameStatus
<1>4. /\ ~InProxy(new) /\ InProgress(new)
      /\ ~InProgress(req[s]) /\ ~InProxy(req[s])
      /\ arrived < MaxRequests /\ arrived' = arrived + 1
  BY <1>2 DEF Arrives, InProxy, InProgress
<1>5. /\ req' = [req EXCEPT ![s] = new]
      /\ UNCHANGED <<svc, holder, ever, moves, cache, active, pool, phase, collector, total, lines>>
  BY <1>1 DEF Arrives, new, netVars, lifeVars
<1>6. CacheInv(cache', ever)
  BY <1>5 DEF IInv
<1>7. active' = active + One(InProxy(new)) - One(InProxy(req[s]))
  BY <1>4, <1>5, CountsTyped DEF One, IInv, CountInv
<1> QED  BY <1>2, <1>3, <1>4, <1>5, <1>6, <1>7, OneStep

\* A step of a request that counts nothing and stays on the same side of the proxy.
LEMMA QuietStep ==
    ASSUME IInv, NEW s \in Slots, NEW new \in RequestType, RequestInv(new, svc, ever),
           req' = [req EXCEPT ![s] = new],
           CacheInv(cache', ever),
           InProgress(req[s]), InProgress(new), InProxy(req[s]) <=> InProxy(new),
           UNCHANGED <<svc, netVars, active, pool, lifeVars, countVars>>
    PROVE  IInv'
<1>1. UNCHANGED <<svc, holder, ever, moves, pool, phase, collector, active, arrived, total, lines>>
  BY DEF netVars, lifeVars, countVars
<1>2. active' = active + One(InProxy(new)) - One(InProxy(req[s]))
  BY <1>1, CountsTyped DEF One, IInv, CountInv
<1> QED  BY <1>1, <1>2, OneStep

LEMMA LookupStep ==
    ASSUME IInv, NEW s \in Slots, Lookup(s)
    PROVE  IInv'
<1> DEFINE r == req[s]
<1>0. /\ r \in RequestType /\ RequestInv(r, svc, ever) /\ CacheInv(cache, ever)
      /\ r.at # "idle" => r.in \in Inputs /\ r.in.addr \in Addrs
                          /\ holder[r.in.addr] \in ever[r.in.addr] \cap Users
  BY OnItsWay
<1> USE DEF At
\* A request that is looked up has nothing but itself.
<1>1. ASSUME NEW new \in RequestType, new.in = r.in, SameChain(new, r), SameStatus(new, r),
             r.at \in {"cache", "whois", "answered"},
             new.at \in {"whois", "answered", "ready"},
             new.at = "answered" => new.user \in ever[r.in.addr],
             new.id # None => new.id \in ever[r.in.addr],
             req' = [req EXCEPT ![s] = new], CacheInv(cache', ever),
             UNCHANGED <<svc, netVars, active, pool, lifeVars, countVars>>
      PROVE  IInv'
  <2>1. RequestInv(new, svc, ever)
    BY <1>0, <1>1 DEF RequestInv, IdentityInv, ChainInv, StatusInv, LookingUp, Before, After,
                      Silent, SameChain, SameStatus
  <2>2. InProgress(r) /\ InProgress(new) /\ ~InProxy(r) /\ ~InProxy(new)
    BY <1>1 DEF InProgress, InProxy
  <2> HIDE DEF r
  <2>3. req[s] = r
    BY DEF r
  <2> QED  BY <1>1, <2>1, <2>2, <2>3, QuietStep
<1>2. ASSUME NEW u \in Users, u \in ever[r.in.addr], Identified(s, u),
             r.at \in {"cache", "answered"}, CacheInv(cache', ever),
             UNCHANGED <<svc, netVars, active, pool, lifeVars, countVars>>
      PROVE  IInv'
  <2> DEFINE new == [r EXCEPT !.at = "ready", !.id = u, !.user = None, !.tries = 0]
  <2>1. 0 \in 0 .. MaxTries
    BY RequestAssumption
  <2>2. /\ new \in RequestType /\ new.at = "ready" /\ new.in = r.in /\ new.id = u
        /\ SameChain(new, r) /\ SameStatus(new, r)
    BY <1>0, <2>1 DEF RequestType, SameChain, SameStatus
  <2>3. req' = [req EXCEPT ![s] = new]
    BY <1>2 DEF Identified
  <2> HIDE DEF new
  <2> QED  BY <1>1, <1>2, <2>2, <2>3
<1>3. CASE CacheHits(s)
  <2>1. PICK i \in Entries(r.in.addr) : Identified(s, cache[i].user) /\ cache' = WithFirst(cache[i])
    BY <1>3 DEF CacheHits
  <2>2. /\ i \in DOMAIN cache /\ cache[i].addr = r.in.addr
        /\ cache[i] \in [addr : Addrs, user : Users] /\ cache[i].user \in ever[cache[i].addr]
    <3>1. i \in DOMAIN cache /\ cache[i].addr = r.in.addr
      BY DEF Entries
    <3>2. \A j \in DOMAIN cache : cache[j] \in [addr : Addrs, user : Users]
      <4> DEFINE Entry == [addr : Addrs, user : Users]
      <4>1. cache \in Seq(Entry)
        BY <1>0 DEF CacheInv
      <4> HIDE DEF Entry
      <4>2. \A j \in DOMAIN cache : cache[j] \in Entry
        BY <4>1, LenProperties, ElementOfSeq
      <4> QED  BY <4>2 DEF Entry
    <3> QED  BY <1>0, <3>1, <3>2 DEF CacheInv
  <2>3. CacheInv(cache', ever)
    BY <1>0, <2>1, <2>2, WithFirstKeeps
  <2>4. cache[i].user \in Users /\ cache[i].user \in ever[r.in.addr]
    BY <2>2
  <2>5. r.at = "cache" /\ UNCHANGED <<svc, netVars, active, pool, lifeVars, countVars>>
    BY <1>3 DEF CacheHits
  <2> QED  BY <1>2, <2>1, <2>3, <2>4, <2>5
<1>4. CASE CacheMisses(s)
  <2> DEFINE new == [r EXCEPT !.at = "whois", !.tries = 1]
  <2>1. 1 \in 0 .. MaxTries
    BY RequestAssumption
  <2>2. /\ new \in RequestType /\ new.at = "whois" /\ SameWho(new, r)
        /\ SameChain(new, r) /\ SameStatus(new, r)
    BY <1>0, <2>1 DEF RequestType, SameWho, SameChain, SameStatus
  <2>3. req' = [req EXCEPT ![s] = new] /\ r.at = "cache"
        /\ UNCHANGED <<svc, netVars, cache, active, pool, lifeVars, countVars>>
    BY <1>4 DEF CacheMisses
  <2> HIDE DEF new
  <2>4. new.id # None => new.id \in ever[r.in.addr]
    BY <1>0, <2>2 DEF SameWho, RequestInv, IdentityInv
  <2> QED  BY <1>0, <1>1, <2>2, <2>3, <2>4 DEF SameWho
<1>5. CASE Answered(s)
  <2> DEFINE new == [r EXCEPT !.at = "answered", !.user = holder[r.in.addr]]
  <2>0. r.at = "whois" /\ holder[r.in.addr] \in ever[r.in.addr] \cap Users
    BY <1>0, <1>5 DEF Answered
  <2>2. /\ new \in RequestType /\ new.at = "answered" /\ new.in = r.in /\ new.id = r.id
        /\ new.user = holder[r.in.addr] /\ SameChain(new, r) /\ SameStatus(new, r)
    BY <1>0, <2>0 DEF RequestType, SameChain, SameStatus
  <2>3. req' = [req EXCEPT ![s] = new]
        /\ UNCHANGED <<svc, netVars, cache, active, pool, lifeVars, countVars>>
    BY <1>5 DEF Answered
  <2> HIDE DEF new
  <2>4. new.id # None => new.id \in ever[r.in.addr]
    BY <1>0, <2>2 DEF RequestInv, IdentityInv
  <2> QED  BY <1>0, <1>1, <2>0, <2>2, <2>3, <2>4
<1>6. CASE Retries(s)
  <2> DEFINE new == [r EXCEPT !.tries = r.tries + 1]
  <2>0. r.at = "whois" /\ r.tries < MaxTries
    BY <1>6 DEF Retries
  <2>1. r.tries + 1 \in 0 .. MaxTries
    <3>1. MaxTries \in Nat /\ r.tries \in 0 .. MaxTries
      BY <1>0, RequestAssumption DEF RequestType
    <3> QED  BY <2>0, <3>1
  <2>2. /\ new \in RequestType /\ new.at = "whois" /\ SameWho(new, r)
        /\ SameChain(new, r) /\ SameStatus(new, r)
    BY <1>0, <2>0, <2>1 DEF RequestType, SameWho, SameChain, SameStatus
  <2>3. req' = [req EXCEPT ![s] = new]
        /\ UNCHANGED <<svc, netVars, cache, active, pool, lifeVars, countVars>>
    BY <1>6 DEF Retries
  <2> HIDE DEF new
  <2>4. new.id # None => new.id \in ever[r.in.addr]
    BY <1>0, <2>2 DEF SameWho, RequestInv, IdentityInv
  <2> QED  BY <1>0, <1>1, <2>0, <2>2, <2>3, <2>4 DEF SameWho
<1>7. CASE GivesUp(s)
  <2> DEFINE new == [r EXCEPT !.at = "ready", !.tries = 0]
  <2>1. 0 \in 0 .. MaxTries
    BY RequestAssumption
  <2>2. /\ new \in RequestType /\ new.at = "ready" /\ SameWho(new, r)
        /\ SameChain(new, r) /\ SameStatus(new, r)
    BY <1>0, <2>1 DEF RequestType, SameWho, SameChain, SameStatus
  <2>3. req' = [req EXCEPT ![s] = new] /\ r.at = "whois"
        /\ UNCHANGED <<svc, netVars, cache, active, pool, lifeVars, countVars>>
    BY <1>7 DEF GivesUp, Unidentified
  <2> HIDE DEF new
  <2>4. new.id # None => new.id \in ever[r.in.addr]
    BY <1>0, <2>2 DEF SameWho, RequestInv, IdentityInv
  <2> QED  BY <1>0, <1>1, <2>2, <2>3, <2>4 DEF SameWho
<1>8. CASE Stores(s)
  <2>1. r.at = "answered" /\ r.user \in ever[r.in.addr] /\ r.in.addr \in Addrs
    BY <1>0, <1>8 DEF Stores, RequestInv, IdentityInv
  <2>2. r.user \in Users
    BY <2>1 DEF IInv, NetInv
  <2>3. CacheInv(WithFirst([addr |-> r.in.addr, user |-> r.user]), ever)
    BY <1>0, <2>1, <2>2, WithFirstKeeps
  <2>4. /\ cache' = WithFirst([addr |-> r.in.addr, user |-> r.user]) /\ Identified(s, r.user)
        /\ UNCHANGED <<svc, netVars, active, pool, lifeVars, countVars>>
    BY <1>8 DEF Stores
  <2> QED  BY <1>2, <2>1, <2>2, <2>3, <2>4
<1> QED  BY <1>3, <1>4, <1>5, <1>6, <1>7, <1>8 DEF Lookup

\* Codes the proxy and the body limit give.
LEMMA CodesGiven ==
    /\ 100 \in Codes /\ 101 \in Codes /\ 404 \in Codes /\ 413 \in Codes /\ 502 \in Codes
    /\ Informational(100)
    /\ ~Informational(404) /\ ~Informational(413) /\ ~Informational(502)
BY DEF Codes, Informational

\* A request for which a status is meant, one whose body is cut as well, and one whose
\* connection is taken over.
Mark(r, p, c) == [r EXCEPT !.at = p, !.meant = c]
CutOff(r, c) == [r EXCEPT !.at = "returning", !.body = "part", !.meant = c]
TakeOver(r, c) == [r EXCEPT !.at = "tunnel", !.upgraded = TRUE, !.meant = c, !.sent = c]

SameResponse(w, r) == /\ w.sent = r.sent /\ w.code = r.code /\ w.log = r.log
                      /\ w.wrote = r.wrote /\ w.informed = r.informed /\ w.upgraded = r.upgraded

LEMMA Marked ==
    ASSUME NEW r \in RequestType, NEW c \in Codes,
           NEW p \in {"refused", "copying", "returning"}
    PROVE  /\ Mark(r, p, c) \in RequestType
           /\ Mark(r, p, c).meant = c /\ Mark(r, p, c).at = p
           /\ SameWho(Mark(r, p, c), r) /\ SameChain(Mark(r, p, c), r)
           /\ SameResponse(Mark(r, p, c), r)
BY DEF Mark, RequestType, SameWho, SameChain, SameResponse

LEMMA Cut ==
    ASSUME NEW r \in RequestType, NEW c \in Codes
    PROVE  LET mid == CutOff(r, c)
           IN /\ mid \in RequestType /\ mid.meant = c /\ mid.at = "returning" /\ SameWho(mid, r)
              /\ mid.chain = r.chain /\ mid.real = r.real /\ mid.body = "part"
              /\ SameResponse(mid, r)
BY DEF CutOff, RequestType, SameWho, SameResponse

LEMMA TakenOver ==
    ASSUME NEW r \in RequestType, NEW c \in Codes
    PROVE  LET new == TakeOver(r, c)
           IN /\ new \in RequestType /\ new.at = "tunnel" /\ SameWho(new, r) /\ SameChain(new, r)
              /\ new.upgraded /\ new.sent = c
<1> DEFINE half == [r EXCEPT !.at = "tunnel", !.upgraded = TRUE]
           whole == [half EXCEPT !.meant = c, !.sent = c]
<1>1. /\ half \in RequestType /\ half.at = "tunnel" /\ half.upgraded
      /\ SameWho(half, r) /\ SameChain(half, r)
  BY DEF RequestType, SameWho, SameChain
<1>2. TakeOver(r, c) = whole
  BY DEF TakeOver, RequestType
<1> HIDE DEF half
<1>3. /\ whole \in RequestType /\ whole.at = half.at /\ whole.upgraded = half.upgraded
      /\ whole.sent = c /\ SameWho(whole, half) /\ SameChain(whole, half)
  BY <1>1 DEF RequestType, SameWho, SameChain
<1> HIDE DEF whole
<1> QED  BY <1>1, <1>2, <1>3 DEF SameWho, SameChain

\* What a first final status leaves behind, whoever gives it.
LEMMA Answers ==
    ASSUME NEW r \in RequestType, NEW c \in {404, 413, 502}, svc \in Services,
           r.at = "sent" \/ r.at = "ready", RequestInv(r, svc, ever),
           NEW mid \in RequestType, mid.meant = c, mid.at \in After, mid.in = r.in, mid.id = r.id,
           mid.chain = r.chain, mid.real = r.real, SameResponse(mid, r)
    PROVE  LET new == WriteHeader(mid, c)
           IN /\ new \in RequestType /\ Untouched(new, mid)
              /\ StatusInv(new, svc) /\ IdentityInv(new, svc, ever)
              /\ new.sent \in {0, c}
<1> DEFINE new == WriteHeader(mid, c)
<1>1. /\ new \in RequestType /\ Untouched(new, mid)
      /\ svc.metrics => new.wrote
      /\ ~svc.metrics => new.wrote = mid.wrote
      /\ svc.metrics /\ mid.wrote => new = mid
      /\ ~(svc.metrics /\ mid.wrote) =>
            /\ new.log = c
            /\ new.sent = IF mid.sent # 0 THEN mid.sent ELSE c
            /\ new.code = IF svc.metrics THEN c ELSE mid.code
  <2>1. c \in Codes /\ ~Informational(c)
    BY CodesGiven
  <2> QED  BY <2>1, Written
<1>2. /\ ~r.upgraded /\ r.sent = 0
      /\ r.wrote => svc.metrics /\ r.informed
      /\ mid.upgraded = r.upgraded /\ mid.sent = r.sent /\ mid.wrote = r.wrote
      /\ mid.informed = r.informed
  BY DEF RequestInv, StatusInv, Before, Silent, SameResponse
<1> HIDE DEF new
<1>3. StatusInv(new, svc)
  BY <1>1, <1>2 DEF Untouched, StatusInv, Settled, Before, After
<1>4. IdentityInv(new, svc, ever)
  BY <1>1 DEF Untouched, RequestInv, IdentityInv, LookingUp, After
<1>5. new.sent \in {0, c}
  BY <1>1, <1>2
<1> QED  BY <1>1, <1>3, <1>4, <1>5 DEF new

LEMMA RefuseStep ==
    ASSUME IInv, NEW s \in Slots, Refuse(s)
    PROVE  IInv'
<1> DEFINE r == req[s]
           mid == Mark(r, "refused", 413)
           new == WriteHeader(mid, 413)
<1>1. /\ r \in RequestType /\ RequestInv(r, svc, ever) /\ CacheInv(cache, ever) /\ svc \in Services
  BY OnItsWay
<1>2. /\ r.at = "ready" /\ Refused(svc, r.in) /\ req' = [req EXCEPT ![s] = new]
      /\ UNCHANGED <<svc, netVars, cache, active, pool, lifeVars, countVars>>
  BY DEF Refuse, At, Mark
<1>3. /\ mid \in RequestType /\ mid.at = "refused" /\ mid.meant = 413 /\ SameWho(mid, r)
      /\ SameChain(mid, r) /\ SameResponse(mid, r)
  <2> HIDE DEF r
  <2> QED  BY <1>1, CodesGiven, Marked
<1> HIDE DEF mid
<1>4. /\ new \in RequestType /\ Untouched(new, mid)
      /\ StatusInv(new, svc) /\ IdentityInv(new, svc, ever)
  BY <1>1, <1>2, <1>3, Answers DEF After, SameWho, SameChain
<1> HIDE DEF new
<1>5. ChainInv(new, svc)
  BY <1>1, <1>2, <1>3, <1>4 DEF Untouched, SameChain, SameWho, RequestInv, ChainInv, Before
<1>6. RequestInv(new, svc, ever) /\ CacheInv(cache', ever)
  BY <1>1, <1>2, <1>4, <1>5 DEF RequestInv
<1>7. InProgress(r) /\ InProgress(new) /\ ~InProxy(r) /\ ~InProxy(new)
  BY <1>2, <1>3, <1>4 DEF Untouched, InProgress, InProxy
<1> QED  BY <1>2, <1>4, <1>6, <1>7, QuietStep

LEMMA ForwardsStep ==
    ASSUME IInv, NEW s \in Slots, Forwards(s)
    PROVE  IInv'
<1> DEFINE r == req[s]
           new == [r EXCEPT !.at = "sent", !.chain = ForwardedFor(r.in), !.real = RealIP(r.in)]
<1>1. /\ r \in RequestType /\ RequestInv(r, svc, ever) /\ CacheInv(cache, ever) /\ svc \in Services
      /\ r.at # "idle" => r.in \in Inputs
  BY OnItsWay
<1>2. /\ r.at = "ready" /\ ~Refused(svc, r.in) /\ req' = [req EXCEPT ![s] = new]
      /\ active' = active + 1
      /\ UNCHANGED <<svc, netVars, cache, pool, lifeVars, countVars>>
  BY DEF Forwards, At
<1>3. ForwardedFor(r.in) \in Seq(Addrs) /\ RealIP(r.in) \in Addrs
  BY <1>1, <1>2, ChainTold
<1>4. /\ new \in RequestType /\ new.at = "sent" /\ SameWho(new, r) /\ SameStatus(new, r)
      /\ new.chain = ForwardedFor(r.in) /\ new.real = RealIP(r.in) /\ new.body = r.body
  BY <1>1, <1>3 DEF RequestType, SameWho, SameStatus
<1> HIDE DEF new
<1>5. RequestInv(new, svc, ever)
  BY <1>1, <1>2, <1>4 DEF RequestInv, IdentityInv, ChainInv, StatusInv, LookingUp, Before, After,
                          Silent, SameWho, SameStatus
<1>6. InProgress(r) /\ InProgress(new) /\ ~InProxy(r) /\ InProxy(new)
  BY <1>2, <1>4 DEF InProgress, InProxy
<1>7. active' = active + One(InProxy(new)) - One(InProxy(r))
  BY <1>2, <1>6, CountsTyped DEF One, IInv, CountInv
<1>8. UNCHANGED <<svc, holder, ever, moves, pool, phase, collector, arrived, total, lines>>
      /\ CacheInv(cache', ever)
  BY <1>1, <1>2 DEF netVars, lifeVars, countVars
<1> QED  BY <1>2, <1>4, <1>5, <1>6, <1>7, <1>8, OneStep

\* While the proxy waits for its backend.
LEMMA WaitingStep ==
    ASSUME IInv, NEW s \in Slots,
           BodyPasses(s) \/ BodyTooLong(s) \/ Informs(s) \/ Responds(s) \/ Upgrades(s) \/ Fails(s)
    PROVE  IInv'
<1> DEFINE r == req[s]
<1>1. /\ r \in RequestType /\ RequestInv(r, svc, ever) /\ CacheInv(cache, ever) /\ svc \in Services
      /\ r.at # "idle" => r.in \in Inputs
  BY OnItsWay
<1>2. /\ r.at = "sent"
      /\ UNCHANGED <<svc, netVars, cache, active, pool, lifeVars, countVars>>
  BY DEF BodyPasses, BodyTooLong, Informs, Responds, Upgrades, Fails, At
<1>3. ASSUME NEW new \in RequestType, RequestInv(new, svc, ever), req' = [req EXCEPT ![s] = new],
             new.at \in {"sent", "copying", "tunnel", "returning"}
      PROVE  IInv'
  <2>1. InProgress(r) /\ InProgress(new) /\ InProxy(r) /\ InProxy(new)
    BY <1>2, <1>3 DEF InProgress, InProxy
  <2>2. CacheInv(cache', ever)
    BY <1>1, <1>2
  <2> QED  BY <1>2, <1>3, <2>1, <2>2, QuietStep
<1>4. CASE BodyPasses(s)
  <2> DEFINE new == [r EXCEPT !.body = "whole"]
  <2>1. Fits(svc, r.in) /\ req' = [req EXCEPT ![s] = new]
    BY <1>4 DEF BodyPasses
  <2>2. /\ new \in RequestType /\ new.at = "sent" /\ SameWho(new, r) /\ SameStatus(new, r)
        /\ new.chain = r.chain /\ new.real = r.real /\ new.body = "whole"
    BY <1>1, <1>2 DEF RequestType, SameWho, SameStatus
  <2> HIDE DEF new
  <2>3. RequestInv(new, svc, ever)
    BY <1>1, <1>2, <2>1, <2>2 DEF RequestInv, IdentityInv, ChainInv, StatusInv, LookingUp, Before,
                                  After, Silent, SameWho, SameStatus
  <2> QED  BY <1>3, <2>1, <2>2, <2>3
\* The proxy gives a final status.
<1> DEFINE Final(mid, c) ==
        /\ mid.meant = c /\ mid.at \in {"copying", "returning"} /\ SameWho(mid, r)
        /\ mid.chain = r.chain /\ mid.real = r.real
        /\ mid.body = r.body \/ (mid.body = "part" /\ ~Fits(svc, r.in))
        /\ SameResponse(mid, r)
        /\ req' = [req EXCEPT ![s] = WriteHeader(mid, c)]
<1>5. ASSUME NEW c \in {404, 502}, NEW mid \in RequestType, Final(mid, c)
      PROVE  IInv'
  <2> DEFINE new == WriteHeader(mid, c)
  <2>1. /\ new \in RequestType /\ Untouched(new, mid)
        /\ StatusInv(new, svc) /\ IdentityInv(new, svc, ever) /\ new.sent \in {0, c}
    BY <1>1, <1>2, <1>5, Answers DEF After, SameWho
  <2> HIDE DEF new
  <2>2. ChainInv(new, svc)
    BY <1>1, <1>2, <1>5, <2>1 DEF Untouched, SameWho, RequestInv, ChainInv, Before
  <2>3. RequestInv(new, svc, ever) /\ new.at \in {"copying", "returning"}
    BY <1>5, <2>1, <2>2 DEF RequestInv, Untouched
  <2> QED  BY <1>3, <1>5, <2>1, <2>3 DEF new
<1>6. CASE BodyTooLong(s)
  <2> DEFINE mid == CutOff(r, 502)
  <2>1. ~Fits(svc, r.in) /\ req' = [req EXCEPT ![s] = WriteHeader(mid, 502)]
    BY <1>6 DEF BodyTooLong, CutOff
  <2>2. /\ mid \in RequestType /\ mid.meant = 502 /\ mid.at = "returning" /\ SameWho(mid, r)
        /\ mid.chain = r.chain /\ mid.real = r.real /\ mid.body = "part"
        /\ SameResponse(mid, r)
    <3> HIDE DEF r
    <3> QED  BY <1>1, CodesGiven, Cut
  <2> HIDE DEF mid
  <2>3. Final(mid, 502)
    BY <2>1, <2>2
  <2> HIDE DEF Final
  <2> QED  BY <1>5, <2>2, <2>3
<1>7. ASSUME NEW c \in {404, 502}, NEW p \in {"copying", "returning"}, Respond(s, c, p)
      PROVE  IInv'
  <2> DEFINE mid == Mark(r, p, c)
  <2>1. req' = [req EXCEPT ![s] = WriteHeader(mid, c)]
    BY <1>7 DEF Respond, Mark
  <2>2. /\ mid \in RequestType /\ mid.meant = c /\ mid.at = p /\ SameWho(mid, r)
        /\ mid.chain = r.chain /\ mid.real = r.real /\ mid.body = r.body
        /\ SameResponse(mid, r)
    <3>1. c \in Codes /\ p \in {"refused", "copying", "returning"}
      BY CodesGiven
    <3> HIDE DEF r
    <3> QED  BY <1>1, <3>1, Marked DEF SameChain
  <2> HIDE DEF mid
  <2>3. Final(mid, c)
    BY <2>1, <2>2
  <2> HIDE DEF Final
  <2> QED  BY <1>5, <2>2, <2>3
<1>8. CASE Responds(s) \/ Fails(s)
  BY <1>7, <1>8 DEF Responds, Fails
<1>9. CASE Informs(s)
  <2> DEFINE mid == [r EXCEPT !.informed = TRUE]
             new == WriteHeader(mid, 100)
  <2>1. req' = [req EXCEPT ![s] = new]
    BY <1>9 DEF Informs
  <2>2. /\ mid \in RequestType /\ mid.at = "sent" /\ SameWho(mid, r) /\ SameChain(mid, r)
        /\ mid.sent = r.sent /\ mid.meant = r.meant /\ mid.code = r.code /\ mid.log = r.log
        /\ mid.wrote = r.wrote /\ mid.informed /\ mid.upgraded = r.upgraded
    BY <1>1, <1>2 DEF RequestType, SameWho, SameChain
  <2> HIDE DEF mid
  <2>3. /\ new \in RequestType /\ Untouched(new, mid)
        /\ ~svc.metrics => new.wrote = mid.wrote
        /\ svc.metrics /\ mid.wrote => new = mid
        /\ ~(svc.metrics /\ mid.wrote) => new.sent = mid.sent
    <3>1. mid \in RequestType /\ 100 \in Codes /\ Informational(100)
      BY <2>2, CodesGiven
    <3>2. /\ new \in RequestType /\ Untouched(new, mid)
          /\ ~svc.metrics => new.wrote = mid.wrote
          /\ svc.metrics /\ mid.wrote => new = mid
      BY <3>1, Written
    <3>3. ~(svc.metrics /\ mid.wrote) => new.sent = mid.sent
      BY <3>1, Written
    <3> QED  BY <3>2, <3>3
  <2> HIDE DEF new
  <2>4. new.at = "sent" /\ new.in = r.in /\ new.id = r.id /\ new.informed /\ new.upgraded = r.upgraded
        /\ SameChain(new, r) /\ new.sent = r.sent /\ (~svc.metrics => new.wrote = r.wrote)
    BY <2>2, <2>3 DEF Untouched, SameWho, SameChain
  <2>5. RequestInv(new, svc, ever)
    BY <1>1, <1>2, <2>4 DEF RequestInv, IdentityInv, ChainInv, StatusInv, LookingUp, Before,
                            After, SameChain
  <2> QED  BY <1>3, <2>1, <2>3, <2>4, <2>5
<1>10. CASE Upgrades(s)
  <2> DEFINE new == TakeOver(r, 101)
  <2>1. req' = [req EXCEPT ![s] = new]
    BY <1>10 DEF Upgrades, TakeOver
  <2>2. /\ new \in RequestType /\ new.at = "tunnel" /\ SameWho(new, r) /\ SameChain(new, r)
        /\ new.upgraded /\ new.sent = 101
    <3> HIDE DEF r
    <3> QED  BY <1>1, CodesGiven, TakenOver
  <2> HIDE DEF new
  <2>3. RequestInv(new, svc, ever)
    BY <1>1, <1>2, <2>2 DEF RequestInv, IdentityInv, ChainInv, StatusInv, LookingUp, Before,
                            After, SameWho, SameChain
  <2> QED  BY <1>3, <2>1, <2>2, <2>3
<1> QED  BY <1>4, <1>6, <1>8, <1>9, <1>10

\* A request that ends: what is sent by then stays, or it is the 200 net/http sends.
LEMMA EndStep ==
    ASSUME IInv, NEW s \in Slots, NEW p \in {"done", "aborted"},
           req[s].at \in {"refused", "returning", "copying", "tunnel"},
           p = "aborted" => req[s].at = "copying",
           req' = [req EXCEPT ![s] = Finished([req[s] EXCEPT !.at = p])],
           active' = active - One(InProxy(req[s])),
           total' = total + One(svc.metrics),
           lines' \in {lines, lines + 1},
           svc.metrics /\ isAccessLogEnabled(svc) => lines' = lines + 1,
           UNCHANGED <<svc, netVars, cache, pool, lifeVars, arrived>>
    PROVE  IInv'
<1> DEFINE r == req[s]
           mid == [r EXCEPT !.at = p]
           new == Finished(mid)
<1>1. /\ r \in RequestType /\ RequestInv(r, svc, ever) /\ CacheInv(cache, ever) /\ svc \in Services
      /\ r.at # "idle" => r.in \in Inputs
  BY OnItsWay
<1>2. /\ mid \in RequestType /\ mid.at = p /\ SameWho(mid, r) /\ SameChain(mid, r)
      /\ SameStatus(mid, r)
  BY <1>1 DEF RequestType, SameWho, SameChain, SameStatus
<1>3. r.at \in {"refused", "returning", "copying", "tunnel"} /\ req' = [req EXCEPT ![s] = new]
      /\ active' = active - One(InProxy(r))
  OBVIOUS
<1> HIDE DEF mid
<1>4. /\ new \in RequestType /\ Untouched(new, mid)
      /\ new.sent = IF mid.sent # 0 THEN mid.sent ELSE 200
      /\ new.log = mid.log /\ new.code = mid.code /\ new.wrote = mid.wrote
  BY <1>2, Completed
<1> HIDE DEF new
<1>5. /\ new.at = p /\ new.in = r.in /\ new.id = r.id /\ new.meant = r.meant
      /\ new.informed = r.informed /\ new.upgraded = r.upgraded
      /\ new.sent = IF r.sent # 0 THEN r.sent ELSE 200
      /\ new.log = r.log /\ new.code = r.code /\ SameChain(new, r)
  BY <1>2, <1>4 DEF Untouched, SameWho, SameChain, SameStatus
<1>6. IdentityInv(new, svc, ever)
  BY <1>1, <1>3, <1>5 DEF RequestInv, IdentityInv, LookingUp
<1>7. ChainInv(new, svc)
  BY <1>1, <1>3, <1>5 DEF RequestInv, ChainInv, SameChain, Before
<1>8. StatusInv(new, svc)
  BY <1>1, <1>3, <1>5 DEF RequestInv, StatusInv, Settled, Before, After
<1>9. InProgress(r) /\ ~InProgress(new) /\ ~InProxy(new)
  BY <1>3, <1>5 DEF InProgress, InProxy
<1>10. active' = active + One(InProxy(new)) - One(InProxy(r))
  BY <1>3, <1>9, CountsTyped DEF One, IInv, CountInv
<1>11. UNCHANGED <<svc, holder, ever, moves, pool, phase, collector, arrived>>
       /\ CacheInv(cache', ever)
  BY <1>1 DEF netVars, lifeVars
<1>12. RequestInv(new, svc, ever)
  BY <1>6, <1>7, <1>8 DEF RequestInv
<1> HIDE DEF r
<1>13. req[s] = r
  BY DEF r
<1> QED  BY <1>3, <1>4, <1>9, <1>10, <1>11, <1>12, <1>13, OneStep

LEMMA ReturnsStep ==
    ASSUME IInv, NEW s \in Slots, Returns(s)
    PROVE  IInv'
<1>1. /\ req[s].at \in {"refused", "returning", "copying", "tunnel"}
      /\ active' = active - One(InProxy(req[s]))
      /\ total' = total + One(svc.metrics)
      /\ lines' = lines + One(isAccessLogEnabled(svc))
      /\ req' = [req EXCEPT ![s] = Finished([req[s] EXCEPT !.at = "done"])]
      /\ UNCHANGED <<svc, netVars, cache, pool, lifeVars, arrived>>
  BY DEF Returns
<1>2. lines' \in {lines, lines + 1} /\ (isAccessLogEnabled(svc) => lines' = lines + 1)
  BY <1>1 DEF One, IInv, CountInv
<1> QED  BY <1>1, <1>2, EndStep

LEMMA BreaksStep ==
    ASSUME IInv, NEW s \in Slots, Breaks(s)
    PROVE  IInv'
<1> DEFINE p == IF svc.metrics THEN "done" ELSE "aborted"
<1>1. /\ req[s].at = "copying"
      /\ active' = active - 1
      /\ total' = total + One(svc.metrics)
      /\ lines' = lines + One(svc.metrics /\ isAccessLogEnabled(svc))
      /\ req' = [req EXCEPT ![s] = Finished([req[s] EXCEPT !.at = p])]
      /\ UNCHANGED <<svc, netVars, cache, pool, lifeVars, arrived>>
  BY DEF Breaks, At
<1>2. lines' \in {lines, lines + 1}
      /\ (svc.metrics /\ isAccessLogEnabled(svc) => lines' = lines + 1)
  BY <1>1 DEF One, IInv, CountInv
<1>3. active' = active - One(InProxy(req[s]))
  BY <1>1 DEF One, InProxy
<1>4. p \in {"done", "aborted"}
  OBVIOUS
<1> HIDE DEF p
<1> QED  BY <1>1, <1>2, <1>3, <1>4, EndStep

-----------------------------------------------------------------------------
(* The steps of everything else *)

\* What every request and the cache have stays true when addresses have had more users.
LEMMA KnownGrows ==
    ASSUME NEW known, NEW more, \A a \in Addrs : known[a] \subseteq more[a]
    PROVE  /\ \A r \in RequestType, sv \in Services :
                 RequestInv(r, sv, known) => RequestInv(r, sv, more)
           /\ \A c : CacheInv(c, known) => CacheInv(c, more)
<1>1. ASSUME NEW r \in RequestType, NEW sv \in Services, RequestInv(r, sv, known)
      PROVE  RequestInv(r, sv, more)
  <2>1. r.in \in Inputs => known[r.in.addr] \subseteq more[r.in.addr]
    BY InputTyped
  <2>2. r.at = "answered" => r.in \in Inputs
    BY <1>1 DEF RequestInv, IdentityInv
  <2>3. IdentityInv(r, sv, more)
    BY <1>1, <2>1, <2>2 DEF RequestInv, IdentityInv
  <2> QED  BY <1>1, <2>3 DEF RequestInv
<1>2. ASSUME NEW c, CacheInv(c, known)
      PROVE  CacheInv(c, more)
  <2> DEFINE Entry == [addr : Addrs, user : Users]
  <2>1. c \in Seq(Entry)
    BY <1>2 DEF CacheInv
  <2>2. \A e \in Entry : e.addr \in Addrs
    OBVIOUS
  <2> HIDE DEF Entry
  <2>3. \A i \in DOMAIN c : c[i] \in Entry
    BY <2>1, LenProperties, ElementOfSeq
  <2>4. \A i \in DOMAIN c : c[i].user \in more[c[i].addr]
    BY <1>2, <2>2, <2>3 DEF CacheInv
  <2> QED  BY <1>2, <2>4 DEF CacheInv
<1> QED  BY <1>1, <1>2

LEMMA AddressMovesStep ==
    ASSUME IInv, AddressMoves
    PROVE  IInv'
<1>1. PICK a \in Addrs : \E u \in Users \ {holder[a]} :
          /\ holder' = [holder EXCEPT ![a] = u]
          /\ ever' = [ever EXCEPT ![a] = @ \cup {u}]
  BY DEF AddressMoves
<1>2. PICK u \in Users \ {holder[a]} :
          /\ holder' = [holder EXCEPT ![a] = u]
          /\ ever' = [ever EXCEPT ![a] = ever[a] \cup {u}]
  BY <1>1
<1>3. moves < MaxMoves /\ moves' = moves + 1
      /\ UNCHANGED <<svc, req, cache, active, pool, phase, collector, arrived, total, lines>>
  BY DEF AddressMoves, lifeVars, countVars
<1>4. NetInv'
  BY <1>2, <1>3, RequestAssumption DEF IInv, NetInv
<1>5. \A b \in Addrs : ever[b] \subseteq ever'[b]
  BY <1>2 DEF IInv, NetInv
<1>6. /\ \A s \in Slots : RequestInv(req[s], svc, ever')
      /\ CacheInv(cache, ever')
  <2>1. \A s \in Slots : req[s] \in RequestType /\ RequestInv(req[s], svc, ever)
    BY DEF IInv
  <2>2. svc \in Services /\ CacheInv(cache, ever)
    BY DEF IInv, LifeInv
  <2> QED  BY <1>5, <2>1, <2>2, KnownGrows
<1>7. req' \in [Slots -> RequestType] /\ CountInv' /\ LifeInv'
  BY <1>3 DEF IInv, CountInv, LifeInv, Underway, Proxied
<1>8. (\A s \in Slots : RequestInv(req[s], svc, ever))' /\ CacheInv(cache, ever)'
  BY <1>3, <1>6
<1> QED  BY <1>4, <1>7, <1>8 DEF IInv

LEMMA ExpiryStep ==
    ASSUME IInv, EntryExpires
    PROVE  IInv'
<1>1. PICK i \in DOMAIN cache : cache' = Without(i)
  BY DEF EntryExpires
<1>2. CacheInv(cache', ever)
  BY <1>1, WithoutKeeps DEF IInv
<1>3. UNCHANGED <<svc, req, holder, ever, moves, active, pool, phase, collector,
                  arrived, total, lines>>
  BY DEF EntryExpires, netVars, lifeVars, countVars
<1>4. (\A s \in Slots : RequestInv(req[s], svc, ever))' /\ req' \in [Slots -> RequestType]
  BY <1>3 DEF IInv
<1>5. CountInv' /\ NetInv' /\ LifeInv'
  BY <1>3 DEF IInv, CountInv, NetInv, LifeInv, Underway, Proxied
<1> QED  BY <1>2, <1>3, <1>4, <1>5 DEF IInv

\* The collector, and the service's end.
LEMMA LifeStep ==
    ASSUME IInv, Tick \/ CollectorEnds \/ StopBegins \/ CloseHandler
    PROVE  IInv'
<1>1. UNCHANGED <<svc, req, holder, ever, moves, cache, active, arrived, total, lines>>
  BY DEF Tick, CollectorEnds, StopBegins, CloseHandler, netVars, countVars
<1>2. LifeInv'
  <2>1. CASE Tick
    <3>1. pool' = active /\ UNCHANGED <<phase, collector>>
      BY <2>1 DEF Tick, collectMetrics, lifeVars
    <3>2. active \in 0 .. Cardinality(Slots)
      BY CountsTyped DEF IInv, CountInv
    <3> QED  BY <1>1, <3>1, <3>2 DEF IInv, LifeInv
  <2>2. CASE CollectorEnds
    BY <1>1, <2>2 DEF CollectorEnds, IInv, LifeInv
  <2>3. CASE StopBegins
    BY <1>1, <2>3 DEF StopBegins, IInv, LifeInv
  <2>4. CASE CloseHandler
    BY <1>1, <2>4 DEF CloseHandler, IInv, LifeInv
  <2> QED  BY <2>1, <2>2, <2>3, <2>4
<1>3. CountInv' /\ NetInv'
  BY <1>1 DEF IInv, CountInv, NetInv, Underway, Proxied
<1>4. (\A s \in Slots : RequestInv(req[s], svc, ever))' /\ req' \in [Slots -> RequestType]
      /\ CacheInv(cache, ever)'
  BY <1>1 DEF IInv
<1> QED  BY <1>2, <1>3, <1>4 DEF IInv

LEMMA NextIInv == IInv /\ [Next]_vars => IInv'
<1> SUFFICES ASSUME IInv, [Next]_vars PROVE IInv'
  OBVIOUS
<1>1. ASSUME NEW s \in Slots, Arrives(s) \/ Lookup(s) \/ Proxying(s)
      PROVE  IInv'
  <2>1. CASE Arrives(s)
    BY <2>1, ArrivesStep
  <2>2. CASE Lookup(s)
    BY <2>2, LookupStep
  <2>3. CASE Proxying(s)
    <3>1. CASE Refuse(s)
      BY <3>1, RefuseStep
    <3>2. CASE Forwards(s)
      BY <3>2, ForwardsStep
    <3>3. CASE \/ BodyPasses(s) \/ BodyTooLong(s) \/ Informs(s) \/ Responds(s)
               \/ Upgrades(s) \/ Fails(s)
      BY <3>3, WaitingStep
    <3>4. CASE Returns(s)
      BY <3>4, ReturnsStep
    <3>5. CASE Breaks(s)
      BY <3>5, BreaksStep
    <3> QED  BY <2>3, <3>1, <3>2, <3>3, <3>4, <3>5 DEF Proxying
  <2> QED  BY <1>1, <2>1, <2>2, <2>3
<1>2. CASE AddressMoves
  BY <1>2, AddressMovesStep
<1>3. CASE EntryExpires
  BY <1>3, ExpiryStep
<1>4. CASE Tick \/ CollectorEnds \/ StopBegins \/ CloseHandler
  BY <1>4, LifeStep
<1>5. CASE UNCHANGED vars
  <2>1. UNCHANGED <<svc, req, holder, ever, moves, cache, active, pool, phase, collector,
                    arrived, total, lines>>
    BY <1>5 DEF vars, netVars, lifeVars, countVars
  <2>2. CountInv' /\ NetInv' /\ LifeInv'
    BY <2>1 DEF IInv, CountInv, NetInv, LifeInv, Underway, Proxied
  <2>3. (\A s \in Slots : RequestInv(req[s], svc, ever))' /\ req' \in [Slots -> RequestType]
        /\ CacheInv(cache, ever)'
    BY <2>1 DEF IInv
  <2> QED  BY <2>2, <2>3 DEF IInv
<1> QED  BY <1>1, <1>2, <1>3, <1>4, <1>5 DEF Next

LEMMA Invariant == Spec => []IInv
<1>1. Init => IInv
  BY InitIInv
<1>2. IInv /\ [Next]_vars => IInv'
  BY NextIInv
<1> QED  BY <1>1, <1>2, PTL DEF Spec

-----------------------------------------------------------------------------
(* What the invariant says *)

\* The variables keep their types: the cache stays within its size and has no address
\* twice, and the counters and gauges count what can be counted (whois.go:33,
\* metrics.go:206, proxy.go:359).
THEOREM RequestsTyped == Spec => []TypeOK
<1>1. IInv => TypeOK
  <2> SUFFICES ASSUME IInv PROVE TypeOK
    OBVIOUS
  <2>1. active \in 0 .. Cardinality(Slots)
    BY CountsTyped DEF IInv, CountInv
  <2>2. total \in 0 .. MaxRequests /\ lines \in 0 .. MaxRequests
    <3> DEFINE on == Cardinality(Underway)
    <3>1. /\ arrived \in 0 .. MaxRequests /\ total \in Nat /\ lines \in Nat
          /\ total <= arrived - on /\ lines <= arrived - on
      BY DEF IInv, CountInv
    <3>2. on \in Nat /\ MaxRequests \in Nat
      BY CountsTyped, RequestAssumption
    <3> HIDE DEF on
    <3> QED  BY <3>1, <3>2
  <2> QED  BY <2>1, <2>2 DEF TypeOK, IInv, CacheInv, CountInv, NetInv, LifeInv
<1> QED  BY <1>1, Invariant, PTL

\* Whoever the backend is told a request comes from has had its address, and whois is
\* enabled: no header of the client's and no other address's cache entry gets through
\* (whois.go:97, strip_tailscale_headers.go).
THEOREM IdentityIsVouchedFor == Spec => []IdentityVouchedFor
<1>1. IInv => IdentityVouchedFor
  BY DEF IInv, IdentityVouchedFor, RequestInv, IdentityInv
<1> QED  BY <1>1, Invariant, PTL

\* The X-Forwarded-For the backend gets ends in the peer, begins with X-Real-IP, and has
\* something before the peer only if the peer is trusted or is Funnel
\* (createProxyRewrite).
THEOREM ChainIsVouchedFor == Spec => []ChainVouchedFor
<1>1. IInv => ChainVouchedFor
  <2> SUFFICES ASSUME IInv, NEW s \in Slots, req[s].chain # <<>>
               PROVE  /\ req[s].real = Head(req[s].chain)
                      /\ req[s].chain[Len(req[s].chain)] = req[s].in.addr
                      /\ Len(req[s].chain) > 1 =>
                            req[s].in.funnel # None \/ req[s].in.addr \in Trusted
    BY DEF ChainVouchedFor
  <2>1. req[s].in \in Inputs /\ req[s].chain = ForwardedFor(req[s].in)
        /\ req[s].real = RealIP(req[s].in)
    BY DEF IInv, RequestInv, ChainInv
  <2> QED  BY <2>1, ChainTold
<1> QED  BY <1>1, Invariant, PTL

\* The client's status, the counted one and the logged one are the one the proxy or the body
\* limit gave, unless an informational response or a takeover came between, or the body was
\* cut (metrics.go:216, accesslog.go:60).
THEOREM StatusIsFaithful == Spec => []StatusFaithful
<1>1. IInv => StatusFaithful
  BY DEF IInv, StatusFaithful, RequestInv, StatusInv, Settled, After
<1> QED  BY <1>1, Invariant, PTL

\* A limit that is not zero cuts and refuses what is too long and nothing else, and a
\* negative one nothing at all (bodylimit.go, CreateHandler).
THEOREM TheLimitIsExact == Spec => []LimitIsExact
<1>1. IInv => LimitIsExact
  <2> SUFFICES ASSUME IInv, NEW s \in Slots, InProgress(req[s]) \/ req[s].at = "done",
                      getMaxRequestBodySize(svc) # 0
               PROVE  LET r == req[s]
                          limit == getMaxRequestBodySize(svc)
                          tooLong == limit > 0 /\ r.in.size > limit
                      IN /\ r.body = "whole" => ~tooLong
                         /\ r.body = "part" \/ r.sent = 413 => tooLong
                         /\ r.in.declared /\ tooLong => r.chain = <<>>
    BY DEF LimitIsExact
  <2>1. req[s].at # "idle"
    BY DEF InProgress
  <2>2. req[s].in \in Inputs /\ ChainInv(req[s], svc)
    BY <2>1 DEF IInv, RequestInv, IdentityInv
  <2>3. req[s].in.size \in Nat /\ getMaxRequestBodySize(svc) \in Int
    BY <2>2, InputTyped, LimitTyped DEF IInv, LifeInv
  <2> QED  BY <2>2, <2>3 DEF ChainInv, Refused, Fits, Limited
<1> QED  BY <1>1, Invariant, PTL

\* Every request that has ended is counted once and logged (metrics.go:262,
\* accesslog.go:60).
THEOREM EveryRequestAccounted == Spec => []Accounted
<1>1. IInv => Accounted
  BY DEF IInv, CountInv, Accounted, Underway
<1> QED  BY <1>1, Invariant, PTL

\* The gauge of active requests is their number (proxy.go:138).
THEOREM TheGaugeCounts == Spec => []ActiveCounts
<1>1. IInv => ActiveCounts
  BY DEF IInv, CountInv, ActiveCounts, Proxied
<1> QED  BY <1>1, Invariant, PTL
-----------------------------------------------------------------------------
(* Every step leads towards the end of the chain *)

LEMMA StepsCounted ==
    ASSUME NEW r \in RequestType
    PROVE  /\ StepsLeft(r) \in Nat
           /\ r.at \in {"idle", "done", "aborted"} => StepsLeft(r) = 0
           /\ r.at \in {"refused", "copying", "tunnel", "returning"} => StepsLeft(r) = 1
           /\ r.at = "sent" => /\ StepsLeft(r) = 2 + One(r.body = "none") + One(~r.informed)
                               /\ StepsLeft(r) \in 2 .. 4
           /\ r.at = "ready" => StepsLeft(r) = 5
           /\ r.at = "answered" => StepsLeft(r) = 6
           /\ r.at = "whois" => StepsLeft(r) = 7 + MaxTries - r.tries /\ StepsLeft(r) \in Nat \ 0 .. 6
           /\ r.at = "cache" => StepsLeft(r) = 7 + MaxTries
           /\ InProgress(r) => StepsLeft(r) # 0
<1>1. MaxTries \in Nat \ {0} /\ r.tries \in 0 .. MaxTries
  BY RequestAssumption DEF RequestType
<1>2. r.at \in {"idle", "cache", "whois", "answered", "ready", "refused", "sent", "copying",
               "tunnel", "returning", "done", "aborted"}
  BY DEF RequestType
<1> QED  BY <1>1, <1>2 DEF StepsLeft, One, InProgress

\* What the step of a request makes of it.
Nearer(s, new) ==
    /\ req' = [req EXCEPT ![s] = new]
    /\ InProgress(req[s]) => StepsLeft(new) < StepsLeft(req[s])

LEMMA LookupNearer ==
    ASSUME IInv, NEW s \in Slots, Lookup(s)
    PROVE  \E new : Nearer(s, new)
<1> DEFINE r == req[s]
<1>1. r \in RequestType /\ MaxTries \in Nat \ {0}
      /\ 0 \in 0 .. MaxTries /\ 1 \in 0 .. MaxTries
  <2>1. MaxTries \in Nat \ {0}
    BY RequestAssumption
  <2> QED  BY <2>1 DEF IInv
<1>2. r.at = "cache" => StepsLeft(r) = 7 + MaxTries
  BY <1>1, StepsCounted
<1>3. r.at = "whois" => /\ StepsLeft(r) = 7 + MaxTries - r.tries
                        /\ StepsLeft(r) \in Nat /\ StepsLeft(r) > 6
  BY <1>1, StepsCounted
<1>4. r.at = "answered" => StepsLeft(r) = 6
  BY <1>1, StepsCounted
<1>5. \A new : req' = [req EXCEPT ![s] = new] /\ StepsLeft(new) < StepsLeft(r)
                  => \E w : Nearer(s, w)
  BY DEF Nearer
\* The request is ready for the proxy.
<1>6. \A new \in RequestType :
          new.at = "ready" /\ r.at \in {"cache", "whois", "answered"} =>
              StepsLeft(new) < StepsLeft(r)
  <2> SUFFICES ASSUME NEW new \in RequestType, new.at = "ready",
                      r.at \in {"cache", "whois", "answered"}
               PROVE  StepsLeft(new) < StepsLeft(r)
    OBVIOUS
  <2>1. StepsLeft(new) = 5
    BY StepsCounted
  <2>2. CASE r.at = "cache"
    BY <1>1, <1>2, <2>1, <2>2
  <2>3. CASE r.at = "whois"
    BY <1>3, <2>1, <2>3
  <2>4. CASE r.at = "answered"
    BY <1>4, <2>1, <2>4
  <2> QED  BY <2>2, <2>3, <2>4
<1>7. ASSUME NEW u \in Users, Identified(s, u), r.at \in {"cache", "answered"}
      PROVE  \E w : Nearer(s, w)
  <2> DEFINE new == [r EXCEPT !.at = "ready", !.id = u, !.user = None, !.tries = 0]
  <2>1. new \in RequestType /\ new.at = "ready"
    BY <1>1 DEF RequestType
  <2>2. req' = [req EXCEPT ![s] = new]
    BY <1>7 DEF Identified
  <2> HIDE DEF new, r
  <2>3. StepsLeft(new) < StepsLeft(r)
    BY <1>6, <1>7, <2>1
  <2> QED  BY <1>5, <2>2, <2>3
<1>8. CASE CacheHits(s)
  <2>1. PICK i \in Entries(r.in.addr) : Identified(s, cache[i].user) /\ r.at = "cache"
    BY <1>8 DEF CacheHits, At
  <2>2. cache[i].user \in Users
    <3> DEFINE Entry == [addr : Addrs, user : Users]
    <3>1. cache \in Seq(Entry) /\ i \in DOMAIN cache
      BY <2>1 DEF IInv, CacheInv, Entries
    <3> HIDE DEF Entry
    <3>2. cache[i] \in Entry
      BY <3>1, LenProperties, ElementOfSeq
    <3> QED  BY <3>2 DEF Entry
  <2> QED  BY <1>7, <2>1, <2>2
<1>9. CASE Stores(s)
  <2>1. Identified(s, r.user) /\ r.at = "answered"
    BY <1>9 DEF Stores, At
  <2>2. r.user \in Users
    <3>1. r.in \in Inputs /\ r.user \in ever[r.in.addr]
      BY <2>1 DEF IInv, RequestInv, IdentityInv
    <3>2. ever[r.in.addr] \in SUBSET Users
      BY <3>1, InputTyped DEF IInv, NetInv
    <3> QED  BY <3>1, <3>2
  <2> QED  BY <1>7, <2>1, <2>2
<1>10. CASE GivesUp(s)
  <2> DEFINE new == [r EXCEPT !.at = "ready", !.tries = 0]
  <2>1. r.at = "whois" /\ req' = [req EXCEPT ![s] = new]
    BY <1>10 DEF GivesUp, At, Unidentified
  <2>2. new \in RequestType /\ new.at = "ready"
    BY <1>1 DEF RequestType
  <2> HIDE DEF new, r
  <2>3. StepsLeft(new) < StepsLeft(r)
    BY <1>6, <2>1, <2>2
  <2> QED  BY <1>5, <2>1, <2>3
<1>11. CASE CacheMisses(s)
  <2> DEFINE new == [r EXCEPT !.at = "whois", !.tries = 1]
  <2>1. r.at = "cache" /\ req' = [req EXCEPT ![s] = new]
    BY <1>11 DEF CacheMisses, At
  <2>2. new \in RequestType /\ new.at = "whois" /\ new.tries = 1
    BY <1>1 DEF RequestType
  <2> HIDE DEF new, r
  <2>3. StepsLeft(new) = 7 + MaxTries - 1
    BY <2>2, StepsCounted
  <2>4. StepsLeft(new) < StepsLeft(r)
    BY <1>1, <1>2, <2>1, <2>3
  <2> QED  BY <1>5, <2>1, <2>4
<1>12. CASE Retries(s)
  <2> DEFINE new == [r EXCEPT !.tries = r.tries + 1]
  <2>1. r.at = "whois" /\ r.tries < MaxTries /\ req' = [req EXCEPT ![s] = new]
    BY <1>12 DEF Retries, At
  <2>2. r.tries \in 0 .. MaxTries
    BY <1>1 DEF RequestType
  <2>3. new \in RequestType /\ new.at = "whois" /\ new.tries = r.tries + 1
    <3>1. r.tries + 1 \in 0 .. MaxTries
      <4>1. MaxTries \in Nat
        BY RequestAssumption
      <4>2. r.tries < MaxTries
        BY <2>1
      <4> HIDE DEF r, new
      <4> QED  BY <2>2, <4>1, <4>2
    <3>2. r \in RequestType
      BY <1>1
    <3> HIDE DEF r
    <3> QED  BY <2>1, <3>1, <3>2 DEF RequestType
  <2> HIDE DEF new, r
  <2>4. StepsLeft(new) = 7 + MaxTries - (r.tries + 1)
    BY <2>3, StepsCounted
  <2>5. StepsLeft(new) < StepsLeft(r)
    BY <1>1, <1>3, <2>1, <2>2, <2>4
  <2> QED  BY <1>5, <2>1, <2>5
<1>13. CASE Answered(s)
  <2> DEFINE new == [r EXCEPT !.at = "answered", !.user = holder[r.in.addr]]
  <2>1. r.at = "whois" /\ req' = [req EXCEPT ![s] = new]
    BY <1>13 DEF Answered, At
  <2>2. holder[r.in.addr] \in Users
    <3>1. r.in \in Inputs
      BY <2>1 DEF IInv, RequestInv, IdentityInv
    <3> QED  BY <3>1, InputTyped DEF IInv, NetInv
  <2>3. new \in RequestType /\ new.at = "answered"
    BY <1>1, <2>2 DEF RequestType
  <2> HIDE DEF new, r
  <2>4. StepsLeft(new) = 6
    BY <2>3, StepsCounted
  <2>5. StepsLeft(new) < StepsLeft(r)
    BY <1>3, <2>1, <2>4
  <2> QED  BY <1>5, <2>1, <2>5
<1> QED  BY <1>8, <1>9, <1>10, <1>11, <1>12, <1>13 DEF Lookup

LEMMA ProxyingNearer ==
    ASSUME IInv, NEW s \in Slots, Proxying(s)
    PROVE  \E new : Nearer(s, new)
<1> DEFINE r == req[s]
<1>1. r \in RequestType
  BY DEF IInv
<1>2. r.at = "ready" => StepsLeft(r) = 5
  BY <1>1, StepsCounted
<1>3. r.at = "sent" => /\ StepsLeft(r) = 2 + One(r.body = "none") + One(~r.informed)
                       /\ StepsLeft(r) \in 2 .. 4
  BY <1>1, StepsCounted
<1>4. r.at \in {"refused", "copying", "tunnel", "returning"} => StepsLeft(r) = 1
  BY <1>1, StepsCounted
<1>5. \A new : req' = [req EXCEPT ![s] = new] /\ StepsLeft(new) < StepsLeft(r)
                  => \E w : Nearer(s, w)
  BY DEF Nearer
\* All that is left is the way back.
<1>6. \A new \in RequestType :
          /\ new.at \in {"refused", "copying", "tunnel", "returning"}
          /\ r.at \in {"ready", "sent"}
          => StepsLeft(new) < StepsLeft(r)
  <2> SUFFICES ASSUME NEW new \in RequestType, r.at \in {"ready", "sent"},
                      new.at \in {"refused", "copying", "tunnel", "returning"}
               PROVE  StepsLeft(new) < StepsLeft(r)
    OBVIOUS
  <2>1. StepsLeft(new) = 1
    BY StepsCounted
  <2> QED  BY <1>2, <1>3, <2>1
<1>7. \A c \in {404, 413, 502} : \A mid \in RequestType :
          /\ mid.at \in {"refused", "copying", "returning"}
          /\ r.at \in {"ready", "sent"}
          => StepsLeft(WriteHeader(mid, c)) < StepsLeft(r)
  <2> SUFFICES ASSUME NEW c \in {404, 413, 502}, NEW mid \in RequestType,
                      mid.at \in {"refused", "copying", "returning"}, r.at \in {"ready", "sent"}
               PROVE  StepsLeft(WriteHeader(mid, c)) < StepsLeft(r)
    OBVIOUS
  <2> DEFINE new == WriteHeader(mid, c)
  <2>1. new \in RequestType /\ Untouched(new, mid)
    <3>1. c \in Codes
      BY CodesGiven
    <3> QED  BY <3>1, Written
  <2> HIDE DEF new
  <2>2. new.at = mid.at
    BY <2>1 DEF Untouched
  <2> QED  BY <1>6, <2>1, <2>2 DEF new
<1>8. ASSUME NEW p \in {"done", "aborted"}, req' = [req EXCEPT ![s] = Finished([r EXCEPT !.at = p])],
             r.at \in {"refused", "copying", "tunnel", "returning"}
      PROVE  \E w : Nearer(s, w)
  <2> DEFINE mid == [r EXCEPT !.at = p]
             new == Finished(mid)
  <2>1. mid \in RequestType /\ mid.at = p
    BY <1>1, <1>8 DEF RequestType
  <2>2. req' = [req EXCEPT ![s] = new]
    BY <1>8
  <2> HIDE DEF mid
  <2>3. new \in RequestType /\ Untouched(new, mid)
    BY <2>1, Completed
  <2> HIDE DEF new
  <2>4. StepsLeft(new) = 0
    BY <2>1, <2>3, StepsCounted DEF Untouched
  <2>5. StepsLeft(new) < StepsLeft(r)
    BY <1>4, <1>8, <2>4
  <2> QED  BY <1>5, <2>2, <2>5
<1>9. CASE Refuse(s)
  <2> DEFINE mid == Mark(r, "refused", 413)
  <2>1. r.at = "ready" /\ req' = [req EXCEPT ![s] = WriteHeader(mid, 413)]
    BY <1>9 DEF Refuse, At, Mark
  <2>2. mid \in RequestType /\ mid.at = "refused"
    <3> HIDE DEF r
    <3> QED  BY <1>1, CodesGiven, Marked
  <2> HIDE DEF mid, r
  <2>3. StepsLeft(WriteHeader(mid, 413)) < StepsLeft(r)
    BY <1>7, <2>1, <2>2
  <2> QED  BY <1>5, <2>1, <2>3
<1>10. CASE Forwards(s)
  <2> DEFINE new == [r EXCEPT !.at = "sent", !.chain = ForwardedFor(r.in), !.real = RealIP(r.in)]
  <2>1. r.at = "ready" /\ req' = [req EXCEPT ![s] = new]
    BY <1>10 DEF Forwards, At
  <2>2. r.in \in Inputs
    BY <2>1 DEF IInv, RequestInv, IdentityInv
  <2>3. ForwardedFor(r.in) \in Seq(Addrs) /\ RealIP(r.in) \in Addrs
    BY <2>2, ChainTold
  <2>4. new \in RequestType /\ new.at = "sent"
    BY <1>1, <2>3 DEF RequestType
  <2> HIDE DEF new, r
  <2>5. StepsLeft(new) \in 2 .. 4
    BY <2>4, StepsCounted
  <2>6. StepsLeft(new) < StepsLeft(r)
    BY <1>2, <2>1, <2>5
  <2> QED  BY <1>5, <2>1, <2>6
<1>11. CASE BodyPasses(s)
  <2> DEFINE new == [r EXCEPT !.body = "whole"]
  <2>1. r.at = "sent" /\ r.body = "none" /\ req' = [req EXCEPT ![s] = new]
    BY <1>11 DEF BodyPasses, At
  <2>2. new \in RequestType /\ new.at = "sent" /\ new.body = "whole" /\ new.informed = r.informed
    BY <1>1, <2>1 DEF RequestType
  <2> HIDE DEF new, r
  <2>3. StepsLeft(new) = 2 + One(new.body = "none") + One(~new.informed)
    BY <2>2, StepsCounted
  <2>4. StepsLeft(new) < StepsLeft(r)
    BY <1>3, <2>1, <2>2, <2>3 DEF One
  <2> QED  BY <1>5, <2>1, <2>4
<1>12. CASE Informs(s)
  <2> DEFINE mid == [r EXCEPT !.informed = TRUE]
             new == WriteHeader(mid, 100)
  <2>1. r.at = "sent" /\ ~r.informed /\ req' = [req EXCEPT ![s] = new]
    BY <1>12 DEF Informs, At
  <2>2. mid \in RequestType /\ mid.at = "sent" /\ mid.informed /\ mid.body = r.body
    BY <1>1, <2>1 DEF RequestType
  <2> HIDE DEF mid, r
  <2>3. new \in RequestType /\ Untouched(new, mid)
    BY <2>2, Written, CodesGiven
  <2> HIDE DEF new
  <2>4. new.at = "sent" /\ new.informed /\ new.body = r.body
    BY <2>2, <2>3 DEF Untouched
  <2>5. StepsLeft(new) = 2 + One(new.body = "none") + One(~new.informed)
    BY <2>3, <2>4, StepsCounted
  <2>6. StepsLeft(new) < StepsLeft(r)
    BY <1>3, <2>1, <2>4, <2>5 DEF One
  <2> QED  BY <1>5, <2>1, <2>6
<1>13. CASE BodyTooLong(s)
  <2> DEFINE mid == CutOff(r, 502)
  <2>1. r.at = "sent" /\ req' = [req EXCEPT ![s] = WriteHeader(mid, 502)]
    BY <1>13 DEF BodyTooLong, At, CutOff
  <2>2. mid \in RequestType /\ mid.at = "returning"
    <3> HIDE DEF r
    <3> QED  BY <1>1, CodesGiven, Cut
  <2> HIDE DEF mid, r
  <2>3. StepsLeft(WriteHeader(mid, 502)) < StepsLeft(r)
    BY <1>7, <2>1, <2>2
  <2> QED  BY <1>5, <2>1, <2>3
<1>14. ASSUME NEW c \in {404, 502}, NEW p \in {"copying", "returning"}, Respond(s, c, p),
              r.at = "sent"
      PROVE  \E w : Nearer(s, w)
  <2> DEFINE mid == Mark(r, p, c)
  <2>1. req' = [req EXCEPT ![s] = WriteHeader(mid, c)]
    BY <1>14 DEF Respond, Mark
  <2>2. mid \in RequestType /\ mid.at = p
    <3>1. c \in Codes /\ p \in {"refused", "copying", "returning"}
      BY CodesGiven
    <3> HIDE DEF r
    <3> QED  BY <1>1, <3>1, Marked
  <2> HIDE DEF mid, r
  <2>3. StepsLeft(WriteHeader(mid, c)) < StepsLeft(r)
    BY <1>7, <1>14, <2>2
  <2> QED  BY <1>5, <2>1, <2>3
<1>15. CASE Responds(s) \/ Fails(s)
  BY <1>14, <1>15 DEF Responds, Fails, At
<1>16. CASE Upgrades(s)
  <2> DEFINE new == TakeOver(r, 101)
  <2>1. r.at = "sent" /\ req' = [req EXCEPT ![s] = new]
    BY <1>16 DEF Upgrades, At, TakeOver
  <2>2. new \in RequestType /\ new.at = "tunnel"
    <3> HIDE DEF r
    <3> QED  BY <1>1, CodesGiven, TakenOver
  <2> HIDE DEF new, r
  <2>3. StepsLeft(new) < StepsLeft(r)
    BY <1>6, <2>1, <2>2
  <2> QED  BY <1>5, <2>1, <2>3
<1>17. CASE Returns(s)
  BY <1>8, <1>17 DEF Returns
<1>18. CASE Breaks(s)
  BY <1>8, <1>18 DEF Breaks, At
<1> QED  BY <1>9, <1>10, <1>11, <1>12, <1>13, <1>15, <1>16, <1>17, <1>18 DEF Proxying

\* A request moves on at every step of its own and at no other: the lookup has a bounded
\* number of attempts, and no handler of the chain is run twice (whois.go,
\* performWhoisWithRetryLogic; proxy.go; metrics.go).
THEOREM RequestsAdvance == Spec => RequestAdvances
<1> DEFINE Moves(s) ==
        /\ InProgress(req[s]) /\ req'[s] # req[s] => StepsLeft(req'[s]) < StepsLeft(req[s])
        /\ req'[s] # req[s] => \A q \in Slots \ {s} : req'[q] = req[q]
<1>1. IInv /\ [Next]_vars => \A s \in Slots : Moves(s)
  <2> SUFFICES ASSUME IInv, [Next]_vars PROVE \A s \in Slots : Moves(s)
    OBVIOUS
  <2>1. req \in [Slots -> RequestType]
    BY DEF IInv
  <2>2. CASE \E s \in Slots : Arrives(s) \/ Lookup(s) \/ Proxying(s)
    <3>1. PICK s \in Slots : Arrives(s) \/ Lookup(s) \/ Proxying(s)
      BY <2>2
    <3>2. \E new : Nearer(s, new)
      <4>1. CASE Arrives(s)
        BY <4>1, Zenon DEF Arrives, Nearer
      <4> QED  BY <3>1, <4>1, LookupNearer, ProxyingNearer
    <3>3. PICK new : Nearer(s, new)
      BY <3>2
    <3>4. req'[s] = new /\ \A q \in Slots \ {s} : req'[q] = req[q]
      BY <2>1, <3>3 DEF Nearer
    <3> QED  BY <3>3, <3>4 DEF Nearer
  <2>3. CASE AddressMoves \/ EntryExpires \/ Tick \/ CollectorEnds \/ StopBegins \/ CloseHandler
    BY <2>3 DEF AddressMoves, EntryExpires, Tick, CollectorEnds, StopBegins, CloseHandler
  <2>4. CASE UNCHANGED vars
    BY <2>4 DEF vars
  <2> QED  BY <2>2, <2>3, <2>4 DEF Next
<1>2. RequestAdvances <=> [][\A s \in Slots : Moves(s)]_vars
  BY DEF RequestAdvances
<1> QED  BY <1>1, <1>2, Invariant, PTL DEF Spec

\* Stop leaves nothing in the chain of a closed handler but connections that were taken
\* over, and lets nothing in (service.go, Stop; proxy.go, Close).
THEOREM OnlyTunnelsAreLeft == Spec => []OnlyTunnelsOutlive
<1>1. Init => OnlyTunnelsOutlive
  BY DEF Init, OnlyTunnelsOutlive
<1>2. IInv /\ OnlyTunnelsOutlive /\ [Next]_vars => OnlyTunnelsOutlive'
  <2> SUFFICES ASSUME IInv, OnlyTunnelsOutlive, [Next]_vars, phase' = "closed",
                      NEW q \in Slots, InProgress(req'[q])
               PROVE  req'[q].at = "tunnel"
    BY DEF OnlyTunnelsOutlive
  <2>1. req \in [Slots -> RequestType]
    BY DEF IInv
  <2>2. CASE \E s \in Slots : Arrives(s) \/ Lookup(s) \/ Proxying(s)
    <3>1. PICK s \in Slots : Arrives(s) \/ Lookup(s) \/ Proxying(s)
      BY <2>2
    <3>2. CASE Arrives(s)
      BY <3>2 DEF Arrives, lifeVars
    <3>3. CASE Lookup(s) \/ Proxying(s)
      <4>1. phase = "closed"
        BY <3>3 DEF Lookup, CacheHits, CacheMisses, Answered, Retries, GivesUp, Stores, Proxying,
                    Refuse, Forwards, BodyPasses, BodyTooLong, Informs, Responds, Upgrades, Fails,
                    Returns, Breaks, lifeVars
      <4>2. PICK new : Nearer(s, new)
        BY <3>3, LookupNearer, ProxyingNearer
      <4>3. req'[s] = new /\ \A p \in Slots \ {s} : req'[p] = req[p]
        BY <2>1, <4>2 DEF Nearer
      <4>4. CASE q # s
        BY <4>1, <4>3, <4>4 DEF OnlyTunnelsOutlive
      \* The only step of a request whose connection was taken over is its last.
      <4>5. CASE q = s
        <5>1. InProgress(req[s])
          BY <3>3 DEF Lookup, CacheHits, CacheMisses, Answered, Retries, GivesUp, Stores, Proxying,
                      Refuse, Forwards, BodyPasses, BodyTooLong, Informs, Responds, Upgrades, Fails,
                      Returns, Breaks, At, InProgress
        <5>2. req[s].at = "tunnel"
          BY <4>1, <5>1 DEF OnlyTunnelsOutlive
        <5>3. StepsLeft(req[s]) = 1 /\ StepsLeft(new) < 1
          BY <2>1, <4>2, <5>1, <5>2, StepsCounted DEF Nearer
        <5>4. new \in RequestType
          BY <4>3, NextIInv DEF IInv
        <5> QED  BY <4>3, <4>5, <5>3, <5>4, StepsCounted
      <4> QED  BY <4>4, <4>5
    <3> QED  BY <3>1, <3>2, <3>3
  <2>3. CASE CloseHandler
    <3>1. req' = req /\ req[q].upgraded
      BY <2>3 DEF CloseHandler
    <3> QED  BY <3>1 DEF IInv, RequestInv, StatusInv, InProgress
  <2>4. CASE AddressMoves \/ EntryExpires \/ Tick \/ CollectorEnds \/ StopBegins
    <3>1. req' = req /\ phase = "closed"
      BY <2>4 DEF AddressMoves, EntryExpires, Tick, CollectorEnds, StopBegins, lifeVars
    <3> QED  BY <3>1 DEF OnlyTunnelsOutlive
  <2>5. CASE UNCHANGED vars
    BY <2>5 DEF vars, lifeVars, OnlyTunnelsOutlive
  <2> QED  BY <2>2, <2>3, <2>4, <2>5 DEF Next
<1> QED  BY <1>1, <1>2, Invariant, PTL DEF Spec
=============================================================================
