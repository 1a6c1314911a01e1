-------------------------- MODULE CredentialsProofs --------------------------
(***************************************************************************)
(* The safety properties of Credentials, for any services, any setups and   *)
(* any limit of retries.                                                     *)
(***************************************************************************)
EXTENDS Credentials, TLAPS

InHand(s) == phase[s] \in {"ask", "start", "login", "close"}

\* A process that does not run has nothing in memory.
Stopped ==
    ~running => /\ config = Nothing
                /\ \A s \in Services : phase[s] = "idle"

\* A first load that succeeded is kept, and what it did not find cannot be
\* found later either.
Kept ==
    running => /\ cachedTailscale = config
               /\ \A k \in Secrets : config[k] = None => Default(k) \notin env

\* s.mu: one Listen at a time.
OneAtATime == \A s, t \in Services : InHand(s) /\ InHand(t) => s = t

\* Keys and requests belong to the Listen in hand; while it asks, every key
\* issued was issued by an attempt that failed.
Charged ==
    /\ (\A s \in Services : ~InHand(s)) => ~keyed /\ attempts = 0 /\ issued = 0
    /\ \A s \in Services : phase[s] = "ask" => ~keyed /\ issued <= attempts
    /\ \A s \in Services : phase[s] \in {"start", "login", "close"} => attempts = 0

IInv ==
    /\ TypeOK /\ EnvClear /\ LoadsAgree /\ CredentialsWhole
    /\ KeyExactlyWhenNeeded /\ KeysBounded
    /\ Stopped /\ Kept /\ OneAtATime /\ Charged

-----------------------------------------------------------------------------
(* What a load finds *)

Sources == [value : Values, file : BOOLEAN, env : BOOLEAN]

\* ResolveSecretWithFallback (credentials.go:93) returns a value, nothing or an
\* error; a value given directly wins; and it finds nothing only where the
\* default variable is not set.
LEMMA Resolves ==
    ASSUME files \in [Secrets -> Contents],
           NEW k \in Secrets, NEW p \in Sources, NEW e
    PROVE  LET r == ResolveSecretWithFallback(k, p, e)
           IN  /\ r \in Values \cup {"error"}
               /\ p.value # None => r = p.value
               /\ p.value = None /\ ~p.file /\ ~p.env /\ Default(k) \notin e => r = None
               /\ r = None => Default(k) \notin e
<1>1. /\ None \notin Found /\ None # "error"
      /\ p.value \in Values /\ p.file \in BOOLEAN /\ p.env \in BOOLEAN
      /\ files[k] \in Contents
  BY CredentialsAssumption DEF Sources
<1>2. CASE p.value # None
  <2>1. ResolveSecret(k, p, e) = p.value
    BY <1>2 DEF ResolveSecret
  <2>2. p.value \notin {None, "error"}
    BY <1>1, <1>2 DEF Values, Found
  <2> QED BY <1>1, <1>2, <2>1, <2>2 DEF ResolveSecretWithFallback
<1>3. CASE p.value = None
  <2>1. ResolveSecret(k, p, e) \in Values \cup {"error"}
    BY <1>1, <1>3 DEF ResolveSecret, Values, Found, Contents
  <2>2. ~p.file /\ ~p.env => ResolveSecret(k, p, e) = None
    BY <1>1, <1>3 DEF ResolveSecret
  <2> QED BY <1>1, <1>3, <2>1, <2>2 DEF ResolveSecretWithFallback, Values, Found
<1> QED BY <1>2, <1>3

\* The options are sources, and so is what an earlier load has kept.
LEMMA ConfiguredSources ==
    ASSUME TypeOK
    PROVE  Configured \in [Secrets -> Sources]
<1>1. Options \in [Secrets -> Sources]
  BY DEF Options, Sources, Values, Found
<1>2. CASE cachedTailscale = None
  BY <1>1, <1>2 DEF Configured
<1>3. CASE cachedTailscale # None
  BY <1>3 DEF Configured, TypeOK, Sources
<1> QED BY <1>2, <1>3

\* One load (config.go:437) ends in one of the outcomes; one that succeeds
\* leaves a clear environment, whole credentials, and no default variable for
\* what it did not find.
LEMMA LoadEnds ==
    ASSUME TypeOK, NEW e \in SUBSET Vars
    PROVE  LET r == Loaded(e)
           IN  /\ r.outcome \in Outcomes /\ r.found \in [Secrets -> Values]
               /\ r.env \in SUBSET Vars /\ r.env \subseteq e
               /\ r.outcome = "loaded" =>
                    /\ r.env \cap {TS_AUTHKEY, TS_AUTH_KEY} = {}
                    /\ ~Conflict(r.found)
                    /\ \A k \in Secrets : r.found[k] = None => Default(k) \notin e
<1> DEFINE c == [k \in Secrets |-> ResolveSecretWithFallback(k, Configured[k], e)]
<1>1. ASSUME NEW k \in Secrets
      PROVE  c[k] \in Values \cup {"error"} /\ (c[k] = None => Default(k) \notin e)
  <2>1. Configured[k] \in Sources
    BY ConfiguredSources
  <2>2. files \in [Secrets -> Contents]
    BY DEF TypeOK
  <2> QED BY <2>1, <2>2, Resolves
<1>2. Cleared(c, e) \in SUBSET Vars /\ Cleared(c, e) \subseteq e
  BY DEF Cleared
<1>3. CASE "error" \in {c[k] : k \in Secrets}
  <2>1. Loaded(e) = [outcome |-> "unresolved", found |-> Nothing, env |-> Cleared(c, e)]
    BY <1>3 DEF Loaded
  <2>2. Nothing \in [Secrets -> Values]
    BY DEF Nothing, Values
  <2> QED BY <1>2, <2>1, <2>2 DEF Outcomes
<1>4. CASE "error" \notin {c[k] : k \in Secrets}
  <2>1. Loaded(e) = [outcome |-> Validate(c), found |-> c, env |-> Cleared(c, e)]
    BY <1>4 DEF Loaded
  <2>2. c \in [Secrets -> Values]
    BY <1>1, <1>4
  <2>3. Validate(c) \in Outcomes /\ (Validate(c) = "loaded" => ~Conflict(c))
    BY DEF Validate, Outcomes
  <2>4. Cleared(c, e) \cap {TS_AUTHKEY, TS_AUTH_KEY} = {}
    BY <1>4 DEF Cleared
  <2> HIDE DEF c
  <2> QED BY <1>1, <1>2, <2>1, <2>2, <2>3, <2>4
<1> QED BY <1>3, <1>4

\* A load after the first finds what the first one found (docker.go:189).
LEMMA LoadsAgain ==
    ASSUME IInv, running
    PROVE  LET r == Loaded(env)
           IN  r.found = config /\ r.env = env /\ r.outcome \in {"loaded", "untagged"}
<1> DEFINE c == [k \in Secrets |-> ResolveSecretWithFallback(k, Configured[k], env)]
<1>1. /\ config \in [Secrets -> Values] /\ cachedTailscale = config
      /\ files \in [Secrets -> Contents]
      /\ None \notin Found \cup {"error"} /\ None \notin [Secrets -> Values]
  BY CredentialsAssumption DEF IInv, TypeOK, Kept
<1>2. ASSUME NEW k \in Secrets
      PROVE  c[k] = config[k]
  <2>1. /\ Configured[k] \in Sources
        /\ Configured[k] = [value |-> config[k], file |-> FALSE, env |-> FALSE]
    BY <1>1, ConfiguredSources DEF Configured, IInv
  <2>2. config[k] = None => Default(k) \notin env
    BY DEF IInv, Kept
  <2> QED BY <1>1, <2>1, <2>2, Resolves
<1>3. c = config
  BY <1>1, <1>2
<1>4. "error" \notin {c[k] : k \in Secrets}
  <2>1. "error" \notin Values
    BY <1>1 DEF Values, Found
  <2> QED BY <1>1, <1>3, <2>1
<1>5. Loaded(env) = [outcome |-> Validate(c), found |-> c, env |-> Cleared(c, env)]
  BY <1>4 DEF Loaded
<1>6. Cleared(c, env) = env
  BY <1>4 DEF Cleared, IInv, EnvClear
<1>7. Validate(config) \in {"loaded", "untagged"}
  BY DEF Validate, IInv, CredentialsWhole, Conflict, UsesOAuth
<1> HIDE DEF c
<1> QED BY <1>3, <1>5, <1>6, <1>7

-----------------------------------------------------------------------------
(* The invariant is inductive *)

LEMMA Emptiness ==
    /\ Nothing \in [Secrets -> Values]
    /\ Unloaded \in [outcome : Outcomes, found : [Secrets -> Values]]
    /\ 0 \in 0 .. RetryMaxAttempts
    /\ "idle" \in Phases
<1>1. Nothing \in [Secrets -> Values]
  BY DEF Nothing, Values
<1>2. Unloaded \in [outcome : Outcomes, found : [Secrets -> Values]]
  BY <1>1 DEF Unloaded, Outcomes
<1>3. 0 \in 0 .. RetryMaxAttempts /\ "idle" \in Phases
  BY CredentialsAssumption DEF Phases
<1> QED BY <1>1, <1>2, <1>3

LEMMA InitIInv == Init => IInv
<1> SUFFICES ASSUME Init PROVE IInv
  OBVIOUS
<1>1. setup \in SetupSet
  BY CredentialsAssumption DEF Init
<1>2. TypeOK
  BY <1>1, Emptiness DEF Init, TypeOK, SetupSet
<1>3. CredentialsWhole /\ config = Nothing
  BY DEF Init, CredentialsWhole, Nothing, Secrets
<1>4. EnvClear /\ LoadsAgree /\ Stopped /\ Kept
  BY DEF Init, EnvClear, LoadsAgree, Stopped, Kept
<1>5. KeyExactlyWhenNeeded /\ OneAtATime /\ Charged /\ KeysBounded
  BY CredentialsAssumption
     DEF Init, KeyExactlyWhenNeeded, OneAtATime, Charged, KeysBounded, InHand
<1> QED BY <1>2, <1>3, <1>4, <1>5 DEF IInv

\* The part of the invariant about Listen, and the part about loads.
ListenInv == KeyExactlyWhenNeeded /\ KeysBounded /\ OneAtATime /\ Charged
LoadInv == EnvClear /\ LoadsAgree /\ CredentialsWhole /\ Kept

LEMMA ListenKept ==
    ASSUME IInv, UNCHANGED <<disk, listen>>
    PROVE  ListenInv'
BY DEF IInv, ListenInv, listen, KeyExactlyWhenNeeded, KeysBounded, OneAtATime, Charged, InHand

LEMMA LoadKept ==
    ASSUME IInv, UNCHANGED process
    PROVE  LoadInv'
BY DEF IInv, LoadInv, process, EnvClear, LoadsAgree, CredentialsWhole, Kept

LEMMA BootStep == IInv /\ Boot => IInv'
<1> SUFFICES ASSUME IInv, Boot PROVE IInv'
  OBVIOUS
<1> DEFINE r == Loaded(env)
<1>1. TypeOK /\ env \in SUBSET Vars /\ ~running
  BY DEF IInv, TypeOK, Boot
<1>2. /\ r.outcome \in Outcomes /\ r.found \in [Secrets -> Values]
      /\ r.env \in SUBSET Vars /\ r.env \subseteq env
      /\ r.outcome = "loaded" =>
           /\ r.env \cap {TS_AUTHKEY, TS_AUTH_KEY} = {}
           /\ ~Conflict(r.found)
           /\ \A k \in Secrets : r.found[k] = None => Default(k) \notin env
  BY <1>1, LoadEnds
<1>3. /\ UNCHANGED <<setup, files, deployed, disk, listen>>
      /\ load' = [outcome |-> r.outcome, found |-> r.found]
  BY DEF Boot
<1>4. ListenInv'
  BY <1>3, ListenKept
<1>5. CASE r.outcome = "loaded" /\ NewServer(r.found)
  <2>1. running' /\ env' = r.env /\ config' = r.found /\ cachedTailscale' = r.found
    BY <1>5 DEF Boot
  <2> HIDE DEF r
  <2>2. TypeOK'
    BY <1>1, <1>2, <1>3, <2>1 DEF TypeOK, listen
  <2>3. EnvClear' /\ LoadsAgree' /\ Kept'
    BY <1>2, <1>3, <1>5, <2>1 DEF EnvClear, LoadsAgree, Kept
  <2>4. CredentialsWhole'
    BY <1>2, <1>5, <2>1 DEF CredentialsWhole, NewServer, Conflict, UsesOAuth
  <2>5. Stopped'
    BY <2>1 DEF Stopped
  <2> QED BY <1>4, <2>2, <2>3, <2>4, <2>5 DEF IInv, ListenInv
<1>6. CASE ~(r.outcome = "loaded" /\ NewServer(r.found))
  <2>1. UNCHANGED <<running, env, config, cachedTailscale>>
    BY <1>6 DEF Boot
  <2> HIDE DEF r
  <2>2. TypeOK'
    BY <1>1, <1>2, <1>3, <2>1 DEF TypeOK, listen
  <2>3. EnvClear' /\ LoadsAgree' /\ Kept'
    BY <1>1, <2>1 DEF EnvClear, LoadsAgree, Kept
  <2>4. CredentialsWhole' /\ Stopped'
    BY <1>3, <2>1 DEF IInv, CredentialsWhole, Stopped, listen
  <2> QED BY <1>4, <2>2, <2>3, <2>4 DEF IInv, ListenInv
<1> QED BY <1>5, <1>6

LEMMA ReloadStep == IInv /\ Reload => IInv'
<1> SUFFICES ASSUME IInv, Reload PROVE IInv'
  OBVIOUS
<1> DEFINE r == Loaded(env)
<1>1. running /\ TypeOK
  BY DEF IInv, Reload
<1>2. r.found = config /\ r.env = env /\ r.outcome \in {"loaded", "untagged"}
  BY <1>1, LoadsAgain
<1>3. /\ UNCHANGED <<setup, files, running, config, cachedTailscale, deployed, disk, listen>>
      /\ load' = [outcome |-> r.outcome, found |-> r.found] /\ env' = r.env
  BY DEF Reload
<1> HIDE DEF r
<1>4. ListenInv'
  BY <1>3, ListenKept
<1>5. TypeOK'
  BY <1>1, <1>2, <1>3 DEF TypeOK, listen, Outcomes
<1>6. EnvClear' /\ LoadsAgree' /\ CredentialsWhole' /\ Kept'
  BY <1>2, <1>3 DEF IInv, EnvClear, LoadsAgree, CredentialsWhole, Kept
<1>7. Stopped'
  BY <1>3 DEF IInv, Stopped, listen
<1> QED BY <1>4, <1>5, <1>6, <1>7 DEF IInv, ListenInv

LEMMA DieStep == IInv /\ Die => IInv'
<1> SUFFICES ASSUME IInv, Die PROVE IInv'
  OBVIOUS
<1>1. setup \in SetupSet
  BY CredentialsAssumption DEF IInv, TypeOK
<1>2. TypeOK'
  BY <1>1, Emptiness DEF Die, IInv, TypeOK, SetupSet
<1>3. EnvClear' /\ LoadsAgree' /\ CredentialsWhole' /\ Stopped' /\ Kept'
  BY DEF Die, EnvClear, LoadsAgree, CredentialsWhole, Stopped, Kept, Nothing, Secrets
<1>4. KeyExactlyWhenNeeded' /\ KeysBounded' /\ OneAtATime' /\ Charged'
  BY CredentialsAssumption
     DEF Die, KeyExactlyWhenNeeded, KeysBounded, OneAtATime, Charged, InHand
<1> QED BY <1>2, <1>3, <1>4 DEF IInv

LEMMA OperatorStep ==
    ASSUME NEW k \in Secrets, NEW c \in Contents
    PROVE  IInv /\ Rotate(k, c) => IInv'
<1> SUFFICES ASSUME IInv, Rotate(k, c) PROVE IInv'
  OBVIOUS
<1>1. UNCHANGED <<setup, process, deployed, disk, listen>>
  BY DEF Rotate
<1>2. TypeOK' /\ Stopped'
  BY DEF Rotate, IInv, TypeOK, Stopped, process, listen
<1> QED BY <1>1, <1>2, ListenKept, LoadKept DEF IInv, ListenInv, LoadInv

LEMMA DeployStep ==
    ASSUME NEW s \in Untagged
    PROVE  IInv /\ Deploy(s) => IInv'
<1> SUFFICES ASSUME IInv, Deploy(s) PROVE IInv'
  OBVIOUS
<1>1. UNCHANGED <<setup, files, process, disk, listen>>
  BY DEF Deploy
<1>2. TypeOK' /\ Stopped'
  BY DEF Deploy, IInv, TypeOK, Stopped, process, listen
<1> QED BY <1>1, <1>2, ListenKept, LoadKept DEF IInv, ListenInv, LoadInv

\* A step of a Listen leaves the loads alone, and takes place in a process that
\* runs.
LEMMA ListenStep ==
    ASSUME IInv, NEW s \in Services, phase[s] # "idle" \/ running,
           UNCHANGED process
    PROVE  LoadInv' /\ Stopped'
<1>1. running
  BY DEF IInv, Stopped
<1> QED BY <1>1, LoadKept DEF Stopped, process

LEMMA CallStep ==
    ASSUME NEW s \in Services
    PROVE  IInv /\ Call(s) => IInv'
<1> SUFFICES ASSUME IInv, Call(s) PROVE IInv'
  OBVIOUS
<1>1. TypeOK /\ UNCHANGED <<process, disk, keyed, attempts, issued>>
  BY DEF IInv, Call
<1>2. TypeOK'
  BY <1>1 DEF Call, TypeOK, process, Phases
<1>3. \A t \in Services : /\ InHand(t)' <=> InHand(t)
                          /\ InHand(t) => phase'[t] = phase[t]
  BY <1>1 DEF Call, TypeOK, InHand
<1>4. KeyExactlyWhenNeeded' /\ KeysBounded'
  BY <1>1, <1>3 DEF IInv, KeyExactlyWhenNeeded, KeysBounded, InHand
<1>5. OneAtATime' /\ Charged'
  BY <1>1, <1>3 DEF IInv, OneAtATime, Charged, InHand
<1>6. LoadInv' /\ Stopped'
  BY <1>1, ListenStep DEF Call
<1> QED BY <1>2, <1>4, <1>5, <1>6 DEF IInv, LoadInv

\* Whatever else Listen has done, when it returns no Listen is in hand.
LEMMA Returned ==
    ASSUME IInv, NEW s \in Services, Return(s),
           \A t \in Services \ {s} : ~InHand(t)
    PROVE  ListenInv'
<1>1. /\ phase' = [phase EXCEPT ![s] = "idle"]
      /\ keyed' = FALSE /\ attempts' = 0 /\ issued' = 0
      /\ phase \in [Services -> Phases]
  BY DEF Return, Moved, IInv, TypeOK
<1>2. \A t \in Services : phase'[t] \notin {"ask", "start", "login", "close"}
  BY <1>1 DEF InHand
<1>3. KeyExactlyWhenNeeded' /\ OneAtATime' /\ Charged'
  BY <1>1, <1>2 DEF KeyExactlyWhenNeeded, OneAtATime, Charged, InHand
<1>4. KeysBounded'
  BY <1>1, CredentialsAssumption DEF KeysBounded
<1> QED BY <1>3, <1>4 DEF ListenInv

LEMMA PrepareStep ==
    ASSUME NEW s \in Services
    PROVE  IInv /\ Prepare(s) => IInv'
<1> SUFFICES ASSUME IInv, Prepare(s) PROVE IInv'
  OBVIOUS
<1>1. /\ TypeOK /\ UNCHANGED <<setup, files, process, deployed, disk>>
      /\ phase[s] = "waiting"
  BY DEF IInv, Prepare
<1>2. \A t \in Services : ~InHand(t)
  <2>1. \A t \in Services : phase[t] \in Phases
    BY <1>1 DEF TypeOK
  <2> QED BY <2>1 DEF Prepare, Held, InHand, Phases
<1>3. ~keyed /\ attempts = 0 /\ issued = 0
  BY <1>2 DEF IInv, Charged
<1>4. LoadInv' /\ Stopped'
  BY <1>1, ListenStep
<1>5. CASE Return(s)
  <2>1. TypeOK'
    BY <1>1, <1>5, Emptiness DEF TypeOK, Return, Moved, process
  <2> QED BY <1>2, <1>4, <1>5, <2>1, Returned DEF IInv, ListenInv, LoadInv
<1>6. CASE ~Return(s)
  <2> DEFINE to == phase'[s]
  <2>1. /\ phase' = [phase EXCEPT ![s] = to] /\ to \in {"ask", "start"}
        /\ keyed' \in BOOLEAN /\ attempts' = 0 /\ issued' = 0
        /\ s \notin Ephemeral /\ disk[s] = "registered" => to # "ask" /\ ~keyed'
        /\ s \in Ephemeral \/ disk[s] = "none" => to = "ask" \/ keyed'
        /\ to = "ask" => ~keyed'
    <3>1. PICK v \in {"ask", "start"} :
             /\ Moved(s, v) /\ keyed' \in BOOLEAN /\ UNCHANGED <<attempts, issued>>
             /\ ~needsAuthKey(s) => v = "start" /\ ~keyed'
             /\ needsAuthKey(s) => v = "ask" \/ keyed'
             /\ v = "ask" => ~keyed'
      <4>1. keyed \in BOOLEAN
        BY <1>1 DEF TypeOK
      <4>2. CASE ~needsAuthKey(s)
        <5>1. Moved(s, "start") /\ UNCHANGED <<keyed, attempts, issued>>
          BY <1>6, <4>2 DEF Prepare
        <5> QED BY <1>3, <4>1, <4>2, <5>1
      <4>3. CASE needsAuthKey(s)
        <5>1. \/ Moved(s, "ask") /\ UNCHANGED <<keyed, attempts, issued>>
              \/ Moved(s, "start") /\ keyed' = TRUE /\ UNCHANGED <<attempts, issued>>
          BY <1>6, <4>3 DEF Prepare
        <5>2. CASE Moved(s, "ask") /\ UNCHANGED <<keyed, attempts, issued>>
          BY <1>3, <4>1, <4>3, <5>2
        <5>3. CASE Moved(s, "start") /\ keyed' = TRUE /\ UNCHANGED <<attempts, issued>>
          <6>1. keyed' \in BOOLEAN /\ keyed'
            BY <5>3
          <6> QED BY <4>3, <5>3, <6>1
        <5> QED BY <5>1, <5>2, <5>3
      <4> QED BY <4>2, <4>3
    <3>2. phase' = [phase EXCEPT ![s] = v] /\ phase'[s] = v
      BY <1>1, <3>1 DEF Moved, TypeOK
    <3>3. /\ s \notin Ephemeral /\ disk[s] = "registered" => ~needsAuthKey(s)
          /\ s \in Ephemeral \/ disk[s] = "none" => needsAuthKey(s)
      BY DEF needsAuthKey, hasExistingState
    <3> QED BY <1>3, <3>1, <3>2, <3>3
  <2> HIDE DEF to
  <2>2. \A t \in Services : /\ t # s => phase'[t] \notin {"ask", "start", "login", "close"}
                            /\ t = s => phase'[t] = to
    BY <1>1, <1>2, <2>1 DEF TypeOK, InHand
  <2>3. TypeOK'
    BY <1>1, <2>1, Emptiness DEF TypeOK, process, Phases
  <2>4. KeyExactlyWhenNeeded'
    BY <1>1, <2>1, <2>2 DEF KeyExactlyWhenNeeded
  <2>5. KeysBounded' /\ OneAtATime'
    BY <2>1, <2>2, CredentialsAssumption DEF KeysBounded, OneAtATime, InHand
  <2>6. Charged'
    BY <2>1, <2>2 DEF Charged, InHand
  <2> QED BY <1>4, <2>3, <2>4, <2>5, <2>6 DEF IInv, LoadInv
<1> QED BY <1>5, <1>6

LEMMA AttemptStep ==
    ASSUME NEW s \in Services
    PROVE  IInv /\ Attempt(s) => IInv'
<1> SUFFICES ASSUME IInv, Attempt(s) PROVE IInv'
  OBVIOUS
<1>1. /\ TypeOK /\ UNCHANGED <<setup, files, process, deployed, disk>>
      /\ phase[s] = "ask" /\ RetryMaxAttempts \in Nat
  BY CredentialsAssumption DEF IInv, Attempt
<1>2. \A t \in Services \ {s} : ~InHand(t)
  BY <1>1 DEF IInv, OneAtATime, InHand
<1>3. ~keyed /\ issued <= attempts /\ attempts \in 0 .. RetryMaxAttempts /\ issued \in Nat
  BY <1>1 DEF IInv, Charged, TypeOK
<1>4. LoadInv' /\ Stopped'
  BY <1>1, ListenStep
<1>5. ~(s \notin Ephemeral /\ disk[s] = "registered")
  BY <1>1 DEF IInv, KeyExactlyWhenNeeded
<1>6. CASE Return(s)
  <2>1. TypeOK'
    BY <1>1, <1>6, Emptiness DEF TypeOK, Return, Moved, process
  <2> QED BY <1>2, <1>4, <1>6, <2>1, Returned DEF IInv, ListenInv, LoadInv
<1>7. CASE issued' = issued + 1 /\ keyed' = TRUE /\ attempts' = 0 /\ Moved(s, "start")
  <2>1. /\ phase' = [phase EXCEPT ![s] = "start"]
        /\ \A t \in Services : /\ t # s => phase'[t] \notin {"ask", "start", "login", "close"}
                               /\ t = s => phase'[t] = "start"
    BY <1>1, <1>2, <1>7 DEF TypeOK, InHand, Moved
  <2>2. TypeOK'
    BY <1>1, <1>3, <1>7, <2>1, Emptiness DEF TypeOK, process, Phases
  <2>3. KeyExactlyWhenNeeded'
    BY <1>1, <1>5, <1>7, <2>1 DEF KeyExactlyWhenNeeded
  <2>4. KeysBounded'
    BY <1>1, <1>3, <1>7 DEF KeysBounded
  <2>5. OneAtATime' /\ Charged'
    BY <1>7, <2>1 DEF OneAtATime, Charged, InHand
  <2> QED BY <1>4, <2>2, <2>3, <2>4, <2>5 DEF IInv, LoadInv
<1>8. CASE /\ MayRetry(attempts + 1) /\ attempts' = attempts + 1
           /\ issued' \in {issued, issued + 1} /\ UNCHANGED <<phase, keyed>>
  <2>1. attempts' \in 0 .. RetryMaxAttempts /\ issued' \in Nat /\ issued' <= attempts'
    BY <1>1, <1>3, <1>8 DEF MayRetry
  <2>2. TypeOK'
    BY <1>1, <1>8, <2>1 DEF TypeOK, process
  <2>3. KeyExactlyWhenNeeded' /\ OneAtATime'
    BY <1>1, <1>8 DEF IInv, KeyExactlyWhenNeeded, OneAtATime, InHand
  <2>4. KeysBounded'
    BY <1>1, <2>1 DEF KeysBounded
  <2>5. \A t \in Services : phase'[t] \in {"ask", "start", "login", "close"} => t = s
    BY <1>2, <1>8 DEF InHand
  <2>6. Charged'
    BY <1>1, <1>3, <1>8, <2>1, <2>5 DEF Charged, InHand
  <2> QED BY <1>4, <2>2, <2>3, <2>4, <2>6 DEF IInv, LoadInv
<1> QED BY <1>6, <1>7, <1>8 DEF Attempt

\* The node is given up: its Close goes on, with s.mu held.
LEMMA GivesUp ==
    ASSUME IInv, NEW s \in Services, phase[s] \in {"start", "login"}, Moved(s, "close"),
           UNCHANGED <<setup, files, process, deployed, keyed, attempts, issued>>,
           disk' \in [Services -> {"none", "file", "registered"}],
           \A t \in Services \ {s} : ~InHand(t)
    PROVE  IInv'
<1>1. TypeOK
  BY DEF IInv
<1>2. LoadInv' /\ Stopped'
  BY ListenStep
<1>3. /\ phase' = [phase EXCEPT ![s] = "close"]
      /\ \A t \in Services : /\ t # s => phase'[t] \notin {"ask", "start", "login", "close"}
                             /\ t = s => phase'[t] = "close"
  BY <1>1 DEF TypeOK, InHand, Moved
<1>4. TypeOK'
  BY <1>1, <1>3 DEF TypeOK, process, Phases
<1>5. KeyExactlyWhenNeeded' /\ KeysBounded' /\ OneAtATime'
  BY <1>3 DEF IInv, KeyExactlyWhenNeeded, KeysBounded, OneAtATime, InHand
<1>6. Charged'
  BY <1>3 DEF IInv, Charged, InHand
<1> QED BY <1>2, <1>4, <1>5, <1>6 DEF IInv, LoadInv

LEMMA StartStep ==
    ASSUME NEW s \in Services
    PROVE  IInv /\ Start(s) => IInv'
<1> SUFFICES ASSUME IInv, Start(s) PROVE IInv'
  OBVIOUS
<1>1. /\ TypeOK /\ UNCHANGED <<setup, files, process, deployed>>
      /\ phase[s] = "start"
  BY DEF IInv, Start
<1>2. \A t \in Services \ {s} : ~InHand(t)
  BY <1>1 DEF IInv, OneAtATime, InHand
<1>3. LoadInv' /\ Stopped'
  BY <1>1, ListenStep
<1>4. CASE Moved(s, "close") /\ UNCHANGED <<disk, keyed, attempts, issued>>
  <2>1. disk' \in [Services -> {"none", "file", "registered"}]
    BY <1>1, <1>4 DEF TypeOK
  <2> QED BY <1>1, <1>2, <1>4, <2>1, GivesUp
<1>5. CASE /\ disk' = [disk EXCEPT ![s] = IF @ = "none" THEN "file" ELSE @]
           /\ Moved(s, "login") /\ UNCHANGED <<keyed, attempts, issued>>
  <2>1. /\ phase' = [phase EXCEPT ![s] = "login"]
        /\ \A t \in Services : /\ t # s => phase'[t] \notin {"ask", "start", "login", "close"}
                               /\ t = s => phase'[t] = "login"
    BY <1>1, <1>2, <1>5 DEF TypeOK, InHand, Moved
  <2>2. TypeOK'
    BY <1>1, <1>5, <2>1 DEF TypeOK, process, Phases
  <2>3. KeyExactlyWhenNeeded'
    BY <1>1, <1>5, <2>1 DEF IInv, KeyExactlyWhenNeeded, TypeOK
  <2>4. KeysBounded' /\ OneAtATime'
    BY <1>5, <2>1 DEF IInv, KeysBounded, OneAtATime, InHand
  <2>5. Charged'
    BY <1>1, <1>5, <2>1 DEF IInv, Charged, InHand
  <2> QED BY <1>3, <2>2, <2>3, <2>4, <2>5 DEF IInv, LoadInv
<1> QED BY <1>4, <1>5 DEF Start

LEMMA LoginStep ==
    ASSUME NEW s \in Services
    PROVE  IInv /\ Login(s) => IInv'
<1> SUFFICES ASSUME IInv, Login(s) PROVE IInv'
  OBVIOUS
<1>1. /\ TypeOK /\ UNCHANGED <<setup, files, process, deployed>>
      /\ phase[s] = "login"
      /\ disk' \in [Services -> {"none", "file", "registered"}]
  BY DEF IInv, Login, TypeOK
<1>2. \A t \in Services \ {s} : ~InHand(t)
  BY <1>1 DEF IInv, OneAtATime, InHand
<1>3. CASE Return(s)
  <2>1. TypeOK'
    BY <1>1, <1>3, Emptiness DEF TypeOK, Return, Moved, process
  <2>2. LoadInv' /\ Stopped'
    BY <1>1, ListenStep
  <2> QED BY <1>2, <1>3, <2>1, <2>2, Returned DEF IInv, ListenInv, LoadInv
<1>4. CASE Moved(s, "close") /\ UNCHANGED <<keyed, attempts, issued>>
  BY <1>1, <1>2, <1>4, GivesUp
<1> QED BY <1>3, <1>4 DEF Login

LEMMA ClosedStep ==
    ASSUME NEW s \in Services
    PROVE  IInv /\ Closed(s) => IInv'
<1> SUFFICES ASSUME IInv, Closed(s) PROVE IInv'
  OBVIOUS
<1>1. /\ TypeOK /\ UNCHANGED <<setup, files, process, deployed, disk>>
      /\ phase[s] = "close" /\ Return(s)
  BY DEF IInv, Closed
<1>2. \A t \in Services \ {s} : ~InHand(t)
  BY <1>1 DEF IInv, OneAtATime, InHand
<1>3. LoadInv' /\ Stopped'
  BY <1>1, ListenStep
<1>4. TypeOK'
  BY <1>1, Emptiness DEF TypeOK, Return, Moved, process
<1> QED BY <1>1, <1>2, <1>3, <1>4, Returned DEF IInv, ListenInv, LoadInv

LEMMA StepIInv == IInv /\ [Next]_vars => IInv'
<1> SUFFICES ASSUME IInv, [Next]_vars PROVE IInv'
  OBVIOUS
<1>1. CASE UNCHANGED vars
  <2>1. TypeOK' /\ Stopped'
    BY <1>1 DEF vars, process, listen, IInv, TypeOK, Stopped
  <2> QED BY <1>1, <2>1, ListenKept, LoadKept DEF vars, IInv, ListenInv, LoadInv
<1>2. CASE Next
  BY <1>2, BootStep, ReloadStep, DieStep, OperatorStep, DeployStep, CallStep,
     PrepareStep, AttemptStep, StartStep, LoginStep, ClosedStep DEF Next, Listening
<1> QED BY <1>1, <1>2

LEMMA Invariance == Spec => []IInv
BY InitIInv, StepIInv, PTL DEF Spec

-----------------------------------------------------------------------------
(* Theorems *)

\* The variables keep their types, the attempts at a key their bound.
THEOREM CredentialsTypeCorrect == Spec => []TypeOK
BY Invariance, PTL DEF IInv

\* No process that has loaded its configuration has an auth key in its
\* environment, so no node finds one there (config.go:412).
THEOREM NoKeyInEnvironment == Spec => []EnvClear
BY Invariance, PTL DEF IInv

\* Every load of a process finds the credentials of its first (docker.go:189).
THEOREM LaterLoadsAgree == Spec => []LoadsAgree
BY Invariance, PTL DEF IInv

\* The credentials nodes are started with are of one method and complete.
THEOREM NoMixedCredentials == Spec => []CredentialsWhole
BY Invariance, PTL DEF IInv

\* Registered nodes spend no key, nodes without state are given one
\* (tailscale.go:161).
THEOREM KeysGoWhereNeeded == Spec => []KeyExactlyWhenNeeded
BY Invariance, PTL DEF IInv

\* A Listen has the API issue one key more than it may retry, at most, whatever
\* answers are lost (oauth.go:73).
THEOREM FewKeysIssued == Spec => []KeysBounded
BY Invariance, PTL DEF IInv
-----------------------------------------------------------------------------
(* A Listen comes nearer to its end with every step *)

LEMMA Left ==
    ASSUME NEW n \in 0 .. RetryMaxAttempts
    PROVE  /\ StepsLeft("idle", n) = 0
           /\ StepsLeft("close", n) = 1
           /\ StepsLeft("login", n) = 2
           /\ StepsLeft("start", n) = 3
           /\ StepsLeft("ask", n) = 4 + RetryMaxAttempts - n
           /\ StepsLeft("waiting", n) = 5 + RetryMaxAttempts
BY CredentialsAssumption DEF StepsLeft

\* The step of a Listen at s, whose phase becomes p: the others stay where they are, since
\* none of them has anything to do with attempts.
LEMMA OneMoves ==
    ASSUME IInv, IInv', NEW s \in Services, NEW p \in Phases,
           phase' = [phase EXCEPT ![s] = p],
           \A t \in Services \ {s} : phase[t] # "ask",
           \/ phase[s] = "idle" /\ p = "waiting"
           \/ StepsLeft(p, attempts') < StepsLeft(phase[s], attempts)
    PROVE  LET before(t) == StepsLeft(phase[t], attempts)
               after(t) == StepsLeft(phase'[t], attempts')
           IN /\ \A t \in Services : phase[t] # "idle" => after(t) <= before(t)
              /\ \E t \in Services : after(t) # before(t)
<1> DEFINE before(t) == StepsLeft(phase[t], attempts)
           after(t) == StepsLeft(phase'[t], attempts')
<1>1. /\ attempts \in 0 .. RetryMaxAttempts /\ attempts' \in 0 .. RetryMaxAttempts
      /\ phase \in [Services -> Phases] /\ RetryMaxAttempts \in Nat
  BY CredentialsAssumption DEF IInv, TypeOK
<1>2. phase'[s] = p /\ \A t \in Services \ {s} : phase'[t] = phase[t]
  BY <1>1
<1>3. \A n \in 0 .. RetryMaxAttempts, q \in Phases : StepsLeft(q, n) \in Nat
  BY <1>1, Left DEF Phases
<1>4. ASSUME NEW t \in Services \ {s} PROVE after(t) = before(t)
  <2>1. phase[t] \in {"idle", "waiting", "start", "login", "close"}
    BY <1>1 DEF Phases
  <2> QED  BY <1>1, <1>2, <2>1, Left
<1>5. before(s) \in Nat /\ after(s) \in Nat /\ \A t \in Services : before(t) \in Nat
  BY <1>1, <1>2, <1>3
<1>6. after(s) # before(s) /\ (phase[s] # "idle" => after(s) <= before(s))
  <2>1. CASE phase[s] = "idle" /\ p = "waiting"
    BY <1>1, <1>2, <2>1, Left
  <2>2. CASE StepsLeft(p, attempts') < StepsLeft(phase[s], attempts)
    BY <1>2, <1>5, <2>2
  <2> QED  BY <2>1, <2>2
<1> HIDE DEF before, after
<1>7. \A t \in Services : phase[t] # "idle" => after(t) <= before(t)
  BY <1>4, <1>5, <1>6
<1> QED  BY <1>6, <1>7 DEF before, after

\* Every step of a Listen, a retry of the API too, brings it nearer to its end and no other
\* farther from it; one Listen costs RetryMaxAttempts + 5 steps at most, and a process that
\* is killed leaves none behind (tailscale.go:65, Listen under s.mu).  That every step is
\* taken is not promised: the last one of a Listen that failed is the return of its node's
\* Close, which has no timer, and until then nobody gets s.mu (tailscale.go:112, :123).
THEOREM ListensAdvance == Spec => ListenAdvances /\ CloseKeepsTheLock
<1> DEFINE before(s) == StepsLeft(phase[s], attempts)
           after(s) == StepsLeft(phase'[s], attempts')
           Nearer == /\ \A s \in Services : phase[s] # "idle" => after(s) <= before(s)
                     /\ listen' # listen => \E s \in Services : after(s) # before(s)
<1>1. ASSUME IInv, IInv', [Next]_vars PROVE Nearer
  <2>0. /\ attempts \in 0 .. RetryMaxAttempts /\ attempts' \in 0 .. RetryMaxAttempts
        /\ phase \in [Services -> Phases] /\ RetryMaxAttempts \in Nat
    BY <1>1, CredentialsAssumption DEF IInv, TypeOK
  <2>a. \A s \in Services : before(s) \in Nat
    BY <2>0, Left DEF Phases
  <2>1. CASE UNCHANGED listen
    BY <2>1, <2>a DEF listen
  <2>2. CASE Die
    <3>1. /\ phase' = [s \in Services |-> "idle"]
          /\ ~keyed' /\ attempts' = 0 /\ issued' = 0
      BY <2>2 DEF Die
    <3>2. \A s \in Services : after(s) = 0
      BY <2>0, <3>1, Left
    <3>3. CASE \A s \in Services : phase[s] = "idle"
      <4>1. phase' = phase
        BY <2>0, <3>1, <3>3
      <4>2. ~keyed /\ attempts = 0 /\ issued = 0 /\ keyed \in BOOLEAN /\ keyed' \in BOOLEAN
        BY <1>1, <3>3 DEF IInv, Charged, InHand, TypeOK
      <4>3. keyed' = keyed
        BY <3>1, <4>2
      <4> QED  BY <2>1, <3>1, <4>1, <4>2, <4>3 DEF listen
    <3>4. CASE \E s \in Services : phase[s] # "idle"
      <4>1. PICK s \in Services : phase[s] # "idle"
        BY <3>4
      <4>2. before(s) # 0
        BY <2>0, <4>1, Left DEF Phases
      <4> HIDE DEF before, after
      <4> QED  BY <2>a, <3>2, <4>1, <4>2
    <3> QED  BY <3>3, <3>4
  <2>3. ASSUME NEW s \in Services, Call(s) \/ Prepare(s) \/ Listening(s) \/ Closed(s)
        PROVE  Nearer
    <3>1. CASE Call(s)
      <4>1. /\ phase[s] = "idle" /\ phase' = [phase EXCEPT ![s] = "waiting"]
            /\ UNCHANGED <<keyed, attempts, issued>> /\ "waiting" \in Phases
        BY <3>1 DEF Call, Phases
      <4>2. phase'[s] = "waiting" /\ \A t \in Services \ {s} : phase'[t] = phase[t]
        BY <2>0, <4>1
      <4>3. after(s) # before(s) /\ \A t \in Services \ {s} : after(t) = before(t)
        BY <2>0, <4>1, <4>2, Left
      <4> HIDE DEF before, after
      <4> QED  BY <2>a, <4>1, <4>3
    <3>2. CASE Prepare(s)
      <4>1. phase[s] = "waiting" /\ \A t \in Services : phase[t] # "ask"
        BY <3>2 DEF Prepare, Held
      <4>2. PICK p \in {"idle", "ask", "start"} : phase' = [phase EXCEPT ![s] = p]
        BY <3>2 DEF Prepare, Return, Moved
      <4>3. StepsLeft(p, attempts') < StepsLeft("waiting", attempts)
        BY <2>0, Left
      <4> QED  BY <1>1, <4>1, <4>2, <4>3, OneMoves DEF Phases
    <3>3. CASE Listening(s) \/ Closed(s)
      <4>1. phase[s] \in {"ask", "start", "login", "close"} /\ \A t \in Services \ {s} : phase[t] # "ask"
        <5>1. phase[s] \in {"ask", "start", "login", "close"}
          BY <3>3 DEF Listening, Attempt, Start, Login, Closed
        <5> QED  BY <1>1, <5>1 DEF IInv, OneAtATime, InHand
      <4>2. CASE Attempt(s)
        <5>1. phase[s] = "ask"
          BY <4>2 DEF Attempt
        <5>2. CASE \E p \in {"idle", "start"} : phase' = [phase EXCEPT ![s] = p]
          <6>1. PICK p \in {"idle", "start"} : phase' = [phase EXCEPT ![s] = p]
            BY <5>2
          <6>2. StepsLeft(p, attempts') < StepsLeft("ask", attempts)
            BY <2>0, Left
          <6> QED  BY <1>1, <4>1, <5>1, <6>1, <6>2, OneMoves DEF Phases
        <5>3. CASE attempts' = attempts + 1 /\ UNCHANGED phase
          <6>1. phase' = [phase EXCEPT ![s] = "ask"]
            BY <2>0, <5>1, <5>3
          <6>2. StepsLeft("ask", attempts') < StepsLeft("ask", attempts)
            BY <2>0, <5>3, Left
          <6> QED  BY <1>1, <4>1, <5>1, <6>1, <6>2, OneMoves DEF Phases
        <5> QED  BY <4>2, <5>2, <5>3 DEF Attempt, Return, Moved
      <4>3. CASE Start(s) \/ Login(s) \/ Closed(s)
        <5>1. PICK p \in {"idle", "login", "close"} :
                  /\ phase' = [phase EXCEPT ![s] = p]
                  /\ \/ phase[s] = "start"
                     \/ phase[s] = "login" /\ p # "login"
                     \/ phase[s] = "close" /\ p = "idle"
          <6>1. CASE Start(s)
            BY <6>1 DEF Start, Moved
          <6>2. CASE Login(s)
            BY <6>2 DEF Login, Return, Moved
          <6>3. CASE Closed(s)
            BY <6>3 DEF Closed, Return, Moved
          <6> QED  BY <4>3, <6>1, <6>2, <6>3
        <5>2. StepsLeft(p, attempts') < StepsLeft(phase[s], attempts)
          BY <2>0, <5>1, Left
        <5> QED  BY <1>1, <4>1, <5>1, <5>2, OneMoves DEF Phases
      <4> QED  BY <3>3, <4>2, <4>3 DEF Listening
    <3> QED  BY <2>3, <3>1, <3>2, <3>3
  <2>4. CASE Boot \/ Reload \/ (\E k \in Secrets, c \in Contents : Rotate(k, c))
             \/ \E s \in Untagged : Deploy(s)
    <3>1. UNCHANGED listen
      BY <2>4 DEF Boot, Reload, Rotate, Deploy
    <3> QED  BY <3>1, <2>1
  <2>5. CASE UNCHANGED vars
    BY <2>1, <2>5 DEF vars
  <2> QED  BY <1>1, <2>2, <2>3, <2>4, <2>5 DEF Next
<1>2. [Next]_vars /\ IInv /\ IInv' => [Nearer]_vars
  BY <1>1
<1> HIDE DEF Nearer
<1>3. ListenAdvances <=> [][Nearer]_vars
  BY DEF ListenAdvances, Nearer
<1> DEFINE Barred == (\E s \in Services : phase[s] = "close" /\ phase'[s] = "close") =>
                       \A t \in Services : phase[t] = "waiting" => phase'[t] = "waiting"
<1>4. ASSUME IInv, [Next]_vars PROVE Barred
  <2> SUFFICES ASSUME NEW s \in Services, phase[s] = "close", phase'[s] = "close",
                      NEW t \in Services, phase[t] = "waiting"
               PROVE  phase'[t] = "waiting"
    OBVIOUS
  <2>1. phase \in [Services -> Phases]
    BY <1>4 DEF IInv, TypeOK
  <2>2. ASSUME NEW r \in Services, Call(r) \/ Prepare(r) \/ Listening(r) \/ Closed(r)
        PROVE  phase'[t] = "waiting"
    <3>1. ~Prepare(r)
      BY DEF Prepare, Held
    <3>2. CASE r # t
      <4>1. phase'[t] = phase[t]
        BY <2>1, <2>2, <3>1, <3>2
           DEF Call, Listening, Attempt, Start, Login, Closed, Return, Moved
      <4> QED  BY <4>1
    <3>3. CASE r = t
      BY <2>2, <3>1, <3>3 DEF Call, Listening, Attempt, Start, Login, Closed
    <3> QED  BY <3>2, <3>3
  <2>3. ~Die
    BY DEF Die
  <2>4. CASE Boot \/ Reload \/ (\E k \in Secrets, c \in Contents : Rotate(k, c))
             \/ (\E u \in Untagged : Deploy(u)) \/ UNCHANGED vars
    <3>1. UNCHANGED listen
      BY <2>4 DEF Boot, Reload, Rotate, Deploy, vars
    <3> QED  BY <3>1 DEF listen
  <2> QED  BY <1>4, <2>2, <2>3, <2>4 DEF Next
<1> HIDE DEF Barred
<1>5. CloseKeepsTheLock <=> [][Barred]_vars
  BY DEF CloseKeepsTheLock, Barred
<1>6. IInv /\ [Next]_vars => [Barred]_vars
  BY <1>4
<1> QED  BY <1>2, <1>3, <1>5, <1>6, Invariance, PTL DEF Spec
=============================================================================
