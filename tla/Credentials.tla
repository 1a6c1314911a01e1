----------------------------- MODULE Credentials -----------------------------
(***************************************************************************)
(* How a node gets its credentials: the secrets tsbridge resolves when it   *)
(* loads its configuration (internal/config/credentials.go, config.go), what *)
(* a later load of the docker provider finds of them (docker.go), and the    *)
(* part of Listen that decides whether a node needs an auth key, gets one    *)
(* and brings the node up (internal/tailscale: tailscale.go, state.go,       *)
(* oauth.go).  The process may be killed at any moment and started again:    *)
(* its memory and its environment begin anew, the state directory stays.     *)
(*                                                                         *)
(* A secret's value is named by where it comes from.  Three secrets are      *)
(* looked for: the OAuth client's id and secret, and the auth key.           *)
(***************************************************************************)
EXTENDS Naturals

CONSTANTS
    Services,       \* services that may be deployed
    Ephemeral,      \* those that keep no node state
    Untagged,       \* services, of these or others, with no tag and no default tag
    Setups,         \* what an operator may have set up
    None,           \* no value
    RetryMaxAttempts

Secrets == {"id", "secret", "key"}
Contents == {"missing", "blank", "first", "second"}       \* of a secret's file
Found == {"value", "first", "second", "own", "default"}
Values == Found \cup {None}
Nothing == [k \in Secrets |-> None]

\* Environment variables: one an option names, and one looked at in any case.
\* TS_AUTHKEY is Default("key"); tsnet reads TS_AUTH_KEY as well.
Own(k) == <<k, "own">>
Default(k) == <<k, "default">>
TS_AUTHKEY == Default("key")
TS_AUTH_KEY == <<"key", "old">>
Vars == {Own(k) : k \in Secrets} \cup {Default(k) : k \in Secrets} \cup {TS_AUTH_KEY}

\* The options given for each secret, its file, the environment at launch.
SetupSet == [options : [Secrets -> SUBSET {"value", "file", "env"}],
             files : [Secrets -> Contents], env : SUBSET Vars]

ASSUME CredentialsAssumption ==
    /\ None \notin Found \cup {"error"} /\ None \notin [Secrets -> Values]
    /\ Ephemeral \subseteq Services
    /\ Setups \subseteq SetupSet
    /\ RetryMaxAttempts \in Nat

Outcomes == {"loaded", "unresolved", "conflict", "half", "untagged"}
Phases == {"idle", "waiting", "ask", "start", "login", "close"}

VARIABLES
    setup,      \* the operator's choice
    files,      \* what the secrets' files hold now
    running,    \* whether the process runs
    env,        \* its environment
    config,     \* the credentials of tailscale.Server, from the first load
    cachedTailscale,  \* p.cachedTailscale, None before the first successful load
    load,       \* how the last load ended, and the credentials it found
    deployed,   \* the untagged services with a container
    disk,       \* a service's state directory: "none", "file" (not logged in), "registered"
    phase,      \* where the service's Listen is
    keyed,      \* the node in hand was given an auth key
    attempts,   \* requests for a key by the Listen in hand
    issued      \* keys the API has issued for it

process == <<running, env, config, cachedTailscale, load>>
listen == <<phase, keyed, attempts, issued>>
vars == <<setup, files, process, deployed, disk, listen>>

-----------------------------------------------------------------------------
(* Resolving the secrets *)

\* ResolveSecret: the first source configured decides, good or bad.  p is what
\* the configuration says: a value or None, and whether there are a file and a
\* variable of its own.
ResolveSecret(k, p, e) ==
    CASE p.value # None -> p.value
      [] p.value = None /\ p.file ->
            CASE files[k] = "missing" -> "error"
              [] files[k] = "blank" -> None
              [] OTHER -> files[k]
      [] p.value = None /\ ~p.file /\ p.env -> IF Own(k) \in e THEN "own" ELSE "error"
      [] OTHER -> None

\* A source that fails or holds nothing leaves it to the default variable.
ResolveSecretWithFallback(k, p, e) ==
    LET r == ResolveSecret(k, p, e)
    IN  IF r \in {None, "error"} /\ Default(k) \in e THEN "default" ELSE r

\* resolveSecrets ends by clearing the variables tsnet would read by itself,
\* unless a secret before it could not be resolved.
\* (Mutant: it clears what it has used.)
Cleared_IfUsed(c, e) == IF c.key = "default" THEN e \ {TS_AUTHKEY, TS_AUTH_KEY} ELSE e
Cleared(c, e) ==
    IF "error" \in {c[k] : k \in Secrets} THEN e ELSE e \ {TS_AUTHKEY, TS_AUTH_KEY}

UsesOAuth(c) == c.id # None \/ c.secret # None

\* validateAuthMethodSelection.
\* (Mutant: an auth key wins over whatever else is set.)
Conflict_KeyWins(c) == FALSE
Conflict(c) == c.key # None /\ UsesOAuth(c)

\* validateOAuth, then validateService for each service.
Validate(c) ==
    CASE Conflict(c) -> "conflict"
      [] ~Conflict(c) /\ c.key = None /\ ~(c.id = None <=> c.secret = None) -> "half"
      [] ~Conflict(c) /\ UsesOAuth(c) /\ deployed # {} -> "untagged"
      [] OTHER -> "loaded"

Options == [k \in Secrets |->
               [value |-> IF "value" \in setup.options[k] THEN "value" ELSE None,
                file |-> "file" \in setup.options[k], env |-> "env" \in setup.options[k]]]

\* What Load has cfg.Tailscale say: the options, or what the first load resolved.
\* (Mutant: nothing is kept.)
Configured_Anew == Options
Configured ==
    IF cachedTailscale = None THEN Options
    ELSE [k \in Secrets |-> [value |-> cachedTailscale[k], file |-> FALSE, env |-> FALSE]]

\* One load in environment e, up to what it does with the result.
Loaded(e) ==
    LET c == [k \in Secrets |-> ResolveSecretWithFallback(k, Configured[k], e)]
    IN  IF "error" \in {c[k] : k \in Secrets}
        THEN [outcome |-> "unresolved", found |-> Nothing, env |-> Cleared(c, e)]
        ELSE [outcome |-> Validate(c), found |-> c, env |-> Cleared(c, e)]

Unloaded == [outcome |-> "unresolved", found |-> Nothing]

-----------------------------------------------------------------------------
Init ==
    /\ setup \in Setups
    /\ files = setup.files
    /\ running = FALSE /\ env = setup.env
    /\ config = Nothing /\ cachedTailscale = None /\ load = Unloaded
    /\ deployed \in SUBSET Untagged
    /\ disk = [s \in Services |-> "none"]
    /\ phase = [s \in Services |-> "idle"]
    /\ keyed = FALSE /\ attempts = 0 /\ issued = 0

\* NewServerWithFactory takes both halves of an OAuth client or none.
NewServer(c) == c.id = None <=> c.secret = None

\* run: provider.Load, NewApp with a second look at the same configuration,
\* tailscale.NewServer.  If anything of this fails the process exits.
Boot ==
    LET r == Loaded(env)
    IN  /\ ~running
        /\ load' = [outcome |-> r.outcome, found |-> r.found]
        /\ IF r.outcome = "loaded" /\ NewServer(r.found)
           THEN /\ running' = TRUE /\ env' = r.env
                /\ config' = r.found /\ cachedTailscale' = r.found
           ELSE UNCHANGED <<running, env, config, cachedTailscale>>
        /\ UNCHANGED <<setup, files, deployed, disk, listen>>

\* A later Load of the docker provider: what it returns goes to the reload,
\* but the servers go on with the first one's credentials.
Reload ==
    LET r == Loaded(env)
    IN  /\ running
        /\ load' = [outcome |-> r.outcome, found |-> r.found]
        /\ env' = r.env
        /\ UNCHANGED <<setup, files, running, config, cachedTailscale, deployed, disk, listen>>

\* The process ends, in the middle of whatever it does, and will be started
\* again with the environment the operator gave it.
Die ==
    /\ running
    /\ running' = FALSE /\ env' = setup.env
    /\ config' = Nothing /\ cachedTailscale' = None /\ load' = Unloaded
    /\ phase' = [s \in Services |-> "idle"]
    /\ keyed' = FALSE /\ attempts' = 0 /\ issued' = 0
    /\ UNCHANGED <<setup, files, deployed, disk>>

\* The operator replaces a secret, or removes its file.
Rotate(k, c) ==
    /\ "file" \in setup.options[k] /\ files[k] = "first"
    /\ c \in {"second", "missing"}
    /\ files' = [files EXCEPT ![k] = c]
    /\ UNCHANGED <<setup, process, deployed, disk, listen>>

\* A container without tags comes or goes; one with tags makes no difference here.
Deploy(s) ==
    /\ deployed' = IF s \in deployed THEN deployed \ {s} ELSE deployed \cup {s}
    /\ UNCHANGED <<setup, files, process, disk, listen>>

-----------------------------------------------------------------------------
(* Listen *)

Held == \E s \in Services : phase[s] \notin {"idle", "waiting"}

\* The registry starts a service, or starts it again after an update: the call
\* waits for s.mu, which is held until Listen returns.
Call(s) ==
    /\ running /\ phase[s] = "idle"
    /\ phase' = [phase EXCEPT ![s] = "waiting"]
    /\ UNCHANGED <<setup, files, process, deployed, disk, keyed, attempts, issued>>

\* hasExistingState: a state file, whatever is in it.
hasExistingState(s) == disk[s] # "none"

\* (Mutant: a service that keeps no state is not told apart.)
needsAuthKey_Kept(s) == ~hasExistingState(s)
needsAuthKey(s) == s \in Ephemeral \/ ~hasExistingState(s)

Moved(s, to) == phase' = [phase EXCEPT ![s] = to]

\* Listen returns, with or without a listener: s.mu is free again.
Return(s) ==
    /\ Moved(s, "idle")
    /\ keyed' = FALSE /\ attempts' = 0 /\ issued' = 0

ValidateTailscaleSecrets(c) == c.key # None \/ (c.id # None /\ c.secret # None)

\* generateOrResolveAuthKey: OAuth before a key of the configuration.
OffersOAuth(c) == c.id # None /\ c.secret # None

\* prepareServiceAuth: no key needed; no credentials, refused; a key from
\* OAuth; or the configured one.
Prepare(s) ==
    /\ phase[s] = "waiting" /\ ~Held
    /\ \/ /\ ~needsAuthKey(s)
          /\ Moved(s, "start") /\ UNCHANGED <<keyed, attempts, issued>>
       \/ /\ needsAuthKey(s) /\ ~ValidateTailscaleSecrets(config)
          /\ Return(s)
       \/ /\ needsAuthKey(s) /\ OffersOAuth(config)
          /\ Moved(s, "ask") /\ UNCHANGED <<keyed, attempts, issued>>
       \/ /\ needsAuthKey(s) /\ config.key # None /\ ~OffersOAuth(config)
          /\ Moved(s, "start") /\ keyed' = TRUE /\ UNCHANGED <<attempts, issued>>
    /\ UNCHANGED <<setup, files, process, deployed, disk>>

\* backoff.WithMaxRetries: after n failed attempts there may be another.
\* (Mutant: one retry more than the limit.)
MayRetry_OneMore(n) == n <= RetryMaxAttempts + 1
MayRetry(n) == n <= RetryMaxAttempts

\* generateAuthKeyWithOAuthDirect, and what Retry makes of it.  The API issues
\* a key and its answer arrives, arrives unreadable (not retried), or is lost
\* (retried); or it refuses, with whatever status (retried: every status is a
\* network error).  Retry also gives up when the next delay would pass
\* MaxElapsedTime.  An answer with status 200 holds a key.
Attempt(s) ==
    /\ phase[s] = "ask"
    /\ \/ /\ issued' = issued + 1
          /\ keyed' = TRUE /\ attempts' = 0 /\ Moved(s, "start")
       \/ Return(s)
       \/ /\ MayRetry(attempts + 1)
          /\ attempts' = attempts + 1
          /\ issued' \in {issued, issued + 1}
          /\ UNCHANGED <<phase, keyed>>
    /\ UNCHANGED <<setup, files, process, deployed, disk>>

\* The node opens its state directory: there is a state file from here on,
\* logged in or not.  Or it does not get that far.
Start(s) ==
    /\ phase[s] = "start"
    /\ \/ /\ disk' = [disk EXCEPT ![s] = IF @ = "none" THEN "file" ELSE @]
          /\ Moved(s, "login") /\ UNCHANGED <<keyed, attempts, issued>>
       \/ Moved(s, "close") /\ UNCHANGED <<disk, keyed, attempts, issued>>
    /\ UNCHANGED <<setup, files, process, deployed>>

\* Up returns: logged in, for which there must be a key or an earlier login, and
\* then there is a listener or none; or with an error, at the latest by the startup
\* timeout.  Without a listener Listen calls the node's Close before it returns.
\* (Mutant: no timeout.)
Login_NoTimeout(s) ==
    /\ phase[s] = "login"
    /\ keyed \/ disk[s] = "registered"
    /\ disk' = [disk EXCEPT ![s] = "registered"]
    /\ Return(s) \/ (Moved(s, "close") /\ UNCHANGED <<keyed, attempts, issued>>)
    /\ UNCHANGED <<setup, files, process, deployed>>
Login(s) ==
    /\ phase[s] = "login"
    /\ \/ /\ keyed \/ disk[s] = "registered"
          /\ disk' = [disk EXCEPT ![s] = "registered"]
          /\ Return(s)
       \/ /\ \/ (keyed \/ disk[s] = "registered") /\ disk' = [disk EXCEPT ![s] = "registered"]
             \/ UNCHANGED disk
          /\ Moved(s, "close") /\ UNCHANGED <<keyed, attempts, issued>>
    /\ UNCHANGED <<setup, files, process, deployed>>

\* That Close returns, if it does: no timer is set for it, and s.mu is held.
Closed(s) ==
    /\ phase[s] = "close"
    /\ Return(s)
    /\ UNCHANGED <<setup, files, process, deployed, disk>>

Listening(s) == Attempt(s) \/ Start(s) \/ Login(s)

Next ==
    \/ Boot \/ Reload \/ Die
    \/ \E k \in Secrets, c \in Contents : Rotate(k, c)
    \/ \E s \in Untagged : Deploy(s)
    \/ \E s \in Services : Call(s) \/ Prepare(s) \/ Listening(s) \/ Closed(s)

\* A request for a key and Up have timeouts, and Go's mutex lets every waiter
\* in.  Nothing is owed by operators, containers, whoever starts processes, or
\* the Close of a node that failed.
Fairness == \A s \in Services : SF_vars(Prepare(s)) /\ WF_vars(Listening(s))

Spec == Init /\ [][Next]_vars /\ Fairness

-----------------------------------------------------------------------------
(* Properties *)

TypeOK ==
    /\ setup \in Setups
    /\ files \in [Secrets -> Contents]
    /\ running \in BOOLEAN
    /\ env \subseteq Vars
    /\ config \in [Secrets -> Values]
    /\ cachedTailscale \in [Secrets -> Values] \cup {None}
    /\ load \in [outcome : Outcomes, found : [Secrets -> Values]]
    /\ deployed \subseteq Untagged
    /\ disk \in [Services -> {"none", "file", "registered"}]
    /\ phase \in [Services -> Phases]
    /\ keyed \in BOOLEAN
    /\ attempts \in 0 .. RetryMaxAttempts
    /\ issued \in Nat

\* No node ever starts while TS_AUTHKEY or TS_AUTH_KEY is in the environment,
\* where tsnet would find a key by itself, whichever source won (config.go:412).
EnvClear == running => env \cap {TS_AUTHKEY, TS_AUTH_KEY} = {}

\* Every later load finds the credentials the nodes are started with, although
\* the variables they came from are gone and the files may have been replaced
\* or removed since (docker.go:184); a load after the first fails for a service
\* without tags, never for a secret.
LoadsAgree ==
    running => /\ load.outcome \in {"loaded", "untagged"}
               /\ load.found = config

\* tailscale.Server works with an auth key, or with both halves of an OAuth
\* client, or with neither, never with a mixture, for every combination of
\* sources (config.go:664, tailscale.go:37).
CredentialsWhole ==
    /\ config.id = None <=> config.secret = None
    /\ config.key = None \/ config.id = None

\* A service that has logged in once and keeps its state never spends another
\* key, through updates and restarts; one without state, or that keeps none,
\* is never started without one (tailscale.go:161, state.go:61).
KeyExactlyWhenNeeded ==
    \A s \in Services : phase[s] \in {"ask", "start", "login"} =>
        /\ s \notin Ephemeral /\ disk[s] = "registered" => phase[s] # "ask" /\ ~keyed
        /\ s \in Ephemeral \/ disk[s] = "none" => phase[s] = "ask" \/ keyed

\* One Listen makes the API issue no more keys than three, whichever answers
\* are lost on the way (oauth.go:73).
KeysBounded == issued <= RetryMaxAttempts + 1

\* How many steps a Listen in phase p has before it at most; asking again, after n failed
\* attempts, is one of them.
StepsLeft(p, n) ==
    CASE p = "idle" -> 0
      [] p = "close" -> 1
      [] p = "login" -> 2
      [] p = "start" -> 3
      [] p = "ask" -> 4 + RetryMaxAttempts - n
      [] p = "waiting" -> 5 + RetryMaxAttempts

\* A Listen never goes back and never goes round: no step, of it or of another, brings one
\* farther from its end, and none that changes a key, an attempt or a phase leaves all where
\* they were (tailscale.go:65, s.mu; oauth.go:73, the retries).
ListenAdvances ==
    [][LET before(s) == StepsLeft(phase[s], attempts)
           after(s) == StepsLeft(phase'[s], attempts')
       IN /\ \A s \in Services : phase[s] # "idle" => after(s) <= before(s)
          /\ listen' # listen => \E s \in Services : after(s) # before(s)]_vars

\* While a failed Listen's Close goes on, nobody who waits for s.mu gets it.
CloseKeepsTheLock ==
    [][(\E s \in Services : phase[s] = "close" /\ phase'[s] = "close") =>
          \A t \in Services : phase[t] = "waiting" => phase'[t] = "waiting"]_vars

\* A node that failed hangs in its Close, which Listen waits for without a timer.
Hung == \E s \in Services : phase[s] = "close"

\* Every Listen that waits for the lock gets it and returns, however often
\* services are started and restarted around it, and whatever the API and the
\* nodes do, but for one thing: a node that failed may hang in its Close, and
\* then nobody gets the lock again (tailscale.go:65, :112, :123).
ListenEnds == \A s \in Services : phase[s] = "waiting" ~> (phase[s] = "idle" \/ []Hung)
=============================================================================
