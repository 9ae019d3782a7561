----------------------------- MODULE Application -----------------------------
(* The life of the process: cmd/main.go, internal/application, the checks  *)
(* of internal/config and the two HTTP servers that run beside main.       *)
(*                                                                         *)
(* pc is the program counter of main. A server starts to listen in a       *)
(* goroutine of its own, so it may do that, or fail to, at any time after  *)
(* it was created. Requests, signals and policy changes come at any time.  *)
(* The policies are RegoCache's; here they are the answer of Ready, which  *)
(* may change whenever the folder is watched. What a proxied request does  *)
(* is Proxy's; here it is in flight until it finishes, if it ever does.    *)
EXTENDS Integers, FiniteSets

CONSTANTS
    Client,             \* bound: requests in flight at once, of both servers
    Timeout,            \* names of the configured time-outs
    readHeader, read,   \* the two of them that are compared
    MinTimeout, MaxTimeout,
    Config,             \* the configurations the process may be given
    MgmtGrace, ProxyGrace   \* deadlines of the two Shutdowns, in ticks

Provider == {"azure", "jwt", "basic", "noauth"}
Server   == {"mgmt", "proxy"}
Probe    == {"readyz", "version", "config"}

ASSUME ApplicationAssumption ==
    /\ {readHeader, read} \subseteq Timeout
    /\ MinTimeout \in Nat /\ MaxTimeout \in Nat /\ MinTimeout >= 2
    /\ MgmtGrace \in Nat \ {0} /\ ProxyGrace \in Nat \ {0}
    /\ Config \subseteq [envsubst   : BOOLEAN,           \* prefix and wrapper are known
                         timeout    : [Timeout -> Nat],  \* in half seconds
                         providers  : SUBSET Provider,   \* the ones with a setting
                         audiences  : BOOLEAN,           \* some are given
                         authHeader : BOOLEAN,           \* is given
                         permissive : BOOLEAN]

VARIABLES
    pc,        \* of main
    conf,      \* app.config
    exit,      \* why the process ended, or "no"
    regos,     \* app.regos: none, created, watched or closed
    ready,     \* r.regos holds the policy named r.ready
    auth,      \* app.auth: none or the type of provider
    loaded,    \* FALSE: app.auth holds a nil pointer
    srv,       \* [Server -> none, created, listening, failed or shutdown]
    sig,       \* signals in cancelChan
    at,        \* [Client -> idle, a probe, iterating or proxied]
    waited,    \* ticks since the running Shutdown began
    spent,     \* ticks since the signal was caught
    saidReady  \* history: /readyz or /healthz has answered 200

vars == <<pc, conf, exit, regos, ready, auth, loaded, srv, sig, at, waited,
          spent, saidReady>>

Starting == {"config", "mgmt", "regos", "provider", "router", "notify"}
Running  == {"watch", "listen", "wait"}
Closing  == {"closeMgmt", "drainMgmt", "closeRouter", "drainRouter", "closeRegos"}

TypeOK ==
    /\ pc \in Starting \cup Running \cup Closing
    /\ conf \in Config
    /\ exit \in {"no", "failed", "killed", "raced", "not_ready", "closed"}
    /\ regos \in {"none", "created", "watched", "closed"}
    /\ ready \in BOOLEAN /\ loaded \in BOOLEAN /\ saidReady \in BOOLEAN
    /\ auth \in Provider \cup {"none"}
    /\ srv \in [Server -> {"none", "created", "listening", "failed", "shutdown"}]
    /\ sig \in 0..1
    /\ at \in [Client -> Probe \cup {"idle", "iterating", "proxied"}]
    /\ waited \in Nat /\ spent \in Nat

Init ==
    /\ pc = "config" /\ conf \in Config /\ exit = "no"
    /\ regos = "none" /\ ready = FALSE
    /\ auth = "none" /\ loaded = FALSE
    /\ srv = [s \in Server |-> "none"]
    /\ sig = 0
    /\ at = [c \in Client |-> "idle"]
    /\ waited = 0 /\ spent = 0
    /\ saidReady = FALSE

-----------------------------------------------------------------------------
(* Configuration.                                                          *)

\* Mutation of ValidTimeouts: zero, which means no limit, is let through.
ValidTimeouts_NoMinimum(f) ==
    /\ \A t \in Timeout : f.timeout[t] <= MaxTimeout
    /\ f.timeout[readHeader] <= f.timeout[read]

ValidTimeouts(f) ==
    /\ \A t \in Timeout : MinTimeout <= f.timeout[t] /\ f.timeout[t] <= MaxTimeout
    /\ f.timeout[readHeader] <= f.timeout[read]

AuthCount(f) == Cardinality(f.providers)

ValidEnvsubst(f) == f.envsubst

\* The checks that config.New makes, each of which ends the process.
Valid(f) ==
    /\ ValidEnvsubst(f)
    /\ ValidTimeouts(f)
    /\ AuthCount(f) <= 1
    /\ "jwt" \in f.providers => f.audiences
    /\ f.authHeader

\* What a time-out is on each server; net/http takes zero for no limit.
Limit(s, t) == IF s = "mgmt" THEN conf.timeout[t] \div 2 ELSE conf.timeout[t]

-----------------------------------------------------------------------------
(* main: application.New.                                                  *)

Alive == exit = "no"

Exit(why) ==
    /\ exit' = why
    /\ UNCHANGED <<pc, conf, regos, ready, auth, loaded, srv, sig, at, waited, spent,
                   saidReady>>

Goto(from, to) ==
    /\ Alive
    /\ pc = from /\ pc' = to
    /\ UNCHANGED <<conf, exit, at, saidReady>>

ConfigNew ==
    \/ /\ Valid(conf)
       /\ Goto("config", "mgmt")
       /\ UNCHANGED <<regos, ready, auth, loaded, srv, sig, waited, spent>>
    \/ /\ Alive /\ pc = "config" /\ ~Valid(conf)
       /\ Exit("failed")

StartMgmt ==
    /\ Goto("mgmt", "regos")
    /\ srv' = [srv EXCEPT !["mgmt"] = "created"]
    /\ UNCHANGED <<regos, ready, auth, loaded, sig, waited, spent>>

\* Mutation of RegosNew: the policies are loaded as soon as the cache exists.
RegosNew_Watches ==
    /\ Goto("regos", "provider")
    /\ regos' = "watched"
    /\ UNCHANGED <<ready, auth, loaded, srv, sig, waited, spent>>

\* The cache is made, or its folder cannot be watched.
RegosNew ==
    \/ /\ Goto("regos", "provider")
       /\ regos' = "created"
       /\ UNCHANGED <<ready, auth, loaded, srv, sig, waited, spent>>
    \/ /\ Alive /\ pc = "regos"
       /\ Exit("failed")

\* The first case of the switch that applies.
Selected(f) == CHOOSE p \in f.providers :
    LET rank == [azure |-> 1, jwt |-> 2, basic |-> 3, noauth |-> 4]
    IN  \A q \in f.providers : rank[p] <= rank[q]

\* A provider's New may succeed (l) or return a nil pointer. azure.New and
\* jwtsupport.New never return nil; noauth.New does so in permissive mode.
New(p, l) ==
    /\ p \in {"azure", "jwt"} => l
    /\ p = "noauth" => l = ~conf.permissive

\* app.auth == nil is false for an interface that holds a nil pointer, so
\* the process goes on whatever l is.
AuthNew ==
    \/ /\ Goto("provider", "router")
       /\ conf.providers # {}
       /\ auth' = Selected(conf)
       /\ \E l \in BOOLEAN : New(Selected(conf), l) /\ loaded' = l
       /\ UNCHANGED <<regos, ready, srv, sig, waited, spent>>
    \/ /\ Alive /\ pc = "provider"
       /\ conf.providers = {} \/ "jwt" \in conf.providers  \* no key set was loaded
       /\ Exit("failed")

\* router.New, which fails on a URL of the backend that cannot be parsed.
RouterNew ==
    \/ /\ Goto("router", "notify")
       /\ UNCHANGED <<regos, ready, auth, loaded, srv, sig, waited, spent>>
    \/ /\ Alive /\ pc = "router"
       /\ Exit("failed")

-----------------------------------------------------------------------------
(* main: Run and Close.                                                    *)

Notify ==
    /\ Goto("notify", "watch")
    /\ UNCHANGED <<regos, ready, auth, loaded, srv, sig, waited, spent>>

Watch ==
    /\ Goto("watch", "listen")
    /\ regos' = "watched"
    /\ UNCHANGED <<ready, auth, loaded, srv, sig, waited, spent>>

ListenAndServe ==
    /\ Goto("listen", "wait")
    /\ srv' = [srv EXCEPT !["proxy"] = "created"]
    /\ UNCHANGED <<regos, ready, auth, loaded, sig, waited, spent>>

\* The signal is taken from the channel. When the policy is not there Run
\* returns false, and os.Exit does not run the deferred Close.
Caught ==
    /\ sig = 1
    /\ \/ /\ ready
          /\ Goto("wait", "closeMgmt")
          /\ sig' = 0
          /\ UNCHANGED <<regos, ready, auth, loaded, srv, waited, spent>>
       \/ /\ Alive /\ pc = "wait" /\ ~ready
          /\ Exit("not_ready")

\* Shutdown closes the listener, also one that is not there yet.
Shutdown(s, from, to) ==
    /\ Goto(from, to)
    /\ srv' = [srv EXCEPT ![s] = "shutdown"]
    /\ waited' = 0
    /\ UNCHANGED <<regos, ready, auth, loaded, sig, spent>>

InFlight(s) == {c \in Client : IF s = "proxy" THEN at[c] = "proxied"
                                              ELSE at[c] \in Probe \cup {"iterating"}}

Deadline(s) == IF s = "mgmt" THEN MgmtGrace ELSE ProxyGrace

\* It returns when its server is idle or its deadline has passed.
Drained(s, from, to) ==
    /\ InFlight(s) = {} \/ waited = Deadline(s)
    /\ Goto(from, to)
    /\ UNCHANGED <<regos, ready, auth, loaded, srv, sig, waited, spent>>

CloseMgmt == Shutdown("mgmt", "closeMgmt", "drainMgmt")

\* Mutation of MgmtClosed: a context without a deadline.
MgmtClosed_NoDeadline ==
    InFlight("mgmt") = {} /\ Drained("mgmt", "drainMgmt", "closeRouter")

MgmtClosed == Drained("mgmt", "drainMgmt", "closeRouter")

CloseRouter == Shutdown("proxy", "closeRouter", "drainRouter")

\* Mutation of RouterClosed: the server is closed, not shut down.
RouterClosed_Abrupt ==
    /\ Goto("drainRouter", "closeRegos")
    /\ UNCHANGED <<regos, ready, auth, loaded, srv, sig, waited, spent>>

RouterClosed == Drained("proxy", "drainRouter", "closeRegos")

\* The last line of Close; then main returns.
CloseRegos ==
    /\ Alive
    /\ pc = "closeRegos"
    /\ regos' = "closed"
    /\ exit' = "closed"
    /\ UNCHANGED <<pc, conf, ready, auth, loaded, srv, sig, at, waited, spent, saidReady>>

Main ==
    \/ ConfigNew \/ StartMgmt \/ RegosNew \/ AuthNew \/ RouterNew
    \/ Notify \/ Watch \/ ListenAndServe \/ Caught
    \/ CloseMgmt \/ MgmtClosed \/ CloseRouter \/ RouterClosed \/ CloseRegos

-----------------------------------------------------------------------------
(* Beside main: the servers, the policies, signals and time.               *)

\* The goroutine of a server listens, or its address is taken, which is only
\* logged. A server that was shut down before it listened never does.
Listen(s) ==
    /\ Alive
    /\ srv[s] = "created"
    /\ \E r \in {"listening", "failed"} : srv' = [srv EXCEPT ![s] = r]
    /\ UNCHANGED <<pc, conf, exit, regos, ready, auth, loaded, sig, at, waited, spent,
                   saidReady>>

At(c, from, to) ==
    /\ Alive
    /\ at[c] = from /\ at' = [at EXCEPT ![c] = to]
    /\ UNCHANGED <<pc, conf, exit, regos, ready, auth, loaded, srv, sig, waited, spent>>

Accept(c) ==
    /\ \/ srv["mgmt"] = "listening" /\ \E p \in Probe : At(c, "idle", p)
       \/ srv["proxy"] = "listening" /\ At(c, "idle", "proxied")
    /\ UNCHANGED saidReady

\* healthzHandler and readyzHandler ask Ready, which is false of a nil cache.
Ready == regos # "none" /\ ready

Readyz(c) ==
    /\ At(c, "readyz", "idle")
    /\ saidReady' = (saidReady \/ Ready)

VersionHandler(c) == At(c, "version", "idle") /\ UNCHANGED saidReady

\* Info ranges over r.regos without the lock. Of a nil cache it panics, and
\* net/http drops the connection.
ConfigHandler(c) ==
    /\ At(c, "config", IF regos = "none" THEN "idle" ELSE "iterating")
    /\ UNCHANGED saidReady

InfoDone(c) == At(c, "iterating", "idle") /\ UNCHANGED saidReady

\* What the proxy answers is Proxy's; here only that the request is over.
Served(c) == At(c, "proxied", "idle") /\ UNCHANGED saidReady

\* GetRego stores or deletes a policy. The runtime may notice that the map
\* is being ranged over, and then ends the process.
Compile ==
    /\ Alive
    /\ regos = "watched"
    /\ \/ /\ ready' \in BOOLEAN
          /\ UNCHANGED <<pc, conf, exit, regos, auth, loaded, srv, sig, at, waited, spent,
                         saidReady>>
       \/ /\ \E c \in Client : at[c] = "iterating"
          /\ Exit("raced")

\* Mutation of Signal: a channel without a bound.
Signal_Unbounded ==
    /\ Alive
    /\ pc \notin Starting /\ sig < 2
    /\ sig' = sig + 1
    /\ UNCHANGED <<pc, conf, exit, regos, ready, auth, loaded, srv, at, waited, spent,
                   saidReady>>

\* SIGTERM or SIGINT. Until Notify it ends the process; from then on it is
\* put into a channel of one, and dropped when that is full.
Signal ==
    /\ Alive
    /\ \/ /\ pc \in Starting
          /\ Exit("killed")
       \/ /\ pc \notin Starting
          /\ sig' = 1
          /\ UNCHANGED <<pc, conf, exit, regos, ready, auth, loaded, srv, at, waited,
                         spent, saidReady>>

\* Time that a Shutdown waits; at its deadline it returns at once.
Tick ==
    /\ Alive
    /\ \E s \in Server :
         /\ pc = IF s = "mgmt" THEN "drainMgmt" ELSE "drainRouter"
         /\ InFlight(s) # {} /\ waited < Deadline(s)
    /\ waited' = waited + 1 /\ spent' = spent + 1
    /\ UNCHANGED <<pc, conf, exit, regos, ready, auth, loaded, srv, sig, at, saidReady>>

Request(c) ==
    \/ Accept(c) \/ Readyz(c) \/ VersionHandler(c) \/ ConfigHandler(c)
    \/ InfoDone(c) \/ Served(c)

Next ==
    \/ Main
    \/ \E s \in Server : Listen(s)
    \/ \E c \in Client : Request(c)
    \/ Compile
    \/ Signal
    \/ Tick

Spec == Init /\ [][Next]_vars

\* main runs and time passes. Requests need not finish, and the servers
\* need not come up.
FairSpec == Spec /\ WF_vars(Main) /\ WF_vars(Tick)

-----------------------------------------------------------------------------
(* Properties.                                                             *)

\* Whatever is served is served by a process whose configuration was
\* accepted: the proxy runs with exactly the one provider that is configured
\* (a JWT provider with audiences), and every time-out of a server that was
\* started is a limit, on the management server too, where it is halved.
\* Two providers, and no others, may be a nil pointer: basic, whose file was
\* not loaded, and noauth in permissive mode. ProviderLoaded is what the
\* documentation says of these.
ServesOnlyConfigured ==
    /\ srv["proxy"] # "none" =>
         /\ conf.providers = {auth}
         /\ auth = "jwt" => conf.audiences
         /\ loaded \/ auth = "basic" \/ (auth = "noauth" /\ conf.permissive)
    /\ \A s \in Server : srv[s] # "none" =>
         /\ \A t \in Timeout : Limit(s, t) > 0
         /\ Limit(s, readHeader) <= Limit(s, read)

\* The management server is up before anything else, but its probes say
\* ready only when there is a provider and SIGTERM no longer kills: a signal
\* that kills has hit a process that was never reported ready and whose
\* proxy was never started.
ReadyAfterStart ==
    /\ saidReady => auth # "none" /\ pc \notin Starting
    /\ exit = "killed" => ~saidReady /\ srv["proxy"] = "none" /\ InFlight("proxy") = {}

\* The only ways to cut off a proxied request, or to take the policies away
\* from it: it outlasted the whole deadline of the router's Shutdown, the
\* policy was missing when the signal was caught, or Info met a change of
\* the policies. Before that the proxy has stopped to accept.
CutAccounted ==
    exit # "no" /\ InFlight("proxy") # {} =>
        \/ exit = "closed" /\ waited = ProxyGrace /\ srv["proxy"] = "shutdown"
        \/ exit = "not_ready"
        \/ exit = "raced"

\* A shutdown takes no longer than its two deadlines together, whatever the
\* requests of the two servers do.
ShutdownBounded == spent <= MgmtGrace + ProxyGrace

\* A signal that reaches the channel ends the process, whatever the
\* requests in flight do: nothing bounds how long a backend sends its body.
ShutdownTerminates == (sig = 1) ~> (exit # "no")

\* "At least one valid bcrypt entry must be present for startup to succeed"
\* (.specs/features/basic-auth-support.md:253) and "`PERMISSIVE_AUTH=true`
\* combined with `NO_AUTH=true` also causes a startup error"
\* (docs/NO-AUTH.md:125): a provider that could not be made stops the start,
\* so the proxy of a process that was started has one.
ProviderLoaded == srv["proxy"] # "none" => loaded
=============================================================================
