-------------------------- MODULE ApplicationProofs --------------------------
(* Proofs of the safety properties of Application, for any number of       *)
(* requests, any set of configurations and any deadlines.                  *)
(*                                                                         *)
(* Every property is about the order in which main does things, so the     *)
(* inductive invariant says what holds at each pc (Ordered), what a        *)
(* request in flight implies (Proxied) and how much of the deadlines has   *)
(* been used (Timed). The last section is the safety half of               *)
(* ShutdownTerminates: a measure that main and the clock lower and nothing *)
(* raises, and a step to take while it is not used up.                     *)
EXTENDS Application, TLAPS, FiniteSetTheorems

\* What main has done, by pc: the configuration is checked before a server
\* is started, the provider is chosen before the folder is watched, signals
\* are caught before either, and the proxy is started last.
Ordered ==
    /\ pc = "config" => \A s \in Server : srv[s] = "none"
    /\ pc # "config" => Valid(conf)
    /\ auth # "none" => auth \in conf.providers
    /\ pc \notin {"config", "mgmt", "regos", "provider"} => auth # "none"
    /\ pc \in Starting \cup {"watch"} => regos \notin {"watched", "closed"}
    /\ regos \notin {"watched", "closed"} => ~ready
    /\ saidReady => pc \notin Starting
    /\ srv["proxy"] # "none" => pc \notin Starting \cup {"watch", "listen"}
    /\ exit \in {"killed", "failed"} => pc \in Starting
    /\ exit = "closed" => pc = "closeRegos"

\* A proxied request came while the proxy was listening, and one that is
\* left behind by the router's Shutdown has outlasted it.
Proxied ==
    /\ pc \in {"drainRouter", "closeRegos"} => srv["proxy"] = "shutdown"
    /\ \A c \in Client : at[c] = "proxied" =>
         /\ srv["proxy"] \in {"listening", "shutdown"}
         /\ pc = "closeRegos" => waited = ProxyGrace

\* The deadlines used up so far.
Timed ==
    /\ pc \in Starting \cup Running \cup {"closeMgmt"} => spent = 0
    /\ pc = "drainMgmt" => spent = waited /\ waited <= MgmtGrace
    /\ pc = "closeRouter" => spent <= MgmtGrace
    /\ pc = "drainRouter" => spent <= MgmtGrace + waited /\ waited <= ProxyGrace
    /\ pc = "closeRegos" => spent <= MgmtGrace + ProxyGrace

AppInv == TypeOK /\ Ordered /\ Proxied /\ Timed

-----------------------------------------------------------------------------
\* The provider that the switch selects is one that is configured.
LEMMA SelectedLemma ==
    ASSUME NEW f \in Config, f.providers # {}, AuthCount(f) <= 1
    PROVE  /\ f.providers = {Selected(f)}
           /\ Selected(f) \in Provider
  <1>1. f.providers \subseteq Provider
    BY ApplicationAssumption
  <1>2. IsFiniteSet(Provider)
    <2>1. IsFiniteSet({"azure"} \cup {"jwt"})
      BY FS_Singleton, FS_Union, Zenon
    <2>2. IsFiniteSet(({"azure"} \cup {"jwt"}) \cup {"basic"})
      BY <2>1, FS_Singleton, FS_Union, Zenon
    <2>3. IsFiniteSet((({"azure"} \cup {"jwt"}) \cup {"basic"}) \cup {"noauth"})
      BY <2>2, FS_Singleton, FS_Union, Zenon
    <2>4. Provider = (({"azure"} \cup {"jwt"}) \cup {"basic"}) \cup {"noauth"}
      BY DEF Provider
    <2> QED BY <2>3, <2>4
  <1>3. IsFiniteSet(f.providers)
    BY <1>1, <1>2, FS_Subset
  <1>4. Cardinality(f.providers) \in Nat /\ Cardinality(f.providers) # 0
    BY <1>3, FS_CardinalityType, FS_EmptySet
  <1>5. Cardinality(f.providers) = 1
    BY <1>4 DEF AuthCount
  <1>6. PICK p : f.providers = {p}
    BY <1>3, <1>5, FS_Singleton
  <1>7. p \in Provider
    BY <1>1, <1>6
  <1>8. Selected(f) = p
    <2> DEFINE rank == [azure |-> 1, jwt |-> 2, basic |-> 3, noauth |-> 4]
    <2>1. rank[p] \in Nat
      BY <1>7 DEF Provider
    <2> HIDE DEF rank
    <2>2. \A q \in f.providers : rank[p] <= rank[q]
      BY <1>6, <2>1
    <2>3. \E x \in f.providers : \A q \in f.providers : rank[x] <= rank[q]
      BY <1>6, <2>2
    <2>4. (CHOOSE x \in f.providers : \A q \in f.providers : rank[x] <= rank[q]) = p
      BY <1>6, <2>3
    <2> QED BY <2>4 DEF Selected, rank
  <1> QED BY <1>6, <1>7, <1>8

\* The invariant holds at the start.
LEMMA InitLemma == Init => AppInv
  <1> SUFFICES ASSUME Init PROVE AppInv
    OBVIOUS
  <1>0. /\ srv \in [Server -> {"none", "created", "listening", "failed", "shutdown"}]
        /\ at \in [Client -> Probe \cup {"idle", "iterating", "proxied"}]
    BY Zenon DEF Init
  <1>1. TypeOK
    <2>1. sig \in 0..1 /\ waited \in Nat /\ spent \in Nat
      BY DEF Init
    <2>2. ready \in BOOLEAN /\ loaded \in BOOLEAN /\ saidReady \in BOOLEAN
      BY Zenon DEF Init
    <2>3. pc \in Starting /\ conf \in Config
      BY DEF Init, Starting
    <2> QED BY <1>0, <2>1, <2>2, <2>3, Zenon DEF Init, TypeOK
  <1>2. Ordered
    BY DEF Init, Ordered, Starting, Server
  <1>3. Proxied /\ Timed
    BY DEF Init, Proxied, Timed
  <1> QED BY <1>1, <1>2, <1>3 DEF AppInv

\* An end of the process changes nothing but exit.
LEMMA ExitLemma ==
    ASSUME AppInv, NEW why, Exit(why),
           \/ why \in {"killed", "failed"} /\ pc \in Starting
           \/ why \in {"not_ready", "raced"}
    PROVE  AppInv'
  <1>1. TypeOK'
    BY DEF AppInv, TypeOK, Exit
  <1>2. Ordered'
    BY DEF AppInv, Ordered, Exit, Valid, ValidTimeouts, AuthCount
  <1>3. Proxied' /\ Timed'
    BY DEF AppInv, Proxied, Timed, Exit
  <1> QED BY <1>1, <1>2, <1>3 DEF AppInv

\* The steps of main that go on, up to the caught signal.
LEMMA StartLemma ==
    ASSUME AppInv, exit = "no",
           ConfigNew \/ StartMgmt \/ RegosNew \/ AuthNew \/ RouterNew
    PROVE  AppInv'
  <1>1. CASE Exit("failed") /\ pc \in Starting
    BY <1>1, ExitLemma
  <1>2. CASE Goto("config", "mgmt") /\ ConfigNew
    <2>1. TypeOK'
      BY <1>2 DEF AppInv, TypeOK, ConfigNew, Goto, Starting, Exit
    <2>2. Ordered'
      BY <1>2 DEF AppInv, Ordered, ConfigNew, Goto, Starting, Exit
    <2>3. Proxied' /\ Timed'
      BY <1>2 DEF AppInv, Proxied, Timed, ConfigNew, Goto, Starting, Exit
    <2> QED BY <2>1, <2>2, <2>3 DEF AppInv
  <1>3. CASE StartMgmt
    <2>1. TypeOK'
      BY <1>3 DEF AppInv, TypeOK, StartMgmt, Goto, Starting, Server
    <2>2. Ordered'
      BY <1>3 DEF AppInv, TypeOK, Ordered, StartMgmt, Goto, Starting, Server
    <2>3. Proxied' /\ Timed'
      BY <1>3 DEF AppInv, TypeOK, Proxied, Timed, StartMgmt, Goto, Starting, Server
    <2> QED BY <2>1, <2>2, <2>3 DEF AppInv
  <1>4. CASE Goto("regos", "provider") /\ RegosNew
    <2>1. TypeOK'
      BY <1>4 DEF AppInv, TypeOK, RegosNew, Goto, Starting, Exit
    <2>2. Ordered'
      BY <1>4 DEF AppInv, Ordered, RegosNew, Goto, Starting, Exit
    <2>3. Proxied' /\ Timed'
      BY <1>4 DEF AppInv, Proxied, Timed, RegosNew, Goto, Starting, Exit
    <2> QED BY <2>1, <2>2, <2>3 DEF AppInv
  <1>5. CASE Goto("provider", "router") /\ AuthNew
    <2>0. conf \in Config /\ conf.providers # {} /\ AuthCount(conf) <= 1
      BY <1>5 DEF AppInv, TypeOK, Ordered, AuthNew, Goto, Valid, Exit
    <2>1. auth' = Selected(conf) /\ Selected(conf) \in Provider
          /\ Selected(conf) \in conf.providers
      BY <1>5, <2>0, SelectedLemma DEF AuthNew, Goto, Exit
    <2>2. Selected(conf) # "none"
      BY <2>1 DEF Provider
    <2>3. TypeOK'
      BY <1>5, <2>1 DEF AppInv, TypeOK, AuthNew, Goto, Starting, Exit
    <2>4. Ordered'
      BY <1>5, <2>1, <2>2 DEF AppInv, Ordered, AuthNew, Goto, Starting, Exit
    <2>5. Proxied' /\ Timed'
      BY <1>5 DEF AppInv, Proxied, Timed, AuthNew, Goto, Starting, Exit
    <2> QED BY <2>3, <2>4, <2>5 DEF AppInv
  <1>6. CASE Goto("router", "notify") /\ RouterNew
    <2>1. TypeOK'
      BY <1>6 DEF AppInv, TypeOK, RouterNew, Goto, Starting, Exit
    <2>2. Ordered'
      BY <1>6 DEF AppInv, Ordered, RouterNew, Goto, Starting, Exit
    <2>3. Proxied' /\ Timed'
      BY <1>6 DEF AppInv, Proxied, Timed, RouterNew, Goto, Starting, Exit
    <2> QED BY <2>1, <2>2, <2>3 DEF AppInv
  <1> QED
    BY <1>1, <1>2, <1>3, <1>4, <1>5, <1>6
    DEF ConfigNew, RegosNew, AuthNew, RouterNew, Starting

\* The steps of Run.
LEMMA RunLemma ==
    ASSUME AppInv, Notify \/ Watch \/ ListenAndServe \/ Caught
    PROVE  AppInv'
  <1>1. CASE Notify
    <2>1. TypeOK'
      BY <1>1 DEF AppInv, TypeOK, Notify, Goto, Running
    <2>2. Ordered'
      BY <1>1 DEF AppInv, Ordered, Notify, Goto, Alive, Starting
    <2>3. Proxied' /\ Timed'
      BY <1>1 DEF AppInv, Proxied, Timed, Notify, Goto, Starting, Running
    <2> QED BY <2>1, <2>2, <2>3 DEF AppInv
  <1>2. CASE Watch
    <2>1. TypeOK'
      BY <1>2 DEF AppInv, TypeOK, Watch, Goto, Running
    <2>2. Ordered'
      BY <1>2 DEF AppInv, Ordered, Watch, Goto, Starting
    <2>3. Proxied' /\ Timed'
      BY <1>2 DEF AppInv, Proxied, Timed, Watch, Goto, Starting, Running
    <2> QED BY <2>1, <2>2, <2>3 DEF AppInv
  <1>3. CASE ListenAndServe
    <2>1. TypeOK'
      BY <1>3 DEF AppInv, TypeOK, ListenAndServe, Goto, Running, Server
    <2>2. Ordered'
      BY <1>3 DEF AppInv, TypeOK, Ordered, ListenAndServe, Goto, Starting, Server
    <2>3. srv["proxy"] = "none"
      BY <1>3 DEF AppInv, Ordered, ListenAndServe, Goto
    <2>4. Proxied' /\ Timed'
      BY <1>3, <2>3 DEF AppInv, Proxied, Timed, ListenAndServe, Goto, Starting, Running
    <2> QED BY <2>1, <2>2, <2>4 DEF AppInv
  <1>4. CASE Exit("not_ready")
    BY <1>4, ExitLemma
  <1>5. CASE Goto("wait", "closeMgmt") /\ Caught
    <2>1. TypeOK'
      BY <1>5 DEF AppInv, TypeOK, Caught, Goto, Closing, Exit
    <2>2. Ordered'
      BY <1>5 DEF AppInv, Ordered, Caught, Goto, Starting, Exit
    <2>3. Proxied' /\ Timed'
      BY <1>5 DEF AppInv, Proxied, Timed, Caught, Goto, Starting, Running, Exit
    <2> QED BY <2>1, <2>2, <2>3 DEF AppInv
  <1> QED BY <1>1, <1>2, <1>3, <1>4, <1>5 DEF Caught

\* The two Shutdowns and the end of Close.
LEMMA CloseLemma ==
    ASSUME AppInv, CloseMgmt \/ MgmtClosed \/ CloseRouter \/ RouterClosed \/ CloseRegos
    PROVE  AppInv'
  <1>1. CASE CloseMgmt
    <2>1. TypeOK'
      BY <1>1 DEF AppInv, TypeOK, CloseMgmt, Shutdown, Goto, Closing, Server
    <2>2. Ordered'
      BY <1>1 DEF AppInv, TypeOK, Ordered, CloseMgmt, Shutdown, Goto, Starting, Server
    <2>3. Proxied' /\ Timed'
      BY <1>1, ApplicationAssumption
      DEF AppInv, TypeOK, Proxied, Timed, CloseMgmt, Shutdown, Goto, Starting, Running, Server
    <2> QED BY <2>1, <2>2, <2>3 DEF AppInv
  <1>2. CASE MgmtClosed
    <2>1. TypeOK'
      BY <1>2 DEF AppInv, TypeOK, MgmtClosed, Drained, Goto, Closing
    <2>2. Ordered'
      BY <1>2 DEF AppInv, Ordered, MgmtClosed, Drained, Goto, Starting
    <2>3. Proxied' /\ Timed'
      BY <1>2 DEF AppInv, Proxied, Timed, MgmtClosed, Drained, Goto, Starting, Running
    <2> QED BY <2>1, <2>2, <2>3 DEF AppInv
  <1>3. CASE CloseRouter
    <2>1. TypeOK'
      BY <1>3 DEF AppInv, TypeOK, CloseRouter, Shutdown, Goto, Closing, Server
    <2>2. Ordered'
      BY <1>3 DEF AppInv, TypeOK, Ordered, CloseRouter, Shutdown, Goto, Starting, Server
    <2>3. Proxied'
      BY <1>3 DEF AppInv, TypeOK, Proxied, CloseRouter, Shutdown, Goto, Server
    <2>4. Timed'
      BY <1>3, ApplicationAssumption
      DEF AppInv, TypeOK, Timed, CloseRouter, Shutdown, Goto, Starting, Running
    <2> QED BY <2>1, <2>2, <2>3, <2>4 DEF AppInv
  <1>4. CASE RouterClosed
    <2>1. TypeOK'
      BY <1>4 DEF AppInv, TypeOK, RouterClosed, Drained, Goto, Closing
    <2>2. Ordered'
      BY <1>4 DEF AppInv, Ordered, RouterClosed, Drained, Goto, Starting
    <2>3. (\A c \in Client : at[c] # "proxied") \/ waited = ProxyGrace
      BY <1>4 DEF RouterClosed, Drained, InFlight, Deadline
    <2>4. Proxied'
      BY <1>4, <2>3 DEF AppInv, Proxied, RouterClosed, Drained, Goto
    <2>5. Timed'
      BY <1>4, ApplicationAssumption
      DEF AppInv, TypeOK, Timed, RouterClosed, Drained, Goto, Starting, Running
    <2> QED BY <2>1, <2>2, <2>4, <2>5 DEF AppInv
  <1>5. CASE CloseRegos
    <2>1. TypeOK'
      BY <1>5 DEF AppInv, TypeOK, CloseRegos
    <2>2. Ordered'
      BY <1>5 DEF AppInv, Ordered, CloseRegos, Starting
    <2>3. Proxied' /\ Timed'
      BY <1>5 DEF AppInv, Proxied, Timed, CloseRegos
    <2> QED BY <2>1, <2>2, <2>3 DEF AppInv
  <1> QED BY <1>1, <1>2, <1>3, <1>4, <1>5

\* A request moves.
LEMMA RequestLemma ==
    ASSUME AppInv, NEW c \in Client, Request(c)
    PROVE  AppInv'
  <1>1. \E to \in Probe \cup {"idle", "iterating", "proxied"} :
          /\ at' = [at EXCEPT ![c] = to]
          /\ to = "proxied" => srv["proxy"] = "listening"
    BY DEF Request, Accept, Readyz, VersionHandler, ConfigHandler, InfoDone, Served, At, Probe
  <1>2. UNCHANGED <<pc, conf, exit, regos, ready, auth, loaded, srv, sig, waited, spent>>
    BY DEF Request, Accept, Readyz, VersionHandler, ConfigHandler, InfoDone, Served, At
  <1>3. saidReady' \in BOOLEAN /\ (saidReady' => saidReady \/ Ready)
    <2>1. saidReady' = saidReady \/ saidReady' = (saidReady \/ Ready)
      BY Zenon DEF Request, Accept, Readyz, VersionHandler, ConfigHandler, InfoDone, Served
    <2>2. saidReady \in BOOLEAN
      BY DEF AppInv, TypeOK
    <2>3. (saidReady \/ Ready) \in BOOLEAN
      BY Zenon
    <2>4. CASE saidReady' = saidReady
      BY <2>2, <2>4, Zenon
    <2>5. CASE saidReady' = (saidReady \/ Ready)
      BY <2>3, <2>5, Zenon
    <2> QED BY <2>1, <2>4, <2>5
  <1>4. TypeOK'
    BY <1>1, <1>2, <1>3 DEF AppInv, TypeOK
  <1>5. Ordered'
    BY <1>2, <1>3 DEF AppInv, Ordered, Ready, Starting
  <1>6. Proxied'
    BY <1>1, <1>2 DEF AppInv, TypeOK, Proxied
  <1>7. Timed'
    BY <1>2 DEF AppInv, Timed
  <1> QED BY <1>4, <1>5, <1>6, <1>7 DEF AppInv

\* What happens beside main and the requests.
LEMMA BesideLemma ==
    ASSUME AppInv, (\E s \in Server : Listen(s)) \/ Compile \/ Signal \/ Tick
    PROVE  AppInv'
  <1>1. ASSUME NEW s \in Server, Listen(s) PROVE AppInv'
    <2>1. PICK r \in {"listening", "failed"} : srv' = [srv EXCEPT ![s] = r]
      BY <1>1, Zenon DEF Listen
    <2>2. srv[s] = "created"
      BY <1>1 DEF Listen
    <2>3. UNCHANGED <<pc, conf, exit, regos, ready, auth, loaded, sig, at, waited, spent,
                      saidReady>>
      BY <1>1 DEF Listen
    <2>4. TypeOK'
      BY <2>1, <2>3 DEF AppInv, TypeOK
    <2>5. Ordered'
      BY <2>1, <2>2, <2>3 DEF AppInv, TypeOK, Ordered
    <2>6. Proxied' /\ Timed'
      BY <2>1, <2>2, <2>3 DEF AppInv, TypeOK, Proxied, Timed, Server
    <2> QED BY <2>4, <2>5, <2>6 DEF AppInv
  <1>2. CASE Exit("raced")
    BY <1>2, ExitLemma
  <1>3. CASE Compile /\ exit' = exit
    <2>1. /\ ready' \in BOOLEAN /\ regos = "watched"
          /\ UNCHANGED <<pc, conf, exit, regos, auth, loaded, srv, sig, at, waited, spent,
                         saidReady>>
      BY <1>3 DEF Compile, Alive, Exit
    <2>2. TypeOK'
      BY <2>1 DEF AppInv, TypeOK
    <2>3. Ordered'
      BY <2>1 DEF AppInv, Ordered
    <2>4. Proxied' /\ Timed'
      BY <2>1 DEF AppInv, Proxied, Timed
    <2> QED BY <2>2, <2>3, <2>4 DEF AppInv
  <1>4. CASE Signal
    <2>1. CASE pc \in Starting /\ Exit("killed")
      BY <2>1, ExitLemma
    <2>2. CASE /\ sig' = 1
               /\ UNCHANGED <<pc, conf, exit, regos, ready, auth, loaded, srv, at, waited,
                              spent, saidReady>>
      <3>1. TypeOK'
        BY <2>2 DEF AppInv, TypeOK
      <3>2. Ordered' /\ Proxied' /\ Timed'
        BY <2>2 DEF AppInv, Ordered, Proxied, Timed
      <3> QED BY <3>1, <3>2 DEF AppInv
    <2> QED BY <1>4, <2>1, <2>2 DEF Signal
  <1>5. CASE Tick
    <2>1. TypeOK'
      BY <1>5 DEF AppInv, TypeOK, Tick
    <2>2. Ordered'
      BY <1>5 DEF AppInv, Ordered, Tick
    <2>3. \/ pc = "drainMgmt" /\ waited < MgmtGrace
          \/ pc = "drainRouter" /\ waited < ProxyGrace
      BY <1>5 DEF Tick, Deadline, Server
    <2>4. Proxied' /\ Timed'
      BY <1>5, <2>3, ApplicationAssumption
      DEF AppInv, TypeOK, Proxied, Timed, Tick, Starting, Running
    <2> QED BY <2>1, <2>2, <2>4 DEF AppInv
  <1> QED BY <1>1, <1>2, <1>3, <1>4, <1>5 DEF Compile

-----------------------------------------------------------------------------
\* AppInv is an invariant: main does things in the order that its pc says.
THEOREM InvTheorem == Spec => []AppInv
  <1>1. AppInv /\ [Next]_vars => AppInv'
    <2> SUFFICES ASSUME AppInv, [Next]_vars PROVE AppInv'
      OBVIOUS
    <2>1. CASE Main
      <3>1. CASE ConfigNew \/ StartMgmt \/ RegosNew \/ AuthNew \/ RouterNew
        <4>1. exit = "no"
          BY <3>1 DEF ConfigNew, StartMgmt, RegosNew, AuthNew, RouterNew, Goto, Alive
        <4> QED BY <3>1, <4>1, StartLemma
      <3> QED BY <2>1, <3>1, RunLemma, CloseLemma DEF Main
    <2>2. CASE UNCHANGED vars
      <3>1. TypeOK'
        BY <2>2 DEF AppInv, TypeOK, vars
      <3>2. Ordered' /\ Proxied' /\ Timed'
        BY <2>2 DEF AppInv, Ordered, Proxied, Timed, vars
      <3> QED BY <3>1, <3>2 DEF AppInv
    <2> QED BY <2>1, <2>2, RequestLemma, BesideLemma DEF Next
  <1> QED BY <1>1, InitLemma, PTL DEF Spec

\* A provider, once chosen, is as its New left it: only AuthNew sets it.
Made == auth # "none" => New(auth, loaded)

LEMMA MadeInvariant == Spec => []Made
  <1>1. Init => Made
    BY DEF Init, Made
  <1>2. Made /\ [Next]_vars => Made'
    <2> SUFFICES ASSUME Made, [Next]_vars PROVE Made'
      OBVIOUS
    <2>1. CASE UNCHANGED <<conf, auth, loaded>>
      BY <2>1 DEF Made, New
    <2>2. CASE AuthNew
      <3>1. CASE Exit("failed")
        BY <2>1, <3>1 DEF Exit
      <3>2. CASE ~Exit("failed")
        BY <2>2, <3>2 DEF AuthNew, Goto, Made, New
      <3> QED BY <3>1, <3>2
    <2>3. CASE Main /\ ~AuthNew
      <3>1. UNCHANGED <<conf, auth, loaded>>
        BY <2>3, Zenon
        DEF Main, ConfigNew, StartMgmt, RegosNew, RouterNew, Notify, Watch,
            ListenAndServe, Caught, CloseMgmt, MgmtClosed, CloseRouter, RouterClosed,
            CloseRegos, Shutdown, Drained, Goto, Exit
      <3> QED BY <2>1, <3>1
    <2>4. CASE (\E s \in Server : Listen(s)) \/ Compile \/ Signal \/ Tick
      BY <2>1, <2>4, Zenon DEF Listen, Compile, Signal, Tick, Exit
    <2>5. ASSUME NEW c \in Client, Request(c) PROVE Made'
      BY <2>1, <2>5, Zenon
      DEF Request, Accept, Readyz, VersionHandler, ConfigHandler, InfoDone, Served, At
    <2>6. CASE UNCHANGED vars
      BY <2>1, <2>6 DEF vars
    <2> QED BY <2>2, <2>3, <2>4, <2>5, <2>6 DEF Next
  <1> QED BY <1>1, <1>2, PTL DEF Spec

\* The state of main and of what runs beside it has its type, for every
\* configuration and every deadline.
THEOREM ApplicationTypeCorrect == Spec => []TypeOK
  BY InvTheorem, PTL DEF AppInv

\* The proxy runs with exactly the one provider that is configured, which
\* is a nil pointer in two named cases only, and no server that was started
\* lacks a time-out, whatever the configuration.
THEOREM ServesOnlyConfiguredTheorem == Spec => []ServesOnlyConfigured
  <1>1. AppInv /\ Made => ServesOnlyConfigured
    <2> SUFFICES ASSUME AppInv, Made PROVE ServesOnlyConfigured
      OBVIOUS
    <2>1. ASSUME srv["proxy"] # "none"
          PROVE  /\ conf.providers = {auth}
                 /\ auth = "jwt" => conf.audiences
                 /\ loaded \/ auth = "basic" \/ (auth = "noauth" /\ conf.permissive)
      <3>1. auth \in conf.providers /\ Valid(conf) /\ conf \in Config
        BY <2>1 DEF AppInv, TypeOK, Ordered, Starting
      <3>2. conf.providers = {Selected(conf)}
        BY <3>1, SelectedLemma DEF Valid
      <3>3. loaded \/ auth = "basic" \/ (auth = "noauth" /\ conf.permissive)
        BY <2>1 DEF AppInv, TypeOK, Ordered, Starting, Made, New, Provider
      <3> QED BY <3>1, <3>2, <3>3 DEF Valid
    <2>2. ASSUME NEW s \in Server, srv[s] # "none"
          PROVE  /\ \A t \in Timeout : Limit(s, t) > 0
                 /\ Limit(s, readHeader) <= Limit(s, read)
      <3>1. ValidTimeouts(conf) /\ conf \in Config
        BY <2>2 DEF AppInv, TypeOK, Ordered, Valid
      <3>2. conf.timeout \in [Timeout -> Nat]
        BY <3>1, ApplicationAssumption
      <3>3. ASSUME NEW t \in Timeout PROVE Limit(s, t) > 0
        BY <3>1, <3>2, ApplicationAssumption DEF Limit, ValidTimeouts
      <3>4. Limit(s, readHeader) <= Limit(s, read)
        BY <3>1, <3>2, ApplicationAssumption DEF Limit, ValidTimeouts
      <3> QED BY <3>3, <3>4
    <2> QED BY <2>1, <2>2 DEF ServesOnlyConfigured
  <1> QED BY <1>1, InvTheorem, MadeInvariant, PTL

\* Probes answer ready only after the provider was chosen and signals are
\* caught, so a signal never kills a process that serves.
THEOREM ReadyAfterStartTheorem == Spec => []ReadyAfterStart
  <1>1. AppInv => ReadyAfterStart
    BY DEF AppInv, Ordered, Proxied, ReadyAfterStart, InFlight, Starting
  <1> QED BY <1>1, InvTheorem, PTL

\* A proxied request is cut off only at the end of the router's deadline,
\* by the exit of a process that is not ready, or by the race in Info.
THEOREM CutAccountedTheorem == Spec => []CutAccounted
  <1>1. AppInv => CutAccounted
    BY DEF AppInv, TypeOK, Ordered, Proxied, CutAccounted, InFlight, Starting
  <1> QED BY <1>1, InvTheorem, PTL

\* A shutdown takes at most the sum of its two deadlines.
THEOREM ShutdownBoundedTheorem == Spec => []ShutdownBounded
  <1>1. AppInv => ShutdownBounded
    BY ApplicationAssumption
    DEF AppInv, TypeOK, Timed, ShutdownBounded, Starting, Running, Closing
  <1> QED BY <1>1, InvTheorem, PTL

-----------------------------------------------------------------------------
\* The argument behind ShutdownTerminates. Once a signal is in the channel,
\* or Close has begun, main is never stuck, and each of its steps and each
\* tick lowers the number of steps and ticks that are left; nothing that
\* the requests, the servers, the policies or more signals do raises it.
Ending == Alive /\ (sig = 1 \/ pc \in Closing)

\* The steps of main and the ticks before the process is gone.
Left ==
    CASE pc = "watch"       -> MgmtGrace + ProxyGrace + 8
      [] pc = "listen"      -> MgmtGrace + ProxyGrace + 7
      [] pc = "wait"        -> MgmtGrace + ProxyGrace + 6
      [] pc = "closeMgmt"   -> MgmtGrace + ProxyGrace + 5
      [] pc = "drainMgmt"   -> (MgmtGrace - waited) + ProxyGrace + 4
      [] pc = "closeRouter" -> ProxyGrace + 3
      [] pc = "drainRouter" -> (ProxyGrace - waited) + 2
      [] OTHER              -> 1

\* The guard of main's next step holds, or the clock can tick.
CanMove ==
    \/ pc \in {"watch", "listen", "closeMgmt", "closeRouter", "closeRegos"}
    \/ pc = "wait" /\ sig = 1
    \/ \E s \in Server :
         /\ pc = IF s = "mgmt" THEN "drainMgmt" ELSE "drainRouter"
         /\ InFlight(s) = {} \/ waited = Deadline(s) \/ waited < Deadline(s)

\* A process that is about to end has a step or a tick to take towards it,
\* and Left counts them.
NeverStuck == Ending => pc \notin Starting /\ Left \in Nat /\ CanMove

\* A step of a process that is about to end: it ends, or it stays about to
\* end, and main and the clock have come closer to it if they moved at all.
ComesCloser ==
    Ending => \/ ~Alive'
              \/ /\ Ending'
                 /\ IF UNCHANGED <<pc, waited>> THEN Left' = Left ELSE Left' < Left

\* A signal is caught only after Notify.
SignalLate == sig = 1 => pc \notin Starting

\* No step goes back to Starting, and none there fills the channel.
LEMMA SignalLateStep ==
    ASSUME AppInv, SignalLate, [Next]_vars
    PROVE  SignalLate'
  <1>1. pc \notin Starting => pc' \notin Starting
    BY DEF Next, vars, Main, ConfigNew, StartMgmt, RegosNew, AuthNew, RouterNew, Notify, Watch,
           ListenAndServe, Caught, CloseMgmt, MgmtClosed, CloseRouter, RouterClosed, CloseRegos,
           Shutdown, Drained, Goto, Exit, Listen, Request, Accept, Readyz, VersionHandler,
           ConfigHandler, InfoDone, Served, At, Compile, Signal, Tick, Starting
  <1>2. sig' = 1 => sig = 1 \/ pc' \notin Starting
    BY DEF Next, vars, Main, ConfigNew, StartMgmt, RegosNew, AuthNew, RouterNew, Notify, Watch,
           ListenAndServe, Caught, CloseMgmt, MgmtClosed, CloseRouter, RouterClosed, CloseRegos,
           Shutdown, Drained, Goto, Exit, Listen, Request, Accept, Readyz, VersionHandler,
           ConfigHandler, InfoDone, Served, At, Compile, Signal, Tick
  <1> QED BY <1>1, <1>2 DEF SignalLate

\* The shutdown cannot be stuck: for any requests in flight and any
\* deadlines, main or the clock has a step to take.
THEOREM NeverStuckTheorem == Spec => []NeverStuck
  <1>1. Init => SignalLate
    BY DEF Init, SignalLate
  <1>2. AppInv /\ SignalLate => NeverStuck
    <2> SUFFICES ASSUME AppInv, SignalLate, Ending
                 PROVE  pc \notin Starting /\ Left \in Nat /\ CanMove
      BY DEF NeverStuck
    <2>1. pc \in Running \cup Closing /\ pc \notin Starting
      BY DEF Ending, SignalLate, AppInv, TypeOK, Starting, Closing
    <2>2. /\ pc = "drainMgmt" => waited <= MgmtGrace
          /\ pc = "drainRouter" => waited <= ProxyGrace
          /\ waited \in Nat /\ MgmtGrace \in Nat /\ ProxyGrace \in Nat
      BY ApplicationAssumption DEF AppInv, TypeOK, Timed
    <2>3. Left \in Nat
      BY <2>1, <2>2 DEF Left, Running, Closing
    <2>4. CanMove
      BY <2>1, <2>2 DEF CanMove, Ending, Running, Closing, Server, Deadline
    <2> QED BY <2>1, <2>3, <2>4
  <1> QED BY <1>1, <1>2, SignalLateStep, InvTheorem, PTL DEF Spec

\* Every step of main counts.
LEMMA CloserMain ==
    ASSUME AppInv, SignalLate, Ending, Main
    PROVE  ComesCloser
  <1>1. pc \in Running \cup Closing /\ pc \notin Starting /\ Alive
    BY DEF Ending, SignalLate, AppInv, TypeOK, Starting, Closing
  <1>2. /\ waited \in Nat /\ MgmtGrace \in Nat /\ ProxyGrace \in Nat
        /\ pc = "drainMgmt" => waited <= MgmtGrace
        /\ pc = "drainRouter" => waited <= ProxyGrace
    BY ApplicationAssumption DEF AppInv, TypeOK, Timed
  <1>3. CASE ConfigNew \/ StartMgmt \/ RegosNew \/ AuthNew \/ RouterNew \/ Notify
    BY <1>1, <1>3 DEF ConfigNew, StartMgmt, RegosNew, AuthNew, RouterNew, Notify, Goto, Starting
  <1>4. CASE Watch \/ ListenAndServe
    BY <1>1, <1>2, <1>4 DEF Watch, ListenAndServe, Goto, Alive, ComesCloser, Ending, Left, Closing
  <1>5. CASE Caught
    BY <1>1, <1>2, <1>5 DEF Caught, Goto, Exit, Alive, ComesCloser, Ending, Left, Closing
  <1>6. CASE CloseMgmt \/ CloseRouter
    BY <1>1, <1>2, <1>6
       DEF CloseMgmt, CloseRouter, Shutdown, Goto, Alive, ComesCloser, Ending, Left, Closing
  <1>7. CASE MgmtClosed \/ RouterClosed
    BY <1>1, <1>2, <1>7
       DEF MgmtClosed, RouterClosed, Drained, Goto, Alive, ComesCloser, Ending, Left, Closing
  <1>8. CASE CloseRegos
    BY <1>8 DEF CloseRegos, Alive, ComesCloser
  <1> QED BY <1>3, <1>4, <1>5, <1>6, <1>7, <1>8 DEF Main

\* Of what happens beside main only a tick counts; the rest changes neither.
LEMMA CloserBeside ==
    ASSUME AppInv, SignalLate, Ending,
           \/ \E s \in Server : Listen(s)
           \/ \E c \in Client : Request(c)
           \/ Compile \/ Signal \/ Tick \/ UNCHANGED vars
    PROVE  ComesCloser
  <1>1. pc \in Running \cup Closing /\ pc \notin Starting /\ Alive
    BY DEF Ending, SignalLate, AppInv, TypeOK, Starting, Closing
  <1>2. ASSUME UNCHANGED <<pc, waited>>, sig' = sig \/ sig' = 1
        PROVE  ComesCloser
    <2>1. Left' = Left
      BY <1>2 DEF Left
    <2> QED BY <1>2, <2>1 DEF ComesCloser, Ending
  <1>3. CASE \E s \in Server : Listen(s)
    BY <1>2, <1>3 DEF Listen
  <1>4. CASE \E c \in Client : Request(c)
    BY <1>2, <1>4 DEF Request, Accept, Readyz, VersionHandler, ConfigHandler, InfoDone, Served, At
  <1>5. CASE Compile \/ Signal \/ UNCHANGED vars
    BY <1>1, <1>2, <1>5 DEF Compile, Signal, Exit, vars
  <1>6. CASE Tick
    <2>1. waited \in Nat /\ MgmtGrace \in Nat /\ ProxyGrace \in Nat
      BY ApplicationAssumption DEF AppInv, TypeOK
    <2> QED BY <1>6, <2>1 DEF Tick, Server, Deadline, ComesCloser, Ending, Alive, Left, Closing
  <1> QED BY <1>3, <1>4, <1>5, <1>6

\* A shutdown only comes closer to its end: no request, signal, server or
\* change of a policy sets main or the clock back, so at most Left of their
\* steps are taken before the process is gone.
THEOREM ShutdownProgress == Spec => [][ComesCloser]_vars
  <1>1. Init => SignalLate
    BY DEF Init, SignalLate
  <1>2. ASSUME AppInv, SignalLate, [Next]_vars
        PROVE  ComesCloser
    BY <1>2, CloserMain, CloserBeside, Zenon DEF ComesCloser, Next
  <1>3. AppInv /\ SignalLate /\ [Next]_vars => [ComesCloser]_vars
    BY <1>2, Zenon
  <1> QED BY <1>1, <1>3, SignalLateStep, InvTheorem, PTL DEF Spec

=============================================================================
