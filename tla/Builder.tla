------------------------------ MODULE Builder ------------------------------
(***************************************************************************)
(* Builder.Build (src/server/builder.go), called more than once on one     *)
(* Builder, as a program does that retries a failed start or starts a      *)
(* second server: listeners, the interceptor options that pile up in the   *)
(* Builder, the factories invoked through the Container, the HTTP          *)
(* multiplexer's patterns and the Temporal client.                         *)
(***************************************************************************)
EXTENDS Container

CONSTANTS
  MaxBuilds,    \* calls of Build
  Inputs,       \* what programs give the Builder
  Malformed,    \* patterns http.ServeMux cannot parse, the empty one among them
  Overlapping   \* pairs of patterns that have requests in common, neither more specific

ConfigSpace ==
  [ports : BOOLEAN,        \* GRPCPort and HTTPPort were called
   fixed : BOOLEAN,        \* with numbers, not ":0"
   interceptor : BOOLEAN,  \* ApplySettings with a grpc.UnaryInterceptor of its own
   static : BOOLEAN, ssl : BOOLEAN, temporal : BOOLEAN]

\* The calls of Build the program makes, its services, the routes of its REST
\* controllers (patterns), the dependency graph, and the factories' parameters:
\* the services', the controllers' and, with Temporal, the activities'.
IsInput(in) ==
  /\ in.builds \in 0 .. MaxBuilds /\ in.cfg \in ConfigSpace
  /\ in.services \in Nat /\ in.routes \in Seq(Seq(STRING)) /\ in.factories \in Seq(Seq(Types))
  /\ in.provided \subseteq Types /\ DOMAIN in.providers \subseteq Types
  /\ \A t \in DOMAIN in.providers : in.providers[t] \in Seq(Types)
  /\ IF in.cfg.temporal
       THEN in.services + Len(in.routes) <= Len(in.factories)
       ELSE in.services + Len(in.routes) = Len(in.factories)

BuiltIn == {"/api", "/metrics", "/health"}

ASSUME PatternsAssumption ==
  \A p, q \in BuiltIn : p \notin Malformed /\ {p, q} \notin Overlapping
ASSUME MaxBuildsAssumption == MaxBuilds \in Nat
ASSUME InputsAssumption == \A in \in Inputs : IsInput(in)

VARIABLES
  builds, cfg, services, routes,  \* what the Builder was given
  stage,        \* the step Build is at, "idle" between calls
  results,      \* how each call ended: "ok", "error" or "panic"
  open,         \* open listeners: <<port, call of Build that opened it>>
  options,      \* interceptor options in b.serverOpts
  mux,          \* what serves each pattern registered in this call
  left,         \* controllers whose routes are not registered yet
  clients       \* calls of Build whose Temporal client is connected

builderVars == <<builds, cfg, services, routes, stage, results, open, options, mux, left, clients>>
vars == <<builderVars, containerVars>>

This == Len(results) + 1

\* What serves a pattern: a handler of Build's own, or a controller's route, by
\* its number and the controller's.
Own == <<0, 0>>

Init ==
  /\ \E in \in Inputs :
       /\ builds = in.builds /\ cfg = in.cfg /\ services = in.services /\ routes = in.routes
       /\ providers = in.providers /\ provided = in.provided /\ factories = in.factories
  /\ ContainerInit
  /\ stage = "idle"
  /\ results = <<>>
  /\ open = {}
  /\ options = IF cfg.interceptor THEN 1 ELSE 0
  /\ mux = [p \in {} |-> Own]
  /\ left = <<>>
  /\ clients = {}

Settings == UNCHANGED <<builds, cfg, services, routes>>
Rest     == UNCHANGED containerVars /\ Settings

Step(from, to) == stage = from /\ stage' = to

\* Build returns, or a library call in it panics.  Nothing is released.
End(from, r) == Step(from, "idle") /\ results' = Append(results, r)

Start ==
  /\ This <= builds
  /\ IF cfg.ports
       THEN Step("idle", "listenGrpc") /\ UNCHANGED results
       ELSE End("idle", "error")
  /\ UNCHANGED <<open, options, mux, left, clients>> /\ Rest

\* net.Listen; a number that is in use cannot be bound.
Listen(port, from, to) ==
  /\ cfg.fixed => \A b \in 1 .. MaxBuilds : <<port, b>> \notin open
  /\ Step(from, to)
  /\ open' = open \cup {<<port, This>>}
  /\ UNCHANGED <<results, options, mux, left, clients>> /\ Rest

ListenGrpc == Listen("grpc", "listenGrpc", "listenHTTP")
ListenHTTP == Listen("http", "listenHTTP", "newServer")

\* Wrong: the unary and the stream option are counted apart.
NewServerTwo ==
  /\ options' = options + 2
  /\ IF options' = 2
       THEN Step("newServer", "services") /\ NewContainer /\ UNCHANGED results
       ELSE End("newServer", "panic") /\ UNCHANGED containerVars
  /\ UNCHANGED <<open, mux, left, clients>> /\ Settings

\* Wrong: the options chain, and a second server is made.
NewServerChained ==
  /\ options' = options + 1
  /\ Step("newServer", "services") /\ NewContainer
  /\ UNCHANGED <<results, open, mux, left, clients>> /\ Settings

\* The interceptors are appended to the Builder's own options, for good;
\* grpc.NewServer panics when an interceptor is set twice.
NewServer ==
  /\ options' = options + 1
  /\ IF options' = 1
       THEN Step("newServer", "services") /\ NewContainer /\ UNCHANGED results
       ELSE End("newServer", "panic") /\ UNCHANGED containerVars
  /\ UNCHANGED <<open, mux, left, clients>> /\ Settings

\* The controller whose routes come next.
Controller == Len(routes) - Len(left) + 1

\* How many factories have been called when the loop Build is in has no call
\* outstanding: the services', one more controller's, the activities'.
Due ==
  CASE stage = "services" -> services
    [] stage = "routes" /\ left # <<>> -> services + Controller
    [] stage = "activities" -> Len(factories)
    [] OTHER -> Len(given)

AllCalled == stack = <<>> /\ Len(given) = Due

\* invokeFactory, one step of it at a time.
InvokeFactory ==
  /\ stage \in {"services", "routes", "activities"}
  /\ ~AllCalled
  /\ Resolve
  /\ UNCHANGED builderVars

\* Wrong: its error is logged and the factory left out.
FactoryLogged ==
  /\ stage \in {"services", "routes", "activities"}
  /\ Resolving /\ Wanted(Top) \notin DOMAIN providers \cup DOMAIN singletons
  /\ stack' = <<>>
  /\ given' = Append(given, <<>>)
  /\ UNCHANGED <<builderVars, providers, factories, provided, singletons, made, outcome>>

\* Its error is Build's.
FactoryFails ==
  /\ stage \in {"services", "routes", "activities"}
  /\ Missing
  /\ End(stage, "error")
  /\ UNCHANGED <<open, options, mux, left, clients>> /\ Settings

\* The services are registered; then a fresh mux gets the built-in patterns.
Services ==
  /\ AllCalled
  /\ Step("services", "routes")
  /\ mux' = [p \in BuiltIn |-> Own]
  /\ left' = routes
  /\ UNCHANGED <<results, open, options, clients>> /\ Rest

\* mux.Handle panics on a pattern it cannot parse, has, or cannot tell from one
\* it has.
Refused(pattern) ==
  pattern \in Malformed \/ \E q \in DOMAIN mux : q = pattern \/ {q, pattern} \in Overlapping

Handled(pattern, handler) ==
  [q \in DOMAIN mux \cup {pattern} |-> IF q = pattern THEN handler ELSE mux[q]]

ThisRoute == <<Controller, Len(routes[Controller]) - Len(Head(left)) + 1>>

\* Wrong: a pattern registered again replaces the first handler.
RouteReplaced ==
  /\ stage = "routes" /\ left # <<>> /\ AllCalled /\ Head(left) # <<>>
  /\ mux' = Handled(Head(Head(left)), ThisRoute)
  /\ left' = [left EXCEPT ![1] = Tail(@)]
  /\ UNCHANGED <<stage, results, open, options, clients>> /\ Rest

\* The next controller's first route.
Route ==
  /\ stage = "routes" /\ left # <<>> /\ AllCalled /\ Head(left) # <<>>
  /\ LET pattern == Head(Head(left)) IN
       IF Refused(pattern)
         THEN End("routes", "panic") /\ UNCHANGED <<mux, left>>
         ELSE /\ mux' = Handled(pattern, ThisRoute)
              /\ left' = [left EXCEPT ![1] = Tail(@)]
              /\ UNCHANGED <<stage, results>>
  /\ UNCHANGED <<open, options, clients>> /\ Rest

\* Wrong: the loop waits for a route of a controller that has none.
NextControllerRouted ==
  /\ stage = "routes" /\ left # <<>> /\ AllCalled /\ Head(left) = <<>> /\ routes[Controller] # <<>>
  /\ left' = Tail(left)
  /\ UNCHANGED <<stage, results, open, options, mux, clients>> /\ Rest

NextController ==
  /\ stage = "routes" /\ left # <<>> /\ AllCalled /\ Head(left) = <<>>
  /\ left' = Tail(left)
  /\ UNCHANGED <<stage, results, open, options, mux, clients>> /\ Rest

Static ==
  /\ left = <<>>
  /\ IF cfg.static /\ Refused("/static/")
       THEN End("routes", "panic") /\ UNCHANGED mux
       ELSE /\ Step("routes", "configure")
            /\ mux' = IF cfg.static THEN Handled("/static/", Own) ELSE mux
            /\ UNCHANGED results
  /\ UNCHANGED <<open, options, left, clients>> /\ Rest

\* sslProvider.Configure, if there is one.
Configure ==
  /\ Step("configure", "dial")
  /\ UNCHANGED <<results, open, options, mux, left, clients>> /\ Rest

\* The Temporal client is dialled, with retries.
Dial ==
  /\ cfg.temporal
  /\ Step("dial", "activities")
  /\ clients' = clients \cup {This}
  /\ UNCHANGED <<results, open, options, mux, left>> /\ Rest

Succeed ==
  /\ (stage = "activities" /\ AllCalled) \/ (stage = "dial" /\ ~cfg.temporal)
  /\ End(stage, "ok")
  /\ UNCHANGED <<open, options, mux, left, clients>> /\ Rest

\* The other errors: a port taken by another process, a provider's Configure,
\* a dial that keeps failing.
Fail ==
  /\ \/ stage \in {"listenGrpc", "listenHTTP"}
     \/ stage = "configure" /\ cfg.ssl
     \/ stage = "dial" /\ cfg.temporal
  /\ End(stage, "error")
  /\ UNCHANGED <<open, options, mux, left, clients>> /\ Rest

\* Code of the program panics that Build calls: a factory, a provider, a
\* service's register, Routes, Configure, or Temporal on an activity or a
\* workflow it does not accept.
Panics ==
  /\ \/ stage = "services" /\ services > 0
     \/ stage = "routes" /\ left # <<>>
     \/ stage = "configure" /\ cfg.ssl
     \/ stage = "activities"
  /\ outcome = "running"
  /\ End(stage, "panic")
  /\ Abandon
  /\ UNCHANGED <<open, options, mux, left, clients>> /\ Settings

Alive == outcome # "stackOverflow"

\* A server built earlier was served and stopped: Serve closed what it had.
ServerStops(b) ==
  /\ Alive /\ b <= Len(results) /\ results[b] = "ok"
  /\ b \in clients \/ \E l \in open : l[2] = b
  /\ open' = {l \in open : l[2] # b}
  /\ clients' = clients \ {b}
  /\ UNCHANGED <<stage, results, options, mux, left>> /\ Rest

\* A listener nobody refers to any more is closed when it is collected.
Collect(b) ==
  /\ Alive /\ b <= Len(results) /\ results[b] # "ok"
  /\ \E l \in open : l[2] = b /\ open' = open \ {l}
  /\ UNCHANGED <<stage, results, options, mux, left, clients>> /\ Rest

BuildStep ==
  \/ ListenGrpc \/ ListenHTTP \/ NewServer \/ InvokeFactory \/ FactoryFails \/ Services
  \/ Route \/ NextController \/ Static \/ Configure \/ Dial \/ Succeed \/ Fail

Next == Start \/ BuildStep \/ Panics \/ \E b \in 1 .. MaxBuilds : ServerStops(b) \/ Collect(b)

Spec     == Init /\ [][Next]_vars
FairSpec == Spec /\ WF_vars(BuildStep)

-----------------------------------------------------------------------------
\* The type invariant of Build and its container.
TypeOK ==
  /\ IsInput([builds |-> builds, cfg |-> cfg, services |-> services, routes |-> routes,
              providers |-> providers, provided |-> provided, factories |-> factories])
  /\ ContainerTypeOK
  /\ stage \in {"idle", "listenGrpc", "listenHTTP", "newServer", "services", "routes",
                "configure", "dial", "activities"}
  /\ results \in Seq({"ok", "error", "panic"}) /\ Len(results) <= builds
  /\ open \subseteq {"grpc", "http"} \X (1 .. builds)
  /\ options \in 0 .. builds + 1
  /\ clients \subseteq 1 .. builds

Ok(b) == results[b] = "ok"

Servers == Cardinality({b \in DOMAIN results : Ok(b)})

\* A Builder yields one server at most.  A call of Build that got as far as
\* grpc.NewServer has spent it: no later call succeeds, even when that one
\* failed, and whatever was stopped or collected in between.
BuilderSpent ==
  \A n \in 0 .. MaxBuilds :
    [](options >= 1 /\ stage = "idle" /\ Servers = n => [](Servers = n))

Patterns == UNION {{c} \X DOMAIN routes[c] : c \in DOMAIN routes}

Taken == BuiltIn \cup (IF cfg.static THEN {"/static/"} ELSE {})

\* The mux of a server that Build made serves every route of every controller
\* with the handler given for it, and Build's own patterns with Build's; it can
\* tell the patterns apart, and no later call of Build touches it.
RoutesRegistered ==
  (\E b \in DOMAIN results : Ok(b)) =>
    /\ DOMAIN mux = Taken \cup {routes[p[1]][p[2]] : p \in Patterns}
    /\ \A p \in Patterns : mux[routes[p[1]][p[2]]] = p
    /\ \A q \in Taken : mux[q] = Own
    /\ \A p, q \in DOMAIN mux : p \notin Malformed /\ (p # q => {p, q} \notin Overlapping)

\* Build makes a server only when everything its factories require can be had;
\* it reports a missing provider, or a cycle overflows the stack, only when
\* what is required has such a fault, at whichever factory it is come upon.
OutcomeRight ==
  /\ (\E b \in DOMAIN results : Ok(b)) => Required \subseteq Available
  /\ outcome = "noProvider" => \E t \in Required : t \notin DOMAIN providers
  /\ outcome = "stackOverflow" => \E t \in Required \cap DOMAIN providers : t \notin Available

\* Every call of Build comes to an end, whatever it was given, unless a cycle
\* of providers ends the process.
BuildReturns == stage # "idle" ~> (stage = "idle" \/ outcome = "stackOverflow")
=============================================================================
