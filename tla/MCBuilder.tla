----------------------------- MODULE MCBuilder -----------------------------
(***************************************************************************)
(* Programs of two kinds.  Some have every graph of three types whose      *)
(* providers take at most two parameters, and call Build once: with two    *)
(* factories, a service's and an activity's, or one, a controller's, over  *)
(* the first two types (any others are a renaming of the types away).      *)
(* The others have every configuration and list of controllers, a few      *)
(* graphs, and call Build twice.                                           *)
(***************************************************************************)
EXTENDS Builder, TLC

CONSTANTS a, b, c

MCTypes == {a, b, c}

\* One list has a type twice: another type's would be no different.
Parameters == {<<>>, <<a, a>>} \cup {<<t>> : t \in MCTypes} \cup {<<t, u>> \in MCTypes \X MCTypes : t # u}

AllGraphs == UNION {[types -> Parameters] : types \in SUBSET MCTypes}

\* The controller of README.md:193-203: two routes of one pattern, told apart
\* by their methods.
ReadmeController == <<"/users", "/users", "/users/{id}">>

\* None; distinct patterns; a clash within a controller, between two, with
\* each kind of Build's own patterns; two that overlap, and one with Build's; a
\* malformed one; and a controller without routes.
ControllerLists ==
  { <<>>, <<ReadmeController>>, <<<<"/users", "/users/{id}">>, <<"/orders">>>>,
    <<<<"/users">>, <<"/users">>>>, <<<<"/health">>>>, <<<<"/orders", "/static/">>>>,
    <<<<"/users/{id}">>, <<"/{list}/new">>>>, <<<<"GET /{page}">>>>, <<<<"/users", "">>>>,
    <<<<>>, <<"/orders">>>> }

MCMalformed   == {""}
MCOverlapping == {{"/users/{id}", "/{list}/new"}} \cup {{q, "GET /{page}"} : q \in BuiltIn}

Plain(temporal) ==
  [ports |-> TRUE, fixed |-> FALSE, interceptor |-> FALSE, static |-> FALSE, ssl |-> FALSE,
   temporal |-> temporal]

Program(n, settings, s, controllers, graph, values, parameters) ==
  [builds |-> n, cfg |-> settings, services |-> s, routes |-> controllers,
   providers |-> graph, provided |-> values, factories |-> parameters]

EveryGraph ==
  {Program(1, Plain(TRUE), 1, <<>>, graph, values, <<<<a>>, <<second>>>>) :
     graph \in AllGraphs, values \in {{}, {b}}, second \in {a, b}}
  \cup {Program(1, Plain(FALSE), 0, <<<<"/orders">>>>, graph, values, <<<<a, b>>>>) :
     graph \in AllGraphs, values \in {{}, {b}}}

\* One service, the controllers and, with Temporal, one activity, which needs b.
Parts(controllers, temporal) ==
  [i \in 1 .. 1 + Len(controllers) + (IF temporal THEN 1 ELSE 0) |->
     IF i > 1 + Len(controllers) THEN <<b>> ELSE <<a>>]

EverySetting ==
  {Program(2, settings, 1, controllers, graph, {}, Parts(controllers, settings.temporal)) :
     settings \in ConfigSpace, controllers \in ControllerLists,
     graph \in {<<>>, a :> <<>>, a :> <<>> @@ b :> <<a>>, a :> <<a>>}}

MCInputs == EveryGraph \cup EverySetting
=============================================================================
