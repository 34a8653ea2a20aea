----------------------------- MODULE Container -----------------------------
(***************************************************************************)
(* The dependency injection container (src/server/container.go) and        *)
(* invokeFactory: a factory is called with arguments that resolve finds    *)
(* among the singletons or makes by calling a provider, whose own          *)
(* arguments it resolves first.  Builder, which extends this module, says  *)
(* when Build invokes which factory.                                       *)
(*                                                                         *)
(* The recursion of resolve is a stack of calls in progress.  A cycle      *)
(* among providers has no guard in the code: the stack grows until the     *)
(* runtime ends the process, here at MaxDepth frames.                      *)
(***************************************************************************)
EXTENDS Naturals, Sequences, FiniteSets

CONSTANTS
  Types,    \* the reflect.Types in play
  MaxDepth  \* frames the goroutine's stack has room for

\* A program has fewer types than a stack has frames, 2^20 and more of them.
ASSUME TypesAssumption == IsFiniteSet(Types)
ASSUME MaxDepthAssumption == MaxDepth \in Nat /\ MaxDepth > Cardinality(Types)

VARIABLES
  providers,   \* parameter list of the provider of each type that has one
  factories,   \* parameter lists of the factories, in Build's order
  provided,    \* types with a value given to Provide or ProvideAs
  singletons,  \* the Builder's map: the instance of each type that has one
  stack,       \* calls in progress: the factory's, then the nested resolves'
  given,       \* the arguments each factory was called with
  made,        \* the types providers were called for, in order (history)
  outcome      \* "running", or what resolve came upon

containerVars == <<providers, factories, provided, singletons, stack, given, made, outcome>>

\* An instance: a value the user provided, or the n-th one a provider made.
User(t)    == [type |-> t, made |-> 0]
Made(t, n) == [type |-> t, made |-> n]

\* A call in progress: what is being made and the arguments found so far.
Frame(f, args) == [of |-> f, args |-> args]

IsFactory(f) == "factory" \in DOMAIN f
Factory == [factory |-> TRUE]
Provider(t) == [type |-> t]

\* Before the first Build.
ContainerInit ==
  /\ singletons = [t \in provided |-> User(t)]
  /\ stack = <<>>
  /\ given = <<>>
  /\ made = <<>>
  /\ outcome = "running"

\* The parameters of the call in frame fr.
Params(fr) ==
  IF IsFactory(fr.of) THEN factories[Len(given) + 1] ELSE providers[fr.of.type]

Top == stack[Len(stack)]
Complete(fr) == Len(fr.args) = Len(Params(fr))
Wanted(fr) == Params(fr)[Len(fr.args) + 1]

\* The call on top needs one more argument.
Resolving == outcome = "running" /\ stack # <<>> /\ ~Complete(Top)

\* s with v as one more argument of its top call.
Pass(s, v) == [s EXCEPT ![Len(s)].args = Append(@, v)]

-----------------------------------------------------------------------------
\* newContainer, on the maps of the Builder.
NewContainer ==
  /\ stack' = <<>>
  /\ given' = <<>>
  /\ outcome' = "running"
  /\ UNCHANGED <<providers, factories, provided, singletons, made>>

\* The next factory is invoked.
Invoke ==
  /\ outcome = "running"
  /\ stack = <<>>
  /\ Len(given) < Len(factories)
  /\ stack' = <<Frame(Factory, <<>>)>>
  /\ UNCHANGED <<providers, factories, provided, singletons, given, made, outcome>>

\* The type has a singleton.
Hit ==
  /\ Resolving
  /\ Wanted(Top) \in DOMAIN singletons
  /\ stack' = Pass(stack, singletons[Wanted(Top)])
  /\ UNCHANGED <<providers, factories, provided, singletons, given, made, outcome>>

\* It has none, but a provider: resolve calls itself for its parameters.
Descend ==
  /\ Resolving
  /\ Wanted(Top) \in DOMAIN providers \ DOMAIN singletons
  /\ IF Len(stack) < MaxDepth
       THEN /\ stack' = Append(stack, Frame(Provider(Wanted(Top)), <<>>))
            /\ UNCHANGED outcome
       ELSE stack' = <<>> /\ outcome' = "stackOverflow"
  /\ UNCHANGED <<providers, factories, provided, singletons, given, made>>

\* It has neither: the error goes up through every call, and out of Build.
Missing ==
  /\ Resolving
  /\ Wanted(Top) \notin DOMAIN providers \cup DOMAIN singletons
  /\ stack' = <<>>
  /\ outcome' = "noProvider"
  /\ UNCHANGED <<providers, factories, provided, singletons, given, made>>

\* A call panics, and takes all those below it with it.
Abandon ==
  /\ stack' = <<>>
  /\ UNCHANGED <<providers, factories, provided, singletons, given, made, outcome>>

\* Wrong: called once for the map and once for the caller.
CallProviderTwice ==
  /\ outcome = "running"
  /\ stack # <<>>
  /\ Complete(Top) /\ ~IsFactory(Top.of)
  /\ LET t == Top.of.type
     IN  /\ made' = Append(made, t)
         /\ singletons' = [u \in DOMAIN singletons \cup {t} |->
                             IF u = t THEN Made(t, 1) ELSE singletons[u]]
         /\ stack' = Pass(SubSeq(stack, 1, Len(stack) - 1), Made(t, 2))
  /\ UNCHANGED <<providers, factories, provided, given, outcome>>

\* All arguments are there: the provider is called, and its result memoised
\* and passed to the call that wanted it.
CallProvider ==
  /\ outcome = "running"
  /\ stack # <<>>
  /\ Complete(Top) /\ ~IsFactory(Top.of)
  /\ LET t == Top.of.type
         v == Made(t, Cardinality({i \in DOMAIN made : made[i] = t}) + 1)
     IN  /\ made' = Append(made, t)
         /\ singletons' = [u \in DOMAIN singletons \cup {t} |-> IF u = t THEN v ELSE singletons[u]]
         /\ stack' = Pass(SubSeq(stack, 1, Len(stack) - 1), v)
  /\ UNCHANGED <<providers, factories, provided, given, outcome>>

CallFactory ==
  /\ outcome = "running"
  /\ stack # <<>>
  /\ Complete(Top) /\ IsFactory(Top.of)
  /\ given' = Append(given, Top.args)
  /\ stack' = <<>>
  /\ UNCHANGED <<providers, factories, provided, singletons, made, outcome>>

\* The steps of a call of invokeFactory, but for its error.
Resolve == Invoke \/ Hit \/ Descend \/ CallProvider \/ CallFactory

-----------------------------------------------------------------------------
(* What resolve should find, defined without a stack.                      *)

Elems(seq) == {seq[i] : i \in DOMAIN seq}

\* The types in S include the provided ones, and each that a provider makes of S.
Closed(S) ==
  /\ provided \subseteq S
  /\ \A t \in DOMAIN providers : Elems(providers[t]) \subseteq S => t \in S

\* The types that can be had at all: the least closed set.
Available == {t \in Types : \A S \in SUBSET Types : Closed(S) => t \in S}

\* S includes what the factories, and the providers of S, need and is not provided.
Demanding(S) ==
  /\ \A i \in DOMAIN factories : Elems(factories[i]) \subseteq S \cup provided
  /\ \A t \in S \cap DOMAIN providers : Elems(providers[t]) \subseteq S \cup provided

\* What the factories need, directly or not, and the user did not give.
Required == {t \in Types : \A S \in SUBSET Types : Demanding(S) => t \in S}

-----------------------------------------------------------------------------
Instances == [type : Types, made : Nat]

ContainerTypeOK ==
  /\ DOMAIN singletons \subseteq Types
  /\ \A t \in DOMAIN singletons : singletons[t] \in Instances
  /\ \A i \in DOMAIN stack : stack[i].args \in Seq(Instances)
  /\ given \in Seq(Seq(Instances))
  /\ made \in Seq(Types)
  /\ outcome \in {"running", "noProvider", "stackOverflow"}

\* A type has one instance, whatever the shape of the graph, cycles and
\* diamonds included, and over all the factories: its provider is called once,
\* not at all for a type the user provided, and what factories were given, and
\* calls in progress hold, is what the container holds.
OneInstance ==
  /\ \A i, j \in DOMAIN made : made[i] = made[j] => i = j
  /\ \A i \in DOMAIN made : made[i] \notin provided
  /\ \A i \in DOMAIN given : \A k \in DOMAIN given[i] :
       given[i][k] = singletons[factories[i][k]] /\ given[i][k].type = factories[i][k]
  /\ \A i \in DOMAIN stack : \A k \in DOMAIN stack[i].args :
       stack[i].args[k] = singletons[Params(stack[i])[k]]
=============================================================================
