--------------------------- MODULE BuilderProofs ---------------------------
(***************************************************************************)
(* Build and its container, proved for every set of types, every graph of  *)
(* providers, every list of factories and routes, and any number of calls. *)
(***************************************************************************)
EXTENDS Builder, TLAPS, FiniteSetTheorems, SequenceTheorems

Input == [builds |-> builds, cfg |-> cfg, services |-> services, routes |-> routes,
          providers |-> providers, provided |-> provided, factories |-> factories]

Frames == [of : {Factory} \cup {Provider(t) : t \in Types}, args : Seq(Instances)]

Type(i) == stack[i].of.type

\* What the container holds was provided or made of what it held before.
SingletonInv ==
  /\ DOMAIN singletons \subseteq Types
  /\ \A t \in DOMAIN singletons : singletons[t] \in Instances /\ singletons[t].type = t
  /\ DOMAIN singletons = provided \cup Elems(made)
  /\ \A S \in SUBSET Types : Closed(S) => DOMAIN singletons \subseteq S

MadeInv ==
  /\ made \in Seq(Types)
  /\ \A i, j \in DOMAIN made : made[i] = made[j] => i = j
  /\ \A i \in DOMAIN made :
       /\ made[i] \notin provided /\ made[i] \in DOMAIN providers
       /\ Elems(providers[made[i]]) \subseteq DOMAIN singletons

\* The arguments args were found for the parameters params, in the map held.
Found(args, params, held) ==
  \A k \in DOMAIN args : params[k] \in DOMAIN held /\ args[k] = held[params[k]]

GivenInv ==
  /\ given \in Seq(Seq(Instances)) /\ Len(given) <= Len(factories)
  /\ \A i \in DOMAIN given : Len(given[i]) = Len(factories[i]) /\ Found(given[i], factories[i], singletons)

\* Each call in progress is for what the call below it wants next, which
\* nobody has made: a type that is on the stack twice is not made from there.
FrameInv(i) ==
  /\ Len(stack[i].args) <= Len(Params(stack[i]))
  /\ Found(stack[i].args, Params(stack[i]), singletons)
  /\ i = 1 => stack[i].of = Factory
  /\ i > 1 => /\ ~Complete(stack[i - 1])
              /\ stack[i].of = Provider(Wanted(stack[i - 1]))
              /\ Type(i) \in (Required \cap DOMAIN providers) \ DOMAIN singletons

StackInv ==
  /\ stack \in Seq(Frames)
  /\ stack # <<>> => outcome = "running" /\ Len(given) < Len(factories)
  /\ \A i \in 1 .. Len(stack) : FrameInv(i)

OutcomeInv ==
  /\ outcome \in {"running", "noProvider", "stackOverflow"}
  /\ outcome = "noProvider" => \E t \in Required : t \notin DOMAIN providers
  /\ outcome = "stackOverflow" => \E t \in Required \cap DOMAIN providers : t \notin Available

ContainerInv == SingletonInv /\ MadeInv /\ GivenInv /\ StackInv /\ OutcomeInv

Built == \E b \in DOMAIN results : Ok(b)

\* What a call of Build has spent and opened.
CallInv ==
  /\ stage \in {"idle", "listenGrpc", "listenHTTP", "newServer", "services", "routes",
                "configure", "dial", "activities"}
  /\ results \in Seq({"ok", "error", "panic"})
  /\ Len(results) <= builds
  /\ stage # "idle" => This <= builds
  /\ open \subseteq {"grpc", "http"} \X (1 .. builds)
  /\ clients \subseteq 1 .. builds
  /\ options \in Nat
  /\ options <= This + IF stage \in {"idle", "listenGrpc", "listenHTTP", "newServer"} THEN 0 ELSE 1

\* The factories called so far, loop by loop.
PaceInv ==
  /\ stage = "services" => Len(given) <= services /\ (stack # <<>> => Len(given) < services)
  /\ stage = "routes" =>
       /\ left \in Seq(Seq(STRING)) /\ Len(left) <= Len(routes)
       /\ Len(given) \in services + Controller - 1 .. services + Controller
       /\ left = <<>> => stack = <<>> /\ Len(given) = services + Len(routes)
       /\ stack # <<>> => Len(given) = services + Controller - 1
  /\ stage \in {"configure", "dial", "activities"} => Len(given) >= services + Len(routes)
  /\ stage \notin {"services", "routes", "activities"} => stack = <<>>

BuiltInv == Built => Required \subseteq Available

\* The routes registered so far in the loop over the controllers: all of those
\* before the c-th, and of its own all but the last rest.
Passed(p, c, rest) == p[1] < c \/ (p[1] = c /\ p[2] + rest <= Len(routes[c]))

Pattern(p) == routes[p[1]][p[2]]

Registered(c, rest) ==
  \A p \in Patterns : Passed(p, c, rest) => Pattern(p) \in DOMAIN mux /\ mux[Pattern(p)] = p

\* The mux has Build's own patterns and controllers', each told from the others.
MuxInv ==
  /\ \A q \in BuiltIn : q \in DOMAIN mux /\ mux[q] = Own
  /\ DOMAIN mux \subseteq BuiltIn \cup {Pattern(p) : p \in Patterns}
  /\ \A p, q \in DOMAIN mux : p \notin Malformed /\ (p # q => {p, q} \notin Overlapping)

\* What is left is a tail of the next controller's routes, and those after it.
LeftInv ==
  /\ left # <<>> =>
       /\ Len(left[1]) <= Len(routes[Controller])
       /\ \A i \in 1 .. Len(left[1]) :
            left[1][i] = routes[Controller][Len(routes[Controller]) - Len(left[1]) + i]
  /\ \A j \in 2 .. Len(left) : left[j] = routes[Controller + j - 1]

AllRegistered ==
  /\ DOMAIN mux = Taken \cup {Pattern(p) : p \in Patterns}
  /\ \A p \in Patterns : mux[Pattern(p)] = p
  /\ \A q \in Taken : mux[q] = Own
  /\ \A p, q \in DOMAIN mux : p \notin Malformed /\ (p # q => {p, q} \notin Overlapping)

RouteInv ==
  /\ stage = "routes" => LeftInv /\ MuxInv /\ Registered(Controller, Len(left[1]))
  /\ stage \in {"configure", "dial", "activities"} \/ Built => AllRegistered

\* After a server was made no call passes grpc.NewServer.
Early == {"idle", "listenGrpc", "listenHTTP", "newServer"}

SpentInv ==
  /\ stage \notin Early => options >= 1
  /\ Built => options >= 1 /\ stage \in Early

Inv == IsInput(Input) /\ ContainerInv /\ CallInv /\ PaceInv /\ BuiltInv /\ RouteInv /\ SpentInv

-----------------------------------------------------------------------------
(* The container.                                                          *)

\* What the program gives the container, and leaves as it is.
Graph ==
  /\ provided \subseteq Types /\ DOMAIN providers \subseteq Types
  /\ \A t \in DOMAIN providers : providers[t] \in Seq(Types)
  /\ factories \in Seq(Seq(Types))

Settled == UNCHANGED <<providers, provided, factories>>

LEMMA InputGraph == IsInput(Input) => Graph
  BY DEF IsInput, Input, Graph

LEMMA ElemsType == ASSUME NEW S, NEW s \in Seq(S) PROVE Elems(s) \subseteq S
  BY DEF Elems

\* The least closed set is closed, and the least demanding one demanding.
LEMMA RequiredLeast ==
  ASSUME Graph
  PROVE  /\ Required \subseteq Types
         /\ \A S \in SUBSET Types : Demanding(S) => Required \subseteq S
         /\ Demanding(Required)
<1>1. Required \subseteq Types /\ \A S \in SUBSET Types : Demanding(S) => Required \subseteq S
  BY DEF Required
<1>2. ASSUME NEW i \in DOMAIN factories PROVE Elems(factories[i]) \subseteq Required \cup provided
  <2>1. Elems(factories[i]) \subseteq Types
    BY ElemsType, <1>2 DEF Graph
  <2>2. \A S \in SUBSET Types : Demanding(S) => Elems(factories[i]) \subseteq S \cup provided
    BY DEF Demanding
  <2>3. QED
    BY <2>1, <2>2 DEF Required
<1>3. ASSUME NEW t \in Required \cap DOMAIN providers PROVE Elems(providers[t]) \subseteq Required \cup provided
  <2>1. Elems(providers[t]) \subseteq Types
    BY ElemsType DEF Graph
  <2>2. \A S \in SUBSET Types : Demanding(S) => Elems(providers[t]) \subseteq S \cup provided
    BY DEF Demanding, Required
  <2>3. QED
    BY <2>1, <2>2 DEF Required
<1>4. QED
  BY <1>1, <1>2, <1>3 DEF Demanding

LEMMA AvailableLeast ==
  ASSUME Graph
  PROVE  /\ Available \subseteq Types
         /\ \A S \in SUBSET Types : Closed(S) => Available \subseteq S
         /\ Closed(Available)
<1>1. Available \subseteq Types /\ \A S \in SUBSET Types : Closed(S) => Available \subseteq S
  BY DEF Available
<1>2. provided \subseteq Available
  BY DEF Available, Closed, Graph
<1>3. ASSUME NEW t \in DOMAIN providers, Elems(providers[t]) \subseteq Available PROVE t \in Available
  BY <1>1, <1>3 DEF Available, Closed, Graph
<1>4. QED
  BY <1>1, <1>2, <1>3 DEF Closed

LEMMA FrameType ==
  ASSUME NEW f \in {Factory} \cup {Provider(t) : t \in Types}, NEW args \in Seq(Instances)
  PROVE  Frame(f, args) \in Frames /\ Frame(f, args).of = f /\ Frame(f, args).args = args
  BY DEF Frame, Frames

LEMMA FrameArgs == \A f \in Frames : f.args \in Seq(Instances)
<1> DEFINE O == {Factory} \cup {Provider(t) : t \in Types}
<1> HIDE DEF O
<1>1. \A f \in [of : O, args : Seq(Instances)] : f.args \in Seq(Instances)
  OBVIOUS
<1>2. QED
  BY <1>1 DEF O, Frames

LEMMA OfFactory == IsFactory(Factory) /\ \A t : ~IsFactory(Provider(t)) /\ Provider(t).type = t
  BY DEF IsFactory, Factory, Provider

\* The parameters of a call in progress.
LEMMA ParamsType ==
  ASSUME Graph, StackInv, given \in Seq(Seq(Instances)), NEW i \in 1 .. Len(stack)
  PROVE  /\ stack[i] \in Frames
         /\ i = 1 => Params(stack[i]) = factories[Len(given) + 1] /\ IsFactory(stack[i].of)
         /\ i > 1 => Params(stack[i]) = providers[Type(i)] /\ ~IsFactory(stack[i].of)
         /\ Params(stack[i]) \in Seq(Types)
<1>1. stack[i] \in Frames /\ FrameInv(i) /\ Len(given) + 1 \in 1 .. Len(factories)
  BY DEF StackInv, Graph
<1>2. CASE i = 1
  BY <1>1, <1>2, OfFactory DEF FrameInv, Params, Graph
<1>3. CASE i > 1
  <2>1. ~IsFactory(stack[i].of)
    BY <1>1, <1>3, OfFactory DEF FrameInv
  <2>2. Type(i) \in DOMAIN providers
    BY <1>1, <1>3 DEF FrameInv
  <2>3. QED
    BY <1>1, <1>3, <2>1, <2>2 DEF Params, Type, Graph
<1>4. QED
  BY <1>1, <1>2, <1>3

LEMMA PassType ==
  ASSUME NEW s \in Seq(Frames), s # <<>>, NEW v \in Instances
  PROVE  /\ Pass(s, v) \in Seq(Frames) /\ Len(Pass(s, v)) = Len(s)
         /\ \A i \in 1 .. Len(s) :
              /\ Pass(s, v)[i].of = s[i].of
              /\ Pass(s, v)[i].args = IF i = Len(s) THEN Append(s[i].args, v) ELSE s[i].args
              /\ i # Len(s) => Pass(s, v)[i] = s[i]
<1> DEFINE n == Len(s)
           top == [s[n] EXCEPT !.args = Append(@, v)]
<1>1. n \in 1 .. n /\ s[n] \in Frames
  BY EmptySeq
<1>2. top \in Frames /\ top.of = s[n].of /\ top.args = Append(s[n].args, v)
  <2> DEFINE O == {Factory} \cup {Provider(t) : t \in Types}
  <2>1. s[n] \in [of : O, args : Seq(Instances)]
    BY <1>1 DEF Frames
  <2> HIDE DEF O
  <2>2. top \in [of : O, args : Seq(Instances)] /\ top.of = s[n].of /\ top.args = Append(s[n].args, v)
    <3>1. s[n].of \in O /\ s[n].args \in Seq(Instances) /\ Append(s[n].args, v) \in Seq(Instances)
      BY <2>1, AppendProperties
    <3>2. top = [s[n] EXCEPT !.args = Append(s[n].args, v)]
      OBVIOUS
    <3> HIDE DEF top
    <3>3. QED
      BY <2>1, <3>1, <3>2
  <2>3. QED
    BY <2>2 DEF O, Frames
<1>3. Pass(s, v) = [s EXCEPT ![n] = top]
  BY DEF Pass
<1> HIDE DEF top
<1>4. /\ Pass(s, v) \in Seq(Frames) /\ Len(Pass(s, v)) = n
      /\ \A i \in 1 .. n : Pass(s, v)[i] = IF i = n THEN top ELSE s[i]
  BY <1>1, <1>2, <1>3, ExceptSeq
<1>5. QED
  BY <1>2, <1>4

LEMMA SettledSame ==
  ASSUME Settled
  PROVE  /\ Graph => Graph'
         /\ Required' = Required /\ Available' = Available
         /\ \A S : Closed(S)' <=> Closed(S)
<1>1. \A S : (Closed(S)' <=> Closed(S)) /\ (Demanding(S)' <=> Demanding(S))
  BY DEF Settled, Closed, Demanding, Elems
<1>2. QED
  BY <1>1 DEF Settled, Required, Available, Graph

\* What the container held it holds, and nothing the calls up to m are to make.
Kept     == \A t \in DOMAIN singletons : t \in DOMAIN singletons' /\ singletons'[t] = singletons[t]
Unmade(m) == \A i \in 2 .. m : Type(i) \notin DOMAIN singletons'

\* One more argument for a call in progress.
LEMMA FoundMore ==
  ASSUME NEW args \in Seq(Instances), NEW params, NEW held, NEW v \in Instances,
         Found(args, params, held),
         params[Len(args) + 1] \in DOMAIN held, v = held[params[Len(args) + 1]]
  PROVE  Found(Append(args, v), params, held)
  BY AppendProperties DEF Found

\* What was found is found in a map that holds more.
LEMMA FoundKept ==
  ASSUME NEW args, NEW params, Found(args, params, singletons), Kept
  PROVE  Found(args, params, singletons')
  BY DEF Found, Kept

\* The first m calls in progress.
FirstCalls(s, m) == s \in Seq(Frames) /\ Len(s) = m /\ s # <<>> /\ \A i \in 1 .. m : s[i] = stack[i]

LEMMA FirstCallsSubSeq ==
  ASSUME stack \in Seq(Frames), NEW m \in 1 .. Len(stack)
  PROVE  FirstCalls(SubSeq(stack, 1, m), m)
  BY SubSeqProperties, EmptySeq DEF FirstCalls

\* The m-th call gets what it wanted next, which the container has by now, and
\* the calls above it have returned.
LEMMA PassInv ==
  ASSUME Graph, GivenInv, StackInv, Settled, UNCHANGED <<given, outcome>>,
         NEW m \in 1 .. Len(stack), NEW v \in Instances,
         NEW s, FirstCalls(s, m), stack' = Pass(s, v), ~Complete(stack[m]),
         Wanted(stack[m]) \in DOMAIN singletons', v = singletons'[Wanted(stack[m])],
         Kept, Unmade(m)
  PROVE  StackInv'
<1>1. /\ stack \in Seq(Frames) /\ Len(stack) \in Nat /\ DOMAIN stack = 1 .. Len(stack)
      /\ given \in Seq(Seq(Instances))
  BY DEF StackInv, GivenInv
<1>2. s \in Seq(Frames) /\ Len(s) = m /\ s # <<>> /\ \A i \in 1 .. m : s[i] = stack[i]
  BY DEF FirstCalls
<1>3. /\ stack' \in Seq(Frames) /\ Len(stack') = m /\ DOMAIN stack' = 1 .. m
      /\ \A i \in 1 .. m :
           /\ stack'[i].of = stack[i].of
           /\ stack'[i].args = IF i = m THEN Append(stack[i].args, v) ELSE stack[i].args
           /\ i # m => stack'[i] = stack[i]
  <2>1. /\ Pass(s, v) \in Seq(Frames) /\ Len(Pass(s, v)) = m
        /\ \A i \in 1 .. m :
             /\ Pass(s, v)[i].of = s[i].of
             /\ Pass(s, v)[i].args = IF i = m THEN Append(s[i].args, v) ELSE s[i].args
             /\ i # m => Pass(s, v)[i] = s[i]
    BY <1>2, PassType
  <2>2. QED
    BY <1>2, <2>1
<1>4. ASSUME NEW i \in 1 .. m PROVE FrameInv(i)'
  <2>1. /\ i \in 1 .. Len(stack) /\ FrameInv(i)
        /\ stack[i].args \in Seq(Instances) /\ Params(stack[i]) \in Seq(Types)
    BY <1>1, ParamsType, FrameArgs DEF StackInv
  <2>2. \A j \in 1 .. m : Params(stack[j])' = Params(stack[j])
    BY <1>1, <1>3 DEF Params, Settled
  <2>3. Found(stack[i].args, Params(stack[i]), singletons')
    BY <2>1, FoundKept DEF FrameInv
  <2>4. /\ Len(stack'[i].args) <= Len(Params(stack[i]))
        /\ Found(stack'[i].args, Params(stack[i]), singletons')
    <3>1. CASE i # m
      BY <1>3, <2>1, <2>3, <3>1 DEF FrameInv
    <3>2. CASE i = m
      <4>1. stack'[i].args = Append(stack[i].args, v)
        BY <1>3, <3>2
      <4>2. Len(stack[i].args) < Len(Params(stack[i]))
        BY <2>1, <3>2 DEF Complete, FrameInv
      <4>3. Found(Append(stack[i].args, v), Params(stack[i]), singletons')
        BY <2>1, <2>3, <3>2, FoundMore DEF Wanted
      <4>4. Len(Append(stack[i].args, v)) = Len(stack[i].args) + 1 /\ Len(stack[i].args) \in Nat
        BY <2>1, AppendProperties
      <4>5. Len(Params(stack[i])) \in Nat
        BY <2>1
      <4>6. Len(stack'[i].args) <= Len(Params(stack[i]))
        BY ONLY <4>1, <4>2, <4>4, <4>5
      <4>7. QED
        BY <4>1, <4>3, <4>6
    <3>3. QED
      BY <3>1, <3>2
  <2>5. i = 1 => stack'[i].of = Factory
    BY <1>3, <2>1 DEF FrameInv
  <2>6. ASSUME i > 1
        PROVE  /\ ~Complete(stack[i - 1])'
               /\ stack'[i].of = Provider(Wanted(stack[i - 1]))'
               /\ Type(i)' \in (Required' \cap DOMAIN providers') \ DOMAIN singletons'
    <3>1. i - 1 \in 1 .. m /\ i - 1 # m
      BY <2>6
    <3>2. stack'[i - 1] = stack[i - 1] /\ stack'[i].of = stack[i].of /\ Params(stack[i - 1])' = Params(stack[i - 1])
      BY <1>3, <2>2, <3>1
    <3>3. Required' = Required /\ DOMAIN providers' = DOMAIN providers
      BY SettledSame DEF Settled
    <3>4. Type(i) \notin DOMAIN singletons' /\ Type(i)' = Type(i)
      BY <2>6, <3>2 DEF Unmade, Type
    <3>5. QED
      BY <2>1, <2>6, <3>2, <3>3, <3>4 DEF FrameInv, Complete, Wanted, Provider
  <2>7. QED
    BY <2>2, <2>4, <2>5, <2>6 DEF FrameInv
<1>5. QED
  BY <1>1, <1>3, <1>4 DEF StackInv, Settled

\* Steps that leave the container's maps and calls alone keep what is said of them.
LEMMA MapsKept ==
  ASSUME Graph, Settled, UNCHANGED <<singletons, made>>, SingletonInv, MadeInv
  PROVE  SingletonInv' /\ MadeInv'
  BY SettledSame DEF SingletonInv, MadeInv, Settled, Elems

LEMMA OutcomeKept ==
  ASSUME Settled, UNCHANGED outcome, OutcomeInv
  PROVE  OutcomeInv'
  BY SettledSame DEF OutcomeInv, Settled

LEMMA GivenKept ==
  ASSUME Graph, Settled, UNCHANGED given, Kept, GivenInv
  PROVE  GivenInv'
<1>1. \A i \in DOMAIN given : Found(given[i], factories[i], singletons')
  BY FoundKept DEF GivenInv
<1>2. QED
  BY <1>1 DEF GivenInv, Settled

LEMMA StackEmptied ==
  ASSUME stack' = <<>>
  PROVE  StackInv'
<1>1. stack' \in Seq(Frames)' /\ 1 .. Len(stack') = {}
  BY EmptySeq
<1>2. QED
  BY <1>1 DEF StackInv

\* The call on top.
LEMMA TopType ==
  ASSUME Graph, StackInv, GivenInv, stack # <<>>
  PROVE  /\ Len(stack) \in 1 .. Len(stack) /\ Top = stack[Len(stack)] /\ FrameInv(Len(stack))
         /\ stack[Len(stack)] \in Frames /\ stack[Len(stack)].args \in Seq(Instances)
         /\ Params(Top) \in Seq(Types)
         /\ ~Complete(Top) => Wanted(Top) \in Types
         /\ IsFactory(Top.of) <=> Len(stack) = 1
<1>1. stack \in Seq(Frames) /\ Len(stack) \in 1 .. Len(stack)
  BY EmptySeq DEF StackInv
<1>2. /\ Top = stack[Len(stack)] /\ FrameInv(Len(stack)) /\ stack[Len(stack)] \in Frames
      /\ stack[Len(stack)].args \in Seq(Instances)
  BY <1>1, FrameArgs DEF Top, StackInv
<1>3. Params(Top) \in Seq(Types) /\ (IsFactory(Top.of) <=> Len(stack) = 1)
  <2>1. /\ Params(stack[Len(stack)]) \in Seq(Types)
        /\ IsFactory(stack[Len(stack)].of) <=> Len(stack) = 1
    <3>1. PICK n \in 1 .. Len(stack) : n = Len(stack)
      BY <1>1
    <3>2. /\ Params(stack[n]) \in Seq(Types)
          /\ n = 1 => IsFactory(stack[n].of)
          /\ n > 1 => ~IsFactory(stack[n].of)
      BY ParamsType DEF GivenInv
    <3>3. QED
      BY <1>1, <3>1, <3>2
  <2>2. QED
    BY <1>2, <2>1
<1>4. ~Complete(Top) => Wanted(Top) \in Types
  <2>1. Len(Top.args) \in Nat /\ Len(Params(Top)) \in Nat /\ Len(Top.args) <= Len(Params(Top))
    BY <1>2, <1>3 DEF FrameInv
  <2>2. ~Complete(Top) => Len(Top.args) + 1 \in 1 .. Len(Params(Top))
    BY <2>1 DEF Complete
  <2>3. QED
    BY <1>3, <2>2 DEF Wanted
<1>5. QED
  BY <1>1, <1>2, <1>3, <1>4

LEMMA HitInv == ASSUME Graph, ContainerInv, Hit PROVE ContainerInv' /\ Settled
<1> USE DEF ContainerInv
<1>1. Settled /\ UNCHANGED <<singletons, given, made, outcome>> /\ Kept
  BY DEF Hit, Settled, Kept
<1>2. SingletonInv' /\ MadeInv' /\ GivenInv' /\ OutcomeInv'
  BY <1>1, MapsKept, GivenKept, OutcomeKept
<1>3. stack # <<>> /\ ~Complete(stack[Len(stack)]) /\ Len(stack) \in 1 .. Len(stack)
  BY TopType DEF Hit, Resolving
<1>4. PICK v : v = singletons[Wanted(stack[Len(stack)])]
  OBVIOUS
<1>5. /\ Wanted(stack[Len(stack)]) \in DOMAIN singletons' /\ v = singletons'[Wanted(stack[Len(stack)])]
      /\ v \in Instances /\ stack' = Pass(stack, v)
  BY <1>1, <1>4 DEF Hit, Top, SingletonInv
<1>6. FirstCalls(stack, Len(stack))
  BY <1>3 DEF FirstCalls, StackInv
<1>7. Unmade(Len(stack))
  BY <1>1, <1>3 DEF Unmade, StackInv, FrameInv
<1>8. StackInv'
  BY <1>1, <1>3, <1>5, <1>6, <1>7, PassInv
<1>9. QED
  BY <1>1, <1>2, <1>8

LEMMA InvokeInv == ASSUME Graph, ContainerInv, Invoke PROVE ContainerInv' /\ Settled
<1> USE DEF ContainerInv
<1>1. Settled /\ UNCHANGED <<singletons, given, made, outcome>> /\ Kept
  BY DEF Invoke, Settled, Kept
<1>2. SingletonInv' /\ MadeInv' /\ GivenInv' /\ OutcomeInv'
  BY <1>1, MapsKept, GivenKept, OutcomeKept
<1>3. Len(given) + 1 \in 1 .. Len(factories) /\ factories[Len(given) + 1] \in Seq(Types)
  BY DEF Invoke, GivenInv, Graph
<1>4. PICK f \in Frames : f = Frame(Factory, <<>>) /\ f.of = Factory /\ f.args = <<>>
  BY FrameType, EmptySeq
<1>5. stack' = <<f>> /\ stack' \in Seq(Frames) /\ Len(stack') = 1 /\ stack'[1] = f
  BY <1>4 DEF Invoke
<1>6. Params(stack[1])' \in Seq(Types) /\ Frames' = Frames
  BY <1>1, <1>3, <1>4, <1>5, OfFactory DEF Params, Settled
<1>7. FrameInv(1)'
  BY <1>4, <1>5, <1>6, EmptySeq DEF FrameInv, Found
<1>8. StackInv'
  BY <1>1, <1>5, <1>7 DEF StackInv, Invoke, Settled
<1>9. QED
  BY <1>1, <1>2, <1>8

\* What the top call wants and nobody made, the factories require.
LEMMA WantedRequired ==
  ASSUME Graph, ContainerInv, Resolving, Wanted(Top) \notin DOMAIN singletons
  PROVE  Wanted(Top) \in Required
<1> USE DEF ContainerInv
<1>1. PICK n \in 1 .. Len(stack) :
        /\ n = Len(stack) /\ Top = stack[n] /\ FrameInv(n)
        /\ Len(stack[n].args) \in Nat /\ Params(stack[n]) \in Seq(Types)
  BY TopType DEF Resolving
<1>2. Len(stack[n].args) + 1 \in DOMAIN Params(stack[n])
  BY <1>1 DEF Resolving, Complete, FrameInv
<1>3. Wanted(Top) \in Elems(Params(stack[n])) /\ Wanted(Top) \notin provided
  BY <1>1, <1>2 DEF Wanted, Elems, SingletonInv
<1>4. CASE n = 1
  <2>1. Params(stack[n]) = factories[Len(given) + 1] /\ Len(given) + 1 \in DOMAIN factories
    <3>1. Len(given) < Len(factories) /\ Len(given) \in Nat /\ Len(factories) \in Nat
      BY DEF StackInv, GivenInv, Graph, Resolving
    <3>2. Params(stack[n]) = factories[Len(given) + 1]
      BY <1>1, <1>4, ParamsType DEF GivenInv
    <3>3. QED
      BY <3>1, <3>2 DEF Graph
  <2>2. QED
    BY <1>3, <2>1, RequiredLeast DEF Demanding
<1>5. CASE n > 1
  <2>1. Params(stack[n]) = providers[Type(n)] /\ Type(n) \in Required \cap DOMAIN providers
    BY <1>1, <1>5, ParamsType DEF FrameInv, GivenInv
  <2>2. QED
    BY <1>3, <2>1, RequiredLeast DEF Demanding
<1>6. QED
  BY <1>4, <1>5

\* Providers that each need the next, more of them than there are types, come
\* round in a cycle; the types on it are in no least closed set.
LEMMA CycleUnavailable ==
  ASSUME Graph, NEW d \in Nat, d > Cardinality(Types), NEW f \in [2 .. d + 1 -> Types],
         \A k \in 2 .. d + 1 : f[k] \in DOMAIN providers \ provided,
         \A k \in 2 .. d : f[k + 1] \in Elems(providers[f[k]])
  PROVE  \E k \in 2 .. d + 1 : f[k] \notin Available
<1>1. IsFiniteSet(2 .. d + 1) /\ Cardinality(2 .. d + 1) = d
  BY FS_Interval
<1>2. \E x, y \in 2 .. d + 1 : x # y /\ f[x] = f[y]
  BY <1>1, FS_PigeonHole, TypesAssumption
<1>3. PICK x \in 2 .. d + 1, y \in 2 .. d + 1 : x < y /\ f[x] = f[y]
  BY <1>2
<1> DEFINE cycle == {f[k] : k \in x .. y - 1}
<1>4. f[x] \in cycle
  BY <1>3
<1>5. \A t \in cycle : \E u \in cycle : u \in Elems(providers[t])
  <2>1. TAKE t \in cycle
  <2>2. PICK k \in x .. y - 1 : t = f[k]
    BY <2>1
  <2>3. k \in 2 .. d /\ f[k + 1] \in Elems(providers[t])
    BY <2>2
  <2>4. f[k + 1] \in cycle
    BY <1>3, <1>4, <2>2
  <2>5. QED
    BY <2>3, <2>4
<1>6. \A t \in cycle : t \notin provided
  <2>1. \A k \in x .. y - 1 : k \in 2 .. d + 1
    OBVIOUS
  <2>2. QED
    BY <2>1
<1> HIDE DEF cycle
<1>7. Closed(Types \ cycle)
  BY <1>5, <1>6 DEF Closed, Graph
<1>8. f[x] \notin Available
  BY <1>4, <1>7, AvailableLeast
<1>9. QED
  BY <1>8

\* A stack with no room for another call has such a cycle on it.
LEMMA OverflowInv ==
  ASSUME Graph, ContainerInv, Descend, Len(stack) >= MaxDepth
  PROVE  ContainerInv' /\ Settled
<1> USE DEF ContainerInv
<1>1. /\ Settled /\ UNCHANGED <<singletons, given, made>> /\ Kept
      /\ stack' = <<>> /\ outcome' = "stackOverflow"
  BY MaxDepthAssumption DEF Descend, Settled, Kept, Resolving, StackInv
<1>2. PICK w : w = Wanted(Top) /\ w \in (Required \cap DOMAIN providers) \ DOMAIN singletons
  BY WantedRequired DEF Descend
<1>3. PICK d \in Nat : d = Len(stack) /\ d > Cardinality(Types) /\ d >= 1 /\ Top = stack[d] /\ ~Complete(stack[d])
  <2>1. Len(stack) \in Nat /\ Len(stack) >= 1 /\ Top = stack[Len(stack)]
    BY TopType DEF Descend, Resolving
  <2>2. Len(stack) > Cardinality(Types)
    BY <2>1, MaxDepthAssumption, FS_CardinalityType, TypesAssumption
  <2>3. QED
    BY <2>1, <2>2 DEF Descend, Resolving
<1> DEFINE f == [k \in 2 .. d + 1 |-> IF k <= d THEN Type(k) ELSE w]
<1>4. \A k \in 2 .. d + 1 : f[k] \in (Required \cap DOMAIN providers) \ DOMAIN singletons
  BY <1>2, <1>3 DEF StackInv, FrameInv
<1>5. ASSUME NEW k \in 2 .. d PROVE f[k + 1] \in Elems(providers[f[k]])
  <2>1. Params(stack[k]) = providers[Type(k)] /\ Params(stack[k]) \in Seq(Types) /\ FrameInv(k)
    BY <1>3, ParamsType DEF GivenInv, StackInv
  <2>2. ~Complete(stack[k]) /\ f[k + 1] = Wanted(stack[k])
    <3>1. CASE k = d
      BY <1>2, <1>3, <3>1
    <3>2. CASE k < d
      <4>1. FrameInv(k + 1) /\ k + 1 > 1 /\ (k + 1) - 1 = k /\ k + 1 <= d
        BY <1>3, <3>2 DEF StackInv
      <4>2. ~Complete(stack[k]) /\ Type(k + 1) = Wanted(stack[k])
        BY <4>1, OfFactory DEF FrameInv, Type
      <4>3. QED
        BY <4>1, <4>2
    <3>3. QED
      BY <3>1, <3>2
  <2>3. stack[k].args \in Seq(Instances)
    BY <1>3, FrameArgs DEF StackInv
  <2>4. Len(stack[k].args) + 1 \in DOMAIN Params(stack[k])
    BY <2>1, <2>2, <2>3 DEF FrameInv, Complete
  <2>5. f[k] = Type(k) /\ Wanted(stack[k]) \in Elems(Params(stack[k]))
    BY <2>4 DEF Wanted, Elems
  <2>6. QED
    BY <2>1, <2>2, <2>5
<1>6. f \in [2 .. d + 1 -> Types] /\ \A k \in 2 .. d + 1 : f[k] \in DOMAIN providers \ provided
  BY <1>4 DEF Graph, SingletonInv
<1> HIDE DEF f
<1>7. \E k \in 2 .. d + 1 : f[k] \notin Available
  BY <1>3, <1>5, <1>6, CycleUnavailable
<1>8. OutcomeInv'
  BY <1>1, <1>4, <1>7, SettledSame DEF OutcomeInv, Settled
<1>9. QED
  BY <1>1, <1>8, MapsKept, GivenKept, StackEmptied

LEMMA DescendInv ==
  ASSUME Graph, ContainerInv, Descend, Len(stack) < MaxDepth
  PROVE  ContainerInv' /\ Settled
<1> USE DEF ContainerInv
<1>1. Settled /\ UNCHANGED <<singletons, given, made, outcome>> /\ Kept
  BY DEF Descend, Settled, Kept
<1>2. SingletonInv' /\ MadeInv' /\ GivenInv' /\ OutcomeInv'
  BY <1>1, MapsKept, GivenKept, OutcomeKept
<1>3. PICK n \in Nat : n = Len(stack) /\ n >= 1 /\ Top = stack[n] /\ ~Complete(stack[n])
  BY TopType DEF Descend, Resolving
<1>4. PICK w \in Types : w = Wanted(Top) /\ w \in (Required \cap DOMAIN providers) \ DOMAIN singletons
  BY WantedRequired DEF Descend, Graph
<1>5. PICK f \in Frames : f = Frame(Provider(w), <<>>) /\ f.of = Provider(w) /\ f.args = <<>>
  BY FrameType, EmptySeq
<1>6. stack \in Seq(Frames) /\ stack' = Append(stack, f) /\ outcome = "running" /\ Len(given) < Len(factories)
  BY <1>4, <1>5 DEF Descend, Resolving, StackInv
<1>7. /\ stack' \in Seq(Frames) /\ Len(stack') = n + 1
      /\ \A i \in 1 .. n : stack'[i] = stack[i]
      /\ stack'[n + 1] = f
  BY <1>3, <1>6, AppendProperties
<1>8. \A i \in 1 .. n : Params(stack[i])' = Params(stack[i])
  BY <1>1, <1>7 DEF Params, Settled
<1>9. ASSUME NEW i \in 1 .. n PROVE FrameInv(i)'
  <2>1. FrameInv(i) /\ stack'[i] = stack[i] /\ Params(stack[i])' = Params(stack[i]) /\ Required' = Required
    BY <1>1, <1>3, <1>7, <1>8, SettledSame DEF StackInv
  <2>2. i > 1 => stack'[i - 1] = stack[i - 1] /\ Params(stack[i - 1])' = Params(stack[i - 1])
    BY <1>3, <1>7, <1>8
  <2>3. QED
    BY <1>1, <2>1, <2>2 DEF FrameInv, Complete, Wanted, Provider, Type, Settled
<1>10. FrameInv(n + 1)'
  <2>1. Params(stack[n + 1])' = providers[w] /\ providers[w] \in Seq(Types)
    BY <1>1, <1>4, <1>5, <1>7, OfFactory DEF Params, Settled, Graph
  <2>2. ~Complete(stack[n])' /\ Wanted(stack[n])' = w /\ (n + 1) - 1 = n
    BY <1>3, <1>4, <1>7, <1>8 DEF Complete, Wanted
  <2>3. Type(n + 1)' = w /\ Required' = Required
    BY <1>1, <1>5, <1>7, OfFactory, SettledSame DEF Type
  <2>4. Len(f.args) <= Len(providers[w]) /\ Found(f.args, providers[w], singletons')
    BY <1>5, <2>1, EmptySeq DEF Found
  <2>5. QED
    BY <1>1, <1>3, <1>4, <1>5, <1>7, <2>1, <2>2, <2>3, <2>4 DEF FrameInv, Provider, Settled
<1>11. StackInv'
  <2>1. \A i \in 1 .. Len(stack') : FrameInv(i)'
    BY <1>3, <1>7, <1>9, <1>10
  <2>2. Frames' = Frames
    OBVIOUS
  <2>3. QED
    BY <1>1, <1>6, <1>7, <2>1, <2>2 DEF StackInv, Settled
<1>12. QED
  BY <1>1, <1>2, <1>11

LEMMA MissingInv == ASSUME Graph, ContainerInv, Missing PROVE ContainerInv' /\ Settled
<1> USE DEF ContainerInv
<1>1. /\ Settled /\ UNCHANGED <<singletons, given, made>> /\ Kept
      /\ stack' = <<>> /\ outcome' = "noProvider"
  BY DEF Missing, Settled, Kept
<1>2. Wanted(Top) \in Required /\ Wanted(Top) \notin DOMAIN providers
  BY WantedRequired DEF Missing
<1>3. OutcomeInv'
  BY <1>1, <1>2, SettledSame DEF OutcomeInv, Settled
<1>4. QED
  BY <1>1, <1>3, MapsKept, GivenKept, StackEmptied

LEMMA CallFactoryInv == ASSUME Graph, ContainerInv, CallFactory PROVE ContainerInv' /\ Settled
<1> USE DEF ContainerInv
<1>1. /\ Settled /\ UNCHANGED <<singletons, made, outcome>> /\ Kept
      /\ stack' = <<>> /\ given' = Append(given, Top.args)
  BY DEF CallFactory, Settled, Kept
<1>2. /\ Top.args \in Seq(Instances) /\ Top = stack[1] /\ FrameInv(1) /\ Len(stack) >= 1
      /\ Complete(Top)
  <2>1. /\ Top.args = stack[Len(stack)].args /\ stack[Len(stack)].args \in Seq(Instances)
        /\ Top = stack[Len(stack)] /\ FrameInv(Len(stack)) /\ Len(stack) = 1 /\ Complete(Top)
    BY TopType DEF CallFactory
  <2>2. QED
    BY ONLY <2>1
<1>3. PICK p : p = factories[Len(given) + 1] /\ p = Params(Top)
  BY <1>2, ParamsType DEF GivenInv
<1>4. Len(Top.args) = Len(p) /\ Found(Top.args, p, singletons)
  BY <1>2, <1>3 DEF FrameInv, Complete
<1>5. Len(given) \in Nat /\ Len(factories) \in Nat /\ Len(given) < Len(factories) /\ given \in Seq(Seq(Instances))
  BY DEF CallFactory, StackInv, GivenInv, Graph
<1>6. /\ given' \in Seq(Seq(Instances)) /\ Len(given') = Len(given) + 1
      /\ given'[Len(given) + 1] = Top.args
      /\ \A i \in 1 .. Len(given) : given'[i] = given[i]
  BY <1>1, <1>2, <1>5, AppendProperties
<1>7. GivenInv'
  <2>1. ASSUME NEW i \in 1 .. Len(given)
        PROVE  Len(given'[i]) = Len(factories[i]) /\ Found(given'[i], factories[i], singletons)
    BY <1>5, <1>6 DEF GivenInv
  <2>2. \A i \in DOMAIN given' : i \in 1 .. Len(given) \/ i = Len(given) + 1
    BY <1>5, <1>6
  <2>3. \A i \in DOMAIN given' : Len(given'[i]) = Len(factories[i]) /\ Found(given'[i], factories[i], singletons)
    BY <1>3, <1>4, <1>6, <2>1, <2>2
  <2>4. QED
    BY <1>1, <1>5, <1>6, <2>3 DEF GivenInv, Settled
<1>8. QED
  BY <1>1, <1>7, MapsKept, OutcomeKept, StackEmptied

\* A provider is called for a type on the stack once: were the type further
\* down as well, that call would be waiting for an argument that this one,
\* with the same parameters, has found.
LEMMA CompleteOnce ==
  ASSUME Graph, ContainerInv, NEW n \in 1 .. Len(stack), n > 1, Complete(stack[n])
  PROVE  \A i \in 2 .. n - 1 : Type(i) # Type(n)
<1> USE DEF ContainerInv
<1> SUFFICES ASSUME NEW i \in 2 .. n - 1, Type(i) = Type(n) PROVE FALSE
  OBVIOUS
<1>1. PICK p \in Seq(Types) : p = providers[Type(n)] /\ p = Params(stack[n]) /\ p = Params(stack[i])
  BY ParamsType DEF GivenInv
<1>2. \A k \in 1 .. Len(p) : p[k] \in DOMAIN singletons
  <2>1. FrameInv(n) /\ stack[n].args \in Seq(Instances)
    BY ParamsType, FrameArgs DEF StackInv, GivenInv
  <2>2. Found(stack[n].args, p, singletons) /\ DOMAIN stack[n].args = 1 .. Len(p)
    BY <1>1, <2>1 DEF FrameInv, Complete
  <2>3. QED
    BY <2>2 DEF Found
<1>3. FrameInv(i) /\ FrameInv(i + 1) /\ i + 1 > 1 /\ (i + 1) - 1 = i /\ stack[i].args \in Seq(Instances)
  BY ParamsType, FrameArgs DEF StackInv, GivenInv
<1>4. Wanted(stack[i]) \notin DOMAIN singletons /\ ~Complete(stack[i])
  BY <1>3, OfFactory DEF FrameInv, Type
<1>5. Len(stack[i].args) + 1 \in 1 .. Len(p)
  BY <1>1, <1>3, <1>4 DEF FrameInv, Complete
<1>6. QED
  BY <1>1, <1>2, <1>4, <1>5 DEF Wanted

LEMMA CallProviderInv == ASSUME Graph, ContainerInv, CallProvider PROVE ContainerInv' /\ Settled
<1> USE DEF ContainerInv
<1>1. PICK n \in 2 .. Len(stack) : /\ n = Len(stack) /\ Top = stack[n] /\ FrameInv(n) /\ Complete(stack[n])
                                   /\ stack[n].args \in Seq(Instances)
  <2>1. /\ Len(stack) \in 1 .. Len(stack) /\ Top = stack[Len(stack)] /\ FrameInv(Len(stack))
        /\ Complete(stack[Len(stack)]) /\ Len(stack) # 1 /\ stack[Len(stack)].args \in Seq(Instances)
    BY TopType DEF CallProvider
  <2>2. Len(stack) \in Nat /\ Len(stack) # 0 /\ Len(stack) # 1
    BY <2>1, EmptySeq DEF StackInv, CallProvider
  <2>3. Len(stack) >= 2
    <3>1. \A k \in Nat : k # 0 /\ k # 1 => k >= 2
      OBVIOUS
    <3>2. QED
      BY <2>2, <3>1
  <2>4. Len(stack) \in 2 .. Len(stack)
    BY <2>2, <2>3
  <2>5. QED
    BY <2>1, <2>4
<1>2. PICK t \in Types : /\ t = Type(n) /\ t = Top.of.type
                         /\ t \in DOMAIN providers \ DOMAIN singletons
  BY <1>1 DEF FrameInv, Type, Graph
<1>3. PICK v \in Instances :
        /\ v.type = t
        /\ made' = Append(made, t)
        /\ singletons' = [u \in DOMAIN singletons \cup {t} |-> IF u = t THEN v ELSE singletons[u]]
        /\ stack' = Pass(SubSeq(stack, 1, n - 1), v)
  <2> DEFINE v == Made(t, Cardinality({i \in DOMAIN made : made[i] = t}) + 1)
  <2>1. IsFiniteSet(DOMAIN made)
    <3>1. Len(made) \in Nat /\ DOMAIN made = 1 .. Len(made)
      BY DEF MadeInv
    <3>2. IsFiniteSet(1 .. Len(made))
      BY <3>1, FS_Interval
    <3>3. QED
      BY <3>1, <3>2
  <2>2. Cardinality({i \in DOMAIN made : made[i] = t}) \in Nat
    BY <2>1, FS_Subset, FS_CardinalityType
  <2>3. v \in Instances /\ v.type = t
    BY <2>2 DEF Made, Instances
  <2>4. QED
    BY <1>1, <1>2, <2>3 DEF CallProvider
<1>4. Settled /\ UNCHANGED <<given, outcome>>
  BY DEF CallProvider, Settled
<1>5. /\ DOMAIN singletons' = DOMAIN singletons \cup {t} /\ singletons'[t] = v
      /\ \A u \in DOMAIN singletons : u # t /\ singletons'[u] = singletons[u]
  BY <1>2, <1>3
<1>6. Kept
  BY <1>5 DEF Kept
<1>7. Elems(providers[t]) \subseteq DOMAIN singletons
  <2>1. Params(stack[n]) = providers[t] /\ providers[t] \in Seq(Types)
    <3>1. n \in 1 .. Len(stack) /\ n > 1
      BY <1>1
    <3>2. Params(stack[n]) = providers[Type(n)] /\ Params(stack[n]) \in Seq(Types)
      BY <3>1, ParamsType DEF GivenInv
    <3>3. QED
      BY <1>2, <3>2
  <2>2. Found(stack[n].args, providers[t], singletons) /\ DOMAIN stack[n].args = 1 .. Len(providers[t])
    BY <1>1, <2>1 DEF FrameInv, Complete
  <2>3. QED
    BY <2>1, <2>2 DEF Found, Elems
<1>8. made \in Seq(Types) /\ made' \in Seq(Types) /\ Len(made') = Len(made) + 1 /\ made'[Len(made) + 1] = t
      /\ \A i \in 1 .. Len(made) : made'[i] = made[i]
  BY <1>3, AppendProperties DEF MadeInv
<1>9. MadeInv'
  <2>1. \A i \in DOMAIN made' : i \in 1 .. Len(made) \/ i = Len(made) + 1
    BY <1>8
  <2>2. \A i \in 1 .. Len(made) : made[i] \in DOMAIN singletons
    BY <1>8 DEF SingletonInv, Elems
  <2>3. \A i, j \in DOMAIN made' : made'[i] = made'[j] => i = j
    BY <1>2, <1>8, <2>1, <2>2 DEF MadeInv
  <2>4. ASSUME NEW i \in DOMAIN made'
        PROVE  /\ made'[i] \notin provided /\ made'[i] \in DOMAIN providers
               /\ Elems(providers[made'[i]]) \subseteq DOMAIN singletons'
    BY <1>2, <1>5, <1>7, <1>8, <2>1 DEF MadeInv, SingletonInv
  <2>5. \A i \in DOMAIN made' : Elems(providers[made[i]])' = Elems(providers[made'[i]])
    BY <1>4 DEF Elems, Settled
  <2>6. QED
    BY <1>4, <1>8, <2>3, <2>4, <2>5 DEF MadeInv, Settled
<1>10. SingletonInv'
  <2>1. Elems(made)' = Elems(made) \cup {t}
    BY <1>8 DEF Elems
  <2>2. \A S \in SUBSET Types : Closed(S) => DOMAIN singletons' \subseteq S
    BY <1>2, <1>5, <1>7 DEF SingletonInv, Closed
  <2>3. Instances' = Instances
    OBVIOUS
  <2>4. QED
    BY <1>2, <1>3, <1>4, <1>5, <2>1, <2>2, <2>3, SettledSame DEF SingletonInv, Settled
<1>11. StackInv'
  <2>1. PICK m \in 1 .. Len(stack) : m = n - 1
    BY <1>1
  <2>2. Wanted(stack[m]) = t /\ ~Complete(stack[m])
    BY <1>1, <1>2, <2>1, OfFactory DEF FrameInv, Type
  <2>3. Unmade(m)
    <3>1. ASSUME NEW i \in 2 .. m PROVE Type(i) \notin DOMAIN singletons /\ Type(i) # t
      <4>1. n \in 1 .. Len(stack) /\ n > 1 /\ i \in 1 .. Len(stack) /\ i > 1 /\ i \in 2 .. n - 1
        BY <1>1, <2>1
      <4>2. FrameInv(i)
        BY <4>1 DEF StackInv
      <4>3. QED
        BY <1>1, <1>2, <4>1, <4>2, CompleteOnce DEF FrameInv
    <3>2. QED
      BY <1>5, <3>1 DEF Unmade
  <2>4. FirstCalls(SubSeq(stack, 1, m), m)
    BY FirstCallsSubSeq DEF StackInv
  <2>5. PICK s : s = SubSeq(stack, 1, m)
    OBVIOUS
  <2>6. FirstCalls(s, m) /\ stack' = Pass(s, v)
    BY <1>3, <2>1, <2>4, <2>5
  <2>7. t \in DOMAIN singletons' /\ v = singletons'[t]
    BY <1>5
  <2>8. QED
    BY <1>4, <1>6, <2>2, <2>3, <2>6, <2>7, PassInv
<1>12. QED
  BY <1>4, <1>6, <1>9, <1>10, <1>11, GivenKept, OutcomeKept

LEMMA NewContainerInv == ASSUME Graph, ContainerInv, NewContainer PROVE ContainerInv' /\ Settled
<1> USE DEF ContainerInv
<1>1. /\ Settled /\ UNCHANGED <<singletons, made>> /\ Kept
      /\ stack' = <<>> /\ given' = <<>> /\ outcome' = "running"
  BY DEF NewContainer, Settled, Kept
<1>2. GivenInv'
  <2>1. given' \in Seq(Seq(Instances)) /\ Len(given') = 0 /\ DOMAIN given' = {}
    BY <1>1, EmptySeq
  <2>2. Len(factories') >= 0
    BY <1>1 DEF Settled, Graph
  <2>3. QED
    BY <2>1, <2>2 DEF GivenInv
<1>3. OutcomeInv'
  BY <1>1 DEF OutcomeInv
<1>4. QED
  BY <1>1, <1>2, <1>3, MapsKept, StackEmptied

LEMMA ResolveInv == ASSUME Graph, ContainerInv, Resolve PROVE ContainerInv' /\ Settled
<1>1. CASE Invoke
  BY <1>1, InvokeInv
<1>2. CASE Hit
  BY <1>2, HitInv
<1>3. CASE Descend
  <2>1. Len(stack) < MaxDepth \/ Len(stack) >= MaxDepth
    BY MaxDepthAssumption DEF ContainerInv, StackInv
  <2>2. QED
    BY <1>3, <2>1, DescendInv, OverflowInv
<1>4. CASE CallProvider
  BY <1>4, CallProviderInv
<1>5. CASE CallFactory
  BY <1>5, CallFactoryInv
<1>6. QED
  BY <1>1, <1>2, <1>3, <1>4, <1>5 DEF Resolve

LEMMA ContainerUnchanged == ASSUME Graph, ContainerInv, UNCHANGED containerVars PROVE ContainerInv' /\ Settled
<1> USE DEF ContainerInv, containerVars
<1>1. Settled /\ Kept
  BY DEF Settled, Kept
<1>2. SingletonInv' /\ MadeInv' /\ GivenInv' /\ OutcomeInv'
  BY <1>1, MapsKept, GivenKept, OutcomeKept
<1>3. \A i : FrameInv(i)' <=> FrameInv(i)
  <2>1. \A fr : Params(fr)' = Params(fr)
    BY DEF Params
  <2>2. QED
    BY <1>1, <2>1, SettledSame DEF FrameInv, Complete, Wanted, Type
<1>4. StackInv'
  BY <1>3 DEF StackInv
<1>5. QED
  BY <1>1, <1>2, <1>4

LEMMA AbandonInv == ASSUME Graph, ContainerInv, Abandon PROVE ContainerInv' /\ Settled
<1> USE DEF ContainerInv
<1>1. Settled /\ UNCHANGED <<singletons, made, given, outcome>> /\ Kept /\ stack' = <<>>
  BY DEF Abandon, Settled, Kept
<1>2. QED
  BY <1>1, MapsKept, GivenKept, OutcomeKept, StackEmptied

LEMMA ContainerNext ==
  ASSUME Graph, ContainerInv, [Next]_vars
  PROVE  ContainerInv' /\ Settled
<1>1. UNCHANGED containerVars \/ NewContainer \/ Resolve \/ Missing \/ Abandon
  BY DEF Next, BuildStep, Panics, Start, Listen, ListenGrpc, ListenHTTP, NewServer, InvokeFactory, FactoryFails,
         Services, Route, NextController, Static, Configure, Dial, Succeed, Fail, ServerStops, Collect,
         Rest, vars
<1>2. QED
  BY <1>1, ContainerUnchanged, NewContainerInv, ResolveInv, MissingInv, AbandonInv

LEMMA ContainerStart ==
  ASSUME Graph, ContainerInit
  PROVE  ContainerInv
<1> USE DEF ContainerInit
<1>1. Len(made) = 0 /\ DOMAIN made = {} /\ DOMAIN given = {} /\ Elems(made) = {}
  BY EmptySeq DEF Elems
<1>2. SingletonInv
  BY <1>1 DEF SingletonInv, Graph, Closed, User, Instances
<1>3. MadeInv
  BY <1>1, EmptySeq DEF MadeInv
<1>4. GivenInv
  BY <1>1, EmptySeq DEF GivenInv, Graph
<1>5. StackInv
  BY EmptySeq DEF StackInv
<1>6. QED
  BY <1>2, <1>3, <1>4, <1>5 DEF ContainerInv, OutcomeInv

-----------------------------------------------------------------------------
(* The calls of Build.                                                     *)

\* What the Builder was given stays as it was.
LEMMA InputKept == ASSUME IsInput(Input), ContainerInv, [Next]_vars PROVE IsInput(Input)' /\ Settings /\ Settled
<1>1. Settings
  BY DEF Next, BuildStep, Panics, Start, Listen, ListenGrpc, ListenHTTP, NewServer, InvokeFactory, FactoryFails,
         Services, Route, NextController, Static, Configure, Dial, Succeed, Fail, ServerStops, Collect,
         Rest, vars, builderVars, Settings
<1>2. Settled
  BY InputGraph, ContainerNext
<1>3. QED
  BY <1>1, <1>2 DEF Settings, Settled, IsInput, Input

\* A call ends.
LEMMA EndInv ==
  ASSUME IsInput(Input), CallInv, UNCHANGED builds,
         This <= builds, NEW from, NEW r \in {"ok", "error", "panic"}, End(from, r),
         UNCHANGED <<open, clients>>, options' \in Nat, options' <= This + 1
  PROVE  CallInv'
<1>1. /\ results \in Seq({"ok", "error", "panic"}) /\ results' = Append(results, r)
      /\ stage' = "idle" /\ builds \in Nat
  BY DEF CallInv, End, Step, IsInput, Input
<1>2. /\ results' \in Seq({"ok", "error", "panic"}) /\ Len(results') = Len(results) + 1 /\ Len(results) \in Nat
  BY <1>1, AppendProperties
<1>3. QED
  BY <1>1, <1>2 DEF CallInv, This

\* A call goes on.
LEMMA StepInv ==
  ASSUME IsInput(Input), CallInv, UNCHANGED <<builds, results>>, This <= builds,
         stage' \in {"listenGrpc", "listenHTTP", "newServer", "services", "routes",
                     "configure", "dial", "activities"},
         open' \subseteq open \cup {"grpc", "http"} \X {This},
         clients' \subseteq clients \cup {This},
         options' \in Nat,
         options' <= This + IF stage' \in {"listenGrpc", "listenHTTP", "newServer"} THEN 0 ELSE 1
  PROVE  CallInv'
<1>1. This \in 1 .. builds /\ This' = This /\ builds \in Nat
  BY DEF This, CallInv, IsInput, Input
<1>2. QED
  BY <1>1 DEF CallInv

LEMMA CallNext == ASSUME IsInput(Input), ContainerInv, CallInv, [Next]_vars PROVE CallInv'
<1> USE DEF Rest, Settings
<1>1. builds \in Nat /\ Len(results) \in Nat /\ options \in Nat /\ This = Len(results) + 1
      /\ UNCHANGED builds
  BY InputKept DEF IsInput, Input, CallInv, This
<1>2. stage # "idle" => This <= builds
  BY DEF CallInv
<1>3. options <= This + 1
  BY <1>1 DEF CallInv
<1>4. CASE Start
  <2>1. CASE cfg.ports
    BY <1>1, <1>4, <2>1, StepInv DEF Start, Step, CallInv
  <2>2. CASE ~cfg.ports
    BY <1>1, <1>3, <1>4, <2>2, EndInv DEF Start
  <2>3. QED
    BY <2>1, <2>2
<1>5. CASE ListenGrpc \/ ListenHTTP
  BY <1>1, <1>2, <1>5, StepInv DEF ListenGrpc, ListenHTTP, Listen, Step, CallInv
<1>6. CASE NewServer
  <2>1. options <= This /\ This <= builds /\ options' = options + 1
    BY <1>1, <1>2, <1>6 DEF NewServer, End, Step, CallInv
  <2>2. CASE options' = 1
    BY <1>1, <1>6, <2>1, <2>2, StepInv DEF NewServer, Step
  <2>3. CASE options' # 1
    BY <1>1, <1>6, <2>1, <2>3, EndInv DEF NewServer
  <2>4. QED
    BY <2>2, <2>3
<1>7. CASE InvokeFactory \/ UNCHANGED vars
  BY <1>7 DEF InvokeFactory, vars, builderVars, CallInv, This
<1>8. CASE FactoryFails
  BY <1>1, <1>2, <1>3, <1>8, EndInv DEF FactoryFails
<1>9. CASE Services \/ Dial \/ Configure \/ NextController
  BY <1>1, <1>2, <1>3, <1>9, StepInv DEF Services, Dial, Configure, NextController, Step
<1>10. CASE Route
  <2>1. CASE Refused(Head(Head(left)))
    BY <1>1, <1>2, <1>3, <1>10, <2>1, EndInv DEF Route
  <2>2. CASE ~Refused(Head(Head(left)))
    BY <1>1, <1>2, <1>3, <1>10, <2>2, StepInv DEF Route
  <2>3. QED
    BY <2>1, <2>2
<1>11. CASE Static
  <2>1. CASE cfg.static /\ Refused("/static/")
    BY <1>1, <1>2, <1>3, <1>11, <2>1, EndInv DEF Static, End, Step
  <2>2. CASE ~(cfg.static /\ Refused("/static/"))
    BY <1>1, <1>2, <1>3, <1>11, <2>2, StepInv DEF Static, Step
  <2>3. QED
    BY <2>1, <2>2
<1>12. CASE Succeed \/ Fail \/ Panics
  BY <1>1, <1>2, <1>3, <1>12, EndInv DEF Succeed, Fail, Panics
<1>13. CASE \E b \in 1 .. MaxBuilds : ServerStops(b) \/ Collect(b)
  BY <1>1, <1>13 DEF ServerStops, Collect, CallInv, This
<1>14. QED
  BY <1>4, <1>5, <1>6, <1>7, <1>8, <1>9, <1>10, <1>11, <1>12, <1>13 DEF Next, BuildStep

\* One step of invokeFactory calls at most one factory, the one in progress.
LEMMA ResolvePace ==
  ASSUME GivenInv, StackInv, Resolve
  PROVE  /\ Len(given) \in Nat /\ Len(given') \in Nat
         /\ \/ Len(given') = Len(given) /\ (stack # <<>> \/ Invoke)
            \/ Len(given') = Len(given) + 1 /\ stack # <<>> /\ stack' = <<>>
<1>1. given \in Seq(Seq(Instances))
  BY DEF GivenInv
<1>2. CASE CallFactory
  <2>1. Top.args \in Seq(Instances)
    BY <1>2, EmptySeq, FrameArgs DEF CallFactory, StackInv, Top
  <2>2. given' = Append(given, Top.args) /\ stack # <<>> /\ stack' = <<>>
    BY <1>2 DEF CallFactory
  <2>3. QED
    BY <1>1, <2>1, <2>2, AppendProperties
<1>3. CASE ~CallFactory
  BY <1>1, <1>3 DEF Resolve, Invoke, Hit, Descend, CallProvider, Resolving
<1>4. QED
  BY <1>2, <1>3

LEMMA PaceNext ==
  ASSUME IsInput(Input), ContainerInv, CallInv, PaceInv, [Next]_vars
  PROVE  PaceInv'
<1> USE DEF Rest, Settings, Step
<1>1. /\ services \in Nat /\ Len(routes) \in Nat /\ routes \in Seq(Seq(STRING)) /\ Len(factories) \in Nat
      /\ UNCHANGED <<services, routes>> /\ Len(given) \in Nat
  BY InputKept DEF IsInput, Input, ContainerInv, GivenInv
<1>2. CASE Start \/ ListenGrpc \/ ListenHTTP
  BY <1>2 DEF Start, ListenGrpc, ListenHTTP, Listen, End, PaceInv, containerVars
<1>3. CASE NewServer
  BY <1>1, <1>3, EmptySeq DEF NewServer, NewContainer, End, PaceInv, containerVars
<1>4. CASE InvokeFactory
  <2>1. /\ Len(given') \in Nat
        /\ \/ Len(given') = Len(given) /\ (stack # <<>> \/ (stack = <<>> /\ Len(given) # Due))
           \/ Len(given') = Len(given) + 1 /\ stack # <<>> /\ stack' = <<>>
    BY <1>4, ResolvePace DEF InvokeFactory, AllCalled, ContainerInv, Invoke
  <2>2. UNCHANGED <<stage, left, routes, services>> /\ stage \in {"services", "routes", "activities"}
    BY <1>4 DEF InvokeFactory, builderVars
  <2>3. CASE stage = "services"
    BY <1>1, <2>1, <2>2, <2>3 DEF PaceInv, Due
  <2>4. CASE stage = "routes"
    <3>1. left \in Seq(Seq(STRING)) /\ Controller' = Controller /\ Controller \in Nat /\ Len(left) \in Nat
      BY <1>1, <2>2, <2>4 DEF PaceInv, Controller
    <3>2. left # <<>>
      BY <2>1, <2>2, <2>4 DEF PaceInv, Due
    <3>3. Due = services + Controller
      BY <2>4, <3>2 DEF Due
    <3>4. QED
      BY <1>1, <2>1, <2>2, <2>4, <3>1, <3>2, <3>3 DEF PaceInv
  <2>5. CASE stage = "activities"
    BY <1>1, <2>1, <2>2, <2>5 DEF PaceInv
  <2>6. QED
    BY <2>2, <2>3, <2>4, <2>5
<1>5. CASE FactoryFails
  BY <1>5 DEF FactoryFails, Missing, End, PaceInv
<1>6. CASE Services
  <2>1. Len(given) = services /\ stack = <<>> /\ Controller' = 1
    BY <1>1, <1>6 DEF Services, AllCalled, Due, Controller
  <2>2. QED
    BY <1>1, <1>6, <2>1, EmptySeq DEF Services, PaceInv, containerVars
<1>7. CASE Route
  <2>1. stack = <<>> /\ UNCHANGED <<stack, given>> /\ stage = "routes" /\ left # <<>>
    BY <1>7 DEF Route, AllCalled, containerVars
  <2>2. CASE Refused(Head(Head(left)))
    BY <1>7, <2>1, <2>2 DEF Route, End, PaceInv
  <2>3. CASE ~Refused(Head(Head(left)))
    <3>1. left \in Seq(Seq(STRING)) /\ left[1] # <<>> /\ left[1] \in Seq(STRING) /\ Len(left) \in 1 .. Len(left)
      BY <1>7, <2>1, EmptySeq DEF Route, PaceInv
    <3>2. left' = [left EXCEPT ![1] = Tail(left[1])] /\ Tail(left[1]) \in Seq(STRING) /\ stage' = stage
      BY <1>7, <2>3, <3>1, HeadTailProperties DEF Route
    <3>3. left' \in Seq(Seq(STRING)) /\ Len(left') = Len(left) /\ left' # <<>> /\ Controller' = Controller
      BY <1>1, <3>1, <3>2, ExceptSeq, EmptySeq DEF Controller
    <3>4. QED
      BY <1>1, <2>1, <3>2, <3>3 DEF PaceInv
  <2>4. QED
    BY <2>2, <2>3
<1>8. CASE NextController
  <2>1. /\ stack = <<>> /\ UNCHANGED <<stack, given, stage>> /\ stage = "routes" /\ left # <<>>
        /\ left' = Tail(left) /\ Len(given) = services + Controller
    BY <1>8 DEF NextController, AllCalled, Due, containerVars
  <2>2. /\ left \in Seq(Seq(STRING)) /\ Len(left) \in Nat /\ Len(left) <= Len(routes)
    BY <2>1 DEF PaceInv
  <2>3. left' \in Seq(Seq(STRING)) /\ Len(left') = Len(left) - 1 /\ Controller' = Controller + 1
    BY <1>1, <2>1, <2>2, HeadTailProperties DEF Controller
  <2>4. Controller \in Nat /\ (left' = <<>> => Controller = Len(routes))
    <3>1. left' = <<>> => Len(left') = 0
      BY EmptySeq
    <3>2. Len(left) # 0
      BY <2>1, <2>2, EmptySeq
    <3>3. QED
      BY <1>1, <2>2, <2>3, <3>1, <3>2 DEF Controller
  <2>5. /\ Len(left') <= Len(routes') /\ Len(given') \in services' + Controller' - 1 .. services' + Controller'
        /\ left' = <<>> => Len(given') = services' + Len(routes')
    <3>1. /\ services' = services /\ Len(routes') = Len(routes) /\ Len(given') = Len(given)
          /\ services \in Nat /\ Len(routes) \in Nat /\ Len(left) \in Nat
      BY <1>1, <2>1, <2>2
    <3>2. Len(given) = services + Controller /\ Len(left) <= Len(routes)
      BY <2>1, <2>2
    <3>3. QED
      BY ONLY <2>3, <2>4, <3>1, <3>2
  <2>6. QED
    BY <2>1, <2>3, <2>5 DEF PaceInv
<1>9. CASE Static
  BY <1>1, <1>9 DEF Static, End, PaceInv, containerVars
<1>10. CASE Configure \/ Dial
  BY <1>1, <1>10 DEF Configure, Dial, PaceInv, containerVars
<1>11. CASE Succeed
  BY <1>11 DEF Succeed, End, PaceInv, containerVars, AllCalled
<1>12. CASE Fail \/ Panics
  BY <1>12 DEF Fail, Panics, Abandon, End, PaceInv, containerVars
<1>13. CASE (\E b \in 1 .. MaxBuilds : ServerStops(b) \/ Collect(b)) \/ UNCHANGED vars
  <2>1. UNCHANGED <<stage, left, routes, services, given, stack>>
    BY <1>13 DEF ServerStops, Collect, vars, builderVars, containerVars
  <2>2. QED
    BY <2>1 DEF PaceInv, Controller
<1>14. QED
  BY <1>2, <1>3, <1>4, <1>5, <1>6, <1>7, <1>8, <1>9, <1>10, <1>11, <1>12, <1>13 DEF Next, BuildStep

\* When every factory was called, what they required was made.
LEMMA AllMade ==
  ASSUME Graph, ContainerInv, Len(given) = Len(factories)
  PROVE  Required \subseteq Available
<1> USE DEF ContainerInv
<1>1. DOMAIN singletons = provided \cup Elems(made) /\ Elems(made) \subseteq Types
  BY DEF SingletonInv
<1>2. ASSUME NEW i \in DOMAIN factories PROVE Elems(factories[i]) \subseteq DOMAIN singletons
  <2>1. i \in DOMAIN given /\ factories[i] \in Seq(Types) /\ given[i] \in Seq(Instances)
    BY DEF GivenInv, Graph
  <2>2. Len(given[i]) = Len(factories[i]) /\ Found(given[i], factories[i], singletons)
    BY <2>1 DEF GivenInv
  <2>3. QED
    BY <2>1, <2>2 DEF Found, Elems
<1>3. \A t \in Elems(made) : Elems(providers[t]) \subseteq DOMAIN singletons
  BY DEF MadeInv, Elems
<1>4. Demanding(Elems(made))
  BY <1>1, <1>2, <1>3 DEF Demanding
<1>5. Required \subseteq DOMAIN singletons
  BY <1>1, <1>4, RequiredLeast
<1>6. DOMAIN singletons \subseteq Available
  BY AvailableLeast DEF SingletonInv
<1>7. QED
  BY <1>5, <1>6

\* A server is made by Succeed alone.
LEMMA BuiltBySucceed ==
  ASSUME CallInv, [Next]_vars, Built'
  PROVE  Built \/ Succeed
<1> USE DEF Rest
<1>1. results \in Seq({"ok", "error", "panic"})
  BY DEF CallInv
<1>2. \/ UNCHANGED results
      \/ \E r \in {"error", "panic"} : results' = Append(results, r)
      \/ Succeed
  BY DEF Next, BuildStep, Panics, Start, Listen, ListenGrpc, ListenHTTP, NewServer, InvokeFactory, FactoryFails,
         Services, Route, NextController, Static, Configure, Dial, Fail, ServerStops, Collect,
         End, Step, vars, builderVars
<1>3. CASE UNCHANGED results
  BY <1>3 DEF Built, Ok
<1>4. ASSUME NEW r \in {"error", "panic"}, results' = Append(results, r) PROVE Built
  <2>1. PICK b \in DOMAIN results' : results'[b] = "ok"
    BY DEF Built, Ok
  <2>2. Len(results') = Len(results) + 1 /\ results'[Len(results) + 1] = r /\ DOMAIN results' = 1 .. Len(results) + 1
        /\ \A i \in 1 .. Len(results) : results'[i] = results[i]
    BY <1>1, <1>4, AppendProperties
  <2>3. b \in 1 .. Len(results)
    BY <1>1, <2>1, <2>2
  <2>4. QED
    BY <1>1, <2>1, <2>2, <2>3 DEF Built, Ok
<1>5. QED
  BY <1>2, <1>3, <1>4

\* Every factory was called when Build succeeds.
LEMMA SucceedAllCalled ==
  ASSUME IsInput(Input), ContainerInv, PaceInv, Succeed
  PROVE  Len(given) = Len(factories)
<1>1. CASE stage = "activities" /\ AllCalled
  BY <1>1 DEF AllCalled, Due
<1>2. CASE stage = "dial" /\ ~cfg.temporal
  <2>1. services + Len(routes) = Len(factories)
    BY <1>2 DEF IsInput, Input
  <2>2. Len(given) \in Nat /\ Len(factories) \in Nat /\ Len(given) <= Len(factories)
    BY DEF ContainerInv, GivenInv, IsInput, Input
  <2>3. Len(given) >= services + Len(routes)
    BY <1>2 DEF PaceInv
  <2>4. QED
    BY <2>1, <2>2, <2>3
<1>3. QED
  BY <1>1, <1>2 DEF Succeed

LEMMA BuiltNext ==
  ASSUME IsInput(Input), ContainerInv, CallInv, PaceInv, BuiltInv, [Next]_vars
  PROVE  BuiltInv'
<1>1. Required' = Required /\ Available' = Available
  BY InputKept, SettledSame
<1>2. Built' => Built \/ Succeed
  BY BuiltBySucceed
<1>3. Succeed => Required \subseteq Available
  BY SucceedAllCalled, AllMade, InputGraph
<1>4. QED
  BY <1>1, <1>2, <1>3 DEF BuiltInv

LEMMA RoutesType ==
  ASSUME IsInput(Input), NEW c \in 1 .. Len(routes)
  PROVE  routes \in Seq(Seq(STRING)) /\ Len(routes[c]) \in Nat /\ routes[c] \in Seq(STRING)
<1>1. routes \in Seq(Seq(STRING))
  BY DEF IsInput, Input
<1>2. routes[c] \in Seq(STRING)
  BY <1>1
<1>3. QED
  BY <1>1, <1>2

LEMMA PatternsType ==
  ASSUME IsInput(Input), NEW p \in Patterns
  PROVE  /\ p = <<p[1], p[2]>> /\ p[1] \in 1 .. Len(routes) /\ p[2] \in 1 .. Len(routes[p[1]])
         /\ routes[p[1]] \in Seq(STRING) /\ Len(routes[p[1]]) \in Nat
<1>1. routes \in Seq(Seq(STRING))
  BY DEF IsInput, Input
<1>2. PICK c \in DOMAIN routes : p \in {c} \X DOMAIN routes[c]
  BY DEF Patterns
<1>3. p = <<p[1], p[2]>> /\ p[1] = c /\ p[2] \in DOMAIN routes[c]
  BY <1>2
<1>4. routes[c] \in Seq(STRING) /\ c \in 1 .. Len(routes)
  BY <1>1, <1>2
<1>5. QED
  BY <1>3, <1>4

\* Nothing is registered before the first route of the c-th controller but
\* what was registered after the last of the one before.
LEMMA NextRegistered ==
  ASSUME IsInput(Input), NEW c \in Nat, NEW rest, Registered(c, 0),
         c + 1 \in 1 .. Len(routes) => rest = Len(routes[c + 1])
  PROVE  Registered(c + 1, rest)
<1>1. \A p \in Patterns : Passed(p, c + 1, rest) => Passed(p, c, 0)
  <2>1. SUFFICES ASSUME NEW p \in Patterns, Passed(p, c + 1, rest) PROVE Passed(p, c, 0)
    OBVIOUS
  <2>2. p[1] \in 1 .. Len(routes) /\ p[2] \in 1 .. Len(routes[p[1]]) /\ Len(routes[p[1]]) \in Nat
    BY PatternsType
  <2>3. p[1] # c + 1
    BY <2>1, <2>2 DEF Passed
  <2>4. QED
    BY <2>1, <2>2, <2>3 DEF Passed
<1>2. QED
  BY <1>1 DEF Registered

LEMMA NothingRegistered ==
  ASSUME IsInput(Input), NEW rest, Len(routes) >= 1 => rest = Len(routes[1])
  PROVE  \A p \in Patterns : ~Passed(p, 1, rest)
<1> SUFFICES ASSUME NEW p \in Patterns, Passed(p, 1, rest) PROVE FALSE
  OBVIOUS
<1>1. p[1] \in 1 .. Len(routes) /\ p[2] \in 1 .. Len(routes[p[1]]) /\ Len(routes[p[1]]) \in Nat
  BY PatternsType
<1>2. QED
  BY <1>1 DEF Passed

\* A mux with one more pattern.
LEMMA HandledMux ==
  ASSUME NEW pattern, NEW handler, mux' = Handled(pattern, handler)
  PROVE  /\ DOMAIN mux' = DOMAIN mux \cup {pattern} /\ mux'[pattern] = handler
         /\ \A q \in DOMAIN mux : q # pattern => mux'[q] = mux[q]
  BY DEF Handled

\* A pattern that mux.Handle accepts is new, and can be told from the others.
LEMMA HandledApart ==
  ASSUME NEW pattern, ~Refused(pattern), DOMAIN mux' = DOMAIN mux \cup {pattern},
         \A p, q \in DOMAIN mux : p \notin Malformed /\ (p # q => {p, q} \notin Overlapping)
  PROVE  /\ pattern \notin DOMAIN mux
         /\ \A p, q \in DOMAIN mux' : p \notin Malformed /\ (p # q => {p, q} \notin Overlapping)
<1>1. pattern \notin DOMAIN mux /\ pattern \notin Malformed /\ \A q \in DOMAIN mux : {q, pattern} \notin Overlapping
  BY DEF Refused
<1>2. \A q : {pattern, q} = {q, pattern}
  OBVIOUS
<1>3. QED
  BY <1>1, <1>2

\* One more route of the c-th controller.
LEMMA MoreRegistered ==
  ASSUME IsInput(Input), NEW c \in 1 .. Len(routes), NEW rest \in 1 .. Len(routes[c]), Registered(c, rest),
         MuxInv, NEW pattern, pattern = routes[c][Len(routes[c]) - rest + 1], ~Refused(pattern),
         mux' = Handled(pattern, <<c, Len(routes[c]) - rest + 1>>), UNCHANGED routes
  PROVE  Registered(c, rest - 1)' /\ MuxInv'
<1>1. Len(routes[c]) \in Nat /\ routes[c] \in Seq(STRING) /\ routes \in Seq(Seq(STRING))
  BY RoutesType
<1>2. ASSUME NEW p \in Patterns, Passed(p, c, rest - 1)
      PROVE  Passed(p, c, rest) \/ (p = <<c, Len(routes[c]) - rest + 1>> /\ Pattern(p) = pattern)
  <2>1. p[1] \in 1 .. Len(routes) /\ p[2] \in 1 .. Len(routes[p[1]]) /\ p = <<p[1], p[2]>>
    BY PatternsType
  <2>2. CASE p[1] < c
    BY <2>2 DEF Passed
  <2>3. CASE p[1] = c /\ p[2] + (rest - 1) <= Len(routes[c])
    <3>1. p[2] + rest <= Len(routes[c]) \/ p[2] = Len(routes[c]) - rest + 1
      BY <1>1, <2>1, <2>3
    <3>2. QED
      BY <2>1, <2>3, <3>1 DEF Passed, Pattern
  <2>4. QED
    BY <1>2, <2>2, <2>3 DEF Passed
<1>3. /\ DOMAIN mux' = DOMAIN mux \cup {pattern} /\ mux'[pattern] = <<c, Len(routes[c]) - rest + 1>>
      /\ \A q \in DOMAIN mux : q # pattern => mux'[q] = mux[q]
  BY HandledMux
<1>4. /\ pattern \notin DOMAIN mux
      /\ \A p, q \in DOMAIN mux' : p \notin Malformed /\ (p # q => {p, q} \notin Overlapping)
  <2>1. DOMAIN mux' = DOMAIN mux \cup {pattern} /\ ~Refused(pattern)
    BY <1>3
  <2>2. \A p, q \in DOMAIN mux : p \notin Malformed /\ (p # q => {p, q} \notin Overlapping)
    BY DEF MuxInv
  <2>3. QED
    BY <2>1, <2>2, HandledApart
<1>5. \A p \in Patterns : Passed(p, c, rest - 1) => Pattern(p) \in DOMAIN mux' /\ mux'[Pattern(p)] = p
  BY <1>2, <1>3, <1>4 DEF Registered
<1>6. <<c, Len(routes[c]) - rest + 1>> \in Patterns /\ Pattern(<<c, Len(routes[c]) - rest + 1>>) = pattern
  <2>1. Len(routes[c]) - rest + 1 \in DOMAIN routes[c] /\ c \in DOMAIN routes
    BY <1>1
  <2>2. QED
    BY <2>1 DEF Patterns, Pattern
<1>7. Patterns' = Patterns /\ BuiltIn' = BuiltIn
      /\ \A p : (Passed(p, c, rest - 1)' <=> Passed(p, c, rest - 1)) /\ Pattern(p)' = Pattern(p)
  BY DEF Patterns, Passed, Pattern, BuiltIn
<1>8. MuxInv'
  <2>1. DOMAIN mux' \subseteq BuiltIn \cup {Pattern(p) : p \in Patterns}
    BY <1>3, <1>6 DEF MuxInv
  <2>2. \A q \in BuiltIn : q \in DOMAIN mux' /\ mux'[q] = Own
    BY <1>3, <1>4 DEF MuxInv
  <2>3. {Pattern(p) : p \in Patterns}' = {Pattern(p) : p \in Patterns}
    BY <1>7
  <2>4. QED
    BY <1>4, <1>7, <2>1, <2>2, <2>3 DEF MuxInv, Own
<1>9. QED
  BY <1>5, <1>7, <1>8 DEF Registered

\* When no controller is left, every route is registered.
LEMMA AllPassed ==
  ASSUME IsInput(Input), left = <<>>
  PROVE  \A p \in Patterns : Passed(p, Controller, Len(left[1]))
<1> SUFFICES ASSUME NEW p \in Patterns PROVE p[1] < Controller
  BY DEF Passed
<1>1. p[1] \in 1 .. Len(routes) /\ Len(routes) \in Nat
  BY PatternsType DEF IsInput, Input
<1>2. Controller = Len(routes) + 1
  BY <1>1, EmptySeq DEF Controller
<1>3. QED
  BY <1>1, <1>2

\* The loop starts.
LEMMA ServicesRoute ==
  ASSUME IsInput(Input), Services, UNCHANGED routes
  PROVE  LeftInv' /\ MuxInv' /\ Registered(Controller, Len(left[1]))'
<1>1. /\ left' = routes /\ mux' = [p \in BuiltIn |-> Own] /\ routes \in Seq(Seq(STRING))
      /\ Controller' = 1 /\ Len(routes) \in Nat
  BY DEF Services, IsInput, Input, Controller
<1>2. LeftInv'
  <2>1. left' # <<>> => routes[1] \in Seq(STRING) /\ Len(routes[1]) \in Nat
    BY <1>1, EmptySeq
  <2>2. ASSUME left' # <<>>
        PROVE  /\ Len(left'[1]) <= Len(routes[1])
               /\ \A i \in 1 .. Len(left'[1]) : left'[1][i] = routes[1][Len(routes[1]) - Len(left'[1]) + i]
    BY <1>1, <2>1, <2>2
  <2>3. \A j \in 2 .. Len(left') : left'[j] = routes[1 + j - 1]
    BY <1>1
  <2>4. QED
    BY <1>1, <2>2, <2>3 DEF LeftInv
<1>3. PICK rest : rest = Len(routes[1]) /\ rest = Len(left'[1])
  BY <1>1
<1>4. \A p \in Patterns : ~Passed(p, 1, rest)
  BY <1>3, NothingRegistered
<1>5. Patterns' = Patterns /\ (\A p : Passed(p, 1, rest)' <=> Passed(p, 1, rest)) /\ BuiltIn' = BuiltIn
  BY DEF Patterns, Passed, BuiltIn
<1>6. Registered(1, rest)'
  BY <1>4, <1>5 DEF Registered
<1>7. MuxInv'
  BY <1>1, PatternsAssumption DEF MuxInv, BuiltIn
<1>8. QED
  BY <1>1, <1>2, <1>3, <1>6, <1>7 DEF Registered, Passed

LEMMA ControllerType ==
  ASSUME left \in Seq(Seq(STRING)), left # <<>>, Len(left) <= Len(routes), Len(routes) \in Nat
  PROVE  Controller \in 1 .. Len(routes) /\ Controller = Len(routes) - Len(left) + 1
<1>1. \A l, r \in Nat : l # 0 /\ l <= r => r - l + 1 \in 1 .. r
  OBVIOUS
<1>2. QED
  BY <1>1, EmptySeq DEF Controller

\* The rest of a sequence, in variables of its own.
LEMMA TailPick ==
  ASSUME NEW S, NEW s \in Seq(S), s # <<>>
  PROVE  /\ Tail(s) \in Seq(S) /\ Len(s) \in Nat /\ Len(Tail(s)) \in Nat /\ Len(s) = Len(Tail(s)) + 1
         /\ \A j \in 1 .. Len(Tail(s)) : Tail(s)[j] = s[j + 1]
  BY HeadTailProperties

\* A route is registered.
LEMMA RouteRoute ==
  ASSUME IsInput(Input), PaceInv, LeftInv, MuxInv, Registered(Controller, Len(left[1])),
         Route, ~Refused(Head(Head(left))), UNCHANGED routes
  PROVE  LeftInv' /\ MuxInv' /\ Registered(Controller, Len(left[1]))'
<1>1. /\ left \in Seq(Seq(STRING)) /\ left # <<>> /\ left[1] # <<>> /\ left[1] \in Seq(STRING)
      /\ Len(left) \in Nat /\ Len(left) >= 1 /\ Len(left) <= Len(routes) /\ Len(routes) \in Nat
      /\ routes \in Seq(Seq(STRING))
  <2>1. left \in Seq(Seq(STRING)) /\ Len(left) <= Len(routes) /\ left # <<>> /\ Head(left) # <<>>
    BY DEF Route, PaceInv
  <2>2. routes \in Seq(Seq(STRING))
    BY DEF IsInput, Input
  <2>3. Len(left) \in Nat /\ Len(left) >= 1 /\ Len(routes) \in Nat
    BY <2>1, <2>2, EmptySeq
  <2>4. left[1] = Head(left) /\ left[1] \in Seq(STRING)
    BY <2>1, <2>3
  <2>5. QED
    BY <2>1, <2>2, <2>3, <2>4
<1>2. PICK c \in 1 .. Len(routes) : c = Controller
  BY <1>1, ControllerType
<1>3. routes[c] \in Seq(STRING) /\ Len(routes[c]) \in Nat
  BY <1>1, <1>2
<1>4. PICK rest \in 1 .. Len(routes[c]) : rest = Len(left[1])
  BY <1>1, <1>2, <1>3, EmptySeq DEF LeftInv
<1>5. PICK tail \in Seq(STRING) :
        /\ tail = Tail(left[1]) /\ Len(tail) = rest - 1
        /\ \A i \in 1 .. rest - 1 : tail[i] = left[1][i + 1]
  <2>1. rest = Len(Tail(left[1])) + 1 /\ Len(Tail(left[1])) \in Nat /\ Tail(left[1]) \in Seq(STRING)
        /\ \A j \in 1 .. Len(Tail(left[1])) : Tail(left[1])[j] = left[1][j + 1]
    BY <1>1, <1>4, TailPick
  <2>2. PICK tail \in Seq(STRING) :
          /\ tail = Tail(left[1]) /\ rest = Len(tail) + 1 /\ Len(tail) \in Nat
          /\ \A j \in 1 .. Len(tail) : tail[j] = left[1][j + 1]
    BY <2>1
  <2>3. Len(tail) = rest - 1
    BY <2>2
  <2>4. QED
    BY <2>2, <2>3
<1>6. left' = [left EXCEPT ![1] = tail] /\ mux' = Handled(left[1][1], ThisRoute) /\ ~Refused(left[1][1])
  BY <1>1, <1>5 DEF Route
<1>7. /\ left' \in Seq(Seq(STRING)) /\ Len(left') = Len(left) /\ left'[1] = tail
      /\ \A j \in 2 .. Len(left) : left'[j] = left[j]
  BY <1>1, <1>6, ExceptSeq
<1>8. Controller' = c
  BY <1>2, <1>7 DEF Controller
<1>9. \A i \in 1 .. rest : left[1][i] = routes[c][Len(routes[c]) - rest + i]
  BY <1>1, <1>2, <1>4 DEF LeftInv
<1>10. Registered(c, rest - 1)' /\ MuxInv'
  <2>1. PICK pattern : pattern = left[1][1]
    OBVIOUS
  <2>2. /\ pattern = routes[c][Len(routes[c]) - rest + 1] /\ ~Refused(pattern)
        /\ mux' = Handled(pattern, <<c, Len(routes[c]) - rest + 1>>)
    <3>1. Head(left) = left[1]
      BY <1>1, HeadTailProperties
    <3>2. ThisRoute = <<c, Len(routes[c]) - rest + 1>>
      BY <1>2, <1>4, <3>1 DEF ThisRoute
    <3>3. left[1][1] = routes[c][Len(routes[c]) - rest + 1]
      <4>1. 1 \in 1 .. rest
        BY <1>3, <1>4
      <4>2. QED
        BY <1>9, <4>1
    <3>4. QED
      BY <1>6, <2>1, <3>2, <3>3
  <2>3. Registered(c, rest)
    BY <1>2, <1>4
  <2>4. QED
    BY <2>2, <2>3, MoreRegistered
<1>11. LeftInv'
  <2>1. Len(left'[1]) <= Len(routes[c]) /\ Len(left'[1]) = rest - 1
    BY <1>3, <1>4, <1>5, <1>7
  <2>2. \A i \in 1 .. rest - 1 : left'[1][i] = routes[c][Len(routes[c]) - (rest - 1) + i]
    <3>1. TAKE i \in 1 .. rest - 1
    <3>2. left'[1][i] = left[1][i + 1] /\ i + 1 \in 1 .. rest
      BY <1>4, <1>5, <1>7
    <3>3. left[1][i + 1] = routes[c][Len(routes[c]) - rest + (i + 1)]
      BY <1>9, <3>2
    <3>4. Len(routes[c]) - rest + (i + 1) = Len(routes[c]) - (rest - 1) + i
      <4>1. \A n, k \in Nat : n - k + (i + 1) = n - (k - 1) + i
        OBVIOUS
      <4>2. Len(routes[c]) \in Nat /\ rest \in Nat
        BY <1>3, <1>4
      <4>3. QED
        BY <4>1, <4>2
    <3>5. QED
      BY <3>2, <3>3, <3>4
  <2>3. \A j \in 2 .. Len(left') : left'[j] = routes[c + j - 1]
    BY <1>2, <1>7 DEF LeftInv
  <2>4. QED
    BY <1>8, <2>1, <2>2, <2>3 DEF LeftInv
<1>12. QED
  BY <1>5, <1>6, <1>7, <1>8, <1>10, <1>11 DEF Registered, Passed

\* The next controller is taken up.
LEMMA NextControllerRoute ==
  ASSUME IsInput(Input), PaceInv, LeftInv, MuxInv, Registered(Controller, Len(left[1])),
         NextController, UNCHANGED routes
  PROVE  LeftInv' /\ MuxInv' /\ Registered(Controller, Len(left[1]))'
<1>1. /\ left \in Seq(Seq(STRING)) /\ left # <<>> /\ Len(left) <= Len(routes) /\ Len(routes) \in Nat
      /\ routes \in Seq(Seq(STRING))
  BY DEF NextController, PaceInv, IsInput, Input
<1>2. PICK c \in 1 .. Len(routes) : c = Controller /\ c = Len(routes) - Len(left) + 1
  BY <1>1, ControllerType
<1>3. /\ left' \in Seq(Seq(STRING)) /\ Len(left') \in Nat /\ Len(left) = Len(left') + 1
      /\ \A j \in 1 .. Len(left') : left'[j] = left[j + 1]
  BY <1>1, TailPick DEF NextController
<1>4. Controller' = c + 1 /\ c + Len(left') = Len(routes)
  BY <1>1, <1>2, <1>3 DEF Controller
<1>5. \A j \in 1 .. Len(left') : left'[j] = routes[c + j]
  <2>1. TAKE j \in 1 .. Len(left')
  <2>2. left'[j] = left[j + 1] /\ j + 1 \in 2 .. Len(left) /\ c + (j + 1) - 1 = c + j
    BY <1>1, <1>2, <1>3
  <2>3. QED
    BY <1>2, <2>2 DEF LeftInv
<1>6. LeftInv'
  <2>1. ASSUME left' # <<>>
        PROVE  left'[1] = routes[c + 1] /\ Len(routes[c + 1]) \in Nat
    <3>1. Len(left') # 0
      BY <1>3, <2>1, EmptySeq
    <3>2. 1 \in 1 .. Len(left') /\ c + 1 \in 1 .. Len(routes)
      BY <1>1, <1>3, <1>4, <3>1
    <3>3. QED
      BY <1>1, <1>5, <3>2
  <2>2. ASSUME left' # <<>>
        PROVE  /\ Len(left'[1]) <= Len(routes[c + 1])
               /\ \A i \in 1 .. Len(left'[1]) :
                    left'[1][i] = routes[c + 1][Len(routes[c + 1]) - Len(left'[1]) + i]
    <3>1. PICK r : r = routes[c + 1] /\ r = left'[1] /\ Len(r) \in Nat
      BY <2>1, <2>2
    <3>2. \A i \in 1 .. Len(r) : Len(r) - Len(r) + i = i
      BY <3>1
    <3>3. Len(r) <= Len(r) /\ \A i \in 1 .. Len(r) : r[i] = r[Len(r) - Len(r) + i]
      BY <3>1, <3>2
    <3>4. QED
      BY <3>1, <3>3
  <2>3. \A j \in 2 .. Len(left') : left'[j] = routes[(c + 1) + j - 1]
    <3>1. TAKE j \in 2 .. Len(left')
    <3>2. (c + 1) + j - 1 = c + j /\ j \in 1 .. Len(left')
      BY <1>3
    <3>3. QED
      BY <1>5, <3>2
  <2>4. QED
    BY <1>4, <2>2, <2>3 DEF LeftInv
<1>7. Registered(c + 1, Len(left'[1]))
  <2>1. PICK rest : rest = Len(left'[1])
    OBVIOUS
  <2>2. c + 1 \in 1 .. Len(routes) => rest = Len(routes[c + 1])
    <3>1. c + 1 \in 1 .. Len(routes) => 1 \in 1 .. Len(left')
      BY <1>3, <1>4
    <3>2. QED
      BY <1>5, <2>1, <3>1
  <2>3. Registered(c, 0)
    BY <1>2, EmptySeq DEF NextController
  <2>4. QED
    BY <2>1, <2>2, <2>3, NextRegistered
<1>8. MuxInv' /\ mux' = mux /\ BuiltIn' = BuiltIn
  BY DEF NextController, BuiltIn, MuxInv, Patterns, Pattern, Own
<1>9. Registered(Controller, Len(left[1]))'
  <2>1. \A rest : Registered(c + 1, rest)' <=> Registered(c + 1, rest)
    BY <1>8 DEF Registered, Patterns, Passed, Pattern
  <2>2. QED
    BY <1>4, <1>7, <2>1
<1>10. QED
  BY <1>6, <1>8, <1>9

\* The static files' pattern is the last.
LEMMA StaticMux ==
  ASSUME MuxInv, \A p \in Patterns : Pattern(p) \in DOMAIN mux /\ mux[Pattern(p)] = p,
         UNCHANGED <<routes, cfg>>, ~(cfg.static /\ Refused("/static/")),
         mux' = IF cfg.static THEN Handled("/static/", Own) ELSE mux
  PROVE  AllRegistered'
<1>1. /\ Patterns' = Patterns /\ Taken' = Taken /\ Own' = Own /\ \A p : Pattern(p)' = Pattern(p)
  BY DEF Patterns, Pattern, Taken, BuiltIn, Own
<1>2. {Pattern(p) : p \in Patterns}' = {Pattern(p) : p \in Patterns}
  BY <1>1
<1>3. DOMAIN mux = BuiltIn \cup {Pattern(p) : p \in Patterns}
  BY DEF MuxInv
<1>4. CASE ~cfg.static
  <2>1. Taken = BuiltIn /\ mux' = mux
    BY <1>4 DEF Taken
  <2>2. QED
    BY <1>1, <1>2, <1>3, <2>1 DEF AllRegistered, MuxInv
<1>5. CASE cfg.static
  <2>1. /\ Taken = BuiltIn \cup {"/static/"}
        /\ DOMAIN mux' = DOMAIN mux \cup {"/static/"} /\ mux'["/static/"] = Own
        /\ \A q \in DOMAIN mux : q # "/static/" => mux'[q] = mux[q]
    BY <1>5, HandledMux DEF Taken
  <2>2. /\ "/static/" \notin DOMAIN mux
        /\ \A p, q \in DOMAIN mux' : p \notin Malformed /\ (p # q => {p, q} \notin Overlapping)
    BY <1>5, <2>1, HandledApart DEF MuxInv
  <2>3. DOMAIN mux' = Taken \cup {Pattern(p) : p \in Patterns}
    BY <1>3, <2>1
  <2>4. \A p \in Patterns : mux'[Pattern(p)] = p
    BY <2>1, <2>2
  <2>5. \A q \in Taken : mux'[q] = Own
    BY <2>1, <2>2 DEF MuxInv
  <2>6. QED
    BY <1>1, <1>2, <2>2, <2>3, <2>4, <2>5 DEF AllRegistered
<1>6. QED
  BY <1>4, <1>5

LEMMA RouteNext ==
  ASSUME IsInput(Input), ContainerInv, CallInv, PaceInv, RouteInv, SpentInv, [Next]_vars
  PROVE  RouteInv'
<1> USE DEF Rest, Settings, Step
<1>1. UNCHANGED routes /\ UNCHANGED cfg
  BY InputKept
<1>2. /\ Patterns' = Patterns /\ Taken' = Taken
      /\ {Pattern(p) : p \in Patterns}' = {Pattern(p) : p \in Patterns}
      /\ \A p : Pattern(p)' = Pattern(p)
  <2>1. Patterns' = Patterns /\ Taken' = Taken /\ \A p : Pattern(p)' = Pattern(p)
    BY <1>1 DEF Patterns, Pattern, Taken, BuiltIn
  <2>2. QED
    BY <2>1
<1>3. stage' \in {"configure", "dial", "activities"} \/ Built' => AllRegistered'
  <2>1. CASE Built \/ stage \in {"configure", "dial", "activities"}
    <3>1. stage \notin {"services", "routes"}
      BY <2>1 DEF SpentInv, Early
    <3>2. UNCHANGED mux
      BY <3>1 DEF Next, BuildStep, Panics, Start, Listen, ListenGrpc, ListenHTTP, NewServer, InvokeFactory,
           FactoryFails, Services, Route, NextController, Static, Configure, Dial, Succeed, Fail, ServerStops,
           Collect, End, vars, builderVars
    <3>3. AllRegistered
      BY <2>1 DEF RouteInv
    <3>4. QED
      BY <1>2, <3>2, <3>3 DEF AllRegistered, Own
  <2>2. CASE Static /\ ~Built
    <3>1. CASE cfg.static /\ Refused("/static/")
      BY <2>2, <3>1, BuiltBySucceed DEF Static, End, Succeed
    <3>2. CASE ~(cfg.static /\ Refused("/static/"))
      <4>1. /\ stage = "routes" /\ left = <<>>
            /\ mux' = IF cfg.static THEN Handled("/static/", Own) ELSE mux
        BY <2>2, <3>2 DEF Static
      <4>2. \A p \in Patterns : Passed(p, Controller, Len(left[1]))
        BY <4>1, AllPassed
      <4>3. MuxInv /\ \A p \in Patterns : Pattern(p) \in DOMAIN mux /\ mux[Pattern(p)] = p
        BY <4>1, <4>2 DEF RouteInv, Registered
      <4>4. AllRegistered'
        BY <1>1, <3>2, <4>1, <4>3, StaticMux
      <4>5. QED
        BY <4>4
    <3>3. QED
      BY <3>1, <3>2
  <2>3. CASE ~Static /\ ~Built /\ stage \notin {"configure", "dial", "activities"}
    <3>1. ~Succeed
      BY <2>3 DEF Succeed
    <3>2. ~Built'
      BY <2>3, <3>1, BuiltBySucceed
    <3>3. stage' \notin {"configure", "dial", "activities"}
      BY <2>3 DEF Next, BuildStep, Panics, Start, Listen, ListenGrpc, ListenHTTP, NewServer, InvokeFactory,
           FactoryFails, Services, Route, NextController, Configure, Dial, Succeed, Fail, ServerStops,
           Collect, End, vars, builderVars
    <3>4. QED
      BY <3>2, <3>3
  <2>4. QED
    BY <2>1, <2>2, <2>3
<1>4. ASSUME stage' = "routes"
      PROVE  LeftInv' /\ MuxInv' /\ Registered(Controller, Len(left[1]))'
  <2>1. CASE Services
    BY <1>1, <2>1, ServicesRoute
  <2>2. CASE Route
    <3>1. stage = "routes" /\ ~Refused(Head(Head(left)))
      BY <1>4, <2>2 DEF Route, End
    <3>2. QED
      BY <1>1, <2>2, <3>1, RouteRoute DEF RouteInv
  <2>3. CASE NextController
    BY <1>1, <2>3, NextControllerRoute DEF RouteInv, NextController
  <2>4. CASE ~Services /\ ~Route /\ ~NextController
    <3>1. stage = "routes" /\ UNCHANGED <<left, mux>>
      BY <1>4, <2>4 DEF Next, BuildStep, Panics, Start, Listen, ListenGrpc, ListenHTTP, NewServer, InvokeFactory,
           FactoryFails, Static, Configure, Dial, Succeed, Fail, ServerStops,
           Collect, End, vars, builderVars
    <3>2. LeftInv /\ MuxInv /\ Registered(Controller, Len(left[1]))
      BY <3>1 DEF RouteInv
    <3>3. Controller' = Controller /\ BuiltIn' = BuiltIn
      BY <1>1, <3>1 DEF Controller, BuiltIn
    <3>4. LeftInv'
      BY <1>1, <3>1, <3>2, <3>3 DEF LeftInv
    <3>5. \A c, rest : Registered(c, rest)' <=> Registered(c, rest)
      BY <1>1, <3>1, <3>3 DEF Registered, Patterns, Passed, Pattern
    <3>6. MuxInv'
      BY <1>2, <3>1, <3>2, <3>3 DEF MuxInv, Own
    <3>7. QED
      BY <3>1, <3>2, <3>3, <3>4, <3>5, <3>6
  <2>5. QED
    BY <2>1, <2>2, <2>3, <2>4
<1>5. QED
  BY <1>3, <1>4 DEF RouteInv, BuiltIn

\* grpc.NewServer is passed once, and a server is made after it.
LEMMA SpentInvNext ==
  ASSUME CallInv, SpentInv, [Next]_vars
  PROVE  SpentInv'
<1> USE DEF Rest, Step, Early
<1>1. options \in Nat /\ results \in Seq({"ok", "error", "panic"})
  BY DEF CallInv
<1>2. options' \in Nat /\ options' >= options
  BY <1>1 DEF Next, BuildStep, Panics, Start, Listen, ListenGrpc, ListenHTTP, NewServer, InvokeFactory,
       FactoryFails, Services, Route, NextController, Static, Configure, Dial, Succeed, Fail, ServerStops,
       Collect, End, vars, builderVars
<1>3. stage \in Early /\ stage' \notin Early => options = 0 /\ options' = 1
  BY <1>1 DEF Next, BuildStep, Panics, Start, Listen, ListenGrpc, ListenHTTP, NewServer, InvokeFactory,
       FactoryFails, Services, Route, NextController, Static, Configure, Dial, Succeed, Fail, ServerStops,
       Collect, End, vars, builderVars
<1>4. stage' \notin Early => options' >= 1
  BY <1>1, <1>2, <1>3 DEF SpentInv
<1>5. ASSUME Built' PROVE options' >= 1 /\ stage' \in Early
  <2>1. CASE Built
    BY <1>1, <1>2, <1>3, <2>1 DEF SpentInv
  <2>2. CASE Succeed
    BY <1>1, <1>2, <2>2 DEF SpentInv, Succeed, End
  <2>3. QED
    BY <1>5, <2>1, <2>2, BuiltBySucceed
<1>6. QED
  BY <1>4, <1>5 DEF SpentInv

-----------------------------------------------------------------------------
LEMMA InitInv == Init => Inv
<1> SUFFICES ASSUME Init PROVE Inv
  OBVIOUS
<1>1. IsInput(Input)
  BY InputsAssumption DEF Init, IsInput, Input
<1>2. ContainerInv
  BY <1>1, InputGraph, ContainerStart DEF Init
<1>3. DOMAIN results = {} /\ Len(results) = 0 /\ builds \in Nat
  BY <1>1, EmptySeq DEF Init, IsInput, Input
<1>4. CallInv
  BY <1>3, EmptySeq DEF Init, CallInv, This
<1>5. PaceInv
  BY DEF Init, PaceInv, ContainerInit
<1>6. BuiltInv /\ RouteInv /\ SpentInv
  BY <1>3 DEF Init, BuiltInv, RouteInv, SpentInv, Early, Built
<1>7. QED
  BY <1>1, <1>2, <1>4, <1>5, <1>6 DEF Inv

LEMMA NextInv == Inv /\ [Next]_vars => Inv'
<1> SUFFICES ASSUME Inv, [Next]_vars PROVE Inv'
  OBVIOUS
<1> USE DEF Inv
<1>1. IsInput(Input)'
  BY InputKept
<1>2. ContainerInv'
  BY InputGraph, ContainerNext
<1>3. CallInv' /\ PaceInv' /\ BuiltInv' /\ RouteInv' /\ SpentInv'
  BY CallNext, PaceNext, BuiltNext, RouteNext, SpentInvNext
<1>4. QED
  BY <1>1, <1>2, <1>3

\* The inductive invariant of resolve and Build, for every graph of providers.
THEOREM Invariance == Spec => []Inv
  BY InitInv, NextInv, PTL DEF Spec

\* The variables of the Builder and of its container keep their types.
THEOREM TypeCorrect == Spec => []TypeOK
<1>1. Inv => TypeOK
  <2> SUFFICES ASSUME Inv PROVE TypeOK
    OBVIOUS
  <2>1. IsInput(Input) /\ builds \in Nat /\ Len(results) \in Nat
    BY DEF Inv, IsInput, Input, CallInv
  <2>2. ContainerTypeOK
    BY FrameArgs DEF Inv, ContainerInv, ContainerTypeOK, SingletonInv, MadeInv, GivenInv, StackInv, OutcomeInv
  <2>3. options \in 0 .. builds + 1
    BY <2>1 DEF Inv, CallInv, This
  <2>4. QED
    BY <2>1, <2>2, <2>3 DEF Inv, CallInv, TypeOK, Input
<1>2. QED
  BY Invariance, <1>1, PTL

\* resolve makes one instance of a type, whatever the providers' graph is,
\* and every factory and provider gets that one.
THEOREM Singletons == Spec => []OneInstance
<1>1. Inv => OneInstance
  <2> SUFFICES ASSUME Inv PROVE OneInstance
    OBVIOUS
  <2>1. \A i \in DOMAIN given : \A k \in DOMAIN given[i] :
          given[i][k] = singletons[factories[i][k]] /\ given[i][k].type = factories[i][k]
    BY DEF Inv, ContainerInv, GivenInv, SingletonInv, Found
  <2>2. \A i \in DOMAIN stack : \A k \in DOMAIN stack[i].args :
          stack[i].args[k] = singletons[Params(stack[i])[k]]
    BY DEF Inv, ContainerInv, StackInv, FrameInv, Found
  <2>3. QED
    BY <2>1, <2>2 DEF Inv, ContainerInv, MadeInv, OneInstance
<1>2. QED
  BY Invariance, <1>1, PTL

\* Build makes a server only when all that its factories require can be had,
\* and resolve fails or recurses without end only when something cannot.
THEOREM Outcomes == Spec => []OutcomeRight
<1>1. Inv => OutcomeRight
  BY DEF Inv, BuiltInv, Built, ContainerInv, OutcomeInv, OutcomeRight
<1>2. QED
  BY Invariance, <1>1, PTL

\* The mux of a server that Build made serves every route of its controllers
\* with that route's handler, and Build's own patterns with Build's (Build).
THEOREM Routes == Spec => []RoutesRegistered
<1>1. Inv => RoutesRegistered
  BY DEF Inv, RouteInv, Built, AllRegistered, Pattern, RoutesRegistered
<1>2. QED
  BY Invariance, <1>1, PTL

\* A Builder with its interceptors appended, and no call past grpc.NewServer.
Spent(n) ==
  /\ options >= 1
  /\ stage \in {"idle", "listenGrpc", "listenHTTP", "newServer"}
  /\ Servers = n

LEMMA ServersKept ==
  ASSUME results \in Seq({"ok", "error", "panic"}), NEW r \in {"error", "panic"},
         results' = Append(results, r)
  PROVE  Servers' = Servers
<1>1. /\ DOMAIN results' = 1 .. Len(results) + 1 /\ DOMAIN results = 1 .. Len(results) /\ Len(results) \in Nat
      /\ results'[Len(results) + 1] = r
      /\ \A i \in 1 .. Len(results) : results'[i] = results[i]
  BY AppendProperties
<1>2. \A b : b \in DOMAIN results' /\ results'[b] = "ok" <=> b \in DOMAIN results /\ results[b] = "ok"
  BY <1>1
<1>3. {b \in DOMAIN results' : results'[b] = "ok"} = {b \in DOMAIN results : results[b] = "ok"}
  BY <1>2
<1>4. QED
  BY <1>3 DEF Servers, Ok

LEMMA SpentNext ==
  ASSUME CallInv, NEW n, Spent(n), [Next]_vars
  PROVE  Spent(n)'
<1> USE DEF Rest, Step
<1>1. options \in Nat /\ results \in Seq({"ok", "error", "panic"})
  BY DEF CallInv
<1>2. options' \in Nat /\ options' >= 1
  BY <1>1 DEF Spent, Next, BuildStep, Panics, Start, Listen, ListenGrpc, ListenHTTP, NewServer, InvokeFactory,
       FactoryFails, Services, Route, NextController, Static, Configure, Dial, Succeed, Fail, ServerStops,
       Collect, End, vars, builderVars
<1>3. stage' \in {"idle", "listenGrpc", "listenHTTP", "newServer"}
  BY <1>1 DEF Spent, Next, BuildStep, Panics, Start, Listen, ListenGrpc, ListenHTTP, NewServer, InvokeFactory,
       FactoryFails, Services, Route, NextController, Static, Configure, Dial, Succeed, Fail, ServerStops,
       Collect, End, vars, builderVars
<1>4. UNCHANGED results \/ \E r \in {"error", "panic"} : results' = Append(results, r)
  BY DEF Spent, Next, BuildStep, Panics, Start, Listen, ListenGrpc, ListenHTTP, NewServer, InvokeFactory,
       FactoryFails, Services, Route, NextController, Static, Configure, Dial, Succeed, Fail, ServerStops,
       Collect, End, vars, builderVars
<1>5. Servers' = Servers
  BY <1>1, <1>4, ServersKept DEF Servers, Ok
<1>6. QED
  BY <1>2, <1>3, <1>5 DEF Spent

\* Once a call of Build has appended the interceptors, no later call makes a
\* server.
THEOREM SpentForGood == Spec => BuilderSpent
<1>1. ASSUME NEW n \in 0 .. MaxBuilds
      PROVE  Spec => [](options >= 1 /\ stage = "idle" /\ Servers = n => [](Servers = n))
  <2>1. options >= 1 /\ stage = "idle" /\ Servers = n => Spent(n)
    BY DEF Spent
  <2>2. Spent(n) => Servers = n
    BY DEF Spent
  <2>3. Inv /\ Spent(n) /\ [Next]_vars => Spent(n)'
    BY SpentNext DEF Inv
  <2>4. QED
    BY Invariance, <2>1, <2>2, <2>3, PTL DEF Spec
<1>2. QED
  BY <1>1 DEF BuilderSpent
=============================================================================
