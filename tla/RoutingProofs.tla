---------------------------- MODULE RoutingProofs ----------------------------
(***************************************************************************)
(* Theorems about Routing, for any configuration, any policy and requests, *)
(* any models and any bounds: where the model of a plan runs, which models *)
(* a client hears, and what the buffering for textual tool calls does to   *)
(* what they say.                                                          *)
(***************************************************************************)
EXTENDS Routing, FoldFacts

-----------------------------------------------------------------------------
(* What the resolver promises about the model of a plan *)

\* Earliest finds one of the hits.
LEMMA EarliestHits ==
    ASSUME NEW hits, hits \subseteq Nat, hits # {},
           NEW priority \in [hits -> Nat]
    PROVE  Earliest(hits, priority) \in hits
  <1> DEFINE ranks == {priority[i] : i \in hits}
  <1>1. PICK r \in ranks : \A q \in ranks : r <= q
    <2>1. ranks \subseteq Nat /\ ranks # {}
      OBVIOUS
    <2> HIDE DEF ranks
    <2> QED BY <2>1, Least
  <1> DEFINE first == {i \in hits : priority[i] = r}
  <1>2. PICK i \in first : \A j \in first : i <= j
    <2>1. first \subseteq Nat /\ first # {}
      OBVIOUS
    <2> HIDE DEF first
    <2> QED BY <2>1, Least
  <1>3. \A j \in hits : \/ priority[i] < priority[j]
                        \/ priority[i] = priority[j] /\ i <= j
    <2>1. ASSUME NEW j \in hits, ~(priority[i] < priority[j])
          PROVE  priority[i] = priority[j] /\ i <= j
      <3>1. priority[j] \in ranks /\ priority[i] = r /\ priority[j] \in Nat /\ r \in Nat
        OBVIOUS
      <3>2. priority[j] = r
        BY <1>1, <2>1, <3>1
      <3> QED BY <1>2, <3>1, <3>2
    <2> QED BY <2>1
  <1> QED BY <1>3 DEF Earliest

\* The chain of a route is a sequence of references.
LEMMA RouteChain ==
    ASSUME NEW task, NEW policy \in RoutingPolicy,
           NEW explicit \in Opt(ModelReference)
    PROVE  LET route == MatchPolicy(task, policy, explicit)
           IN  /\ route.chain \in Seq(ModelReference)
               /\ route.source # "none" => route.chain # <<>>
  <1> DEFINE hits == {i \in DOMAIN policy.rules : Matches(task, policy.rules[i])}
             rank == [i \in hits |-> Rank(policy.rules[i])]
             route == MatchPolicy(task, policy, explicit)
  <1>0. /\ policy.rules \in Seq(RoutingRule)
        /\ policy.default \in DefaultRoute \cup {None}
    BY DEF RoutingPolicy, Opt
  <1>1. CASE explicit # None
    <2>1. explicit \in ModelReference /\ route.chain = <<explicit>>
      BY <1>1 DEF MatchPolicy, Opt
    <2> QED BY <2>1
  <1>2. CASE explicit = None /\ hits # {}
    <2>1. hits \subseteq Nat /\ rank \in [hits -> Nat]
      <3>1. \A i \in DOMAIN policy.rules :
               policy.rules[i] \in RoutingRule /\ i \in Nat
        BY <1>0, ElementOfSeq, LenProperties
      <3>2. \A r \in RoutingRule : Rank(r) \in Nat
        BY DEF Rank, Specificity, RoutingRule
      <3> QED BY <3>1, <3>2
    <2>2. Earliest(hits, rank) \in hits
      <3> HIDE DEF hits, rank
      <3> QED BY <1>2, <2>1, EarliestHits
    <2> DEFINE rule == policy.rules[Earliest(hits, rank)]
    <2>3. rule \in RoutingRule
      <3>1. Earliest(hits, rank) \in DOMAIN policy.rules
        BY <2>2
      <3> HIDE DEF hits, rank
      <3> QED BY <1>0, <3>1, ElementOfSeq, LenProperties
    <2>4. route.chain = <<rule.model>> \o rule.fallbacks
      BY <1>2 DEF MatchPolicy
    <2> HIDE DEF rule
    <2>5. rule.model \in ModelReference /\ rule.fallbacks \in Seq(ModelReference)
      BY <2>3 DEF RoutingRule
    <2>6. <<rule.model>> \in Seq(ModelReference) /\ Len(<<rule.model>>) = 1
      BY <2>5
    <2> QED BY <2>4, <2>5, <2>6, ConcatProperties, EmptySeq
  <1>3. CASE explicit = None /\ hits = {} /\ policy.default # None
    <2> DEFINE d == policy.default
    <2>1. /\ d.model \in ModelReference /\ d.fallbacks \in Seq(ModelReference)
          /\ route.chain = <<d.model>> \o d.fallbacks
      BY <1>0, <1>3 DEF MatchPolicy, DefaultRoute
    <2>2. <<d.model>> \in Seq(ModelReference) /\ Len(<<d.model>>) = 1
      BY <2>1
    <2> QED BY <2>1, <2>2, ConcatProperties, EmptySeq
  <1>4. CASE explicit = None /\ hits = {} /\ policy.default = None
    <2>1. route.chain = <<>> /\ route.source = "none"
      BY <1>4 DEF MatchPolicy
    <2> QED BY <2>1
  <1> QED BY <1>1, <1>2, <1>3, <1>4

\* The model that was selected is usable: listed, and local if it has to be.
LEMMA SelectUsable ==
    ASSUME NEW route, route.chain \in Seq(ModelReference),
           NEW tokens, NEW catalog, NEW credentialed, NEW restricted,
           Select(route, tokens, catalog, credentialed, restricted).error = None
    PROVE  LET place == Select(route, tokens, catalog, credentialed, restricted).at
               local == restricted \/ (Rule(route) /\ route.rule.localOnly)
           IN  /\ place \in DOMAIN route.chain
               /\ route.chain[place] \in DOMAIN catalog
               /\ local => catalog[route.chain[place]].local
  <1> DEFINE local == restricted \/ (Rule(route) /\ route.rule.localOnly)
             hits == {i \in DOMAIN route.chain :
                        Usable(route.chain[i], catalog, credentialed,
                               Gate(route), tokens, local)}
             selection == Select(route, tokens, catalog, credentialed, restricted)
  <1>1. /\ hits # {}
        /\ selection.at = CHOOSE i \in hits : \A j \in hits : i <= j
    <2> DEFINE refused == /\ route.source = "override" /\ restricted
                          /\ route.chain[1] \in DOMAIN catalog
                          /\ ~catalog[route.chain[1]].local
               found == [error |-> None,
                         at |-> CHOOSE i \in hits : \A j \in hits : i <= j]
    <2>1. selection = CASE refused -> [error |-> "override_not_allowed", at |-> 0]
                        [] hits # {} -> found
                        [] OTHER -> [error |-> "fallback_exhausted", at |-> 0]
      BY DEF Select
    <2> HIDE DEF selection, hits, refused, found
    <2>2. selection.error = None
      BY DEF selection
    <2>3. selection \in {[error |-> "override_not_allowed", at |-> 0],
                         [error |-> "fallback_exhausted", at |-> 0]}
          \/ (hits # {} /\ selection = found)
      BY <2>1
    <2>4. hits # {} /\ selection = found
      BY <2>2, <2>3, NoneDistinct
    <2> QED BY <2>4 DEF found
  <1>2. hits \subseteq Nat
    BY LenProperties
  <1>3. selection.at \in hits
    <2> HIDE DEF hits
    <2> QED BY <1>1, <1>2, Least
  <1> QED BY <1>3 DEF Usable

\* The chain of a plan starts with a model that is listed; a plan that has to
\* stay local starts with one that was listed as local.
LEMMA ResolveListed ==
    ASSUME NEW a \in ResolveArgs, NEW catalog, Resolve(a, catalog).error = None
    PROVE  LET p == Resolve(a, catalog)
           IN  /\ p.chain \in Seq(ModelReference) /\ p.chain # <<>>
               /\ p.local => /\ p.chain[1] \in DOMAIN catalog
                             /\ catalog[p.chain[1]].local
  <1> DEFINE task == Normalize(a.input, a.workspace, a.classification)
             route == MatchPolicy(task, a.routing, a.input.explicit)
             cs == BuildCandidates(route, a)
             restricted == HasRestrictedRequired(cs) \/ a.localOnly
             selection == Select(route, Tokens(Required(cs)), catalog,
                                 a.credentialed, restricted)
             local == restricted \/ (Rule(route) /\ route.rule.localOnly)
             chosen == route.chain[selection.at]
             p == Resolve(a, catalog)
  <1>1. /\ a.routing \in RoutingPolicy
        /\ a.input.explicit \in Opt(ModelReference)
    BY DEF ResolveArgs, TaskInput
  <1>2. /\ route.chain \in Seq(ModelReference)
        /\ route.source # "none" => route.chain # <<>>
    BY <1>1, RouteChain
  <1>3. /\ selection.error = None
        /\ p.chain = <<chosen>> \o RemainingFallbacks(route.chain, chosen)
        /\ p.local = local
    <2> HIDE DEF route, selection
    <2>1. \A code : Failed(code).error = code
      BY SMTT(30) DEF Failed
    <2>2. p = CASE route.source = "none" -> Failed("no_route")
                [] route.source # "none" /\ selection.error # None -> Failed(selection.error)
                [] OTHER ->
                     LET context == Finalize(cs, catalog[chosen])
                     IN IF context.error # None THEN Failed(context.error)
                        ELSE [error |-> None,
                              chain |-> <<chosen>> \o RemainingFallbacks(route.chain, chosen),
                              model |-> catalog[chosen],
                              local |-> local,
                              context |-> context.included,
                              rule |-> route.rule,
                              route |-> route]
      BY DEF Resolve, route, selection
    <2> HIDE DEF chosen, local, p, cs
    <2>3. p.error = None
      BY DEF p
    <2> QED BY <2>1, <2>2, <2>3, NoneDistinct
  <1>4. /\ selection.at \in DOMAIN route.chain
        /\ chosen \in DOMAIN catalog
        /\ local => catalog[chosen].local
    <2> HIDE DEF route, restricted
    <2> QED BY <1>2, <1>3, SelectUsable
  <1> HIDE DEF route, selection, p, restricted
  <1>5. chosen \in ModelReference
    BY <1>2, <1>4, ElementOfSeq, LenProperties
  <1>6. RemainingFallbacks(route.chain, chosen) \in Seq(ModelReference)
    <2> DEFINE chain == route.chain
               same == {i \in DOMAIN chain : chain[i] = chosen}
               first == CHOOSE i \in DOMAIN chain :
                           chain[i] = chosen
                           /\ \A j \in DOMAIN chain : chain[j] = chosen => i <= j
    <2>1. same \subseteq Nat /\ selection.at \in same
      BY <1>2, <1>4, LenProperties
    <2>2. \E i \in same : \A j \in same : i <= j
      <3> HIDE DEF same
      <3> QED BY <2>1, Least
    <2>3. first \in DOMAIN chain
      BY <2>2
    <2> HIDE DEF first, chosen
    <2>4. first \in Nat /\ Len(chain) \in Nat
      BY <1>2, <2>3, LenProperties
    <2>5. \A i \in first + 1 .. Len(chain) : chain[i] \in ModelReference
      BY <1>2, <2>4, ElementOfSeq
    <2>6. SubSeq(chain, first + 1, Len(chain)) \in Seq(ModelReference)
      BY <2>4, <2>5, SubSeqProperties
    <2> QED BY <2>6 DEF RemainingFallbacks, first
  <1> HIDE DEF chosen, local
  <1>7. /\ <<chosen>> \in Seq(ModelReference) /\ Len(<<chosen>>) = 1
        /\ <<chosen>>[1] = chosen
    BY <1>5
  <1>8. /\ p.chain \in Seq(ModelReference) /\ Len(p.chain) >= 1
        /\ p.chain[1] = chosen
    BY <1>3, <1>6, <1>7, ConcatProperties, LenProperties
  <1> QED BY <1>3, <1>4, <1>8, EmptySeq DEF p

-----------------------------------------------------------------------------
(* A listing and the call reach the same instance *)

LEMMA InstancesTyped ==
    ASSUME NEW i \in Instances
    PROVE  i = Instance(i.id, i.local) /\ i.local \in BOOLEAN
  <1>1. \/ i = Instance("ollama", TRUE)
        \/ \E id : i = Instance(id, FALSE)
        \/ \E c \in Config.compat : i = Instance(c.id, c.local)
    BY DEF Instances, LocalOllama, BuiltIn, CompatInstances
  <1>2. PICK local \in BOOLEAN : \E id : i = Instance(id, local)
    BY <1>1, ConfigTyped
  <1> QED BY <1>2 DEF Instance

\* A model that is listed as local is served by a local instance: the one
\* promise of an id is the local instance only if there is no remote one, and
\* Router::provider takes the local one.
LEMMA ListedServes ==
    ASSUME NEW t, NEW ref \in DOMAIN Catalog(t), Catalog(t)[ref].local
    PROVE  /\ Provider(ref.provider) \in Instances
           /\ Provider(ref.provider).local
  <1> DEFINE ok == {i \in Promised : fetch[t][i].state = "ok"}
             list(i) == Listing(i, fetch[t][i].models)
             lists == {list(i) : i \in ok}
             l == CHOOSE m \in lists : ref \in DOMAIN m
  <1>1. \E m \in lists : ref \in DOMAIN m
    BY DEF Catalog
  <1>2. l \in lists /\ ref \in DOMAIN l
    BY <1>1
  <1>3. Catalog(t)[ref] = l[ref]
    BY <1>1 DEF Catalog
  <1> HIDE DEF l
  <1>4. PICK i \in ok : l = list(i)
    BY <1>2
  <1>5. /\ ref.provider = i.id
        /\ l[ref] = Descriptor(i, Models[i][ref.model])
    BY <1>2, <1>4 DEF Listing
  <1>6. \A facts : Descriptor(i, facts).local = i.local
    BY DEF Descriptor, AnthropicModel, GeminiModel, OllamaModel, OpenAIModel,
       ToDescriptor, Described
  <1>7. i \in Instances /\ i.local
    BY <1>3, <1>5, <1>6 DEF Promised
  <1>8. i = Instance(ref.provider, TRUE)
    BY <1>5, <1>7, InstancesTyped
  <1>9. Provider(ref.provider) = Instance(ref.provider, TRUE)
    BY <1>7, <1>8 DEF Provider
  <1> QED BY <1>7, <1>8, <1>9

-----------------------------------------------------------------------------
(* What holds of a turn *)

Places == {"begin", "listing", "invoke", "relist", "call", "open", "complete",
           "streaming", "mediate", "done"}
Invoking == {"invoke", "relist", "call", "open", "complete", "streaming"}
Chunk == {"plain", "open", "close"}
Streams == [candidate : Seq(Chunk) \cup {None}, native : BOOLEAN,
            deferred : BOOLEAN]

Shapes ==
    /\ pc \in [Turns -> Places]
    /\ req \in [Turns -> ResolveArgs]
    /\ plan = [t \in Turns |-> plan[t]]
    /\ at \in [Turns -> Nat \ {0}]
    /\ called = [t \in Turns |-> called[t]]
    /\ inner \in [Turns -> 0 .. MaxInternalTurns]
    /\ stream \in [Turns -> Streams]
    /\ said \in [Turns -> Seq(Chunk)]
    /\ sent \in [Turns -> Seq(Chunk)]
    /\ calls \in [Turns -> SUBSET Tools]
    /\ rounds \in [Turns -> 0 .. MaxRounds]
    /\ cancel \in [Turns -> BOOLEAN]

\* Until a model produces text, and after a stream that could not be opened,
\* the client has seen nothing of this invocation.
Silent(t) ==
    pc[t] \in {"listing", "invoke", "relist", "call", "open", "complete"}
      => sent[t] = <<>>

\* What the buffer holds back is all that was said, or nothing is held back and
\* all was sent.
Kept(t) ==
    /\ pc[t] \in {"open", "complete"} => said[t] = <<>>
    /\ pc[t] = "open" => stream[t].candidate \in {None, <<>>}
    /\ pc[t] = "streaming" =>
          \/ stream[t].candidate = None /\ sent[t] = said[t]
          \/ stream[t].candidate = said[t] /\ sent[t] = <<>>
    /\ pc[t] = "mediate" =>
          \/ said[t] = <<>>
          \/ sent[t] = said[t]
          \/ sent[t] = <<>> /\ Decodes(said[t]) /\ EnvelopeTool \in calls[t]

\* The first model of a local plan is local, and while the turn is at it no
\* other one was called.
Chained(t) ==
    /\ plan[t].chain \in Seq(ModelReference) /\ plan[t].chain # <<>>
    /\ plan[t].local => Provider(plan[t].chain[1].provider).local
    /\ called[t] \in Seq({Provider(id) : id \in STRING})
    /\ at[t] = 1 => \A i \in Range(called[t]) :
                       i = Provider(plan[t].chain[1].provider)
    /\ pc[t] \in Invoking => at[t] \in DOMAIN plan[t].chain

Planned(t) ==
    /\ pc[t] = "listing" => called[t] = <<>> /\ at[t] = 1
    /\ pc[t] \in Invoking \/ Resolved(t) => Chained(t)

Sound(t) == Silent(t) /\ Kept(t) /\ Planned(t)

Served == Shapes /\ \A t \in Turns : Sound(t)

Same(t) == /\ pc'[t] = pc[t] /\ plan'[t] = plan[t] /\ at'[t] = at[t]
           /\ called'[t] = called[t] /\ stream'[t] = stream[t]
           /\ said'[t] = said[t] /\ sent'[t] = sent[t] /\ calls'[t] = calls[t]

LEMMA SameSound ==
    ASSUME NEW t \in Turns, Sound(t), Same(t)
    PROVE  Sound(t)'
  BY DEF Sound, Silent, Kept, Planned, Chained, Resolved, Same, Provider,
     Instances, LocalOllama, BuiltIn, CompatInstances

\* A step of one turn leaves the others as they are.
LEMMA OnlyOne ==
    ASSUME Served, NEW t \in Turns, Shapes', Sound(t)',
           \A u \in Turns : u # t => Same(u)
    PROVE  Served'
  BY SameSound DEF Served

\* The turn moves on and nothing else changes.
LEMMA MovesOn ==
    ASSUME Served, NEW t \in Turns, NEW l,
           \/ pc[t] \in {"invoke", "relist"} /\ l \in {"relist", "call"}
           \/ pc[t] = "open" /\ l = "streaming",
           Goto(t, l)
    PROVE  Served'
  <1>1. /\ pc' = [pc EXCEPT ![t] = l]
        /\ UNCHANGED <<req, plan, at, called, inner, stream, said, sent, calls,
                       rounds, cancel>>
    BY DEF Goto
  <1>2. Shapes'
    BY <1>1 DEF Served, Shapes, Places
  <1>3. \A u \in Turns : u # t => Same(u)
    BY <1>1 DEF Same, Served, Shapes
  <1>4. pc'[t] = l
    BY <1>1 DEF Served, Shapes
  <1>5. Silent(t)' /\ Kept(t)'
    BY <1>1, <1>4 DEF Served, Sound, Silent, Kept
  <1>6. Planned(t)'
    <2>1. Chained(t)
      BY SMTT(30) DEF Served, Sound, Planned, Invoking
    <2>2. Chained(t)'
      BY <1>1, <2>1 DEF Chained, Provider, Instances, LocalOllama, BuiltIn,
         CompatInstances, Served, Sound, Planned, Invoking
    <2> QED BY <1>4, <2>2 DEF Planned
  <1> QED BY <1>2, <1>3, <1>5, <1>6, OnlyOne DEF Sound

\* The turn is over.
LEMMA IsOver ==
    ASSUME Served, NEW t \in Turns, NEW how, End(t, how),
           UNCHANGED <<req, plan, at, called, inner, stream, said, sent, calls,
                       rounds, cancel>>
    PROVE  Served'
  <1>1. pc' = [pc EXCEPT ![t] = "done"]
    BY DEF End
  <1>2. Shapes'
    BY <1>1 DEF Served, Shapes, Places
  <1>3. \A u \in Turns : u # t => Same(u)
    BY <1>1 DEF Same, Served, Shapes
  <1>4. pc'[t] = "done"
    BY <1>1 DEF Served, Shapes
  <1>5. Silent(t)' /\ Kept(t)'
    BY <1>4, SMTT(30) DEF Silent, Kept
  <1>6. Planned(t)'
    <2>1. Resolved(t) => Chained(t)
      BY DEF Served, Sound, Planned
    <2> QED BY <1>4, <2>1 DEF Planned, Resolved, Chained, Invoking, Provider,
            Instances, LocalOllama, BuiltIn, CompatInstances
  <1> QED BY <1>2, <1>3, <1>5, <1>6, OnlyOne DEF Sound

\* The next model is tried.
LEMMA FallsBack ==
    ASSUME Served, NEW t \in Turns, NEW c, Fail(t, c),
           pc[t] \in {"relist", "open", "complete"}
    PROVE  Served'
  <1>1. CASE GiveUp(t, c)
    BY <1>1, IsOver DEF GiveUp
  <1>2. CASE ~GiveUp(t, c)
    <2>1. /\ HasMore(t)
          /\ at' = [at EXCEPT ![t] = @ + 1]
          /\ pc' = [pc EXCEPT ![t] = "invoke"]
          /\ UNCHANGED <<req, plan, called, inner, stream, said, sent, calls,
                         rounds, cancel>>
      BY <1>2 DEF Fail
    <2>2. Shapes'
      BY <2>1 DEF Served, Shapes, Places
    <2>3. \A u \in Turns : u # t => Same(u)
      BY <2>1 DEF Same, Served, Shapes
    <2>4. pc'[t] = "invoke" /\ at'[t] = at[t] + 1 /\ at[t] \in Nat \ {0}
      BY <2>1 DEF Served, Shapes
    <2>5. Silent(t)' /\ Kept(t)'
      BY <2>1, <2>4 DEF Served, Sound, Silent, Kept
    <2>6. Chained(t)
      BY DEF Served, Sound, Planned, Invoking
    <2>7. at'[t] \in DOMAIN plan[t].chain
      BY <2>1, <2>4, <2>6, LenProperties DEF Chained, HasMore
    <2>8. Planned(t)'
      <3>1. at'[t] # 1
        BY <2>4, SMTT(30)
      <3>2. Chained(t)'
        BY <2>1, <2>6, <2>7, <3>1 DEF Chained, Provider, Instances,
           LocalOllama, BuiltIn, CompatInstances
      <3> QED BY <2>4, <3>2 DEF Planned
    <2> QED BY <2>2, <2>3, <2>5, <2>8, OnlyOne DEF Sound
  <1> QED BY <1>1, <1>2

\* The adapter of the model is built, or the turn ends.
LEMMA ModelIsBuilt ==
    ASSUME Served, NEW t \in Turns, NEW i, ModelNew(t, i),
           pc[t] \in {"invoke", "relist"}
    PROVE  Served'
  <1>1. Goto(t, "call") \/ \E c : GiveUp(t, c)
    BY DEF ModelNew, AnthropicModelNew, GeminiModelNew, OpenAIModelNew,
       OllamaModelNew, OpenAICompatModelNew, RequireApiKey, AgentNew
  <1>2. \A c : GiveUp(t, c) => Served'
    BY IsOver DEF GiveUp
  <1>3. Goto(t, "call") => Served'
    BY MovesOn
  <1> QED BY <1>1, <1>2, <1>3

\* Every reference of a chain names its provider.
LEMMA ServingOf ==
    ASSUME NEW t \in Turns, Chained(t), pc[t] \in Invoking
    PROVE  /\ Serving(t) \in {Provider(id) : id \in STRING}
           /\ at[t] = 1 => Serving(t) = Provider(plan[t].chain[1].provider)
  <1>1. Ref(t) \in ModelReference
    BY ElementOfSeq, LenProperties DEF Chained, Ref
  <1>2. Ref(t).provider \in STRING
    BY <1>1 DEF ModelReference
  <1> QED BY <1>2 DEF Serving, Ref

LEMMA BeginServed ==
    ASSUME Served, NEW t \in Turns, Begin(t)
    PROVE  Served'
  <1>1. /\ pc' = [pc EXCEPT ![t] = "listing"]
        /\ plan' = [plan EXCEPT ![t] = None]
        /\ at' = [at EXCEPT ![t] = 1]
        /\ called' = [called EXCEPT ![t] = <<>>]
        /\ sent' = [sent EXCEPT ![t] = <<>>]
        /\ UNCHANGED <<req, inner, stream, said, calls, rounds, cancel>>
    BY DEF Begin
  <1>2. Shapes'
    <2>1. /\ pc' \in [Turns -> Places] /\ at' \in [Turns -> Nat \ {0}]
          /\ sent' \in [Turns -> Seq(Chunk)]
      BY <1>1, EmptySeq DEF Served, Shapes, Places
    <2>2. plan' = [u \in Turns |-> plan'[u]] /\ called' = [u \in Turns |-> called'[u]]
      BY <1>1 DEF Served, Shapes
    <2> QED BY <1>1, <2>1, <2>2 DEF Served, Shapes
  <1>3. \A u \in Turns : u # t => Same(u)
    BY <1>1 DEF Same, Served, Shapes
  <1>4. /\ pc'[t] = "listing" /\ plan'[t] = None /\ at'[t] = 1
        /\ called'[t] = <<>> /\ sent'[t] = <<>>
    BY <1>1 DEF Served, Shapes
  <1>5. Sound(t)'
    BY <1>4 DEF Sound, Silent, Kept, Planned, Resolved, Invoking
  <1> QED BY <1>2, <1>3, <1>5, OnlyOne

LEMMA ResolveServed ==
    ASSUME Served, NEW t \in Turns, ResolveTurn(t)
    PROVE  Served'
  <1>1. PICK p : p = Resolve(req[t], Catalog(t))
    OBVIOUS
  <1>2. /\ pc[t] = "listing"
        /\ plan' = [plan EXCEPT ![t] = p]
        /\ pc' = [pc EXCEPT ![t] = IF p.error = None THEN "invoke" ELSE "done"]
        /\ UNCHANGED <<req, at, called, inner, stream, said, sent, calls,
                       rounds, cancel>>
    BY <1>1 DEF ResolveTurn
  <1>3. Shapes'
    BY <1>2 DEF Served, Shapes, Places
  <1>4. \A u \in Turns : u # t => Same(u)
    BY <1>2 DEF Same, Served, Shapes
  <1>5. /\ pc'[t] = IF p.error = None THEN "invoke" ELSE "done"
        /\ plan'[t] = p
    BY <1>2 DEF Served, Shapes
  <1>6. sent[t] = <<>> /\ called[t] = <<>> /\ at[t] = 1
    BY <1>2 DEF Served, Sound, Silent, Planned
  <1>7. Silent(t)' /\ Kept(t)'
    BY <1>2, <1>5, <1>6 DEF Silent, Kept
  <1>8. CASE p.error = None
    <2>1. req[t] \in ResolveArgs
      BY DEF Served, Shapes
    <2>2. /\ p.chain \in Seq(ModelReference) /\ p.chain # <<>>
          /\ p.local => /\ p.chain[1] \in DOMAIN Catalog(t)
                        /\ Catalog(t)[p.chain[1]].local
      <3> DEFINE catalog == Catalog(t)
                 a == req[t]
      <3>1. a \in ResolveArgs /\ Resolve(a, catalog).error = None
        BY <1>1, <1>8, <2>1
      <3> HIDE DEF catalog, a
      <3>2. LET q == Resolve(a, catalog)
            IN  /\ q.chain \in Seq(ModelReference) /\ q.chain # <<>>
                /\ q.local => /\ q.chain[1] \in DOMAIN catalog
                              /\ catalog[q.chain[1]].local
        BY <3>1, ResolveListed
      <3>3. p = Resolve(a, catalog)
        BY <1>1 DEF a, catalog
      <3> QED BY <3>2, <3>3 DEF catalog
    <2>3. p.local => Provider(p.chain[1].provider).local
      BY <2>2, ListedServes
    <2>4. 1 \in DOMAIN p.chain
      BY <2>2, EmptySeq, LenProperties
    <2>5. called'[t] = <<>> /\ at'[t] = 1
      BY <1>2, <1>6
    <2>6. Chained(t)'
      <3>1. Range(<<>>) = {}
        BY DEF Range
      <3>2. p.local => Provider(p.chain[1].provider)'.local
        BY <2>3 DEF Provider, Instances, LocalOllama, BuiltIn, CompatInstances
      <3> QED BY <1>5, <2>2, <2>3, <2>4, <2>5, <3>1, EmptySeq DEF Chained, Provider, Instances, LocalOllama, BuiltIn, CompatInstances
    <2> QED BY <1>3, <1>4, <1>5, <1>7, <1>8, <2>6, OnlyOne DEF Sound, Planned
  <1>9. CASE p.error # None
    <2>1. Planned(t)'
      BY <1>5, <1>9 DEF Planned, Resolved, Invoking
    <2> QED BY <1>3, <1>4, <1>7, <2>1, OnlyOne DEF Sound
  <1> QED BY <1>8, <1>9

LEMMA CallServed ==
    ASSUME Served, NEW t \in Turns, BeginCall(t)
    PROVE  Served'
  <1>1. PICK l \in {"open", "complete"}, c \in {<<>>, None} :
           /\ pc[t] = "call"
           /\ pc' = [pc EXCEPT ![t] = l]
           /\ called' = [called EXCEPT ![t] = Append(@, Serving(t))]
           /\ inner' = [inner EXCEPT ![t] = 0]
           /\ calls' = [calls EXCEPT ![t] = {}]
           /\ said' = [said EXCEPT ![t] = <<>>]
           /\ stream' = [stream EXCEPT ![t] = [candidate |-> c, native |-> FALSE,
                                               deferred |-> FALSE]]
           /\ UNCHANGED <<req, plan, at, sent, rounds, cancel>>
    <2>1. PICK l \in {"open", "complete"} : pc' = [pc EXCEPT ![t] = l]
      BY DEF BeginCall
    <2>2. PICK c \in {<<>>, None} :
             stream' = [stream EXCEPT ![t] = [candidate |-> c, native |-> FALSE,
                                              deferred |-> FALSE]]
      BY DEF BeginCall
    <2> QED BY <2>1, <2>2 DEF BeginCall
  <1>2. [candidate |-> c, native |-> FALSE, deferred |-> FALSE] \in Streams
    BY EmptySeq DEF Streams
  <1>3. Shapes'
    <2>1. /\ pc' \in [Turns -> Places] /\ stream' \in [Turns -> Streams]
          /\ said' \in [Turns -> Seq(Chunk)]
          /\ calls' \in [Turns -> SUBSET Tools]
      BY <1>1, <1>2, EmptySeq DEF Served, Shapes, Places
    <2>2. inner' \in [Turns -> 0 .. MaxInternalTurns]
      BY <1>1, BoundsTyped DEF Served, Shapes
    <2>3. called' = [u \in Turns |-> called'[u]]
      BY <1>1 DEF Served, Shapes
    <2> QED BY <1>1, <2>1, <2>2, <2>3 DEF Served, Shapes
  <1>4. \A u \in Turns : u # t => Same(u)
    BY <1>1 DEF Same, Served, Shapes
  <1>5. /\ pc'[t] = l /\ called'[t] = Append(called[t], Serving(t))
        /\ said'[t] = <<>> /\ stream'[t].candidate = c
        /\ sent'[t] = sent[t] /\ plan'[t] = plan[t] /\ at'[t] = at[t]
    BY <1>1 DEF Served, Shapes
  <1>6. Silent(t)' /\ Kept(t)'
    BY <1>1, <1>5 DEF Served, Sound, Silent, Kept
  <1>7. Chained(t) /\ pc[t] \in Invoking
    BY <1>1 DEF Served, Sound, Planned, Invoking
  <1>8. /\ Serving(t) \in {Provider(id) : id \in STRING}
        /\ at[t] = 1 => Serving(t) = Provider(plan[t].chain[1].provider)
    BY <1>7, ServingOf
  <1>9. /\ called'[t] \in Seq({Provider(id) : id \in STRING})
        /\ \A i \in Range(called'[t]) : i \in Range(called[t]) \/ i = Serving(t)
    <2> DEFINE P == {Provider(id) : id \in STRING}
    <2>1. called[t] \in Seq(P) /\ Serving(t) \in P
      BY <1>7, <1>8 DEF Chained
    <2> HIDE DEF P
    <2>2. Append(called[t], Serving(t)) \in Seq(P)
      BY <2>1
    <2>3. \A i \in Range(Append(called[t], Serving(t))) :
             i \in Range(called[t]) \/ i = Serving(t)
      BY <2>1, SMTT(30) DEF Range
    <2> QED BY <1>5, <2>2, <2>3 DEF P
  <1>10. Chained(t)'
    BY <1>5, <1>7, <1>8, <1>9 DEF Chained, Provider, Instances, LocalOllama,
       BuiltIn, CompatInstances
  <1> QED BY <1>3, <1>4, <1>5, <1>6, <1>10, OnlyOne DEF Sound, Planned

\* A step of a turn that leaves its plan and the calls made for it alone.
LEMMA Proceeds ==
    ASSUME Served, NEW t \in Turns, NEW l,
           l = pc[t] \/ l \in {"mediate", "begin", "done"},
           pc' = [pc EXCEPT ![t] = l], UNCHANGED <<plan, at, called>>,
           \A u \in Turns : u # t =>
              /\ stream'[u] = stream[u] /\ said'[u] = said[u]
              /\ sent'[u] = sent[u] /\ calls'[u] = calls[u],
           Shapes', Silent(t)', Kept(t)'
    PROVE  Served'
  <1>1. \A u \in Turns : u # t => Same(u)
    BY DEF Same, Served, Shapes
  <1>2. pc'[t] = l
    BY DEF Served, Shapes
  <1>3. Planned(t)'
    <2>1. Planned(t)
      BY DEF Served, Sound
    <2>2. pc'[t] \in Invoking \cup {"listing"} => pc'[t] = pc[t]
      BY <1>2 DEF Invoking
    <2> QED BY <2>1, <2>2 DEF Planned, Chained, Resolved, Provider, Instances,
            LocalOllama, BuiltIn, CompatInstances
  <1> QED BY <1>1, <1>3, OnlyOne DEF Sound

LEMMA CompleteServed ==
    ASSUME Served, NEW t \in Turns, CompleteReturns(t)
    PROVE  Served'
  <1>1. PICK asked \in SUBSET Tools, text \in {<<>>, <<"plain">>} :
           Responded(t, asked, text)
    BY DEF CompleteReturns
  <1>2. pc[t] = "complete" /\ sent[t] = <<>> /\ said[t] = <<>>
    BY DEF CompleteReturns, Served, Sound, Silent, Kept
  <1>3. text \in Seq(Chunk)
    <2>1. <<>> \in Seq(Chunk)
      BY EmptySeq
    <2>2. <<"plain">> \in Seq(Chunk)
      BY DEF Chunk
    <2> QED BY <2>1, <2>2
  <1>4. PICK s \in Seq(Chunk) : sent' = [sent EXCEPT ![t] = s]
    <2> DEFINE shown == IF req[t].sink THEN text ELSE <<>>
    <2>1. shown \in Seq(Chunk)
      BY <1>3, EmptySeq
    <2>2. sent[t] \o shown = shown
      BY <1>2, <2>1, ConcatEmptySeq
    <2>3. sent' = [sent EXCEPT ![t] = sent[t] \o shown]
      BY <1>1 DEF Responded, Emit
    <2> QED BY <2>1, <2>2, <2>3
  <1>5. /\ pc' = [pc EXCEPT ![t] = "mediate"]
        /\ calls' = [calls EXCEPT ![t] = asked]
        /\ UNCHANGED <<req, plan, at, called, inner, stream, said, rounds,
                       cancel>>
    BY <1>1 DEF Responded
  <1>6. Shapes'
    BY <1>4, <1>5 DEF Served, Shapes, Places
  <1>7. pc'[t] = "mediate" /\ said'[t] = <<>>
    BY <1>2, <1>5 DEF Served, Shapes
  <1>8. Silent(t)' /\ Kept(t)'
    BY <1>7 DEF Silent, Kept
  <1>9. \A u \in Turns : u # t =>
           /\ stream'[u] = stream[u] /\ said'[u] = said[u]
           /\ sent'[u] = sent[u] /\ calls'[u] = calls[u]
    BY <1>4, <1>5 DEF Served, Shapes
  <1> QED BY <1>5, <1>6, <1>8, <1>9, Proceeds

LEMMA InternalServed ==
    ASSUME Served, NEW t \in Turns, InternalTools(t)
    PROVE  Served'
  <1>1. /\ inner' = [inner EXCEPT ![t] = @ + 1] /\ inner[t] < MaxInternalTurns
        /\ UNCHANGED <<req, pc, plan, at, called, stream, said, sent, calls,
                       rounds, cancel>>
    BY DEF InternalTools
  <1>2. Shapes'
    <2>1. inner' \in [Turns -> 0 .. MaxInternalTurns]
      BY <1>1, BoundsTyped DEF Served, Shapes
    <2> QED BY <1>1, <2>1 DEF Served, Shapes
  <1>3. \A u \in Turns : Same(u)
    BY <1>1 DEF Same
  <1> QED BY <1>2, <1>3, SameSound DEF Served

\* What a stream has said, sent and holds back.
LEMMA StreamTypes ==
    ASSUME Served, NEW t \in Turns, pc[t] = "streaming"
    PROVE  /\ said[t] \in Seq(Chunk) /\ sent[t] \in Seq(Chunk)
           /\ Buffered(t) \in Seq(Chunk) /\ None \notin Seq(Chunk)
           /\ \/ /\ stream[t].candidate = None /\ sent[t] = said[t]
                 /\ Buffered(t) = <<>>
              \/ /\ stream[t].candidate # None /\ sent[t] = <<>>
                 /\ stream[t].candidate = said[t] /\ Buffered(t) = said[t]
           /\ sent[t] \o Buffered(t) = said[t]
  <1>1. /\ said[t] \in Seq(Chunk) /\ sent[t] \in Seq(Chunk)
        /\ None \notin Seq(Chunk)
    BY NoneDistinct DEF Served, Shapes, Chunk
  <1>2. \/ stream[t].candidate = None /\ sent[t] = said[t]
        \/ stream[t].candidate = said[t] /\ sent[t] = <<>>
    BY DEF Served, Sound, Kept
  <1> QED BY <1>1, <1>2, ConcatEmptySeq, EmptySeq DEF Buffered

\* What a change to the buffer of a stream leaves behind.
BufferIs(t, candidate) ==
    /\ stream' \in [Turns -> Streams]
    /\ \A u \in Turns : u # t => stream'[u] = stream[u]
    /\ stream'[t].candidate = candidate

\* A step of a stream, from what it makes of the text.
LEMMA StreamServed ==
    ASSUME Served, NEW t \in Turns, pc[t] = "streaming",
           NEW l \in {"streaming", "mediate", "done"},
           NEW saying \in Seq(Chunk), NEW sending \in Seq(Chunk),
           NEW asking \in SUBSET Tools, NEW candidate,
           pc' = [pc EXCEPT ![t] = l],
           said' = [said EXCEPT ![t] = saying],
           sent' = [sent EXCEPT ![t] = sending],
           calls' = [calls EXCEPT ![t] = asking],
           BufferIs(t, candidate),
           UNCHANGED <<req, plan, at, called, inner, rounds, cancel>>,
           l = "streaming" =>
              \/ candidate = None /\ sending = saying
              \/ candidate = saying /\ sending = <<>>,
           l = "mediate" =>
              \/ sending = saying
              \/ sending = <<>> /\ Decodes(saying) /\ EnvelopeTool \in asking
    PROVE  Served'
  <1>3. Shapes'
    BY DEF Served, Shapes, Places, BufferIs
  <1>4. /\ pc'[t] = l /\ said'[t] = saying /\ sent'[t] = sending
        /\ calls'[t] = asking /\ stream'[t].candidate = candidate
    BY DEF Served, Shapes, BufferIs
  <1>5. Silent(t)' /\ Kept(t)'
    BY <1>4 DEF Silent, Kept
  <1>6. \A u \in Turns : u # t =>
           /\ stream'[u] = stream[u] /\ said'[u] = said[u]
           /\ sent'[u] = sent[u] /\ calls'[u] = calls[u]
    BY DEF Served, Shapes, BufferIs
  <1> QED BY <1>3, <1>5, <1>6, Proceeds

\* The buffer is set, closed or marked.
LEMMA BufferKept ==
    ASSUME Served, NEW t \in Turns, UNCHANGED stream
    PROVE  BufferIs(t, stream[t].candidate)
  BY DEF BufferIs, Served, Shapes

LEMMA BufferSet ==
    ASSUME Served, NEW t \in Turns, NEW c \in Seq(Chunk),
           stream' = [stream EXCEPT ![t].candidate = c]
    PROVE  BufferIs(t, c)
  <1>1. stream \in [Turns -> Streams] /\ stream[t] \in Streams
    BY DEF Served, Shapes
  <1>2. PICK s : s = [stream[t] EXCEPT !.candidate = c]
    OBVIOUS
  <1>3. s \in Streams /\ s.candidate = c
    BY <1>1, <1>2 DEF Streams
  <1>4. stream' = [stream EXCEPT ![t] = s]
    BY <1>1, <1>2
  <1> QED BY <1>1, <1>3, <1>4 DEF BufferIs

LEMMA BufferMarked ==
    ASSUME Served, NEW t \in Turns,
           stream' = [stream EXCEPT ![t].deferred = TRUE]
    PROVE  BufferIs(t, stream[t].candidate)
  <1>1. stream \in [Turns -> Streams] /\ stream[t] \in Streams
    BY DEF Served, Shapes
  <1>2. PICK s : s = [stream[t] EXCEPT !.deferred = TRUE]
    OBVIOUS
  <1>3. s \in Streams /\ s.candidate = stream[t].candidate
    BY <1>1, <1>2 DEF Streams
  <1>4. stream' = [stream EXCEPT ![t] = s]
    BY <1>1, <1>2
  <1> QED BY <1>1, <1>3, <1>4 DEF BufferIs

LEMMA BufferReset ==
    ASSUME Served, NEW t \in Turns,
           stream' = [stream EXCEPT ![t].native = FALSE]
    PROVE  BufferIs(t, stream[t].candidate)
  <1>1. stream \in [Turns -> Streams] /\ stream[t] \in Streams
    BY DEF Served, Shapes
  <1>2. PICK s : s = [stream[t] EXCEPT !.native = FALSE]
    OBVIOUS
  <1>3. s \in Streams /\ s.candidate = stream[t].candidate
    BY <1>1, <1>2 DEF Streams
  <1>4. stream' = [stream EXCEPT ![t] = s]
    BY <1>1, <1>2
  <1> QED BY <1>1, <1>3, <1>4 DEF BufferIs

LEMMA BufferClosed ==
    ASSUME Served, NEW t \in Turns,
           \/ stream' = [stream EXCEPT ![t].candidate = None, ![t].deferred = FALSE]
           \/ stream' = [stream EXCEPT ![t].candidate = None, ![t].native = TRUE]
    PROVE  BufferIs(t, None)
  <1>1. stream \in [Turns -> Streams] /\ stream[t] \in Streams
    BY DEF Served, Shapes
  <1>2. PICK r, s : /\ r = [stream[t] EXCEPT !.candidate = None, !.deferred = FALSE]
                    /\ s = [stream[t] EXCEPT !.candidate = None, !.native = TRUE]
    OBVIOUS
  <1>3. /\ r \in Streams /\ r.candidate = None
        /\ s \in Streams /\ s.candidate = None
    BY <1>1, <1>2 DEF Streams
  <1>4. stream' = [stream EXCEPT ![t] = r] \/ stream' = [stream EXCEPT ![t] = s]
    BY <1>1, <1>2
  <1> QED BY <1>1, <1>3, <1>4 DEF BufferIs

\* What stays can be said as a change to itself.
LEMMA AsChange ==
    ASSUME Served, NEW t \in Turns
    PROVE  /\ said = [said EXCEPT ![t] = said[t]]
           /\ sent = [sent EXCEPT ![t] = sent[t]]
           /\ calls = [calls EXCEPT ![t] = calls[t]]
           /\ pc[t] = "streaming" => pc = [pc EXCEPT ![t] = "streaming"]
           /\ calls[t] \in SUBSET Tools
  BY DEF Served, Shapes

LEMMA TextServed ==
    ASSUME Served, NEW t \in Turns, PushText(t)
    PROVE  Served'
  <1>1. /\ pc[t] = "streaming"
        /\ UNCHANGED <<req, pc, plan, at, called, inner, calls, rounds, cancel>>
    BY DEF PushText, Streaming
  <1>2. PICK chunk \in Chunk :
          LET candidate == Append(Buffered(t), chunk)
          IN  /\ said' = [said EXCEPT ![t] = Append(@, chunk)]
              /\ \/ stream[t].candidate = None /\ Emit(t, <<chunk>>)
                    /\ UNCHANGED stream
                 \/ /\ stream[t].candidate # None /\ MayMatch(candidate)
                    /\ stream' = [stream EXCEPT ![t].candidate = candidate]
                    /\ UNCHANGED sent
                 \/ /\ stream[t].candidate # None /\ ~MayMatch(candidate)
                    /\ Emit(t, candidate)
                    /\ stream' = [stream EXCEPT ![t].candidate = None,
                                                ![t].deferred = FALSE]
    BY DEF PushText, Chunk
  <1>3. /\ said[t] \in Seq(Chunk) /\ sent[t] \in Seq(Chunk)
        /\ None \notin Seq(Chunk)
        /\ \/ /\ stream[t].candidate = None /\ sent[t] = said[t]
              /\ Buffered(t) = <<>>
           \/ /\ stream[t].candidate # None /\ sent[t] = <<>>
              /\ stream[t].candidate = said[t] /\ Buffered(t) = said[t]
    BY <1>1, StreamTypes
  <1> DEFINE saying == Append(said[t], chunk)
  <1>4. /\ saying \in Seq(Chunk) /\ said' = [said EXCEPT ![t] = saying]
        /\ said[t] \o <<chunk>> = saying
    BY <1>2, <1>3, AppendIsConcat
  <1>5. /\ pc' = [pc EXCEPT ![t] = "streaming"]
        /\ calls' = [calls EXCEPT ![t] = calls[t]]
        /\ calls[t] \in SUBSET Tools
    BY <1>1, AsChange
  <1> HIDE DEF saying
  <1>6. CASE stream[t].candidate = None
    <2>1. sent' = [sent EXCEPT ![t] = saying] /\ stream' = stream
      BY <1>2, <1>3, <1>4, <1>6 DEF Emit
    <2>2. BufferIs(t, None)
      BY <1>6, <2>1, BufferKept
    <2> QED BY <1>1, <1>4, <1>5, <2>1, <2>2, StreamServed
  <1>7. CASE stream[t].candidate # None
    <2>1. Append(Buffered(t), chunk) = saying /\ sent[t] = <<>>
      BY <1>3, <1>7 DEF saying
    <2>2. CASE MayMatch(saying)
      <3>1. /\ stream' = [stream EXCEPT ![t].candidate = saying]
            /\ sent' = sent
        BY <1>2, <1>7, <2>1, <2>2
      <3>2. /\ BufferIs(t, saying)
            /\ sent' = [sent EXCEPT ![t] = <<>>]
        BY <1>4, <2>1, <3>1, AsChange, BufferSet
      <3> QED BY <1>1, <1>4, <1>5, <3>2, EmptySeq, StreamServed
    <2>3. CASE ~MayMatch(saying)
      <3>1. /\ stream' = [stream EXCEPT ![t].candidate = None,
                                        ![t].deferred = FALSE]
            /\ Emit(t, saying)
        BY <1>2, <1>7, <2>1, <2>3
      <3>2. BufferIs(t, None)
        BY <3>1, BufferClosed
      <3>3. sent' = [sent EXCEPT ![t] = saying]
        <4>1. sent[t] \o saying = saying
          BY <1>4, <2>1, ConcatEmptySeq
        <4> QED BY <3>1, <4>1 DEF Emit
      <3> QED BY <1>1, <1>4, <1>5, <3>2, <3>3, StreamServed
    <2> QED BY <2>2, <2>3
  <1> QED BY <1>6, <1>7

\* What was held back is released: the client has read all that was said.
LEMMA Flushed ==
    ASSUME Served, NEW t \in Turns, pc[t] = "streaming", FlushCandidate(t)
    PROVE  sent' = [sent EXCEPT ![t] = said[t]]
  BY StreamTypes DEF FlushCandidate, Emit

LEMMA ToolCallServed ==
    ASSUME Served, NEW t \in Turns, PushToolCall(t)
    PROVE  Served'
  <1>1. /\ pc[t] = "streaming" /\ FlushCandidate(t)
        /\ UNCHANGED <<req, pc, plan, at, called, inner, said, rounds, cancel>>
        /\ stream' = [stream EXCEPT ![t].candidate = None, ![t].native = TRUE]
    BY DEF PushToolCall, Streaming
  <1>2. PICK tool \in Tools : calls' = [calls EXCEPT ![t] = @ \cup {tool}]
    BY DEF PushToolCall
  <1>3. /\ pc' = [pc EXCEPT ![t] = "streaming"]
        /\ said' = [said EXCEPT ![t] = said[t]]
        /\ BufferIs(t, None) /\ calls[t] \in SUBSET Tools
    BY <1>1, AsChange, BufferClosed
  <1>4. sent' = [sent EXCEPT ![t] = said[t]] /\ said[t] \in Seq(Chunk)
    BY <1>1, Flushed, StreamTypes
  <1>5. PICK asking \in SUBSET Tools : calls' = [calls EXCEPT ![t] = asking]
    BY <1>2, <1>3
  <1> QED BY <1>1, <1>3, <1>4, <1>5, StreamServed

LEMMA UsageServed ==
    ASSUME Served, NEW t \in Turns, PushUsage(t)
    PROVE  Served'
  <1>1. /\ pc[t] = "streaming" /\ stream[t].candidate # None
        /\ UNCHANGED <<req, pc, plan, at, called, inner, said, sent, calls,
                       rounds, cancel>>
        /\ stream' = [stream EXCEPT ![t].deferred = TRUE]
    BY DEF PushUsage, Streaming
  <1>2. /\ said[t] \in Seq(Chunk) /\ sent[t] \in Seq(Chunk)
        /\ stream[t].candidate = said[t] /\ sent[t] = <<>>
    BY <1>1, StreamTypes
  <1>3. /\ pc' = [pc EXCEPT ![t] = "streaming"]
        /\ said' = [said EXCEPT ![t] = said[t]]
        /\ sent' = [sent EXCEPT ![t] = sent[t]]
        /\ calls' = [calls EXCEPT ![t] = calls[t]]
        /\ BufferIs(t, said[t]) /\ calls[t] \in SUBSET Tools
    BY <1>1, <1>2, AsChange, BufferMarked
  <1> QED BY <1>1, <1>2, <1>3, StreamServed

LEMMA EndServed ==
    ASSUME Served, NEW t \in Turns, StreamEnds(t)
    PROVE  Served'
  <1>1. /\ pc[t] = "streaming"
        /\ pc' = [pc EXCEPT ![t] = "mediate"]
        /\ UNCHANGED <<req, plan, at, called, inner, said, rounds, cancel>>
        /\ stream' = [stream EXCEPT ![t].candidate = None, ![t].deferred = FALSE]
    BY DEF StreamEnds, Streaming
  <1>2. /\ said[t] \in Seq(Chunk) /\ sent[t] \in Seq(Chunk)
        /\ \/ Buffered(t) = <<>>
           \/ Buffered(t) = said[t] /\ sent[t] = <<>>
    BY <1>1, StreamTypes
  <1>3. /\ said' = [said EXCEPT ![t] = said[t]]
        /\ sent = [sent EXCEPT ![t] = sent[t]]
        /\ calls = [calls EXCEPT ![t] = calls[t]]
        /\ BufferIs(t, None) /\ calls[t] \in SUBSET Tools
    BY <1>1, AsChange, BufferClosed
  <1>4. CASE Decodes(Buffered(t)) /\ calls' = [calls EXCEPT ![t] = @ \cup {EnvelopeTool}]
             /\ sent' = sent
    <2>1. Buffered(t) = said[t] /\ sent[t] = <<>> /\ Decodes(said[t])
      BY <1>2, <1>4 DEF Decodes
    <2>2. PICK asking \in SUBSET Tools :
             /\ calls' = [calls EXCEPT ![t] = asking] /\ EnvelopeTool \in asking
      BY <1>3, <1>4 DEF EnvelopeTool, Tools
    <2>3. sent' = [sent EXCEPT ![t] = sent[t]]
      BY <1>3, <1>4
    <2> QED BY <1>1, <1>2, <1>3, <2>1, <2>2, <2>3, StreamServed
  <1>5. CASE FlushCandidate(t) /\ calls' = calls
    <2>1. sent' = [sent EXCEPT ![t] = said[t]]
      BY <1>1, <1>5, Flushed
    <2>2. calls' = [calls EXCEPT ![t] = calls[t]]
      BY <1>3, <1>5
    <2> QED BY <1>1, <1>2, <1>3, <2>1, <2>2, StreamServed
  <1> QED BY <1>4, <1>5 DEF StreamEnds

LEMMA BreakServed ==
    ASSUME Served, NEW t \in Turns, StreamBreaks(t)
    PROVE  Served'
  <1>1. /\ pc[t] = "streaming" /\ FlushCandidate(t)
        /\ pc' = [pc EXCEPT ![t] = "done"]
        /\ UNCHANGED <<req, plan, at, called, inner, said, calls, rounds, cancel>>
        /\ stream' = [stream EXCEPT ![t].candidate = None, ![t].deferred = FALSE]
    BY DEF StreamBreaks, Streaming, End
  <1>2. /\ said' = [said EXCEPT ![t] = said[t]]
        /\ calls' = [calls EXCEPT ![t] = calls[t]]
        /\ BufferIs(t, None) /\ calls[t] \in SUBSET Tools
    BY <1>1, AsChange, BufferClosed
  <1>3. sent' = [sent EXCEPT ![t] = said[t]] /\ said[t] \in Seq(Chunk)
    BY <1>1, Flushed, StreamTypes
  <1> QED BY <1>1, <1>2, <1>3, StreamServed

LEMMA MediateServed ==
    ASSUME Served, NEW t \in Turns, Mediate(t)
    PROVE  Served'
  <1>1. PICK l \in {"begin", "done"}, asking \in SUBSET Tools :
           pc' = [pc EXCEPT ![t] = l] /\ calls' = [calls EXCEPT ![t] = asking]
    <2>1. calls[t] \in SUBSET Tools /\ calls = [calls EXCEPT ![t] = calls[t]]
      BY AsChange
    <2>2. ForClient(t) \in SUBSET Tools
      BY <2>1 DEF ForClient
    <2> QED BY <2>1, <2>2 DEF Mediate, End
  <1>2. /\ said' = [said EXCEPT ![t] = <<>>]
        /\ stream' = [stream EXCEPT ![t].native = FALSE]
        /\ inner' = [inner EXCEPT ![t] = 0]
        /\ UNCHANGED <<req, plan, at, called, sent, cancel>>
        /\ rounds' = rounds \/ (rounds[t] < MaxRounds
                                /\ rounds' = [rounds EXCEPT ![t] = @ + 1])
    BY DEF Mediate
  <1>3. Shapes'
    <2>1. stream' \in [Turns -> Streams]
      BY <1>2, BufferReset DEF BufferIs
    <2>2. rounds' \in [Turns -> 0 .. MaxRounds]
      <3>1. rounds \in [Turns -> 0 .. MaxRounds] /\ rounds[t] \in 0 .. MaxRounds
        BY DEF Served, Shapes
      <3>2. CASE rounds' = rounds
        BY <3>1, <3>2
      <3>3. CASE rounds[t] < MaxRounds /\ rounds' = [rounds EXCEPT ![t] = rounds[t] + 1]
        <4>1. rounds[t] + 1 \in 0 .. MaxRounds
          BY <3>1, <3>3, BoundsTyped
        <4> QED BY <3>1, <3>3, <4>1
      <3> QED BY <1>2, <3>2, <3>3
    <2>3. inner' \in [Turns -> 0 .. MaxInternalTurns]
      BY <1>2, BoundsTyped DEF Served, Shapes
    <2>4. said' \in [Turns -> Seq(Chunk)]
      BY <1>2, EmptySeq DEF Served, Shapes
    <2> QED BY <1>1, <1>2, <2>1, <2>2, <2>3, <2>4 DEF Served, Shapes, Places
  <1>4. pc'[t] = l
    BY <1>1 DEF Served, Shapes
  <1>5. Silent(t)' /\ Kept(t)'
    BY <1>4 DEF Silent, Kept
  <1>6. \A u \in Turns : u # t =>
           /\ stream'[u] = stream[u] /\ said'[u] = said[u]
           /\ sent'[u] = sent[u] /\ calls'[u] = calls[u]
    BY <1>1, <1>2 DEF Served, Shapes
  <1> QED BY <1>1, <1>2, <1>3, <1>5, <1>6, Proceeds

-----------------------------------------------------------------------------
(* Every step keeps what holds of the turns *)

\* What is not about a turn, or only about its listings.
LEMMA AsideServed ==
    ASSUME Served,
           UNCHANGED <<req, pc, plan, at, called, inner, stream, said, sent,
                       calls, rounds>>,
           cancel' \in [Turns -> BOOLEAN]
    PROVE  Served'
  <1>1. Shapes'
    BY DEF Served, Shapes
  <1>2. \A t \in Turns : Same(t)
    BY DEF Same
  <1> QED BY <1>1, <1>2, SameSound DEF Served

LEMMA ListServed ==
    ASSUME Served, NEW t \in Turns, List(t)
    PROVE  Served'
  <1>1. UNCHANGED <<req, pc, plan, at, called, inner, stream, said, sent, calls,
                    rounds, cancel>>
    BY DEF List, ListModels, ListAnswers, ListFails, Fetched, turn
  <1>2. cancel' \in [Turns -> BOOLEAN]
    BY <1>1 DEF Served, Shapes
  <1> QED BY <1>1, <1>2, AsideServed

LEMMA InvokeServed ==
    ASSUME Served, NEW t \in Turns, Invoke(t)
    PROVE  Served'
  <1>1. ASSUME NEW how, GiveUp(t, how)
        PROVE  Served'
    BY <1>1, IsOver DEF GiveUp
  <1>2. CASE CancelledBefore(t) \/ CancelledDuring(t)
    BY <1>2, IsOver DEF CancelledBefore, CancelledDuring, Superseded
  <1>3. CASE ResolveModel(t)
    <2>1. /\ pc[t] = "invoke"
          /\ \/ \E how : GiveUp(t, how)
             \/ ModelNew(t, Serving(t))
             \/ Goto(t, "relist")
      BY <1>3 DEF ResolveModel
    <2> QED BY <1>1, <2>1, ModelIsBuilt, MovesOn
  <1>4. CASE Relist(t)
    <2>1. /\ pc[t] = "relist"
          /\ \/ \E how : GiveUp(t, how)
             \/ ModelNew(t, Serving(t))
             \/ \E c : Fail(t, c)
      BY <1>4 DEF Relist
    <2> QED BY <1>1, <2>1, ModelIsBuilt, FallsBack
  <1>5. CASE BeginCall(t)
    BY <1>5, CallServed
  <1>6. CASE CallFails(t)
    BY <1>6, FallsBack DEF CallFails
  <1> QED BY <1>2, <1>3, <1>4, <1>5, <1>6 DEF Invoke

LEMMA AnswerServed ==
    ASSUME Served, NEW t \in Turns, Answer(t)
    PROVE  Served'
  <1>1. CASE InternalToolsFail(t)
    BY <1>1, FallsBack DEF InternalToolsFail
  <1>2. CASE StreamOpens(t)
    BY <1>2, MovesOn DEF StreamOpens
  <1> QED BY <1>1, <1>2, CompleteServed, InternalServed, TextServed,
          ToolCallServed, UsageServed, EndServed, BreakServed DEF Answer

\* What a client may do beside a turn, and what passes meanwhile.
LEMMA WorldServed ==
    ASSUME Served, (\E t \in Turns : Cancel(t)) \/ OffersChange \/ Tick
    PROVE  Served'
  <1>1. UNCHANGED <<req, pc, plan, at, called, inner, stream, said, sent, calls,
                    rounds>>
    BY DEF Cancel, OffersChange, Tick, turn
  <1>2. cancel' \in [Turns -> BOOLEAN]
    BY DEF Cancel, OffersChange, Tick, Served, Shapes
  <1> QED BY <1>1, <1>2, AsideServed

LEMMA InitServed ==
    ASSUME Init
    PROVE  Served
  <1>1. [candidate |-> None, native |-> FALSE, deferred |-> FALSE] \in Streams
    BY DEF Streams
  <1>2. Shapes
    <2>1. /\ stream \in [Turns -> Streams]
          /\ said \in [Turns -> Seq(Chunk)] /\ sent \in [Turns -> Seq(Chunk)]
      BY <1>1, EmptySeq DEF Init
    <2>2. req \in [Turns -> ResolveArgs]
      BY WorkloadsTyped DEF Init
    <2>3. /\ inner \in [Turns -> 0 .. MaxInternalTurns]
          /\ rounds \in [Turns -> 0 .. MaxRounds]
      BY BoundsTyped DEF Init
    <2>4. /\ pc \in [Turns -> Places] /\ at \in [Turns -> Nat \ {0}]
          /\ calls \in [Turns -> SUBSET Tools] /\ cancel \in [Turns -> BOOLEAN]
          /\ plan = [t \in Turns |-> plan[t]] /\ called = [t \in Turns |-> called[t]]
      BY DEF Init, Places
    <2> QED BY <2>1, <2>2, <2>3, <2>4 DEF Shapes
  <1>3. ASSUME NEW t \in Turns
        PROVE  Sound(t)
    BY DEF Init, Sound, Silent, Kept, Planned, Resolved, Invoking
  <1> QED BY <1>2, <1>3 DEF Served

LEMMA StepServed ==
    ASSUME Served, [Next]_vars
    PROVE  Served'
  <1>1. ASSUME NEW t \in Turns, Serve(t)
        PROVE  Served'
    BY <1>1, BeginServed, ListServed, ResolveServed, InvokeServed, AnswerServed,
       MediateServed DEF Serve
  <1>2. CASE (\E t \in Turns : Cancel(t)) \/ OffersChange \/ Tick
    BY <1>2, WorldServed
  <1>3. CASE UNCHANGED vars
    <2>1. UNCHANGED <<req, pc, plan, at, called, inner, stream, said, sent,
                      calls, rounds, cancel>>
      BY <1>3 DEF vars
    <2>2. cancel' \in [Turns -> BOOLEAN]
      BY <2>1 DEF Served, Shapes
    <2> QED BY <2>1, <2>2, AsideServed
  <1> QED BY <1>1, <1>2, <1>3 DEF Next

LEMMA AlwaysServed == Spec => []Served
  BY InitServed, StepServed, PTL DEF Spec

-----------------------------------------------------------------------------
(* Theorems *)

\* When required context is restricted, the client asked for local models or the
\* rule is local_only, the model of the plan runs locally, and so does every
\* model called while the turn is at it: the locality that select reads in a
\* listing is that of the instance that Router::provider picks for the call.
THEOREM LocalModelsFirst == Spec => []LocalFirst
  <1>1. Served => LocalFirst
    <2> SUFFICES ASSUME Served, NEW t \in Turns, Resolved(t), plan[t].local
                 PROVE  /\ Provider(plan[t].chain[1].provider).local
                        /\ at[t] = 1 => \A i \in Range(called[t]) : i.local
      BY DEF LocalFirst
    <2>1. Chained(t)
      BY DEF Served, Sound, Planned
    <2> QED BY <2>1 DEF Chained
  <1> QED BY <1>1, AlwaysServed, PTL

\* The buffering for textual tool calls neither loses, doubles nor reorders
\* text: what push_text, flush_candidate and finish send is what was said,
\* unless the whole of it was promoted to a call.
THEOREM TextIsKept == Spec => []TextKept
  <1>1. Served => TextKept
    <2> SUFFICES ASSUME Served, NEW t \in Turns, stream[t].candidate = None,
                        pc[t] \in {"streaming", "mediate"}, said[t] # <<>>
                 PROVE  \/ sent[t] = said[t]
                        \/ /\ sent[t] = <<>> /\ Decodes(said[t])
                           /\ EnvelopeTool \in calls[t]
      BY DEF TextKept
    <2>1. Kept(t) /\ said[t] \in Seq(Chunk)
      BY DEF Served, Sound, Shapes
    <2>2. said[t] # None
      BY <2>1, NoneDistinct DEF Chunk
    <2> QED BY <2>1, <2>2 DEF Kept
  <1> QED BY <1>1, AlwaysServed, PTL

\* Where a turn has not spoken in its round yet.
Mute == {"begin", "listing", "invoke", "relist", "call", "open", "complete"}

\* A turn has heard one model in each round, none yet in a round that is still at its
\* call, and in a stream the one that is streaming.
Alone(t) ==
    /\ \A v \in voices[t] : v.round \in Int /\ v.round <= rounds[t]
    /\ \A v, w \in voices[t] : v.round = w.round => v.by = w.by
    /\ pc[t] \in Mute => \A v \in voices[t] : v.round # rounds[t]
    /\ pc[t] = "streaming" =>
          \A v \in voices[t] : v.round = rounds[t] => v.by = Ref(t)

OneEach == voices = [t \in Turns |-> voices[t]] /\ \A t \in Turns : Alone(t)

\* A step of a turn in which nothing is sent.
LEMMA NothingSaid ==
    ASSUME Served, OneEach, NEW t \in Turns, NEW l,
           \/ l = pc[t] /\ UNCHANGED <<plan, at>>
           \/ l \in {"mediate", "done"}
           \/ pc[t] \in Mute /\ l \in Mute \cup {"streaming"},
           pc' = [pc EXCEPT ![t] = l], UNCHANGED <<voices, rounds>>,
           \A u \in Turns : u # t => plan'[u] = plan[u] /\ at'[u] = at[u]
    PROVE  OneEach'
  <1>1. pc'[t] = l /\ \A u \in Turns : u # t => pc'[u] = pc[u]
    BY DEF Served, Shapes
  <1>2. ASSUME NEW u \in Turns, u # t
        PROVE  Alone(u)'
    BY <1>1, <1>2 DEF OneEach, Alone, Ref
  <1>3. Alone(t)'
    <2>1. Alone(t)
      BY DEF OneEach
    <2>2. pc'[t] = "streaming" => \/ pc[t] \in Mute
                                  \/ pc[t] = "streaming" /\ UNCHANGED <<plan, at>>
      BY <1>1 DEF Mute
    <2>3. pc'[t] \in Mute => pc[t] \in Mute
      BY <1>1 DEF Mute
    <2> QED BY <2>1, <2>2, <2>3 DEF Alone, Ref
  <1> QED BY <1>2, <1>3 DEF OneEach

\* A step in which the model of the turn speaks.
LEMMA OneSpeaks ==
    ASSUME Served, OneEach, NEW t \in Turns, NEW l, NEW text, Emit(t, text),
           \/ pc[t] = "streaming" /\ l \in {"streaming", "mediate", "done"}
           \/ pc[t] = "complete" /\ l = "mediate",
           pc' = [pc EXCEPT ![t] = l], UNCHANGED <<plan, at, rounds>>
    PROVE  OneEach'
  <1>1. CASE text = <<>>
    <2>1. voices' = voices
      BY <1>1 DEF Emit
    <2>2. \/ l = pc[t]
          \/ l \in {"mediate", "done"}
      OBVIOUS
    <2> QED BY <2>1, <2>2, NothingSaid
  <1>2. CASE text # <<>>
    <2> DEFINE v0 == [by |-> Ref(t), round |-> rounds[t]]
    <2>1. voices' = [voices EXCEPT ![t] = @ \cup {v0}]
      BY <1>2 DEF Emit
    <2>2. /\ voices' = [u \in Turns |-> voices'[u]]
          /\ voices'[t] = voices[t] \cup {v0}
          /\ \A u \in Turns : u # t => voices'[u] = voices[u]
      BY <2>1 DEF OneEach
    <2>3. pc'[t] = l /\ \A u \in Turns : u # t => pc'[u] = pc[u]
      BY DEF Served, Shapes
    <2>4. ASSUME NEW u \in Turns, u # t
          PROVE  Alone(u)'
      BY <2>2, <2>3, <2>4 DEF OneEach, Alone, Ref
    <2>5. Alone(t)'
      <3>1. Alone(t) /\ rounds[t] \in Int
        BY DEF OneEach, Served, Shapes
      <3>2. \A v \in voices[t] : v.round = rounds[t] => v.by = Ref(t)
        BY <3>1 DEF Alone, Mute
      <3>3. v0.round = rounds[t] /\ v0.by = Ref(t) /\ Ref(t)' = Ref(t)
        BY DEF Ref
      <3>4. \A v \in voices'[t] : v.round \in Int /\ v.round <= rounds'[t]
        BY <2>2, <3>1, <3>3 DEF Alone
      <3>5. \A v, w \in voices'[t] : v.round = w.round => v.by = w.by
        BY <2>2, <3>1, <3>2, <3>3 DEF Alone
      <3>6. \A v \in voices'[t] : v.round = rounds'[t] => v.by = Ref(t)'
        BY <2>2, <3>2, <3>3
      <3>7. pc'[t] \notin Mute
        BY <2>3 DEF Mute
      <3> QED BY <3>4, <3>5, <3>6, <3>7 DEF Alone
    <2> QED BY <2>2, <2>4, <2>5 DEF OneEach
  <1> QED BY <1>1, <1>2

\* The error of a call ends the turn or sends it to the next model.
LEMMA FailSilent ==
    ASSUME Served, OneEach, NEW t \in Turns, NEW c,
           \/ GiveUp(t, c)
           \/ Fail(t, c) /\ pc[t] \in Mute
    PROVE  OneEach'
  <1>1. CASE GiveUp(t, c)
    BY <1>1, NothingSaid DEF GiveUp, End
  <1>2. CASE ~GiveUp(t, c)
    <2>1. /\ pc[t] \in Mute
          /\ at' = [at EXCEPT ![t] = @ + 1] /\ pc' = [pc EXCEPT ![t] = "invoke"]
          /\ UNCHANGED <<plan, voices, rounds>>
      BY <1>2 DEF Fail
    <2>2. \A u \in Turns : u # t => plan'[u] = plan[u] /\ at'[u] = at[u]
      BY <2>1 DEF Served, Shapes
    <2> QED BY <2>1, <2>2, NothingSaid DEF Mute
  <1> QED BY <1>1, <1>2

LEMMA GotoSilent ==
    ASSUME Served, OneEach, NEW t \in Turns, NEW l, Goto(t, l),
           pc[t] \in Mute, l \in Mute \cup {"streaming"}
    PROVE  OneEach'
  BY NothingSaid DEF Goto

LEMMA InvokeSilent ==
    ASSUME Served, OneEach, NEW t \in Turns, Invoke(t)
    PROVE  OneEach'
  <1>1. ASSUME NEW i, ModelNew(t, i), pc[t] \in {"invoke", "relist"}
        PROVE  OneEach'
    <2>1. Goto(t, "call") \/ \E how : GiveUp(t, how)
      BY <1>1 DEF ModelNew, AnthropicModelNew, GeminiModelNew, OpenAIModelNew,
         OllamaModelNew, OpenAICompatModelNew, RequireApiKey, AgentNew
    <2> QED BY <1>1, <2>1, FailSilent, GotoSilent DEF Mute
  <1>2. CASE CancelledBefore(t) \/ CancelledDuring(t)
    BY <1>2, NothingSaid DEF CancelledBefore, CancelledDuring, Superseded, End
  <1>3. CASE ResolveModel(t)
    <2>1. /\ pc[t] = "invoke"
          /\ \/ \E how : GiveUp(t, how)
             \/ ModelNew(t, Serving(t))
             \/ Goto(t, "relist")
      BY <1>3 DEF ResolveModel
    <2> QED BY <1>1, <2>1, FailSilent, GotoSilent DEF Mute
  <1>4. CASE Relist(t)
    <2>1. /\ pc[t] = "relist"
          /\ \/ \E how : GiveUp(t, how)
             \/ ModelNew(t, Serving(t))
             \/ \E c : Fail(t, c)
      BY <1>4 DEF Relist
    <2> QED BY <1>1, <2>1, FailSilent DEF Mute
  <1>5. CASE BeginCall(t)
    <2>1. \E l \in {"open", "complete"} : pc' = [pc EXCEPT ![t] = l]
      BY <1>5 DEF BeginCall
    <2>2. pc[t] \in Mute /\ UNCHANGED <<plan, at, voices, rounds>>
      BY <1>5 DEF BeginCall, Mute
    <2> QED BY <2>1, <2>2, NothingSaid DEF Mute
  <1>6. CASE CallFails(t)
    BY <1>6, FailSilent DEF CallFails, Mute
  <1> QED BY <1>2, <1>3, <1>4, <1>5, <1>6 DEF Invoke

LEMMA AnswerAlone ==
    ASSUME Served, OneEach, NEW t \in Turns, Answer(t)
    PROVE  OneEach'
  <1>0. pc = [pc EXCEPT ![t] = pc[t]]
    BY DEF Served, Shapes
  <1>1. CASE InternalToolsFail(t)
    BY <1>1, FailSilent DEF InternalToolsFail, Mute
  <1>2. CASE StreamOpens(t)
    BY <1>2, GotoSilent DEF StreamOpens, Mute
  <1>3. CASE CompleteReturns(t)
    <2>1. PICK text : Emit(t, text)
      BY <1>3 DEF CompleteReturns, Responded
    <2>2. /\ pc[t] = "complete" /\ pc' = [pc EXCEPT ![t] = "mediate"]
          /\ UNCHANGED <<plan, at, rounds>>
      BY <1>3 DEF CompleteReturns, Responded
    <2> QED BY <2>1, <2>2, OneSpeaks
  <1>4. CASE InternalTools(t) \/ PushUsage(t)
    <2>1. UNCHANGED <<pc, plan, at, rounds, voices>>
      BY <1>4 DEF InternalTools, PushUsage, Streaming
    <2> QED BY <1>0, <2>1, NothingSaid
  <1>5. CASE PushText(t)
    <2>1. pc[t] = "streaming" /\ UNCHANGED <<pc, plan, at, rounds>>
      BY <1>5 DEF PushText, Streaming
    <2>2. voices' = voices \/ \E text : Emit(t, text)
      BY <1>5 DEF PushText
    <2> QED BY <1>0, <2>1, <2>2, NothingSaid, OneSpeaks
  <1>6. CASE PushToolCall(t)
    <2>1. pc[t] = "streaming" /\ UNCHANGED <<pc, plan, at, rounds>>
      BY <1>6 DEF PushToolCall, Streaming
    <2>2. Emit(t, Buffered(t))
      BY <1>6 DEF PushToolCall, FlushCandidate
    <2> QED BY <1>0, <2>1, <2>2, OneSpeaks
  <1>7. CASE StreamEnds(t) \/ StreamBreaks(t)
    <2>1. /\ pc[t] = "streaming" /\ UNCHANGED <<plan, at, rounds>>
          /\ \E l \in {"mediate", "done"} : pc' = [pc EXCEPT ![t] = l]
      BY <1>7 DEF StreamEnds, StreamBreaks, Streaming, End
    <2>2. voices' = voices \/ Emit(t, Buffered(t))
      BY <1>7 DEF StreamEnds, StreamBreaks, FlushCandidate
    <2> QED BY <2>1, <2>2, NothingSaid, OneSpeaks
  <1> QED BY <1>1, <1>2, <1>3, <1>4, <1>5, <1>6, <1>7 DEF Answer

\* A refused round ends: what it said is said in an earlier round from now on.
LEMMA MediateAlone ==
    ASSUME Served, OneEach, NEW t \in Turns, Mediate(t)
    PROVE  OneEach'
  <1>1. UNCHANGED <<plan, at, voices>>
    BY DEF Mediate
  <1>2. CASE rounds' = rounds /\ \E how : End(t, how)
    BY <1>1, <1>2, NothingSaid DEF End
  <1>3. CASE ~(rounds' = rounds /\ \E how : End(t, how))
    <2>1. /\ rounds' = [rounds EXCEPT ![t] = @ + 1]
          /\ pc' = [pc EXCEPT ![t] = "begin"]
      BY <1>3 DEF Mediate
    <2>2. /\ pc'[t] = "begin" /\ rounds'[t] = rounds[t] + 1 /\ rounds[t] \in Int
          /\ \A u \in Turns : u # t => pc'[u] = pc[u] /\ rounds'[u] = rounds[u]
      BY <2>1 DEF Served, Shapes
    <2>3. ASSUME NEW u \in Turns, u # t
          PROVE  Alone(u)'
      BY <1>1, <2>2, <2>3 DEF OneEach, Alone, Ref
    <2>4. Alone(t)'
      BY <1>1, <2>2 DEF OneEach, Alone, Mute
    <2> QED BY <1>1, <2>3, <2>4 DEF OneEach
  <1> QED BY <1>2, <1>3

LEMMA StepAlone ==
    ASSUME Served, OneEach, [Next]_vars
    PROVE  OneEach'
  <1>1. ASSUME UNCHANGED <<pc, plan, at, rounds, voices>>
        PROVE  OneEach'
    BY <1>1 DEF OneEach, Alone, Ref
  <1>2. ASSUME NEW t \in Turns, Begin(t)
        PROVE  OneEach'
    <2>1. /\ pc[t] = "begin" /\ pc' = [pc EXCEPT ![t] = "listing"]
          /\ UNCHANGED <<rounds, voices>>
      BY <1>2 DEF Begin
    <2>2. \A u \in Turns : u # t => plan'[u] = plan[u] /\ at'[u] = at[u]
      BY <1>2 DEF Begin, Served, Shapes
    <2> QED BY <2>1, <2>2, NothingSaid DEF Mute
  <1>3. ASSUME NEW t \in Turns, ResolveTurn(t)
        PROVE  OneEach'
    <2>1. /\ pc[t] = "listing" /\ UNCHANGED <<at, rounds, voices>>
          /\ \E l \in {"invoke", "done"} : pc' = [pc EXCEPT ![t] = l]
      BY <1>3 DEF ResolveTurn
    <2>2. \A u \in Turns : u # t => plan'[u] = plan[u]
      BY <1>3 DEF ResolveTurn, Served, Shapes
    <2> QED BY <2>1, <2>2, NothingSaid DEF Mute
  <1>4. ASSUME NEW t \in Turns, List(t) \/ Cancel(t)
        PROVE  OneEach'
    BY <1>1, <1>4 DEF List, ListModels, ListAnswers, ListFails, Fetched, Cancel, turn
  <1>5. CASE OffersChange \/ Tick \/ UNCHANGED vars
    BY <1>1, <1>5 DEF OffersChange, Tick, turn, vars
  <1> QED BY <1>2, <1>3, <1>4, <1>5, InvokeSilent, AnswerAlone, MediateAlone
          DEF Next, Serve

\* In one round of a turn the client reads the text of one model: invoke falls back
\* only before anything was streamed, and the router speaks with another model only
\* after every call of the round before was refused.
THEOREM OneModelSpeaks == Spec => []OneVoice
  <1>1. Init => OneEach
    BY DEF Init, OneEach, Alone
  <1>2. OneEach => OneVoice
    BY DEF OneEach, Alone, OneVoice
  <1> QED BY <1>1, <1>2, StepAlone, AlwaysServed, PTL DEF Spec

\* After a turn is superseded, no provider is called and nothing is sent for it:
\* each step looks at the token before it calls or emits.
THEOREM SupersededIsQuiet == Spec => QuietAfterCancel
  <1>1. Served /\ [Next]_vars =>
          [\A t \in Turns : cancel[t] /\ called'[t] # <<>> =>
             called'[t] = called[t] /\ (sent'[t] = sent[t] \/ sent'[t] = <<>>)]_vars
    <2> SUFFICES ASSUME Served, Next, NEW t \in Turns, cancel[t],
                        called'[t] # <<>>
                 PROVE  /\ called'[t] = called[t]
                        /\ sent'[t] = sent[t] \/ sent'[t] = <<>>
      OBVIOUS
    <2>0. /\ called = [v \in Turns |-> called[v]]
          /\ sent = [v \in Turns |-> sent[v]]
      BY DEF Served, Shapes
    <2>1. ASSUME NEW u \in Turns, Begin(u)
          PROVE  u # t
      BY <2>0, <2>1 DEF Begin
    <2>2. ASSUME NEW u \in Turns, BeginCall(u) \/ CompleteReturns(u) \/ PushText(u)
                   \/ PushToolCall(u) \/ StreamEnds(u) \/ StreamBreaks(u)
          PROVE  u # t
      BY <2>2 DEF BeginCall, CompleteReturns, PushText, PushToolCall,
         StreamEnds, StreamBreaks, Streaming
    <2>3. ASSUME NEW u \in Turns, u # t
          PROVE  /\ Begin(u) \/ BeginCall(u) => /\ called'[t] = called[t]
                                                /\ sent'[t] = sent[t]
                 /\ CompleteReturns(u) \/ PushText(u) \/ PushToolCall(u)
                    \/ StreamEnds(u) \/ StreamBreaks(u)
                      => called'[t] = called[t] /\ sent'[t] = sent[t]
      BY <2>0, <2>3 DEF Begin, BeginCall, CompleteReturns, Responded, PushText,
         PushToolCall, StreamEnds, StreamBreaks, Streaming, FlushCandidate, Emit
    <2>4. ASSUME NEW u \in Turns, List(u) \/ ResolveTurn(u) \/ Mediate(u) \/ Cancel(u)
          PROVE  UNCHANGED <<called, sent>>
      BY <2>4 DEF List, ListModels, ListAnswers, ListFails, Fetched, turn,
         ResolveTurn, Mediate, Cancel
    <2>5. ASSUME NEW u \in Turns, NEW c, Fail(u, c) \/ GiveUp(u, c)
          PROVE  UNCHANGED <<called, sent>>
      BY <2>5 DEF Fail, GiveUp
    <2>6. ASSUME NEW u \in Turns, NEW i, ModelNew(u, i)
          PROVE  UNCHANGED <<called, sent>>
      BY <2>5, <2>6 DEF ModelNew, AnthropicModelNew, GeminiModelNew,
         OpenAIModelNew, OllamaModelNew, OpenAICompatModelNew, RequireApiKey,
         AgentNew, Goto
    <2>7. ASSUME NEW u \in Turns, Invoke(u), ~BeginCall(u)
          PROVE  UNCHANGED <<called, sent>>
      BY <2>5, <2>6, <2>7 DEF Invoke, CancelledBefore, CancelledDuring,
         Superseded, ResolveModel, Relist, CallFails, Goto
    <2>8. ASSUME NEW u \in Turns,
                 InternalTools(u) \/ InternalToolsFail(u) \/ StreamOpens(u) \/ PushUsage(u)
          PROVE  UNCHANGED <<called, sent>>
      BY <2>5, <2>8 DEF InternalTools, InternalToolsFail, StreamOpens, Goto,
         PushUsage, Streaming
    <2>9. OffersChange \/ Tick => UNCHANGED <<called, sent>>
      BY DEF OffersChange, Tick, turn
    <2> QED BY <2>1, <2>2, <2>3, <2>4, <2>7, <2>8, <2>9 DEF Next, Serve, Answer
  <1> QED BY <1>1, AlwaysServed, PTL DEF Spec, QuietAfterCancel

-----------------------------------------------------------------------------
(* Types *)

\* What is offered, and what a cache remembers, are models that may be listed.
Remembered ==
    /\ now \in 0 .. MaxNow /\ changes \in 0 .. MaxChanges
    /\ offers = [i \in Instances |-> offers[i]]
    /\ cache = [i \in Instances |-> cache[i]]
    /\ \A i \in Instances :
          /\ offers[i] \subseteq DOMAIN Models[i]
          /\ cache[i] # None => /\ cache[i].models \subseteq DOMAIN Models[i]
                                /\ cache[i].stored \in 0 .. now

\* A cache is written by a listing only.
LEMMA CacheWrites ==
    ASSUME NEW t \in Turns, Serve(t)
    PROVE  /\ UNCHANGED world
           /\ cache' = cache \/ \E i : Remember(i, offers[i])
  <1>1. ASSUME NEW c, Fail(t, c) \/ GiveUp(t, c)
        PROVE  UNCHANGED world
    BY <1>1 DEF Fail, GiveUp
  <1>2. ASSUME NEW i, ModelNew(t, i)
        PROVE  UNCHANGED world
    BY <1>1, <1>2 DEF ModelNew, AnthropicModelNew, GeminiModelNew,
       OpenAIModelNew, OllamaModelNew, OpenAICompatModelNew, RequireApiKey,
       AgentNew, Goto
  <1>3. CASE Begin(t) \/ List(t) \/ ResolveTurn(t) \/ Mediate(t)
    BY <1>3 DEF Begin, List, ListModels, ListAnswers, ListFails, Fetched,
       ResolveTurn, Mediate
  <1>4. CASE Invoke(t)
    BY <1>1, <1>2, <1>4 DEF Invoke, CancelledBefore, CancelledDuring, Superseded,
       ResolveModel, Relist, BeginCall, CallFails, Goto
  <1>5. CASE Answer(t)
    BY <1>1, <1>5 DEF Answer, CompleteReturns, Responded, InternalTools,
       InternalToolsFail, StreamOpens, Goto, Streaming, PushText, PushToolCall,
       PushUsage, StreamEnds, StreamBreaks
  <1> QED BY <1>3, <1>4, <1>5 DEF Serve

LEMMA StepRemembered ==
    ASSUME Remembered, [Next]_vars
    PROVE  Remembered'
  <1> DEFINE Fits(o, c, n) ==
               \A i \in Instances :
                 /\ o[i] \subseteq DOMAIN Models[i]
                 /\ c[i] # None => /\ c[i].models \subseteq DOMAIN Models[i]
                                   /\ c[i].stored \in 0 .. n
  <1>1. PICK I : I = Instances
    OBVIOUS
  <1>2. /\ now \in 0 .. MaxNow /\ changes \in 0 .. MaxChanges
        /\ offers = [i \in I |-> offers[i]] /\ cache = [i \in I |-> cache[i]]
        /\ Fits(offers, cache, now)
    BY <1>1 DEF Remembered
  <1>3. SUFFICES /\ now' \in 0 .. MaxNow /\ changes' \in 0 .. MaxChanges
                 /\ offers' = [i \in I |-> offers'[i]]
                 /\ cache' = [i \in I |-> cache'[i]]
                 /\ \A i \in I :
                      /\ offers'[i] \subseteq DOMAIN Models[i]
                      /\ cache'[i] # None =>
                           /\ cache'[i].models \subseteq DOMAIN Models[i]
                           /\ cache'[i].stored \in 0 .. now'
    BY <1>1 DEF Remembered, Instances, LocalOllama, BuiltIn, CompatInstances
  <1>4. CASE \E t \in Turns : Serve(t)
    <2>1. UNCHANGED <<now, offers, changes>>
      BY <1>4, CacheWrites DEF world
    <2>2. CASE cache' = cache
      BY <1>1, <1>2, <2>1, <2>2
    <2>3. CASE \E i : Remember(i, offers[i])
      <3>0. PICK j : cache' = [cache EXCEPT ![j] =
                                  [models |-> offers[j], stored |-> now]]
        BY <2>3 DEF Remember
      <3>1. PICK r : /\ r = [models |-> offers[j], stored |-> now]
                     /\ cache' = [cache EXCEPT ![j] = r]
        BY <3>0
      <3>2. r.models = offers[j] /\ r.stored = now /\ now \in 0 .. now
        BY <1>2, <3>1, BoundsTyped
      <3>3. ASSUME NEW i \in I
            PROVE  cache'[i] = IF i = j THEN r ELSE cache[i]
        BY <1>2, <3>1
      <3> QED BY <1>1, <1>2, <2>1, <3>1, <3>2, <3>3
    <2> QED BY <1>4, <2>2, <2>3, CacheWrites
  <1>5. CASE (\E t \in Turns : Cancel(t)) \/ UNCHANGED vars
    <2>1. UNCHANGED <<now, offers, changes, cache>>
      BY <1>5 DEF Cancel, world, vars
    <2> QED BY <1>1, <1>2, <2>1
  <1>6. CASE OffersChange
    <2>0. PICK j \in I : \E m \in DOMAIN Models[j] :
             offers' = [offers EXCEPT ![j] = IF m \in @ THEN @ \ {m} ELSE @ \cup {m}]
      BY <1>1, <1>6 DEF OffersChange
    <2>1. PICK m \in DOMAIN Models[j] :
             offers' = [offers EXCEPT ![j] = IF m \in @ THEN @ \ {m} ELSE @ \cup {m}]
      BY <2>0
    <2>2. /\ changes < MaxChanges /\ changes' = changes + 1
          /\ UNCHANGED <<now, cache>>
      BY <1>6 DEF OffersChange
    <2>3. changes' \in 0 .. MaxChanges
      BY <1>2, <2>2, BoundsTyped
    <2>4. offers' = [i \in I |-> offers'[i]]
          /\ \A i \in I : offers'[i] \subseteq DOMAIN Models[i]
      <3>1. \A i \in I : offers'[i] \subseteq offers[i] \cup (IF i = j THEN {m} ELSE {})
        BY <1>2, <2>1
      <3>2. \A i \in I : offers[i] \subseteq DOMAIN Models[i]
        BY <1>1, <1>2
      <3> QED BY <1>2, <2>1, <3>1, <3>2
    <2> QED BY <1>1, <1>2, <2>2, <2>3, <2>4
  <1>7. CASE Tick
    <2>1. /\ now < MaxNow /\ now' = now + 1
          /\ UNCHANGED <<offers, changes, cache>>
      BY <1>7 DEF Tick
    <2>2. now' \in 0 .. MaxNow /\ \A n \in 0 .. now : n \in 0 .. now'
      BY <1>2, <2>1, BoundsTyped
    <2> QED BY <1>1, <1>2, <2>1, <2>2
  <1> QED BY <1>4, <1>5, <1>6, <1>7 DEF Next

LEMMA AlwaysRemembered == Spec => []Remembered
  <1>1. Init => Remembered
    <2> SUFFICES ASSUME Init PROVE Remembered
      OBVIOUS
    <2>1. now = 0 /\ changes = 0 /\ 0 \in 0 .. MaxNow /\ 0 \in 0 .. MaxChanges
      BY BoundsTyped DEF Init
    <2> QED BY <2>1 DEF Init, Remembered
  <1> QED BY <1>1, StepRemembered, PTL DEF Spec

\* Every variable keeps its type; a turn that talks to a model is at a place of
\* the chain of its plan.
THEOREM RoutingTypeCorrect == Spec => []TypeOK
  <1>1. Served /\ Remembered => TypeOK
    <2> SUFFICES ASSUME Served, Remembered PROVE TypeOK
      OBVIOUS
    <2>1. ASSUME NEW t \in Turns
          PROVE  /\ pc[t] \in Places
                 /\ pc[t] \in Invoking => at[t] \in DOMAIN plan[t].chain
                 /\ inner[t] \in 0 .. MaxInternalTurns
                 /\ calls[t] \subseteq Tools /\ rounds[t] \in 0 .. MaxRounds
      BY DEF Served, Shapes, Sound, Planned, Chained
    <2> QED BY <2>1 DEF TypeOK, Remembered, Places, Invoking
  <1> QED BY <1>1, AlwaysServed, AlwaysRemembered, PTL

-----------------------------------------------------------------------------
(* The context of a plan. Every stage of the resolver that builds it is a   *)
(* fold; the set that its steps stay in is the invariant of the loop.       *)

\* partition, candidate after candidate.
Picked(part, c, required) == IF c.required = required THEN Append(part, c) ELSE part

LEMMA PartSoFar ==
    ASSUME NEW S, NEW cs \in Seq(S), NEW required
    PROVE  \E f \in [0 .. Len(cs) -> Seq(S)] :
             /\ f[0] = <<>> /\ Part(cs, required) = f[Len(cs)]
             /\ \A k \in 1 .. Len(cs) : f[k] = Picked(f[k - 1], cs[k], required)
  <1> DEFINE n == Len(cs)
             V == Seq(S)
             pick(part, c) == Picked(part, c, required)
             step == [p \in (1 .. n) \X V |-> pick(p[2], cs[p[1]])]
             Table(c) == c = [t \in SUBSET (1 .. n) |->
                                IF t = {} THEN <<>>
                                ELSE pick(c[t \ {Max(t)}], cs[Max(t)])]
             table == CHOOSE c : Table(c)
  <1>1. n \in Nat /\ DOMAIN cs = 1 .. n /\ \A k \in 1 .. n : cs[k] \in S
    BY LenProperties, ElementOfSeq
  <1>2. Part(cs, required) = table[1 .. n]
    BY <1>1 DEF Part, Picked, FoldLeft, MapThenFoldSet
  <1>3. ASSUME NEW part \in V, NEW c \in S
        PROVE  pick(part, c) \in V
    BY <1>3, AppendProperties DEF Picked
  <1> HIDE DEF n, pick, V
  <1>4. step \in Steps(n, V) /\ <<>> \in V
    BY <1>1, <1>3 DEF Steps, V
  <1>5. Table(table)
    <2>1. PICK c : FoldsElements(c, n, V, <<>>, step)
      BY <1>1, <1>4, FoldElements
    <2>2. Table(c)
      BY <2>1 DEF FoldsElements
    <2> HIDE DEF Table
    <2> QED BY <2>2
  <1>6. PICK f : Results(f, n, V, <<>>, step, table[1 .. n])
    <2> HIDE DEF table
    <2>1. table[{}] = <<>>
      BY <1>5
    <2> QED BY <1>1, <1>4, <1>5, <2>1, FoldStays
  <1> HIDE DEF table
  <1>7. ASSUME NEW k \in 1 .. n
        PROVE  f[k] = pick(f[k - 1], cs[k])
    <2>1. k - 1 \in 0 .. n
      BY <1>1
    <2>2. f[k] = step[<<k, f[k - 1]>>] /\ f[k - 1] \in V
      BY <1>6, <2>1 DEF Results
    <2> QED BY <2>2
  <1> QED BY <1>2, <1>6, <1>7 DEF n, V, pick, Results

LEMMA PartTyped ==
    ASSUME NEW S, NEW cs \in Seq(S), NEW required
    PROVE  Part(cs, required) \in Seq(S)
  <1>1. PICK f \in [0 .. Len(cs) -> Seq(S)] : Part(cs, required) = f[Len(cs)]
    BY PartSoFar
  <1>2. Len(cs) \in 0 .. Len(cs)
    BY LenProperties
  <1> QED BY <1>1, <1>2

\* dedupe, candidate after candidate.
Doubles(seen, c) == {i \in DOMAIN seen : DedupeKey(seen[i]) = DedupeKey(c)}

Merged(seen, c) ==
    CASE Doubles(seen, c) = {} -> Append(seen, c)
      [] OTHER -> [i \in DOMAIN seen |->
                    IF i \in Doubles(seen, c) /\ Better(c, seen[i]) THEN c ELSE seen[i]]

LEMMA DedupeSoFar ==
    ASSUME NEW S, NEW cs \in Seq(S)
    PROVE  \E f \in [0 .. Len(cs) -> Seq(S)] :
             /\ f[0] = <<>> /\ Dedupe(cs) = f[Len(cs)]
             /\ \A k \in 1 .. Len(cs) : f[k] = Merged(f[k - 1], cs[k])
  <1> DEFINE n == Len(cs)
             V == Seq(S)
             step == [p \in (1 .. n) \X V |-> Merged(p[2], cs[p[1]])]
             Table(c) == c = [t \in SUBSET (1 .. n) |->
                                IF t = {} THEN <<>>
                                ELSE Merged(c[t \ {Max(t)}], cs[Max(t)])]
             table == CHOOSE c : Table(c)
  <1>1. n \in Nat /\ DOMAIN cs = 1 .. n /\ \A k \in 1 .. n : cs[k] \in S
    BY LenProperties, ElementOfSeq
  <1>2. Dedupe(cs) = table[1 .. n]
    BY <1>1 DEF Dedupe, Merged, Doubles, FoldLeft, MapThenFoldSet
  <1>3. ASSUME NEW seen \in V, NEW c \in S
        PROVE  Merged(seen, c) \in V
    <2>1. Append(seen, c) \in V
      BY AppendProperties
    <2>2. DOMAIN seen = 1 .. Len(seen) /\ Len(seen) \in Nat
          /\ \A i \in DOMAIN seen : seen[i] \in S
      BY LenProperties, ElementOfSeq
    <2>3. [i \in DOMAIN seen |->
             IF i \in Doubles(seen, c) /\ Better(c, seen[i]) THEN c ELSE seen[i]] \in V
      BY <2>2 DEF V
    <2> QED BY <2>1, <2>3 DEF Merged
  <1> HIDE DEF n, V
  <1>4. step \in Steps(n, V) /\ <<>> \in V
    BY <1>1, <1>3 DEF Steps, V
  <1>5. Table(table)
    <2>1. PICK c : FoldsElements(c, n, V, <<>>, step)
      BY <1>1, <1>4, FoldElements
    <2>2. Table(c)
      BY <2>1 DEF FoldsElements
    <2> HIDE DEF Table
    <2> QED BY <2>2
  <1>6. PICK f : Results(f, n, V, <<>>, step, table[1 .. n])
    <2> HIDE DEF table
    <2>1. table[{}] = <<>>
      BY <1>5
    <2> QED BY <1>1, <1>4, <1>5, <2>1, FoldStays
  <1> HIDE DEF table
  <1>7. ASSUME NEW k \in 1 .. n
        PROVE  f[k] = Merged(f[k - 1], cs[k])
    <2>1. k - 1 \in 0 .. n
      BY <1>1
    <2>2. f[k] = step[<<k, f[k - 1]>>] /\ f[k - 1] \in V
      BY <1>6, <2>1 DEF Results
    <2> QED BY <2>2
  <1> QED BY <1>2, <1>6, <1>7 DEF n, V, Results

LEMMA DedupeTyped ==
    ASSUME NEW S, NEW cs \in Seq(S)
    PROVE  Dedupe(cs) \in Seq(S)
  <1>1. PICK f \in [0 .. Len(cs) -> Seq(S)] : Dedupe(cs) = f[Len(cs)]
    BY DedupeSoFar
  <1>2. Len(cs) \in 0 .. Len(cs)
    BY LenProperties
  <1> QED BY <1>1, <1>2

\* The sort keeps elements.
LEMMA RankedTyped ==
    ASSUME NEW S, NEW cs \in Seq(S)
    PROVE  Ranked(cs) \in Seq(S)
  <1> DEFINE n == Len(cs)
             V == Seq(S)
             lower(ranked, c) == {i \in DOMAIN ranked : ranked[i].score < c.score}
             place(ranked, c) == IF lower(ranked, c) = {} THEN Append(ranked, c)
                                 ELSE InsertAt(ranked, Min(lower(ranked, c)), c)
             step == [p \in (1 .. n) \X V |-> place(p[2], cs[p[1]])]
             Table(c) == c = [t \in SUBSET (1 .. n) |->
                                IF t = {} THEN <<>>
                                ELSE place(c[t \ {Max(t)}], cs[Max(t)])]
             table == CHOOSE c : Table(c)
  <1>1. n \in Nat /\ DOMAIN cs = 1 .. n /\ \A k \in 1 .. n : cs[k] \in S
    BY LenProperties, ElementOfSeq
  <1>2. Ranked(cs) = table[1 .. n]
    BY <1>1 DEF Ranked, FoldLeft, MapThenFoldSet
  <1>3. ASSUME NEW ranked \in V, NEW c \in S
        PROVE  place(ranked, c) \in V
    <2>1. Append(ranked, c) \in V
      BY AppendProperties
    <2>2. ASSUME lower(ranked, c) # {}
          PROVE  InsertAt(ranked, Min(lower(ranked, c)), c) \in V
      <3>1. /\ DOMAIN ranked = 1 .. Len(ranked) /\ Len(ranked) \in Nat
            /\ \A i \in DOMAIN ranked : ranked[i] \in S
        BY LenProperties, ElementOfSeq
      <3>2. lower(ranked, c) \subseteq 1 .. Len(ranked)
        BY <3>1
      <3> HIDE DEF lower
      <3> DEFINE low == lower(ranked, c)
      <3>3. Min(low) \in low
        <4>1. low \subseteq Nat /\ low # {}
          BY <2>2, <3>1, <3>2
        <4> HIDE DEF low
        <4> QED BY <4>1, Least DEF Min
      <3>4. Min(low) \in 1 .. Len(ranked)
        BY <3>2, <3>3
      <3>5. /\ SubSeq(ranked, 1, Min(low) - 1) \in Seq(S)
            /\ SubSeq(ranked, Min(low), Len(ranked)) \in Seq(S)
            /\ <<c>> \in Seq(S)
        <4>1. PICK m \in 1 .. Len(ranked) : m = Min(low)
          BY <3>4
        <4>2. /\ \A i \in 1 .. m - 1 : ranked[i] \in S
              /\ \A i \in m .. Len(ranked) : ranked[i] \in S
          BY <3>1
        <4> QED BY <3>1, <4>1, <4>2, SubSeqProperties
      <3> HIDE DEF low
      <3> QED BY <3>5, ConcatProperties DEF InsertAt, low
    <2> QED BY <2>1, <2>2
  <1> HIDE DEF n, lower, place, V
  <1>4. step \in Steps(n, V) /\ <<>> \in V
    BY <1>1, <1>3 DEF Steps, V
  <1>5. Table(table)
    <2>1. PICK c : FoldsElements(c, n, V, <<>>, step)
      BY <1>1, <1>4, FoldElements
    <2>2. Table(c)
      BY <2>1 DEF FoldsElements
    <2> HIDE DEF Table
    <2> QED BY <2>2
  <1>6. table[1 .. n] \in V
    <2> HIDE DEF table
    <2>1. table[{}] = <<>>
      BY <1>5
    <2> QED BY <1>1, <1>4, <1>5, <2>1, FoldStays, ZenonT(40)
  <1> QED BY <1>2, <1>6 DEF V

\* The tokens of a context, one candidate after the other.
LEMMA TokensSoFar ==
    ASSUME NEW S, NEW cs \in Seq(S),
           \A c \in S : Size[c.content] \in Nat
    PROVE  \E f \in [0 .. Len(cs) -> Nat] :
             /\ f[0] = 0 /\ Tokens(cs) = f[Len(cs)]
             /\ \A k \in 1 .. Len(cs) : f[k] = f[k - 1] + Size[cs[k].content]
  <1> DEFINE n == Len(cs)
             V == Nat
             add(sum, c) == sum + Size[c.content]
             step == [p \in (1 .. n) \X V |-> add(p[2], cs[p[1]])]
             Table(c) == c = [t \in SUBSET (1 .. n) |->
                                IF t = {} THEN 0
                                ELSE add(c[t \ {Max(t)}], cs[Max(t)])]
             table == CHOOSE c : Table(c)
  <1>1. n \in Nat /\ DOMAIN cs = 1 .. n /\ \A k \in 1 .. n : cs[k] \in S
    BY LenProperties, ElementOfSeq
  <1>2. Tokens(cs) = table[1 .. n]
    BY <1>1 DEF Tokens, FoldLeft, MapThenFoldSet
  <1>3. ASSUME NEW sum \in V, NEW c \in S
        PROVE  add(sum, c) \in V
    OBVIOUS
  <1> HIDE DEF n, add, V
  <1>4. step \in Steps(n, V) /\ 0 \in V
    BY <1>1, <1>3 DEF Steps, V
  <1>5. Table(table)
    <2>1. PICK c : FoldsElements(c, n, V, 0, step)
      BY <1>1, <1>4, FoldElements
    <2>2. Table(c)
      BY <2>1 DEF FoldsElements
    <2> HIDE DEF Table
    <2> QED BY <2>2
  <1>6. PICK f : Results(f, n, V, 0, step, table[1 .. n])
    <2> HIDE DEF table
    <2>1. table[{}] = 0
      BY <1>5
    <2> QED BY <1>1, <1>4, <1>5, <2>1, FoldStays
  <1> HIDE DEF table
  <1>7. ASSUME NEW k \in 1 .. n
        PROVE  f[k] = f[k - 1] + Size[cs[k].content]
    <2>1. k - 1 \in 0 .. n
      BY <1>1
    <2>2. f[k] = step[<<k, f[k - 1]>>] /\ f[k - 1] \in V
      BY <1>6, <2>1 DEF Results
    <2> QED BY <2>2 DEF add
  <1> QED BY <1>2, <1>6, <1>7 DEF n, V, Results


\* One more candidate costs its tokens.
LEMMA TokensAppend ==
    ASSUME NEW S, NEW cs \in Seq(S), NEW c \in S,
           \A d \in S : Size[d.content] \in Nat
    PROVE  Tokens(cs) \in Nat /\ Tokens(Append(cs, c)) = Tokens(cs) + Size[c.content]
  <1> DEFINE n == Len(cs)
             more == Append(cs, c)
  <1>1. PICK f \in [0 .. n -> Nat] :
           /\ f[0] = 0 /\ Tokens(cs) = f[n]
           /\ \A k \in 1 .. n : f[k] = f[k - 1] + Size[cs[k].content]
    BY TokensSoFar
  <1>2. /\ more \in Seq(S) /\ Len(more) = n + 1 /\ more[n + 1] = c
        /\ n \in Nat /\ \A k \in 1 .. n : more[k] = cs[k]
    BY AppendProperties, LenProperties
  <1>3. PICK g \in [0 .. n + 1 -> Nat] :
           /\ g[0] = 0 /\ Tokens(more) = g[n + 1]
           /\ \A k \in 1 .. n + 1 : g[k] = g[k - 1] + Size[more[k].content]
    <2> HIDE DEF n, more
    <2>1. \E g \in [0 .. Len(more) -> Nat] :
             /\ g[0] = 0 /\ Tokens(more) = g[Len(more)]
             /\ \A k \in 1 .. Len(more) : g[k] = g[k - 1] + Size[more[k].content]
      BY <1>2, TokensSoFar
    <2> QED BY <1>2, <2>1
  <1> HIDE DEF n, more
  <1> DEFINE agree == {k \in 0 .. n : f[k] = g[k]}
  <1>4. 0 .. n \subseteq agree
    <2>1. 0 \in agree
      BY <1>1, <1>2, <1>3
    <2>2. ASSUME NEW k \in 0 .. n - 1, k \in agree
          PROVE  k + 1 \in agree
      <3>1. k + 1 \in 1 .. n /\ k + 1 \in 1 .. n + 1 /\ (k + 1) - 1 = k /\ k + 1 \in 0 .. n
        BY <1>2
      <3>2. /\ f[k + 1] = f[k] + Size[cs[k + 1].content]
            /\ g[k + 1] = g[k] + Size[more[k + 1].content]
        BY <1>1, <1>3, <3>1
      <3> QED BY <1>2, <2>2, <3>1, <3>2
    <2> HIDE DEF agree
    <2> QED BY <1>2, <2>1, <2>2, UpTo
  <1>5. f[n] = g[n] /\ f[n] \in Nat
    BY <1>2, <1>4
  <1>6. g[n + 1] = g[n] + Size[more[n + 1].content]
    <2>1. n + 1 \in 1 .. n + 1 /\ (n + 1) - 1 = n
      BY <1>2
    <2> QED BY <1>3, <2>1
  <1> QED BY <1>1, <1>2, <1>3, <1>5, <1>6 DEF more

\* Appended before or after what comes first.
LEMMA AppendLater ==
    ASSUME NEW S, NEW s \in Seq(S), NEW u \in Seq(S), NEW c \in S
    PROVE  s \o Append(u, c) = Append(s \o u, c)
  <1> DEFINE l == s \o Append(u, c)
             r == Append(s \o u, c)
  <1>1. Len(s) \in Nat /\ Len(u) \in Nat
    BY LenProperties
  <1>2. /\ Append(u, c) \in Seq(S) /\ Len(Append(u, c)) = Len(u) + 1
        /\ \A i \in 1 .. Len(u) : Append(u, c)[i] = u[i]
        /\ Append(u, c)[Len(u) + 1] = c
    BY AppendProperties
  <1>3. /\ s \o u \in Seq(S) /\ Len(s \o u) = Len(s) + Len(u)
        /\ \A i \in 1 .. Len(s) + Len(u) :
             (s \o u)[i] = IF i <= Len(s) THEN s[i] ELSE u[i - Len(s)]
    BY ConcatProperties
  <1>4. /\ l \in Seq(S) /\ Len(l) = Len(s) + Len(u) + 1
        /\ \A i \in 1 .. Len(s) + Len(u) + 1 :
             l[i] = IF i <= Len(s) THEN s[i] ELSE Append(u, c)[i - Len(s)]
    BY <1>1, <1>2, ConcatProperties
  <1>5. /\ r \in Seq(S) /\ Len(r) = Len(s) + Len(u) + 1
        /\ \A i \in 1 .. Len(s) + Len(u) : r[i] = (s \o u)[i]
        /\ r[Len(s) + Len(u) + 1] = c
    BY <1>1, <1>3, AppendProperties
  <1> HIDE DEF l, r
  <1>6. ASSUME NEW i \in 1 .. Len(l)
        PROVE  l[i] = r[i]
    <2>1. CASE i <= Len(s)
      <3>1. i \in 1 .. Len(s) + Len(u)
        BY <1>1, <1>4, <2>1
      <3>2. l[i] = s[i] /\ r[i] = (s \o u)[i] /\ (s \o u)[i] = s[i]
        BY <1>3, <1>4, <1>5, <2>1, <3>1
      <3> QED BY <3>2
    <2>2. CASE i > Len(s) /\ i <= Len(s) + Len(u)
      <3>1. i - Len(s) \in 1 .. Len(u)
        BY <1>1, <2>2
      <3>2. l[i] = u[i - Len(s)]
        BY <1>1, <1>2, <1>4, <2>2, <3>1
      <3>3. r[i] = u[i - Len(s)]
        BY <1>1, <1>3, <1>5, <2>2
      <3> QED BY <3>2, <3>3
    <2>3. CASE i = Len(s) + Len(u) + 1
      <3>1. i - Len(s) = Len(u) + 1 /\ ~(i <= Len(s))
        BY <1>1, <2>3
      <3> QED BY <1>2, <1>4, <1>5, <2>3, <3>1
    <2> QED BY <1>1, <1>4, <2>1, <2>2, <2>3
  <1> QED BY <1>4, <1>5, <1>6, SeqEqual DEF l, r

\* What is kept fits, together with what was there before.
LEMMA KeepFits ==
    ASSUME NEW S, NEW cs \in Seq(S), NEW had \in Seq(S),
           \A c \in S : Size[c.content] \in Nat,
           NEW budget \in Nat, Tokens(had) \in Nat, Tokens(had) <= budget
    PROVE  LET kept == Keep(cs, Tokens(had), budget)
           IN  /\ kept.included \in Seq(S)
               /\ Tokens(had \o kept.included) <= budget
  <1> DEFINE n == Len(cs)
             V == {k \in [included : Seq(S), excluded : Seq(S), used : Nat] :
                     /\ k.used = Tokens(had \o k.included)
                     /\ k.used <= budget}
             none == [included |-> <<>>, excluded |-> <<>>, used |-> Tokens(had)]
             keep(k, c) == IF k.used + Size[c.content] <= budget
                           THEN [k EXCEPT !.included = Append(@, c),
                                          !.used = @ + Size[c.content]]
                           ELSE [k EXCEPT !.excluded = Append(@, c)]
             step == [p \in (1 .. n) \X V |-> keep(p[2], cs[p[1]])]
             Table(c) == c = [t \in SUBSET (1 .. n) |->
                                IF t = {} THEN none
                                ELSE keep(c[t \ {Max(t)}], cs[Max(t)])]
             table == CHOOSE c : Table(c)
  <1>1. n \in Nat /\ DOMAIN cs = 1 .. n /\ \A k \in 1 .. n : cs[k] \in S
    BY LenProperties, ElementOfSeq
  <1>2. Keep(cs, Tokens(had), budget) = table[1 .. n]
    BY <1>1 DEF Keep, FoldLeft, MapThenFoldSet
  <1>3. ASSUME NEW k \in V, NEW c \in S
        PROVE  keep(k, c) \in V
    <2>1. /\ k.included \in Seq(S) /\ k.excluded \in Seq(S) /\ k.used \in Nat
          /\ k.used = Tokens(had \o k.included) /\ k.used <= budget
          /\ k = [included |-> k.included, excluded |-> k.excluded, used |-> k.used]
          /\ Size[c.content] \in Nat
      OBVIOUS
    <2>2. /\ Append(k.included, c) \in Seq(S) /\ Append(k.excluded, c) \in Seq(S)
          /\ had \o k.included \in Seq(S)
      BY <2>1, AppendProperties, ConcatProperties
    <2>3. had \o Append(k.included, c) = Append(had \o k.included, c)
      BY <2>1, AppendLater, SMTT(30)
    <2>4. Tokens(had \o Append(k.included, c)) = k.used + Size[c.content]
      BY <2>1, <2>2, <2>3, TokensAppend
    <2>5. CASE k.used + Size[c.content] <= budget
      <3>1. keep(k, c) = [included |-> Append(k.included, c), excluded |-> k.excluded,
                          used |-> k.used + Size[c.content]]
        BY <2>1, <2>5
      <3> HIDE DEF keep
      <3>2. k.used + Size[c.content] \in Nat
        BY <2>1
      <3>3. keep(k, c) \in [included : Seq(S), excluded : Seq(S), used : Nat]
        BY <2>1, <2>2, <3>1, <3>2
      <3>4. /\ keep(k, c).used = k.used + Size[c.content]
            /\ keep(k, c).included = Append(k.included, c)
        BY <3>1
      <3> QED BY <2>4, <2>5, <3>3, <3>4
    <2>6. CASE ~(k.used + Size[c.content] <= budget)
      BY <2>1, <2>2, <2>6
    <2> QED BY <2>5, <2>6
  <1>4. none \in V
    <2>1. had \o <<>> = had /\ <<>> \in Seq(S)
      BY ConcatEmptySeq
    <2>2. none.included = <<>> /\ none.used = Tokens(had)
      OBVIOUS
    <2>3. none \in [included : Seq(S), excluded : Seq(S), used : Nat]
      BY <2>1
    <2> HIDE DEF none
    <2> QED BY <2>1, <2>2, <2>3
  <1> HIDE DEF n, keep, none, V
  <1>5. step \in Steps(n, V)
    BY <1>1, <1>3 DEF Steps
  <1>6. Table(table)
    <2>1. PICK c : FoldsElements(c, n, V, none, step)
      BY <1>1, <1>4, <1>5, FoldElements
    <2>2. Table(c)
      BY <2>1 DEF FoldsElements
    <2> HIDE DEF Table
    <2> QED BY <2>2
  <1>7. table[1 .. n] \in V
    <2> HIDE DEF table
    <2>1. table[{}] = none
      BY <1>6
    <2>2. ASSUME NEW t \in SUBSET (1 .. n), t # {}, Max(t) \in 1 .. n, table[t \ {Max(t)}] \in V
          PROVE  table[t] = step[<<Max(t), table[t \ {Max(t)}]>>]
      <3>1. table[t] = keep(table[t \ {Max(t)}], cs[Max(t)])
        BY <1>6, <2>2
      <3>2. step[<<Max(t), table[t \ {Max(t)}]>>] = keep(table[t \ {Max(t)}], cs[Max(t)])
        BY <2>2
      <3> QED BY <3>1, <3>2
    <2> HIDE DEF step, Table
    <2> QED BY <1>1, <1>4, <1>5, <2>1, <2>2, FoldStays
  <1> QED BY <1>2, <1>7 DEF V

\* What finalize returns: what is required, and what fits beside it.
LEMMA FinalizeParts ==
    ASSUME NEW S, NEW cs \in Seq(S), \A c \in S : Size[c.content] \in Nat,
           NEW m, Budget(m) \in Nat, Finalize(cs, m).error = None
    PROVE  LET required == Required(cs)
               kept == Keep(Ranked(Discardable(cs)), Tokens(required), Budget(m))
           IN  /\ required \in Seq(S) /\ kept.included \in Seq(S)
               /\ Finalize(cs, m).included = required \o kept.included
               /\ Tokens(required \o kept.included) <= Budget(m)
  <1> DEFINE required == Required(cs)
             kept == Keep(Ranked(Discardable(cs)), Tokens(required), Budget(m))
  <1>1. required \in Seq(S) /\ Discardable(cs) \in Seq(S)
    BY PartTyped DEF Required, Discardable
  <1>2. Ranked(Discardable(cs)) \in Seq(S)
    BY <1>1, RankedTyped
  <1>3. Tokens(required) \in Nat
    <2> HIDE DEF required
    <2>1. PICK f \in [0 .. Len(required) -> Nat] : Tokens(required) = f[Len(required)]
      BY <1>1, TokensSoFar
    <2>2. Len(required) \in 0 .. Len(required)
      BY <1>1, LenProperties
    <2> QED BY <2>1, <2>2
  <1>4. ~(Tokens(required) > Budget(m)) /\ Finalize(cs, m).included = required \o kept.included
    <2> HIDE DEF required, kept
    <2>1. Finalize(cs, m) =
            IF Tokens(required) > Budget(m)
            THEN [error |-> "context_window_exceeded", included |-> <<>>, excluded |-> <<>>]
            ELSE [error |-> None, included |-> required \o kept.included,
                  excluded |-> kept.excluded]
      BY DEF Finalize, required, kept
    <2>2. CASE Tokens(required) > Budget(m)
      <3>1. Finalize(cs, m).error = "context_window_exceeded"
        BY <2>1, <2>2
      <3> QED BY <3>1, NoneDistinct
    <2>3. CASE ~(Tokens(required) > Budget(m))
      BY <2>1, <2>3
    <2> QED BY <2>2, <2>3
  <1>5. Tokens(required) <= Budget(m)
    BY <1>3, <1>4
  <1>6. kept.included \in Seq(S) /\ Tokens(required \o kept.included) <= Budget(m)
    <2> HIDE DEF required
    <2> QED BY <1>1, <1>2, <1>3, <1>5, KeepFits
  <1> QED BY <1>1, <1>4, <1>6

LEMMA FinalizeFits ==
    ASSUME NEW S, NEW cs \in Seq(S), \A c \in S : Size[c.content] \in Nat,
           NEW m, Budget(m) \in Nat, Finalize(cs, m).error = None
    PROVE  Tokens(Finalize(cs, m).included) <= Budget(m)
  BY FinalizeParts

\* Candidates whose contents were all estimated.
Estimated(cs) ==
    \E S : cs \in Seq(S) /\ \A c \in S : c.content \in DOMAIN Size /\ c.required \in BOOLEAN

LEMMA EstimatedOf ==
    ASSUME NEW n \in Nat, NEW cs, DOMAIN cs = 1 .. n, cs = [i \in DOMAIN cs |-> cs[i]],
           \A i \in 1 .. n : cs[i].content \in DOMAIN Size /\ cs[i].required \in BOOLEAN
    PROVE  Estimated(cs)
  <1> DEFINE S == {cs[i] : i \in 1 .. n}
  <1>1. \A c \in S : c.content \in DOMAIN Size /\ c.required \in BOOLEAN
    OBVIOUS
  <1>2. \A i \in 1 .. n : cs[i] \in S
    OBVIOUS
  <1> HIDE DEF S
  <1>3. cs \in Seq(S)
    BY <1>2
  <1> QED BY <1>1, <1>3 DEF Estimated

LEMMA EstimatedConcat ==
    ASSUME NEW cs, NEW ds, Estimated(cs), Estimated(ds)
    PROVE  Estimated(cs \o ds)
  <1>1. PICK S : cs \in Seq(S) /\ \A c \in S : c.content \in DOMAIN Size /\ c.required \in BOOLEAN
    BY DEF Estimated
  <1>2. PICK T : ds \in Seq(T) /\ \A c \in T : c.content \in DOMAIN Size /\ c.required \in BOOLEAN
    BY DEF Estimated
  <1>3. cs \in Seq(S \cup T) /\ ds \in Seq(S \cup T)
    <2>1. S \subseteq S \cup T /\ T \subseteq S \cup T
      OBVIOUS
    <2> QED BY <1>1, <1>2, <2>1, SeqMonotonic
  <1>4. cs \o ds \in Seq(S \cup T)
    BY <1>3, ConcatProperties
  <1> QED BY <1>1, <1>2, <1>4 DEF Estimated

LEMMA EstimatedPathless ==
    ASSUME NEW contents \in Seq(DOMAIN Size), NEW cs,
           DOMAIN cs = DOMAIN contents, cs = [i \in DOMAIN cs |-> cs[i]],
           \A i \in DOMAIN contents : cs[i].content = contents[i] /\ cs[i].required \in BOOLEAN
    PROVE  Estimated(cs)
  <1>1. /\ Len(contents) \in Nat /\ DOMAIN contents = 1 .. Len(contents)
        /\ \A i \in DOMAIN contents : contents[i] \in DOMAIN Size
    BY LenProperties, ElementOfSeq
  <1> QED BY <1>1, EstimatedOf

\* Every candidate has a content that was estimated.
LEMMA CandidatesTyped ==
    ASSUME NEW route, NEW a \in ResolveArgs
    PROVE  Estimated(Offered(route, a))
  <1> DEFINE mine == MessageCandidates(route, a)
             attached == FileCandidates(route, a)
             diff == IF a.workspace.diff = None THEN <<>>
                     ELSE Pathless("diff", <<a.workspace.diff.content>>, FALSE, 4000)
             facts == Pathless("memory", a.memory, FALSE, 2000)
             rules == Pathless("instruction", a.instructions, TRUE, 5000)
             invoked == Pathless("skill", a.invoked, TRUE, 5000)
             available == Pathless("skill", a.available, FALSE, 1000)
  <1>1. /\ a.messages \in Seq(RecalledMessage) /\ a.files \in Seq(ContextFile)
        /\ a.memory \in Seq(DOMAIN Size) /\ a.instructions \in Seq(DOMAIN Size)
        /\ a.invoked \in Seq(DOMAIN Size) /\ a.available \in Seq(DOMAIN Size)
        /\ a.workspace \in Workspace
    BY DEF ResolveArgs
  <1>2. Estimated(mine)
    <2>1. /\ Len(a.messages) \in Nat /\ DOMAIN a.messages = 1 .. Len(a.messages)
          /\ \A i \in DOMAIN a.messages : a.messages[i] \in RecalledMessage
      BY <1>1, LenProperties, ElementOfSeq
    <2> DEFINE recalled(i) ==
          LET m == a.messages[i] IN
          Candidate("message", m.path, m.content, IsRestricted(a.privacy, m.path), FALSE,
                    3000 + RecencyBonus(i, Len(a.messages))
                         + PathAffinity(route, a.workspace, m.path))
    <2>2. mine = [i \in DOMAIN a.messages |-> recalled(i)]
      BY DEF MessageCandidates
    <2> HIDE DEF recalled, mine
    <2>3. DOMAIN mine = DOMAIN a.messages /\ mine = [i \in DOMAIN mine |-> mine[i]]
      BY <2>2
    <2>4. \A i \in DOMAIN a.messages : mine[i].content = a.messages[i].content
      BY <2>2 DEF recalled, Candidate
    <2>5. \A i \in DOMAIN a.messages : mine[i].required \in BOOLEAN
      BY <2>2 DEF recalled, Candidate
    <2> QED BY <2>1, <2>2, <2>3, <2>4, <2>5, EstimatedOf DEF RecalledMessage
  <1>3. Estimated(attached)
    <2>1. /\ Len(a.files) \in Nat /\ DOMAIN a.files = 1 .. Len(a.files)
          /\ \A i \in DOMAIN a.files : a.files[i] \in ContextFile
      BY <1>1, LenProperties, ElementOfSeq
    <2>2. DOMAIN attached = DOMAIN a.files
      BY DEF FileCandidates
    <2>3. attached = [i \in DOMAIN attached |-> attached[i]]
      BY DEF FileCandidates
    <2>4. \A i \in DOMAIN a.files : attached[i].content = a.files[i].content
      BY DEF FileCandidates, Candidate
    <2>5. \A i \in DOMAIN a.files : attached[i].required \in BOOLEAN
      BY DEF FileCandidates, Candidate
    <2> HIDE DEF attached
    <2> QED BY <2>1, <2>2, <2>3, <2>4, <2>5, EstimatedOf DEF ContextFile
  <1>4. Estimated(diff)
    <2>1. CASE a.workspace.diff = None
      <3>1. diff = <<>>
        BY <2>1
      <3> HIDE DEF diff
      <3>2. DOMAIN diff = 1 .. 0 /\ diff = [i \in DOMAIN diff |-> diff[i]]
        BY <3>1
      <3>3. 0 \in Nat /\ \A i \in 1 .. 0 :
                              diff[i].content \in DOMAIN Size /\ diff[i].required \in BOOLEAN
        OBVIOUS
      <3> QED BY <3>2, <3>3, EstimatedOf
    <2>2. CASE a.workspace.diff # None
      <3>1. a.workspace.diff.content \in DOMAIN Size
        BY <1>1, <2>2 DEF Workspace, Opt
      <3>2. <<a.workspace.diff.content>> \in Seq(DOMAIN Size)
        BY <3>1
      <3> DEFINE contents == <<a.workspace.diff.content>>
      <3>3. /\ DOMAIN diff = DOMAIN contents /\ diff = [i \in DOMAIN diff |-> diff[i]]
            /\ \A i \in DOMAIN contents : diff[i].content = contents[i]
        BY <2>2 DEF Pathless, Candidate
      <3>4. \A i \in DOMAIN contents : diff[i].required \in BOOLEAN
        BY <2>2 DEF Pathless, Candidate
      <3> HIDE DEF diff, contents
      <3> QED BY <3>2, <3>3, <3>4, EstimatedPathless, ZenonT(40) DEF contents
    <2> QED BY <2>1, <2>2
  <1>5. Estimated(facts)
    <2>1. /\ DOMAIN facts = DOMAIN a.memory /\ facts = [i \in DOMAIN facts |-> facts[i]]
          /\ \A i \in DOMAIN a.memory : facts[i].content = a.memory[i]
      BY DEF Pathless, Candidate
    <2>2. \A i \in DOMAIN a.memory : facts[i].required \in BOOLEAN
      BY DEF Pathless, Candidate
    <2> HIDE DEF facts
    <2> QED BY <1>1, <2>1, <2>2, EstimatedPathless
  <1>6. Estimated(rules)
    <2>1. /\ DOMAIN rules = DOMAIN a.instructions /\ rules = [i \in DOMAIN rules |-> rules[i]]
          /\ \A i \in DOMAIN a.instructions : rules[i].content = a.instructions[i]
      BY DEF Pathless, Candidate
    <2>2. \A i \in DOMAIN a.instructions : rules[i].required \in BOOLEAN
      BY DEF Pathless, Candidate
    <2> HIDE DEF rules
    <2> QED BY <1>1, <2>1, <2>2, EstimatedPathless
  <1>7. Estimated(invoked)
    <2>1. /\ DOMAIN invoked = DOMAIN a.invoked /\ invoked = [i \in DOMAIN invoked |-> invoked[i]]
          /\ \A i \in DOMAIN a.invoked : invoked[i].content = a.invoked[i]
      BY DEF Pathless, Candidate
    <2>2. \A i \in DOMAIN a.invoked : invoked[i].required \in BOOLEAN
      BY DEF Pathless, Candidate
    <2> HIDE DEF invoked
    <2> QED BY <1>1, <2>1, <2>2, EstimatedPathless
  <1>8. Estimated(available)
    <2>1. /\ DOMAIN available = DOMAIN a.available /\ available = [i \in DOMAIN available |-> available[i]]
          /\ \A i \in DOMAIN a.available : available[i].content = a.available[i]
      BY DEF Pathless, Candidate
    <2>2. \A i \in DOMAIN a.available : available[i].required \in BOOLEAN
      BY DEF Pathless, Candidate
    <2> HIDE DEF available
    <2> QED BY <1>1, <2>1, <2>2, EstimatedPathless
  <1>9. Offered(route, a)
          = mine \o facts \o attached \o rules \o invoked \o available \o diff
    BY DEF Offered
  <1> HIDE DEF mine, attached, diff, facts, rules, invoked, available
  <1> QED BY <1>2, <1>3, <1>4, <1>5, <1>6, <1>7, <1>8, <1>9, EstimatedConcat

-----------------------------------------------------------------------------
(* A plan leaves room for the reply *)

\* A plan holds the context that was finalized for its model.
LEMMA ResolveFinalized ==
    ASSUME NEW a \in ResolveArgs, NEW catalog, Resolve(a, catalog).error = None
    PROVE  \E chosen, route :
             LET p == Resolve(a, catalog)
                 context == Finalize(BuildCandidates(route, a), catalog[chosen])
             IN  /\ chosen \in DOMAIN catalog
                 /\ context.error = None /\ p.context = context.included
                 /\ p.model = catalog[chosen] /\ p.route = route
  <1> DEFINE task == Normalize(a.input, a.workspace, a.classification)
             route == MatchPolicy(task, a.routing, a.input.explicit)
             cs == BuildCandidates(route, a)
             restricted == HasRestrictedRequired(cs) \/ a.localOnly
             selection == Select(route, Tokens(Required(cs)), catalog,
                                 a.credentialed, restricted)
             local == restricted \/ (Rule(route) /\ route.rule.localOnly)
             chosen == route.chain[selection.at]
             context == Finalize(cs, catalog[chosen])
             p == Resolve(a, catalog)
  <1>1. /\ a.routing \in RoutingPolicy
        /\ a.input.explicit \in Opt(ModelReference)
    BY DEF ResolveArgs, TaskInput
  <1>2. route.chain \in Seq(ModelReference)
    BY <1>1, RouteChain
  <1>3. /\ selection.error = None /\ context.error = None
        /\ p.context = context.included /\ p.model = catalog[chosen] /\ p.route = route
    <2> HIDE DEF route, selection
    <2>1. \A code : Failed(code).error = code
      BY DEF Failed
    <2>2. p = CASE route.source = "none" -> Failed("no_route")
                [] route.source # "none" /\ selection.error # None -> Failed(selection.error)
                [] OTHER ->
                     IF context.error # None THEN Failed(context.error)
                     ELSE [error |-> None,
                           chain |-> <<chosen>> \o RemainingFallbacks(route.chain, chosen),
                           model |-> catalog[chosen],
                           local |-> local,
                           context |-> context.included,
                           rule |-> route.rule,
                           route |-> route]
      BY DEF Resolve, route, selection
    <2> HIDE DEF chosen, local, p, cs, context
    <2>3. p.error = None
      BY DEF p
    <2> QED BY <2>1, <2>2, <2>3, NoneDistinct
  <1>4. chosen \in DOMAIN catalog
    <2> HIDE DEF route, restricted
    <2> QED BY <1>2, <1>3, SelectUsable
  <1> HIDE DEF route, chosen, p
  <1> QED BY <1>3, <1>4 DEF p

LEMMA ResolveFits ==
    ASSUME NEW a \in ResolveArgs, NEW catalog, Resolve(a, catalog).error = None,
           \A ref \in DOMAIN catalog : /\ catalog[ref].window \in Nat
                                       /\ catalog[ref].output \in Opt(Nat)
    PROVE  LET p == Resolve(a, catalog) IN Tokens(p.context) <= Budget(p.model)
  <1>1. PICK chosen, route :
             LET p == Resolve(a, catalog)
                 context == Finalize(BuildCandidates(route, a), catalog[chosen])
             IN  /\ chosen \in DOMAIN catalog
                 /\ context.error = None /\ p.context = context.included
                 /\ p.model = catalog[chosen]
    BY ResolveFinalized
  <1>2. PICK S : /\ Offered(route, a) \in Seq(S)
                 /\ \A c \in S : c.content \in DOMAIN Size /\ c.required \in BOOLEAN
    BY CandidatesTyped DEF Estimated
  <1>3. BuildCandidates(route, a) \in Seq(S)
    BY <1>2, DedupeTyped DEF BuildCandidates
  <1>4. Budget(catalog[chosen]) \in Nat
    BY <1>1 DEF Budget, DefaultReplyReserve, Opt
  <1>5. \A c \in S : Size[c.content] \in Nat
    BY <1>2, SizeTyped
  <1>6. PICK m, cs : m = catalog[chosen] /\ cs = BuildCandidates(route, a)
    OBVIOUS
  <1>7. cs \in Seq(S) /\ Budget(m) \in Nat /\ Finalize(cs, m).error = None
    BY <1>1, <1>3, <1>4, <1>6
  <1>8. Tokens(Finalize(cs, m).included) <= Budget(m)
    BY <1>5, <1>7, FinalizeFits
  <1> QED BY <1>1, <1>6, <1>8

\* What a turn was told is listed is a set of models of that instance.
Listed ==
    /\ fetch = [t \in Turns |-> [i \in Instances |-> fetch[t][i]]]
    /\ \A t \in Turns : \A i \in Instances : fetch[t][i].models \subseteq DOMAIN Models[i]

\* The facts of a listed model are those of the model.
LEMMA CatalogTyped ==
    ASSUME Listed, NEW t \in Turns, NEW ref \in DOMAIN Catalog(t)
    PROVE  Catalog(t)[ref].window \in Nat /\ Catalog(t)[ref].output \in Opt(Nat)
  <1> DEFINE ok == {i \in Promised : fetch[t][i].state = "ok"}
             list(i) == Listing(i, fetch[t][i].models)
             lists == {list(i) : i \in ok}
             l == CHOOSE m \in lists : ref \in DOMAIN m
  <1>1. \E m \in lists : ref \in DOMAIN m
    BY DEF Catalog
  <1>2. l \in lists /\ ref \in DOMAIN l
    BY <1>1
  <1>3. Catalog(t)[ref] = l[ref]
    BY <1>1 DEF Catalog
  <1> HIDE DEF l
  <1>4. PICK i \in ok : l = list(i)
    BY <1>2
  <1>5. i \in Instances
    BY DEF Promised
  <1>6. /\ l[ref] = Descriptor(i, Models[i][ref.model])
        /\ ref.model \in fetch[t][i].models
    BY <1>2, <1>4 DEF Listing
  <1>7. ref.model \in DOMAIN Models[i]
    BY <1>5, <1>6 DEF Listed
  <1>8. \A facts : facts.window \in Nat /\ facts.output \in Opt(Nat) =>
          /\ Descriptor(i, facts).window \in Nat
          /\ Descriptor(i, facts).output \in Opt(Nat)
    <2> SUFFICES ASSUME NEW facts, facts.window \in Nat, facts.output \in Opt(Nat)
                 PROVE  /\ Descriptor(i, facts).window \in Nat
                        /\ Descriptor(i, facts).output \in Opt(Nat)
      OBVIOUS
    <2>1. \A key, capabilities :
            /\ Described(i, key, capabilities, facts).window \in Nat
            /\ Described(i, key, capabilities, facts).output \in Opt(Nat)
      BY DEF Described
    <2>2. [facts EXCEPT !.output = None].window \in Nat
      OBVIOUS
    <2> QED BY <2>1, <2>2 DEF Descriptor, AnthropicModel, GeminiModel, OllamaModel,
            OpenAIModel, ToDescriptor, Described, Opt
  <1> QED BY <1>3, <1>5, <1>6, <1>7, <1>8, ModelsTyped

\* Listings are written by the tasks of the turn, and cleared by the turn.
LEMMA FetchWrites ==
    ASSUME NEW t \in Turns, Serve(t)
    PROVE  /\ plan' = plan \/ Begin(t) \/ ResolveTurn(t)
           /\ fetch' = fetch \/ Begin(t) \/ ResolveTurn(t) \/ List(t)
  <1>1. ASSUME NEW c, Fail(t, c) \/ GiveUp(t, c)
        PROVE  UNCHANGED <<plan, fetch>>
    BY <1>1 DEF Fail, GiveUp
  <1>2. ASSUME NEW i, ModelNew(t, i)
        PROVE  UNCHANGED <<plan, fetch>>
    BY <1>1, <1>2 DEF ModelNew, AnthropicModelNew, GeminiModelNew,
       OpenAIModelNew, OllamaModelNew, OpenAICompatModelNew, RequireApiKey,
       AgentNew, Goto
  <1>3. CASE List(t)
    BY <1>3 DEF List, ListModels, ListAnswers, ListFails, Fetched, turn
  <1>4. CASE Mediate(t)
    BY <1>4 DEF Mediate
  <1>5. CASE Invoke(t)
    BY <1>1, <1>2, <1>5 DEF Invoke, CancelledBefore, CancelledDuring, Superseded,
       ResolveModel, Relist, BeginCall, CallFails, Goto
  <1>6. CASE Answer(t)
    BY <1>1, <1>6 DEF Answer, CompleteReturns, Responded, InternalTools,
       InternalToolsFail, StreamOpens, Goto, Streaming, PushText, PushToolCall,
       PushUsage, StreamEnds, StreamBreaks
  <1> QED BY <1>3, <1>4, <1>5, <1>6 DEF Serve

LEMMA StepListed ==
    ASSUME Remembered, Listed, [Next]_vars
    PROVE  Listed'
  <1>1. PICK I : I = Instances
    OBVIOUS
  <1>2. /\ fetch = [t \in Turns |-> [i \in I |-> fetch[t][i]]]
        /\ \A t \in Turns : \A i \in I : fetch[t][i].models \subseteq DOMAIN Models[i]
        /\ \A i \in I : /\ offers[i] \subseteq DOMAIN Models[i]
                        /\ cache[i] # None => cache[i].models \subseteq DOMAIN Models[i]
    BY <1>1 DEF Listed, Remembered
  <1>3. SUFFICES /\ fetch' = [t \in Turns |-> [i \in I |-> fetch'[t][i]]]
                 /\ \A t \in Turns : \A i \in I :
                      fetch'[t][i].models \subseteq DOMAIN Models[i]
    BY <1>1 DEF Listed, Instances, LocalOllama, BuiltIn, CompatInstances
  <1>4. ASSUME NEW t \in Turns, NEW i \in I, NEW state, NEW models \in SUBSET DOMAIN Models[i],
               Fetched(t, i, state, models)
        PROVE  /\ fetch' = [u \in Turns |-> [j \in I |-> fetch'[u][j]]]
               /\ \A u \in Turns : \A j \in I :
                    fetch'[u][j].models \subseteq DOMAIN Models[j]
    <2>1. PICK r : /\ r = [state |-> state, since |-> IF state = "asked" THEN now ELSE 0,
                           models |-> models]
                   /\ fetch' = [fetch EXCEPT ![t][i] = r]
      BY <1>4 DEF Fetched
    <2>2. r.models = models
      BY <2>1
    <2>3. \A u \in Turns : \A j \in I :
             fetch'[u][j] = IF u = t /\ j = i THEN r ELSE fetch[u][j]
      BY <1>2, <2>1
    <2>4. fetch' = [u \in Turns |-> [j \in I |-> fetch'[u][j]]]
      BY <1>2, <2>1
    <2> QED BY <1>2, <2>2, <2>3, <2>4
  <1>5. ASSUME NEW t \in Turns, List(t)
        PROVE  \E i \in I : \E state : \E models \in SUBSET DOMAIN Models[i] :
                 Fetched(t, i, state, models)
    <2>1. PICK i \in I : ListModels(t, i) \/ ListAnswers(t, i) \/ ListFails(t, i)
      BY <1>1, <1>5 DEF List
    <2>2. /\ DOMAIN Models[i] \in SUBSET DOMAIN Models[i] /\ {} \in SUBSET DOMAIN Models[i]
          /\ offers[i] \in SUBSET DOMAIN Models[i]
          /\ cache[i] # None => cache[i].models \in SUBSET DOMAIN Models[i]
      BY <1>2
    <2>3. CASE ListModels(t, i)
      BY <2>2, <2>3 DEF ListModels, StaticCatalog, Hit
    <2>4. CASE ListAnswers(t, i)
      BY <2>2, <2>4 DEF ListAnswers
    <2>5. CASE ListFails(t, i)
      BY <2>2, <2>5 DEF ListFails
    <2> QED BY <2>1, <2>3, <2>4, <2>5
  <1>6. Idle.models = {} /\ [Idle EXCEPT !.state = "spawned"].models = {}
    BY DEF Idle
  <1>7. ASSUME NEW t \in Turns, Begin(t)
        PROVE  /\ fetch' = [u \in Turns |-> [j \in I |-> fetch'[u][j]]]
               /\ \A u \in Turns : \A j \in I :
                    fetch'[u][j].models \subseteq DOMAIN Models[j]
    <2>1. PICK r : /\ r = [Idle EXCEPT !.state = "spawned"]
                   /\ fetch' = [fetch EXCEPT ![t] = [i \in I |-> r]]
      BY <1>1, <1>7 DEF Begin
    <2>2. r.models = {}
      BY <1>6, <2>1
    <2>3. \A u \in Turns : \A j \in I :
             fetch'[u][j] = IF u = t THEN r ELSE fetch[u][j]
      BY <1>2, <2>1
    <2>4. fetch' = [u \in Turns |-> [j \in I |-> fetch'[u][j]]]
      BY <1>2, <2>1
    <2> QED BY <1>2, <2>2, <2>3, <2>4
  <1>8. ASSUME NEW t \in Turns, ResolveTurn(t)
        PROVE  /\ fetch' = [u \in Turns |-> [j \in I |-> fetch'[u][j]]]
               /\ \A u \in Turns : \A j \in I :
                    fetch'[u][j].models \subseteq DOMAIN Models[j]
    <2>1. PICK r, P : /\ r = Idle
                      /\ fetch' = [fetch EXCEPT ![t] =
                                     [i \in I |-> IF i \in P THEN r ELSE @[i]]]
      BY <1>1, <1>8 DEF ResolveTurn
    <2>2. r.models = {}
      BY <1>6, <2>1
    <2>3. \A u \in Turns : \A j \in I :
             fetch'[u][j] = IF u = t /\ j \in P THEN r ELSE fetch[u][j]
      BY <1>2, <2>1
    <2>4. fetch' = [u \in Turns |-> [j \in I |-> fetch'[u][j]]]
      BY <1>2, <2>1
    <2> QED BY <1>2, <2>2, <2>3, <2>4
  <1>9. fetch' = fetch => /\ fetch' = [t \in Turns |-> [i \in I |-> fetch'[t][i]]]
                          /\ \A t \in Turns : \A i \in I :
                               fetch'[t][i].models \subseteq DOMAIN Models[i]
    BY <1>2
  <1>10. (\E t \in Turns : Cancel(t)) \/ OffersChange \/ Tick \/ UNCHANGED vars
           => fetch' = fetch
    BY DEF Cancel, OffersChange, Tick, vars
  <1> QED BY <1>4, <1>5, <1>7, <1>8, <1>9, <1>10, FetchWrites DEF Next

\* A plan is made by resolving, and forgotten when the turn begins again.
LEMMA StepFits ==
    ASSUME Served, Listed, ContextFits, [Next]_vars
    PROVE  ContextFits'
  <1> DEFINE Fits(p) == p # None /\ p.error = None => Tokens(p.context) <= Budget(p.model)
  <1>1. plan = [t \in Turns |-> plan[t]] /\ \A t \in Turns : Fits(plan[t])
    BY DEF Served, Shapes, ContextFits, Resolved
  <1>2. SUFFICES \A t \in Turns : Fits(plan'[t])
    BY DEF ContextFits, Resolved
  <1>3. ASSUME NEW t \in Turns, NEW p, Fits(p), plan' = [plan EXCEPT ![t] = p]
        PROVE  \A u \in Turns : Fits(plan'[u])
    <2>1. \A u \in Turns : plan'[u] = IF u = t THEN p ELSE plan[u]
      BY <1>1, <1>3
    <2> HIDE DEF Fits
    <2> QED BY <1>1, <1>3, <2>1
  <1>4. ASSUME NEW t \in Turns
        PROVE  Fits(Resolve(req[t], Catalog(t)))
    <2> DEFINE a == req[t]
               catalog == Catalog(t)
    <2>1. a \in ResolveArgs
      BY DEF Served, Shapes
    <2>2. \A ref \in DOMAIN catalog : /\ catalog[ref].window \in Nat
                                      /\ catalog[ref].output \in Opt(Nat)
      BY CatalogTyped
    <2> HIDE DEF a, catalog
    <2>3. Fits(Resolve(a, catalog))
      BY <2>1, <2>2, ResolveFits
    <2> QED BY <2>3 DEF a, catalog
  <1>5. ASSUME NEW t \in Turns, Begin(t)
        PROVE  \A u \in Turns : Fits(plan'[u])
    <2>1. Fits(None)
      OBVIOUS
    <2>2. plan' = [plan EXCEPT ![t] = None]
      BY <1>5 DEF Begin
    <2> HIDE DEF Fits
    <2> QED BY <1>3, <2>1, <2>2
  <1>6. ASSUME NEW t \in Turns, ResolveTurn(t)
        PROVE  \A u \in Turns : Fits(plan'[u])
    <2>1. plan' = [plan EXCEPT ![t] = Resolve(req[t], Catalog(t))]
      BY <1>6 DEF ResolveTurn
    <2> HIDE DEF Fits
    <2> QED BY <1>3, <1>4, <2>1
  <1>7. plan' = plan => \A t \in Turns : Fits(plan'[t])
    BY <1>1
  <1>8. (\E t \in Turns : Cancel(t)) \/ OffersChange \/ Tick \/ UNCHANGED vars
          => plan' = plan
    BY DEF Cancel, OffersChange, Tick, turn, vars
  <1> QED BY <1>5, <1>6, <1>7, <1>8, FetchWrites DEF Next

\* The context of a plan leaves room for the reply of its model, whatever was
\* discardable: ContextSelector::finalize, for any candidates and any window.
THEOREM ContextsFit == Spec => []ContextFits
  <1>1. Init => Listed /\ ContextFits
    <2> SUFFICES ASSUME Init PROVE Listed /\ ContextFits
      OBVIOUS
    <2>1. Idle.models = {}
      BY DEF Idle
    <2> QED BY <2>1 DEF Init, Listed, ContextFits, Resolved
  <1> QED BY <1>1, StepListed, StepFits, AlwaysServed, AlwaysRemembered, PTL DEF Spec

-----------------------------------------------------------------------------
(* What is required stays *)

\* A candidate that is required, for the same content.
Stands(cs, c) == \E i \in DOMAIN cs : cs[i].required /\ DedupeKey(cs[i]) = DedupeKey(c)

\* A candidate that is merged in drops none that is required, and stands itself.
LEMMA MergedKeeps ==
    ASSUME NEW S, \A c \in S : c.required \in BOOLEAN,
           NEW seen \in Seq(S), NEW c \in S
    PROVE  /\ \A d \in S : Stands(seen, d) => Stands(Merged(seen, c), d)
           /\ c.required => Stands(Merged(seen, c), c)
  <1>1. /\ DOMAIN seen = 1 .. Len(seen) /\ Len(seen) \in Nat
        /\ \A i \in DOMAIN seen : seen[i] \in S /\ seen[i].required \in BOOLEAN
    BY LenProperties, ElementOfSeq
  <1>2. CASE Doubles(seen, c) = {}
    <2>1. /\ Merged(seen, c) = Append(seen, c)
          /\ DOMAIN Append(seen, c) = 1 .. Len(seen) + 1
          /\ \A i \in DOMAIN seen : Append(seen, c)[i] = seen[i]
          /\ Append(seen, c)[Len(seen) + 1] = c
      <3>1. Append(seen, c) \in Seq(S)
        BY AppendProperties
      <3>2. DOMAIN Append(seen, c) = 1 .. Len(Append(seen, c))
        BY <3>1, LenProperties
      <3> QED BY <1>1, <1>2, <3>2, AppendProperties DEF Merged
    <2>2. DOMAIN seen \subseteq DOMAIN Append(seen, c)
          /\ Len(seen) + 1 \in DOMAIN Append(seen, c)
      BY <1>1, <2>1
    <2> QED BY <2>1, <2>2 DEF Stands
  <1>3. CASE Doubles(seen, c) # {}
    <2> DEFINE merged == Merged(seen, c)
    <2>1. merged = [i \in DOMAIN seen |->
                      IF i \in Doubles(seen, c) /\ Better(c, seen[i]) THEN c ELSE seen[i]]
      BY <1>3 DEF Merged
    <2>2. ASSUME NEW i \in DOMAIN seen
          PROVE  \/ merged[i] = seen[i] /\ (i \in Doubles(seen, c) => ~Better(c, seen[i]))
                 \/ /\ merged[i] = c /\ Better(c, seen[i])
                    /\ DedupeKey(seen[i]) = DedupeKey(c)
      BY <2>1 DEF Doubles
    <2>3. ASSUME NEW i \in DOMAIN seen
          PROVE  /\ Better(c, seen[i]) /\ seen[i].required => c.required
                 /\ ~Better(c, seen[i]) /\ c.required => seen[i].required
      BY <1>1 DEF Better
    <2>4. DOMAIN merged = DOMAIN seen
      BY <2>1
    <2> HIDE DEF merged
    <2>5. ASSUME NEW d \in S, Stands(seen, d)
          PROVE  Stands(merged, d)
      <3>1. PICK i \in DOMAIN seen : seen[i].required /\ DedupeKey(seen[i]) = DedupeKey(d)
        BY <2>5 DEF Stands
      <3>2. merged[i].required /\ DedupeKey(merged[i]) = DedupeKey(d)
        BY <2>2, <2>3, <3>1
      <3> QED BY <2>4, <3>2 DEF Stands
    <2>6. ASSUME c.required
          PROVE  Stands(merged, c)
      <3>1. PICK i \in Doubles(seen, c) : TRUE
        BY <1>3
      <3>2. i \in DOMAIN seen /\ DedupeKey(seen[i]) = DedupeKey(c)
        BY DEF Doubles
      <3>3. merged[i].required /\ DedupeKey(merged[i]) = DedupeKey(c)
        BY <2>2, <2>3, <2>6, <3>1, <3>2
      <3> QED BY <2>4, <3>2, <3>3 DEF Stands
    <2> QED BY <2>5, <2>6 DEF merged
  <1> QED BY <1>2, <1>3

LEMMA DedupeKeeps ==
    ASSUME NEW S, \A c \in S : c.required \in BOOLEAN, NEW cs \in Seq(S),
           NEW i \in DOMAIN cs, cs[i].required
    PROVE  Stands(Dedupe(cs), cs[i])
  <1> DEFINE n == Len(cs)
  <1>1. n \in Nat /\ DOMAIN cs = 1 .. n /\ \A k \in 1 .. n : cs[k] \in S
    BY LenProperties, ElementOfSeq
  <1>2. PICK f \in [0 .. n -> Seq(S)] :
           /\ f[0] = <<>> /\ Dedupe(cs) = f[n]
           /\ \A k \in 1 .. n : f[k] = Merged(f[k - 1], cs[k])
    BY DedupeSoFar
  <1> HIDE DEF n
  <1> DEFINE kept == {k \in 0 .. n : i <= k => Stands(f[k], cs[i])}
  <1>3. 0 \in kept
    BY <1>1
  <1>4. ASSUME NEW k \in 0 .. n - 1, k \in kept
        PROVE  k + 1 \in kept
    <2>1. k + 1 \in 1 .. n /\ (k + 1) - 1 = k /\ k + 1 \in 0 .. n /\ k \in 0 .. n
      BY <1>1
    <2>2. f[k] \in Seq(S) /\ cs[k + 1] \in S /\ cs[i] \in S
          /\ f[k + 1] = Merged(f[k], cs[k + 1])
      BY <1>1, <1>2, <2>1
    <2>3. CASE i <= k
      <3>1. Stands(f[k], cs[i])
        BY <1>4, <2>3
      <3> QED BY <2>1, <2>2, <3>1, MergedKeeps
    <2>4. CASE i = k + 1
      BY <2>1, <2>2, <2>4, MergedKeeps
    <2>5. CASE i > k + 1
      BY <1>1, <2>1, <2>5
    <2> QED BY <1>1, <2>1, <2>3, <2>4, <2>5
  <1>5. 0 .. n \subseteq kept
    <2> HIDE DEF kept
    <2> QED BY <1>1, <1>3, <1>4, UpTo
  <1>6. n \in 0 .. n /\ i <= n
    BY <1>1
  <1> QED BY <1>2, <1>5, <1>6

\* partition drops none that is required.
LEMMA RequiredKeeps ==
    ASSUME NEW S, NEW cs \in Seq(S), NEW i \in DOMAIN cs, cs[i].required = TRUE
    PROVE  \E j \in DOMAIN Required(cs) : Required(cs)[j] = cs[i]
  <1> DEFINE n == Len(cs)
  <1>1. n \in Nat /\ DOMAIN cs = 1 .. n /\ \A k \in 1 .. n : cs[k] \in S
    BY LenProperties, ElementOfSeq
  <1>2. PICK f \in [0 .. n -> Seq(S)] :
           /\ f[0] = <<>> /\ Required(cs) = f[n]
           /\ \A k \in 1 .. n :
                f[k] = IF cs[k].required = TRUE THEN Append(f[k - 1], cs[k]) ELSE f[k - 1]
    <2> HIDE DEF n
    <2>1. ASSUME NEW want, NEW part, part = Part(cs, want)
          PROVE  \E f \in [0 .. Len(cs) -> Seq(S)] :
                   /\ f[0] = <<>> /\ part = f[Len(cs)]
                   /\ \A k \in 1 .. Len(cs) : f[k] = Picked(f[k - 1], cs[k], want)
      BY <2>1, PartSoFar
    <2>2. PICK want : want = TRUE
      OBVIOUS
    <2>3. PICK part : part = Part(cs, want)
      OBVIOUS
    <2>4. PICK f \in [0 .. Len(cs) -> Seq(S)] :
             /\ f[0] = <<>> /\ part = f[Len(cs)]
             /\ \A k \in 1 .. Len(cs) : f[k] = Picked(f[k - 1], cs[k], want)
      BY <2>1, <2>3
    <2> QED BY <2>2, <2>3, <2>4 DEF n, Picked, Required
  <1> HIDE DEF n
  <1> DEFINE kept == {k \in 0 .. n : i <= k => \E j \in DOMAIN f[k] : f[k][j] = cs[i]}
  <1>3. 0 \in kept
    BY <1>1
  <1>4. ASSUME NEW k \in 0 .. n - 1, k \in kept
        PROVE  k + 1 \in kept
    <2>1. k + 1 \in 1 .. n /\ (k + 1) - 1 = k /\ k + 1 \in 0 .. n /\ k \in 0 .. n
      BY <1>1
    <2>2. /\ f[k] \in Seq(S) /\ cs[k + 1] \in S
          /\ f[k + 1] = IF cs[k + 1].required = TRUE THEN Append(f[k], cs[k + 1]) ELSE f[k]
      BY <1>1, <1>2, <2>1
    <2>3. PICK part \in Seq(S), c \in S : part = f[k] /\ c = cs[k + 1]
      BY <2>2
    <2>4. /\ DOMAIN part = 1 .. Len(part) /\ Len(part) \in Nat
          /\ DOMAIN Append(part, c) = 1 .. Len(part) + 1
          /\ \A j \in DOMAIN part : Append(part, c)[j] = part[j]
          /\ Append(part, c)[Len(part) + 1] = c
      <3>1. Append(part, c) \in Seq(S)
        BY AppendProperties
      <3> QED BY <3>1, AppendProperties, LenProperties
    <2>5. DOMAIN part \subseteq DOMAIN Append(part, c)
          /\ Len(part) + 1 \in DOMAIN Append(part, c)
      BY <2>4
    <2>6. CASE i <= k
      <3>1. PICK j \in DOMAIN part : part[j] = cs[i]
        BY <1>4, <2>3, <2>6
      <3>2. f[k + 1] \in {part, Append(part, c)}
        BY <2>2, <2>3
      <3>3. \E l \in DOMAIN f[k + 1] : f[k + 1][l] = cs[i]
        BY <2>4, <2>5, <3>1, <3>2
      <3> QED BY <2>1, <3>3
    <2>7. CASE i = k + 1
      <3>1. f[k + 1] = Append(part, c) /\ c = cs[i]
        BY <2>2, <2>3, <2>7
      <3> QED BY <2>1, <2>4, <2>5, <3>1
    <2>8. CASE i > k + 1
      BY <1>1, <2>1, <2>8
    <2>9. i \in Nat /\ k \in Nat
      BY <1>1
    <2> HIDE DEF kept
    <2> QED BY <2>6, <2>7, <2>8, <2>9
  <1>5. 0 .. n \subseteq kept
    <2> HIDE DEF kept
    <2> QED BY <1>1, <1>3, <1>4, UpTo
  <1>6. n \in 0 .. n /\ i <= n
    BY <1>1
  <1> QED BY <1>2, <1>5, <1>6

\* The context that is finalized starts with what is required.
LEMMA FinalizeKeeps ==
    ASSUME NEW S, NEW cs \in Seq(S), \A c \in S : Size[c.content] \in Nat,
           NEW m, Budget(m) \in Nat, Finalize(cs, m).error = None,
           NEW i \in DOMAIN cs, cs[i].required = TRUE
    PROVE  cs[i] \in Range(Finalize(cs, m).included)
  <1> DEFINE required == Required(cs)
             kept == Keep(Ranked(Discardable(cs)), Tokens(required), Budget(m))
  <1>1. /\ required \in Seq(S) /\ kept.included \in Seq(S)
        /\ Finalize(cs, m).included = required \o kept.included
    BY FinalizeParts
  <1>2. PICK j \in DOMAIN required : required[j] = cs[i]
    BY RequiredKeeps
  <1> HIDE DEF required, kept
  <1>3. /\ DOMAIN (required \o kept.included) = 1 .. Len(required) + Len(kept.included)
        /\ j \in 1 .. Len(required) + Len(kept.included)
        /\ (required \o kept.included)[j] = required[j]
    <2>1. required \o kept.included \in Seq(S)
      BY <1>1, ConcatProperties
    <2>2. DOMAIN required = 1 .. Len(required) /\ Len(required) \in Nat
          /\ Len(kept.included) \in Nat
      BY <1>1, LenProperties
    <2>3. DOMAIN (required \o kept.included) = 1 .. Len(required) + Len(kept.included)
      BY <1>1, <2>1, LenProperties, ConcatProperties
    <2> QED BY <1>1, <2>2, <2>3, ConcatProperties
  <1> QED BY <1>1, <1>2, <1>3 DEF Range

\* Whatever was offered as required is in the context of a plan.
LEMMA ResolveKeeps ==
    ASSUME NEW a \in ResolveArgs, NEW catalog, Resolve(a, catalog).error = None,
           \A ref \in DOMAIN catalog : /\ catalog[ref].window \in Nat
                                       /\ catalog[ref].output \in Opt(Nat),
           NEW c \in Range(Offered(Resolve(a, catalog).route, a)), c.required
    PROVE  \E d \in Range(Resolve(a, catalog).context) :
             d.required /\ DedupeKey(d) = DedupeKey(c)
  <1>1. PICK chosen, route :
             LET p == Resolve(a, catalog)
                 context == Finalize(BuildCandidates(route, a), catalog[chosen])
             IN  /\ chosen \in DOMAIN catalog
                 /\ context.error = None /\ p.context = context.included
                 /\ p.model = catalog[chosen] /\ p.route = route
    BY ResolveFinalized
  <1>2. PICK S : /\ Offered(route, a) \in Seq(S)
                 /\ \A e \in S : e.content \in DOMAIN Size /\ e.required \in BOOLEAN
    BY CandidatesTyped DEF Estimated
  <1>3. PICK m, cs, offered : /\ m = catalog[chosen] /\ cs = BuildCandidates(route, a)
                              /\ offered = Offered(route, a)
    OBVIOUS
  <1>4. cs \in Seq(S) /\ cs = Dedupe(offered) /\ offered \in Seq(S)
    BY <1>2, <1>3, DedupeTyped DEF BuildCandidates
  <1>5. Budget(m) \in Nat
    BY <1>1, <1>3 DEF Budget, DefaultReplyReserve, Opt
  <1>6. /\ \A e \in S : Size[e.content] \in Nat
        /\ \A e \in S : e.required \in BOOLEAN
    BY <1>2, SizeTyped
  <1>7. PICK k \in DOMAIN offered : offered[k] = c
    BY <1>1, <1>3 DEF Range
  <1>8. Stands(cs, c)
    <2>1. offered[k].required
      BY <1>7
    <2>2. Stands(Dedupe(offered), offered[k])
      BY <1>4, <1>6, <2>1, DedupeKeeps
    <2> QED BY <1>4, <1>7, <2>2
  <1>9. PICK i \in DOMAIN cs : cs[i].required /\ DedupeKey(cs[i]) = DedupeKey(c)
    BY <1>8 DEF Stands
  <1>10. cs[i].required = TRUE
    BY <1>4, <1>6, <1>9, LenProperties, ElementOfSeq
  <1>11. Finalize(cs, m).error = None /\ Resolve(a, catalog).context = Finalize(cs, m).included
    BY <1>1, <1>3
  <1>12. cs[i] \in Range(Finalize(cs, m).included)
    BY <1>4, <1>5, <1>6, <1>10, <1>11, FinalizeKeeps
  <1> QED BY <1>9, <1>11, <1>12

\* What was asked stays what was asked.
LEMMA RequestStays ==
    ASSUME [Next]_vars
    PROVE  req' = req
  <1>1. ASSUME NEW t, NEW c, Fail(t, c) \/ GiveUp(t, c)
        PROVE  req' = req
    BY <1>1 DEF Fail, GiveUp
  <1>2. ASSUME NEW t, NEW i, ModelNew(t, i)
        PROVE  req' = req
    BY <1>1, <1>2 DEF ModelNew, AnthropicModelNew, GeminiModelNew,
       OpenAIModelNew, OllamaModelNew, OpenAICompatModelNew, RequireApiKey,
       AgentNew, Goto
  <1>3. ASSUME NEW t, Begin(t) \/ List(t) \/ ResolveTurn(t) \/ Mediate(t) \/ Cancel(t)
        PROVE  req' = req
    BY <1>3 DEF Begin, List, ListModels, ListAnswers, ListFails, Fetched,
       ResolveTurn, Mediate, Cancel
  <1>4. ASSUME NEW t, Invoke(t)
        PROVE  req' = req
    BY <1>1, <1>2, <1>4 DEF Invoke, CancelledBefore, CancelledDuring, Superseded,
       ResolveModel, Relist, BeginCall, CallFails, Goto
  <1>5. ASSUME NEW t, Answer(t)
        PROVE  req' = req
    BY <1>1, <1>5 DEF Answer, CompleteReturns, Responded, InternalTools,
       InternalToolsFail, StreamOpens, Goto, Streaming, PushText, PushToolCall,
       PushUsage, StreamEnds, StreamBreaks
  <1>6. OffersChange \/ Tick \/ UNCHANGED vars => req' = req
    BY DEF OffersChange, Tick, vars
  <1> QED BY <1>3, <1>4, <1>5, <1>6 DEF Next, Serve

LEMMA StepKept ==
    ASSUME Served, Listed, RequiredKept, [Next]_vars
    PROVE  RequiredKept'
  <1> DEFINE Keeps(p, a) ==
               p # None /\ p.error = None =>
                 \A c \in Range(Offered(p.route, a)) : c.required =>
                   \E d \in Range(p.context) : d.required /\ DedupeKey(d) = DedupeKey(c)
  <1>0. req' = req
    BY RequestStays
  <1>1. plan = [t \in Turns |-> plan[t]] /\ \A t \in Turns : Keeps(plan[t], req[t])
    BY DEF Served, Shapes, RequiredKept, Resolved
  <1>2. SUFFICES \A t \in Turns : Keeps(plan'[t], req[t])
    BY <1>0 DEF RequiredKept, Resolved
  <1>3. ASSUME NEW t \in Turns, NEW p, Keeps(p, req[t]), plan' = [plan EXCEPT ![t] = p]
        PROVE  \A u \in Turns : Keeps(plan'[u], req[u])
    <2>1. \A u \in Turns : plan'[u] = IF u = t THEN p ELSE plan[u]
      BY <1>1, <1>3
    <2> HIDE DEF Keeps
    <2> QED BY <1>1, <1>3, <2>1
  <1>4. ASSUME NEW t \in Turns
        PROVE  Keeps(Resolve(req[t], Catalog(t)), req[t])
    <2> DEFINE a == req[t]
               catalog == Catalog(t)
    <2>1. a \in ResolveArgs
      BY DEF Served, Shapes
    <2>2. \A ref \in DOMAIN catalog : /\ catalog[ref].window \in Nat
                                      /\ catalog[ref].output \in Opt(Nat)
      BY CatalogTyped
    <2> HIDE DEF a, catalog
    <2>3. Keeps(Resolve(a, catalog), a)
      BY <2>1, <2>2, ResolveKeeps
    <2> QED BY <2>3 DEF a, catalog
  <1>5. ASSUME NEW t \in Turns, Begin(t)
        PROVE  \A u \in Turns : Keeps(plan'[u], req[u])
    <2>1. Keeps(None, req[t])
      OBVIOUS
    <2>2. plan' = [plan EXCEPT ![t] = None]
      BY <1>5 DEF Begin
    <2> HIDE DEF Keeps
    <2> QED BY <1>3, <2>1, <2>2
  <1>6. ASSUME NEW t \in Turns, ResolveTurn(t)
        PROVE  \A u \in Turns : Keeps(plan'[u], req[u])
    <2>1. plan' = [plan EXCEPT ![t] = Resolve(req[t], Catalog(t))]
      BY <1>6 DEF ResolveTurn
    <2> HIDE DEF Keeps
    <2> QED BY <1>3, <1>4, <2>1
  <1>7. plan' = plan => \A t \in Turns : Keeps(plan'[t], req[t])
    BY <1>1
  <1>8. (\E t \in Turns : Cancel(t)) \/ OffersChange \/ Tick \/ UNCHANGED vars
          => plan' = plan
    BY DEF Cancel, OffersChange, Tick, turn, vars
  <1> HIDE DEF Keeps
  <1> QED BY <1>5, <1>6, <1>7, <1>8, FetchWrites DEF Next

\* What the request, the rule or the user requires is in the context of the plan:
\* neither a duplicate in the history or the memory nor the budget drops it
\* (dedupe, partition and finalize).
THEOREM RequiredIsKept == Spec => []RequiredKept
  <1>1. Init => Listed /\ RequiredKept
    <2> SUFFICES ASSUME Init PROVE Listed /\ RequiredKept
      OBVIOUS
    <2>1. Idle.models = {}
      BY DEF Idle
    <2> QED BY <2>1 DEF Init, Listed, RequiredKept, Resolved
  <1> QED BY <1>1, StepListed, StepKept, AlwaysServed, AlwaysRemembered, PTL DEF Spec
=============================================================================
