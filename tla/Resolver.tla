------------------------------ MODULE Resolver ------------------------------
(***************************************************************************)
(* The router's resolver: from a request, a policy and the models that are *)
(* known to the plan of one turn.  The code has no state here; each stage  *)
(* is an operator.                                                         *)
(*                                                                         *)
(* A path, a content and a word are values that are only compared; a       *)
(* glob list is the set of paths it matches.                               *)
(***************************************************************************)
EXTENDS Naturals, Sequences, FiniteSets, SequencesExt, Functions

CONSTANTS
    None,
    Edits,    \* edits between two different words, 0 if one contains the other
    Length,   \* characters of a word
    Size      \* tokens of a content

----------------------------------------------------------------------------
(* What a request is made of *)

Opt(S) == S \cup {None}

ModelReference == [provider : STRING, model : STRING]

TaskInput == [tokens : SUBSET STRING, command : Opt(STRING), explicit : Opt(ModelReference)]

Workspace == [diff : Opt([paths : SUBSET STRING, content : DOMAIN Size]), branch : BOOLEAN,
              active : Opt(STRING), referenced : SUBSET STRING]

ContextKind == {"git_diff", "git_branch", "active_file", "referenced_paths"}

ClassificationRule == [priority : Nat, intent : STRING, keywords : SUBSET DOMAIN Length,
                       contexts : SUBSET ContextKind]

ClassificationConfig == [rules : Seq(ClassificationRule), default : STRING]

Capability == {"streaming", "system_prompt", "tools", "memory", "json_output", "images",
               "reasoning"}

RoutingRule == [priority : Nat, intent : Opt(STRING), paths : SUBSET STRING,
                model : ModelReference, fallbacks : Seq(ModelReference),
                localOnly : BOOLEAN, gate : SUBSET Capability]

DefaultRoute == [model : ModelReference, fallbacks : Seq(ModelReference)]

RoutingPolicy == [rules : Seq(RoutingRule), default : Opt(DefaultRoute)]

RecalledMessage == [path : Opt(STRING), content : DOMAIN Size]

ContextFile == [path : STRING, content : DOMAIN Size, required : BOOLEAN]

PermissionMode == {"allow", "ask", "deny"}

\* A tool that the policy does not name has no mode.
ToolsConfig == [{"read_file", "write_file", "shell", "memory"} -> Opt(PermissionMode)]

\* The request of a turn: what the resolver reads, whether the client reads a stream,
\* plan mode, and the modes of the tools.
ResolveArgs == [input : TaskInput, workspace : Workspace,
                classification : ClassificationConfig, routing : RoutingPolicy,
                privacy : SUBSET STRING, messages : Seq(RecalledMessage),
                memory : Seq(DOMAIN Size), instructions : Seq(DOMAIN Size),
                invoked : Seq(DOMAIN Size), available : Seq(DOMAIN Size),
                files : Seq(ContextFile), credentialed : SUBSET STRING,
                localOnly : BOOLEAN, sink : BOOLEAN, planning : BOOLEAN,
                modes : ToolsConfig]

----------------------------------------------------------------------------
(* Stage 1: normalize *)

\* fuzzy_cap
FuzzyCap(length) == CASE length <= 4 -> 0 [] length \in 5..8 -> 1 [] OTHER -> 2

\* is_typo: a word that contains the other one is a different word.
IsTypo(needle, token, cap) == Edits[needle, token] \in 1..cap

\* token_match
TokenMatch(needle, tokens) ==
    CASE needle \in tokens -> "exact"
      [] \E token \in tokens : IsTypo(needle, token, FuzzyCap(Length[needle])) -> "fuzzy"
      [] OTHER -> "none"

\* match_keyword: a hit that needs no correction is preferred.
MatchKeyword(keywords, tokens) ==
    LET kinds == {TokenMatch(k, tokens) : k \in keywords} IN
    CASE "exact" \in kinds -> "exact" [] "fuzzy" \in kinds -> "fuzzy" [] OTHER -> "none"

\* context_kinds
ContextKinds(w) ==
    {kind \in ContextKind :
        CASE kind = "git_diff" -> w.diff # None
          [] kind = "git_branch" -> w.branch
          [] kind = "active_file" -> w.active # None
          [] kind = "referenced_paths" -> w.referenced # {}}

\* touched_files and diff_paths
TouchedFiles(w) ==
    w.referenced \cup ({w.active} \ {None}) \cup (IF w.diff = None THEN {} ELSE w.diff.paths)

\* confidence_for
ConfidenceFor(rule, hit) ==
    CASE rule.keywords # {} /\ rule.contexts # {} -> IF hit = "fuzzy" THEN "medium" ELSE "high"
      [] rule.keywords = {} /\ rule.contexts = {} -> "low"
      [] OTHER -> "medium"

\* match_rule: each condition that is present must hold.
RuleHits(rule, tokens, contexts) ==
    /\ rule.keywords # {} => MatchKeyword(rule.keywords, tokens) # "none"
    /\ rule.contexts # {} => rule.contexts \cap contexts # {}

\* rules_by_priority: of two rules with the same priority the first one comes first.
Earliest(hits, priority) ==
    CHOOSE i \in hits : \A j \in hits :
        priority[i] < priority[j] \/ (priority[i] = priority[j] /\ i <= j)

\* TaskNormalizer::classify
Classify(input, w, config) ==
    LET hits == {i \in DOMAIN config.rules :
                    RuleHits(config.rules[i], input.tokens, ContextKinds(w))}
        priority == [i \in hits |-> config.rules[i].priority]
    IN
    CASE input.command # None ->
            [intent |-> input.command, rule |-> None, confidence |-> None]
      [] input.command = None /\ hits = {} ->
            [intent |-> config.default, rule |-> None, confidence |-> "low"]
      [] OTHER ->
            LET i == Earliest(hits, priority)
                hit == MatchKeyword(config.rules[i].keywords, input.tokens)
            IN [intent |-> config.rules[i].intent, rule |-> i,
                confidence |-> ConfidenceFor(config.rules[i], hit)]

\* TaskNormalizer::normalize
Normalize(input, w, config) ==
    [classification |-> Classify(input, w, config), touched |-> TouchedFiles(w)]

----------------------------------------------------------------------------
(* Stage 2: match the policy *)

\* RoutingRule::specificity, the most specific first.
Specificity(rule) ==
    CASE rule.paths # {} /\ rule.intent # None -> 0
      [] rule.paths # {} /\ rule.intent = None -> 1
      [] rule.paths = {} /\ rule.intent # None -> 2
      [] OTHER -> 3

\* NormalizedTask::matches and paths_match
Matches(task, rule) ==
    /\ rule.intent # None => rule.intent = task.classification.intent
    /\ rule.paths # {} => rule.paths \cap task.touched # {}

\* RoutingRule::precedence_cmp as a rank; 4 exceeds every specificity.
Rank(rule) == 4 * rule.priority + Specificity(rule)

\* PolicyMatcher::match_policy: an override, the first rule that matches, the
\* default route, or nothing.
MatchPolicy(task, policy, explicit) ==
    LET hits == {i \in DOMAIN policy.rules : Matches(task, policy.rules[i])}
        rank == [i \in hits |-> Rank(policy.rules[i])]
    IN
    CASE explicit # None -> [source |-> "override", rule |-> None, chain |-> <<explicit>>]
      [] explicit = None /\ hits # {} ->
            LET rule == policy.rules[Earliest(hits, rank)]
            IN [source |-> "rule", rule |-> rule, chain |-> <<rule.model>> \o rule.fallbacks]
      [] explicit = None /\ hits = {} /\ policy.default # None ->
            [source |-> "default", rule |-> None,
             chain |-> <<policy.default.model>> \o policy.default.fallbacks]
      [] OTHER -> [source |-> "none", rule |-> None, chain |-> <<>>]

\* RouteMatch::matched_rule, override_used
Rule(route) == route.source = "rule"

----------------------------------------------------------------------------
(* Stage 3: candidates *)

MaxRecencyBonus == 499
PathAffinityBonus == 500

\* recency_bonus of the i-th of n messages, the oldest first.
RecencyBonus(i, n) == IF n <= 1 THEN 0 ELSE ((i - 1) * MaxRecencyBonus) \div (n - 1)

\* path_in_focus and matches_route_paths
InFocus(route, w, path) ==
    path \in w.referenced \/ (Rule(route) /\ path \in route.rule.paths)

\* path_affinity
PathAffinity(route, w, path) ==
    IF path # None /\ InFocus(route, w, path) THEN PathAffinityBonus ELSE 0

\* PrivacyPolicy::is_restricted_for_remote
IsRestricted(privacy, path) == path # None /\ path \in privacy

Candidate(kind, path, content, restricted, required, score) ==
    [kind |-> kind, path |-> path, content |-> content, restricted |-> restricted,
     required |-> required, score |-> score]

MessageCandidates(route, a) ==
    [i \in DOMAIN a.messages |->
        LET m == a.messages[i] IN
        Candidate("message", m.path, m.content, IsRestricted(a.privacy, m.path), FALSE,
                  3000 + RecencyBonus(i, Len(a.messages))
                       + PathAffinity(route, a.workspace, m.path))]

FileCandidates(route, a) ==
    [i \in DOMAIN a.files |->
        LET f == a.files[i]
            focused == InFocus(route, a.workspace, f.path)
        IN Candidate("file", f.path, f.content, IsRestricted(a.privacy, f.path),
                     f.required \/ focused, 5000 + PathAffinity(route, a.workspace, f.path))]

\* Memory facts, instructions and skills have no path.  skill_candidate
Pathless(kind, contents, required, score) ==
    [i \in DOMAIN contents |-> Candidate(kind, None, contents[i], FALSE, required, score)]

\* dedupe_key
DedupeKey(c) == IF c.path # None THEN <<"path", c.path>> ELSE <<"content", c.content>>

\* supersedes
Better(c, d) == IF c.required # d.required THEN c.required ELSE c.score > d.score

\* dedupe: one candidate per key, at the place of the first one.
Dedupe(cs) ==
    LET fold(seen, c) ==
            LET same == {i \in DOMAIN seen : DedupeKey(seen[i]) = DedupeKey(c)} IN
            CASE same = {} -> Append(seen, c)
              [] OTHER -> [i \in DOMAIN seen |->
                            IF i \in same /\ Better(c, seen[i]) THEN c ELSE seen[i]]
    IN FoldLeft(fold, <<>>, cs)

\* ContextSelector::build_candidates, before the duplicates are dropped.
Offered(route, a) ==
    MessageCandidates(route, a) \o Pathless("memory", a.memory, FALSE, 2000)
        \o FileCandidates(route, a) \o Pathless("instruction", a.instructions, TRUE, 5000)
        \o Pathless("skill", a.invoked, TRUE, 5000)
        \o Pathless("skill", a.available, FALSE, 1000)
        \o (IF a.workspace.diff = None THEN <<>>
            ELSE Pathless("diff", <<a.workspace.diff.content>>, FALSE, 4000))

BuildCandidates(route, a) == Dedupe(Offered(route, a))

\* partition: what must be kept, and what may be dropped.
Part(cs, required) ==
    FoldLeft(LAMBDA part, c : IF c.required = required THEN Append(part, c) ELSE part, <<>>, cs)

Required(cs) == Part(cs, TRUE)
Discardable(cs) == Part(cs, FALSE)
Tokens(cs) == FoldLeft(LAMBDA sum, c : sum + Size[c.content], 0, cs)

\* CandidateSet::has_restricted_required_content
HasRestrictedRequired(cs) == \E c \in Range(cs) : c.restricted /\ c.required

----------------------------------------------------------------------------
(* Stage 4: select a model *)

\* effective_requirements
Gate(route) == IF Rule(route) THEN route.rule.gate ELSE {}

\* ModelDescriptor::can_handle: the capabilities that the rule asks for, and the
\* window for the required context.
CanHandle(m, gate, tokens) == gate \subseteq m.capabilities /\ tokens <= m.window

\* Mutant: locality is not looked at.
UsableAnywhere(ref, catalog, credentialed, gate, tokens, local) ==
    /\ ref \in DOMAIN catalog
    /\ catalog[ref].key => ref.provider \in credentialed
    /\ CanHandle(catalog[ref], gate, tokens)

\* usable
Usable(ref, catalog, credentialed, gate, tokens, local) ==
    /\ ref \in DOMAIN catalog
    /\ catalog[ref].key => ref.provider \in credentialed
    /\ local => catalog[ref].local
    /\ CanHandle(catalog[ref], gate, tokens)

\* ModelSelector::select, with the error of the resolver or the place in the chain.
Select(route, tokens, catalog, credentialed, restricted) ==
    LET local == restricted \/ (Rule(route) /\ route.rule.localOnly)
        hits == {i \in DOMAIN route.chain :
                    Usable(route.chain[i], catalog, credentialed, Gate(route), tokens, local)}
    IN
    CASE /\ route.source = "override" /\ restricted
         /\ route.chain[1] \in DOMAIN catalog
         /\ ~catalog[route.chain[1]].local -> [error |-> "override_not_allowed", at |-> 0]
      [] hits # {} -> [error |-> None, at |-> CHOOSE i \in hits : \A j \in hits : i <= j]
      [] OTHER -> [error |-> "fallback_exhausted", at |-> 0]

\* remaining_fallbacks: what follows the chosen reference in the chain.
RemainingFallbacks(chain, chosen) ==
    LET first == CHOOSE i \in DOMAIN chain :
                    chain[i] = chosen /\ \A j \in DOMAIN chain : chain[j] = chosen => i <= j
    IN SubSeq(chain, first + 1, Len(chain))

----------------------------------------------------------------------------
(* Stage 5: finalize the context *)

DefaultReplyReserve == 256

\* The window without the room for the reply (saturating_sub).
Budget(m) ==
    LET reserve == IF m.output = None THEN DefaultReplyReserve ELSE m.output
    IN IF m.window > reserve THEN m.window - reserve ELSE 0

\* The discardable candidates, the most relevant first; the sort is stable: a
\* candidate goes before the first one that is less relevant.
Ranked(cs) ==
    LET place(ranked, c) ==
            LET lower == {i \in DOMAIN ranked : ranked[i].score < c.score} IN
            IF lower = {} THEN Append(ranked, c) ELSE InsertAt(ranked, Min(lower), c)
    IN FoldLeft(place, <<>>, cs)

\* Mutant: the budget is compared with each candidate alone.
KeepEach(cs, used, budget) ==
    [included |-> SelectSeq(cs, LAMBDA c : used + Size[c.content] <= budget),
     excluded |-> SelectSeq(cs, LAMBDA c : used + Size[c.content] > budget), used |-> used]

\* The candidates that still fit, one after the other.
Keep(cs, used, budget) ==
    LET fold(k, c) ==
            IF k.used + Size[c.content] <= budget
            THEN [k EXCEPT !.included = Append(@, c), !.used = @ + Size[c.content]]
            ELSE [k EXCEPT !.excluded = Append(@, c)]
    IN FoldLeft(fold, [included |-> <<>>, excluded |-> <<>>, used |-> used], cs)

\* ContextSelector::finalize
Finalize(cs, m) ==
    LET required == Required(cs)
        kept == Keep(Ranked(Discardable(cs)), Tokens(required), Budget(m))
    IN IF Tokens(required) > Budget(m)
       THEN [error |-> "context_window_exceeded", included |-> <<>>, excluded |-> <<>>]
       ELSE [error |-> None, included |-> required \o kept.included,
             excluded |-> kept.excluded]

----------------------------------------------------------------------------
(* The whole resolver *)

Failed(code) == [error |-> code, chain |-> <<>>, model |-> None, local |-> FALSE,
                 context |-> <<>>, rule |-> None, route |-> None]

\* Resolver::resolve: the chain of the plan is the chosen model and its remaining
\* fallbacks.
Resolve(a, catalog) ==
    LET task == Normalize(a.input, a.workspace, a.classification)
        route == MatchPolicy(task, a.routing, a.input.explicit)
        cs == BuildCandidates(route, a)
        restricted == HasRestrictedRequired(cs) \/ a.localOnly
        selection == Select(route, Tokens(Required(cs)), catalog, a.credentialed, restricted)
    IN
    CASE route.source = "none" -> Failed("no_route")
      [] route.source # "none" /\ selection.error # None -> Failed(selection.error)
      [] OTHER ->
            LET chosen == route.chain[selection.at]
                context == Finalize(cs, catalog[chosen])
            IN IF context.error # None THEN Failed(context.error)
               ELSE [error |-> None,
                     chain |-> <<chosen>> \o RemainingFallbacks(route.chain, chosen),
                     model |-> catalog[chosen],
                     local |-> restricted \/ (Rule(route) /\ route.rule.localOnly),
                     context |-> context.included,
                     rule |-> route.rule,
                     route |-> route]
=============================================================================
