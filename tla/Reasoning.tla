------------------------------ MODULE Reasoning ------------------------------
(***************************************************************************)
(* core/reasoning: ReasoningOrchestrator.reason runs the strategies the    *)
(* router chose, one after the other: a prompt (CoTInjector), a tree of    *)
(* thoughts (TreeOfThoughtEngine), a vote over samples                     *)
(* (SelfConsistencySampler) and a reflection on the answer so far          *)
(* (ReflexionEngine).                                                      *)
(*                                                                         *)
(* External: the texts. What the code reads off them, keywords, lengths    *)
(* and scores, is any value of a small set. Scores are in tenths.          *)
(***************************************************************************)
EXTENDS Integers, Sequences, SequencesExt, FiniteSetsExt

CONSTANTS
    Scores,               \* what a text may be scored
    Texts,                \* normalised answers of samples
    MaxDepth, BranchFactor, BeamWidth,
    NumSamples,
    MaxIterations, Improvement, MinScore,
    None

VARIABLES
    problem,     \* its type and complexity, or None
    todo,        \* strategies reason has still to come to
    used,        \* strategies that gave a result, with its confidence
    answer,      \* whose answer is the current one, or None
    confidence,
    nodes,       \* the tree: [parent, depth, score, terminal], the root first
    frontier, next, depth,
    samples,     \* the answers sampled so far
    trace,       \* the scores of the reflection, the initial answer's first
    current      \* [score, from] of reflect: from is an index of trace

vars == <<problem, todo, used, answer, confidence, nodes, frontier, next, depth,
          samples, trace, current>>

tree == <<nodes, frontier, next, depth>>
Order == <<"cot", "tot", "self_consistency", "reflexion">>

(* STRATEGY_MAP, without the strategies reason has no code for *)
StrategyMap(type) ==
    CASE type \in {"factual_qa", "unknown", "code_generation"} -> {"cot"}
      [] type = "multi_step_reasoning" -> {"cot", "tot"}
      [] type = "open_analysis" -> {"self_consistency", "reflexion"}
      [] type \in {"creative_writing", "planning"} -> {"tot"}
      [] type = "math_problem" -> {"cot", "tot", "self_consistency"}

ProblemTypes == {"factual_qa", "multi_step_reasoning", "open_analysis", "planning", "math_problem"}

(* select_strategies: a hard problem is also reflected on; of an easy one's *)
(* strategies the first that STRATEGY_MAP lists is left                    *)
Selected(type, complexity) ==
    LET all == StrategyMap(type)
        first == CHOOSE i \in DOMAIN Order :
                    Order[i] \in all /\ \A j \in DOMAIN Order : Order[j] \in all => i <= j
    IN  CASE complexity = "high" -> all \cup {"reflexion"}
          [] complexity = "low" -> {Order[first]}
          [] OTHER -> all

Init ==
    /\ problem = None /\ todo = <<>> /\ used = <<>>
    /\ answer = None /\ confidence = 5
    /\ nodes = <<>> /\ frontier = <<>> /\ next = <<>> /\ depth = 0
    /\ samples = <<>> /\ trace = <<>> /\ current = None

Begin(type, complexity) ==
    /\ problem = None
    /\ problem' = [type |-> type, complexity |-> complexity]
    /\ todo' = SelectSeq(Order, LAMBDA s : s \in Selected(type, complexity))
    /\ UNCHANGED <<used, answer, confidence, tree, samples, trace, current>>

At(s) == todo # <<>> /\ Head(todo) = s

Offers(s, c) == used' = Append(used, [strategy |-> s, confidence |-> c])

(* Mutant: a later strategy's answer replaces the one there is. *)
TakenAnyway(c) == TRUE

(* tot, self_consistency and reflexion must beat what there is *)
Taken(c) == c > confidence

Done(s, c) ==
    /\ todo' = Tail(todo) /\ Offers(s, c)
    /\ IF Taken(c) THEN answer' = s /\ confidence' = c ELSE UNCHANGED <<answer, confidence>>

(* The prompt's answer is the current one, whatever its confidence *)
Prompt(c) ==
    /\ At("cot") /\ todo' = Tail(todo) /\ Offers("cot", c)
    /\ answer' = "cot" /\ confidence' = c
    /\ UNCHANGED <<problem, tree, samples, trace, current>>

(* ------------------------- TreeOfThoughtEngine ------------------------- *)
Root == [parent |-> 0, depth |-> 0, score |-> 0, terminal |-> FALSE]

Plant ==
    /\ At("tot") /\ nodes = <<>>
    /\ nodes' = <<Root>> /\ frontier' = <<1>> /\ next' = <<>> /\ depth' = 0
    /\ UNCHANGED <<problem, todo, used, answer, confidence, samples, trace, current>>

Thoughts(n) == [1 .. BranchFactor ->
    [parent : {n}, depth : {depth + 1}, score : Scores, terminal : BOOLEAN]]

(* scored_children.sort, which is stable, and the beam's share of it *)
Beam(children, base) ==
    LET before(i) == {j \in DOMAIN children :
                         \/ children[j].score > children[i].score
                         \/ children[j].score = children[i].score /\ j < i}
    IN  [k \in 1 .. BeamWidth |->
            base + CHOOSE i \in DOMAIN children : Cardinality(before(i)) = k - 1]

(* the first node of the frontier: a terminal one is passed over *)
Expand ==
    /\ At("tot") /\ frontier # <<>> /\ depth < MaxDepth
    /\ frontier' = Tail(frontier)
    /\ \/ nodes[Head(frontier)].terminal /\ UNCHANGED <<nodes, next>>
       \/ /\ ~ nodes[Head(frontier)].terminal
          /\ \E children \in Thoughts(Head(frontier)) :
                /\ nodes' = nodes \o children
                /\ next' = next \o Beam(children, Len(nodes))
    /\ UNCHANGED <<problem, todo, used, answer, confidence, depth, samples, trace, current>>

Deepen ==
    /\ At("tot") /\ nodes # <<>> /\ frontier = <<>> /\ next # <<>> /\ depth < MaxDepth
    /\ frontier' = next /\ next' = <<>> /\ depth' = depth + 1
    /\ UNCHANGED <<problem, todo, used, answer, confidence, nodes, samples, trace, current>>

Expanded == nodes # <<>> /\ (depth = MaxDepth \/ (frontier = <<>> /\ next = <<>>))

(* Mutant: only the deepest nodes are looked at. *)
DeepestOnly(n) == nodes[n].depth = MaxDepth

Finished(n) == nodes[n].terminal \/ nodes[n].depth = MaxDepth

(* the first node in the order of creation with the best score *)
FirstBest(S) ==
    CHOOSE n \in S : \A m \in S :
        nodes[m].score < nodes[n].score \/ (nodes[m].score = nodes[n].score /\ n <= m)

BestLeaf ==
    LET leaves == {n \in DOMAIN nodes : Finished(n)}
    IN  IF leaves # {} THEN FirstBest(leaves) ELSE FirstBest(DOMAIN nodes)

(* _find_best_path: from the leaf up to the root, then reversed *)
PathTo(n) ==
    LET up[k \in 0 .. MaxDepth] == IF k = 0 THEN <<n>>
                                   ELSE IF nodes[Head(up[k - 1])].parent = 0 THEN up[k - 1]
                                   ELSE <<nodes[Head(up[k - 1])].parent>> \o up[k - 1]
    IN  up[MaxDepth]

FindBestPath ==
    /\ At("tot") /\ Expanded
    /\ Done("tot", nodes[BestLeaf].score)
    /\ nodes' = <<>> /\ frontier' = <<>> /\ next' = <<>> /\ depth' = 0
    /\ UNCHANGED <<problem, samples, trace, current>>

(* ------------------------ SelfConsistencySampler ----------------------- *)
Sample(text) ==
    /\ At("self_consistency") /\ Len(samples) < NumSamples
    /\ samples' = Append(samples, text)
    /\ UNCHANGED <<problem, todo, used, answer, confidence, tree, trace, current>>

Votes(text) == Cardinality({i \in DOMAIN samples : samples[i] = text})

(* Counter.most_common: of the most frequent answers the one seen first *)
Winner ==
    samples[CHOOSE i \in DOMAIN samples :
        /\ \A j \in DOMAIN samples : Votes(samples[j]) <= Votes(samples[i])
        /\ \A j \in 1 .. i - 1 : Votes(samples[j]) < Votes(samples[i])]

Aggregate ==
    /\ At("self_consistency") /\ Len(samples) = NumSamples
    /\ Done("self_consistency", (10 * Votes(Winner)) \div NumSamples)
    /\ samples' = <<>>
    /\ UNCHANGED <<problem, tree, trace, current>>

(* ---------------------------- ReflexionEngine -------------------------- *)
(* without an answer there is nothing to reflect on *)
SkipReflection ==
    /\ At("reflexion") /\ answer = None
    /\ todo' = Tail(todo)
    /\ UNCHANGED <<problem, used, answer, confidence, tree, samples, trace, current>>

BeginReflection(score) ==
    /\ At("reflexion") /\ answer # None /\ trace = <<>>
    /\ trace' = <<score>> /\ current' = [score |-> score, from |-> 1, go |-> TRUE]
    /\ UNCHANGED <<problem, todo, used, answer, confidence, tree, samples>>

(* One iteration: the improved text is kept only if it scores more, and    *)
(* the loop goes on only after a real improvement that is not yet enough   *)
Reflect(score) ==
    /\ At("reflexion") /\ trace # <<>> /\ current.go /\ Len(trace) <= MaxIterations
    /\ trace' = Append(trace, score)
    /\ LET better == score > current.score
           goes == /\ score - current.score >= Improvement /\ score < MinScore
                   /\ Len(trace) < MaxIterations
       IN  current' = [score |-> IF better THEN score ELSE current.score,
                       from |-> IF better THEN Len(trace) + 1 ELSE current.from,
                       go |-> goes]
    /\ UNCHANGED <<problem, todo, used, answer, confidence, tree, samples>>

EndReflection ==
    /\ At("reflexion") /\ trace # <<>> /\ (~ current.go \/ MaxIterations = 0)
    /\ Done("reflexion", current.score)
    /\ trace' = <<>> /\ current' = None
    /\ UNCHANGED <<problem, tree, samples>>

(* reason answers; without an answer it says so, with a confidence of 0.3 *)
Answer ==
    /\ problem # None /\ todo = <<>> /\ answer = None
    /\ answer' = "unknown" /\ confidence' = 3
    /\ UNCHANGED <<problem, todo, used, tree, samples, trace, current>>

Next ==
    \/ \E t \in ProblemTypes, c \in {"low", "medium", "high"} : Begin(t, c)
    \/ \E c \in Scores : Prompt(c) \/ BeginReflection(c) \/ Reflect(c)
    \/ Plant \/ Expand \/ Deepen \/ FindBestPath
    \/ \E t \in Texts : Sample(t)
    \/ Aggregate \/ SkipReflection \/ EndReflection \/ Answer

Spec == Init /\ [][Next]_vars
-----------------------------------------------------------------------------
TypeOK ==
    /\ confidence \in 0 .. 10
    /\ Len(trace) <= MaxIterations + 1 /\ Len(samples) <= NumSamples
    /\ \A n \in DOMAIN nodes : nodes[n].parent < n /\ nodes[n].depth <= MaxDepth

(* A finished tree's best path leads from the root by parents to a leaf    *)
(* that no finished thought, kept in the beam or not, outscores; and there *)
(* always is a finished thought (expand, _find_best_path).                 *)
BestPathSound ==
    Expanded =>
        LET p == PathTo(BestLeaf)
            leaves == {n \in DOMAIN nodes : \A m \in DOMAIN nodes : nodes[m].parent # n}
            ended == {n \in leaves : nodes[n].terminal \/ nodes[n].depth = MaxDepth}
        IN  /\ Head(p) = 1 /\ \A i \in 1 .. Len(p) - 1 : nodes[p[i + 1]].parent = p[i]
            /\ ended # {} /\ Last(p) \in ended
            /\ \A n \in ended : nodes[n].score <= nodes[Last(p)].score

(* What a reflection returns is the best of all it tried, and every text   *)
(* it went on from had improved on the one before (reflect).               *)
ReflectionSound ==
    trace # <<>> =>
        /\ current.score = Max(ToSet(trace)) /\ trace[current.from] = current.score
        /\ \A i \in 1 .. Len(trace) - 2 : trace[i + 1] - trace[i] >= Improvement

(* The answer is that of the most confident strategy, the earliest of      *)
(* them. Only when nothing beats the initial 0.5 and no prompt was tried,  *)
(* an answer that was found is thrown away for "unknown" (reason).         *)
AnswerSound ==
    LET offered == {used[i].confidence : i \in DOMAIN used}
    IN  /\ answer \notin {None, "unknown"} =>
              /\ confidence = Max(offered)
              /\ \E i \in DOMAIN used :
                    /\ used[i].strategy = answer /\ used[i].confidence = confidence
                    /\ \A j \in 1 .. i - 1 : used[j].confidence < confidence
        /\ answer \in {None, "unknown"} =>
              \A i \in DOMAIN used : used[i].strategy # "cot" /\ used[i].confidence <= 5
=============================================================================
