------------------------------- MODULE Routing ------------------------------
(***************************************************************************)
(* core/model_hub before a call is made: the registry and the selector     *)
(* (registry.py, router/selector.py, router/scoring.py), the load balancer *)
(* (load_balancer/) and the complexity estimate (router/complexity.py).    *)
(* Choose, Balance and Estimate step them; they share no state. Scores are *)
(* in thousandths.                                                         *)
(***************************************************************************)
EXTENDS Integers, Sequences, FiniteSets, SequencesExt

CONSTANTS
    Models, Sessions, Threads, None,
    Data,            \* per model: [quality, affinity, cost, latency, p95, able, preferred]
    Weights,         \* [quality, cost, latency, load, affinity]
    Requests,        \* [fast, cheap, able, session]: the limits and the capability asked for
    MaxLatency, MaxCost,    \* those limits
    Instances, Copies,      \* Copies[i]: int(weight * 10)
    Calls, MaxPicks,        \* bounds of the balancer model
    Limits                  \* per feature of a prompt, the largest value

VARIABLES
    models,          \* the registry's dict: its keys in order of registration
    meta,            \* per registered model [status, health]
    index,           \* _capability_index of one capability
    sessionModel, chooser,
    known,           \* ghost: every model that was ever picked, per session
    wrong,           \* ghost: a decision that did not fit what its thread had read
    instances, active, turn, strategy, call, foreign, picks,
    prompt

chooseVars == <<models, meta, index, sessionModel, chooser, known, wrong>>
balanceVars == <<instances, active, turn, strategy, call, foreign, picks>>
vars == <<chooseVars, balanceVars, prompt>>

Idle == [at |-> "idle"]
Least(x, y) == IF x < y THEN x ELSE y
Most(x, y) == IF x > y THEN x ELSE y

Init ==
    /\ models = <<>> /\ meta = [m \in Models |-> None] /\ index = <<>>
    /\ sessionModel = [s \in Sessions |-> None] /\ chooser = [t \in Threads |-> Idle]
    /\ known = [s \in Sessions |-> {}] /\ wrong = {}
    /\ instances = <<>> /\ active = [i \in Instances |-> None] /\ turn = 0
    /\ strategy = "round_robin" /\ call = [c \in Calls |-> Idle]
    /\ foreign = {} /\ picks = [i \in Instances |-> 0]
    /\ prompt = [f \in DOMAIN Limits |-> 0]

(* ------------------------------- registry ------------------------------ *)
(* a new model's health is UNKNOWN until somebody updates it *)
Register(m) ==
    /\ meta[m] = None
    /\ models' = Append(models, m)
    /\ meta' = [meta EXCEPT ![m] = [status |-> "enabled", health |-> "unknown"]]
    /\ index' = IF Data[m].able THEN Append(index, m) ELSE index
    /\ UNCHANGED <<sessionModel, chooser, known, wrong>>

Unregister(m) ==
    /\ meta[m] # None
    /\ models' = SelectSeq(models, LAMBDA x : x # m)
    /\ index' = SelectSeq(index, LAMBDA x : x # m)
    /\ meta' = [meta EXCEPT ![m] = None]
    /\ UNCHANGED <<sessionModel, chooser, known, wrong>>

UpdateModel(m, status, health) ==
    /\ meta[m] # None
    /\ meta' = [meta EXCEPT ![m] = [status |-> status, health |-> health]]
    /\ UNCHANGED <<models, index, sessionModel, chooser, known, wrong>>

(* Mutant: a model nobody has checked yet counts as available. *)
AvailableUnlessDown(m) == meta[m].status = "enabled" /\ meta[m].health # "unhealthy"

IsAvailable(m) == meta[m].status = "enabled" /\ meta[m].health \in {"healthy", "degraded"}

(* ------------------------------- selector ------------------------------ *)
MeetsConstraints(m, request) ==
    /\ request.fast => Data[m].p95 <= MaxLatency
    /\ request.cheap => Data[m].cost <= MaxCost

MeetsCapabilities(m, request) == request.able => Data[m].able

Candidates(request) ==
    SelectSeq(models, LAMBDA m : /\ IsAvailable(m)
                                 /\ MeetsConstraints(m, request)
                                 /\ MeetsCapabilities(m, request))

QualityScore(m, health) ==
    IF health = "degraded" THEN (Data[m].quality * 85) \div 100 ELSE Data[m].quality

(* cost as a share of the 0.10 that still counts as reasonable *)
CostScore(m) == IF Data[m].cost >= 1000 THEN 100 ELSE Most(1000 - Data[m].cost, 100)

LatencyScore(m) ==
    CASE Data[m].latency <= 100 -> 1000
      [] Data[m].latency >= 10000 -> 100
      [] OTHER -> Most(1000 - ((Data[m].latency - 100) * 1000) \div 9900, 100)

(* current_loads is never filled *)
LoadScore == 1000

(* the boosts of the preferred provider and of the session's model are cut at 1.0 *)
TotalScore(m, health, session) ==
    LET total == (QualityScore(m, health) * Weights.quality + CostScore(m) * Weights.cost
                    + LatencyScore(m) * Weights.latency + LoadScore * Weights.load
                    + Data[m].affinity * Weights.affinity) \div 1000
        provided == IF Data[m].preferred THEN Least((total * 110) \div 100, 1000) ELSE total
    IN  IF m = session THEN Least((provided * 115) \div 100, 1000) ELSE provided

(* sorted by score; equal scores keep the order of the registry *)
Ranked(list, healths, session) ==
    LET Before(i, j) ==
            LET x == TotalScore(list[i], healths[list[i]], session)
                y == TotalScore(list[j], healths[list[j]], session)
            IN  x > y \/ (x = y /\ i < j)
        order == SetToSortSeq(DOMAIN list, Before)
    IN  [k \in DOMAIN order |-> list[order[k]]]

SessionOf(request) == IF request.session = None THEN None ELSE sessionModel[request.session]

(* select up to the ranking: nothing is locked *)
ReadCandidates(t, request) ==
    /\ chooser[t] = Idle
    /\ chooser' = [chooser EXCEPT ![t] =
           IF Candidates(request) = <<>> THEN Idle
           ELSE [at |-> "rank", request |-> request, ranked |-> Candidates(request),
                 usable |-> {m \in Models : meta[m] # None /\ meta[m].status = "enabled"
                                              /\ meta[m].health \in {"healthy", "degraded"}}]]
    /\ UNCHANGED <<models, meta, index, sessionModel, known, wrong>>

(* the scores take the health the models have now *)
RankModels(t) ==
    /\ chooser[t].at = "rank"
    /\ chooser' = [chooser EXCEPT ![t].at = "get",
                     ![t].ranked = Ranked(@, [m \in Models |-> IF meta[m] = None THEN "healthy" ELSE meta[m].health],
                                          SessionOf(chooser[t].request))]
    /\ UNCHANGED <<models, meta, index, sessionModel, known, wrong>>

(* registry.get of the best, which may be gone: then no model is selected, *)
(* although others were ranked                                             *)
Pick(t) ==
    LET best == Head(chooser[t].ranked)
        request == chooser[t].request
        fits == best \in chooser[t].usable /\ (request.able => Data[best].able)
                  /\ (request.fast => Data[best].p95 <= MaxLatency)
                  /\ (request.cheap => Data[best].cost <= MaxCost)
    IN  /\ chooser[t].at = "get"
        /\ IF meta[best] # None /\ request.session # None
           THEN /\ sessionModel' = [sessionModel EXCEPT ![request.session] = best]
                /\ known' = [known EXCEPT ![request.session] = @ \cup {best}]
           ELSE UNCHANGED <<sessionModel, known>>
        /\ wrong' = IF fits THEN wrong ELSE wrong \cup {best}
        /\ chooser' = [chooser EXCEPT ![t] = Idle]
        /\ UNCHANGED <<models, meta, index>>

ClearSession(s) ==
    /\ sessionModel' = [sessionModel EXCEPT ![s] = None]
    /\ UNCHANGED <<models, meta, index, chooser, known, wrong>>

Choose ==
    /\ \/ \E m \in Models :
             \/ Register(m) \/ Unregister(m)
             \/ \E st \in {"enabled", "maintenance"}, h \in {"healthy", "degraded", "unhealthy"} :
                   UpdateModel(m, st, h)
       \/ \E t \in Threads :
             \/ \E r \in Requests : ReadCandidates(t, r)
             \/ RankModels(t) \/ Pick(t)
       \/ \E s \in Sessions : ClearSession(s)
    /\ UNCHANGED <<balanceVars, prompt>>

(* ----------------------------- load balancer --------------------------- *)
(* picks are counted since the instances or the strategy last changed *)
RegisterInstance(i) ==
    /\ active[i] = None
    /\ instances' = Append(instances, i) /\ active' = [active EXCEPT ![i] = 0]
    /\ picks' = [j \in Instances |-> 0]
    /\ UNCHANGED <<turn, strategy, call, foreign>>

(* the calls of the instance stay under way, its metrics do not *)
UnregisterInstance(i) ==
    /\ active[i] # None
    /\ instances' = SelectSeq(instances, LAMBDA x : x # i)
    /\ active' = [active EXCEPT ![i] = None]
    /\ call' = [c \in Calls |-> IF call[c] # Idle /\ call[c].on = i
                                THEN [call[c] EXCEPT !.counted = FALSE] ELSE call[c]]
    /\ foreign' = foreign \ {i} /\ picks' = [j \in Instances |-> 0]
    /\ UNCHANGED <<turn, strategy>>

(* a new strategy object starts at index 0 *)
SetStrategy(name) ==
    /\ strategy' = name /\ turn' = 0 /\ picks' = [j \in Instances |-> 0]
    /\ UNCHANGED <<instances, active, call, foreign>>

(* WeightedRoundRobinStrategy repeats an instance int(weight * 10) times in a row *)
Wheel ==
    IF strategy = "round_robin" THEN instances
    ELSE FlattenSeq([k \in DOMAIN instances |-> [n \in 1 .. Copies[instances[k]] |-> instances[k]]])

LeastConnections ==
    LET Fewest(k) == \A j \in DOMAIN instances :
            \/ active[instances[k]] < active[instances[j]]
            \/ active[instances[k]] = active[instances[j]] /\ k <= j
    IN  instances[CHOOSE k \in DOMAIN instances : Fewest(k)]

Turned == turn + 1

(* Mutant: every request advances the index twice. *)
TurnedTwice == turn + 2

Select(c) ==
    /\ call[c] = Idle /\ instances # <<>> /\ Wheel # <<>>
    /\ turn < MaxPicks /\ \A i \in Instances : picks[i] < MaxPicks
    /\ LET chosen == IF strategy = "least_connections" THEN LeastConnections
                     ELSE Wheel[(turn % Len(Wheel)) + 1]
       IN  /\ call' = [call EXCEPT ![c] = [at |-> "chosen", on |-> chosen, counted |-> FALSE]]
           /\ picks' = [picks EXCEPT ![chosen] = @ + 1]
    /\ turn' = IF strategy = "least_connections" THEN turn ELSE Turned
    /\ UNCHANGED <<instances, active, strategy, foreign>>

RecordRequestStart(c) ==
    /\ call[c].at = "chosen"
    /\ LET i == call[c].on
       IN  IF active[i] = None
           THEN active' = active /\ call' = [call EXCEPT ![c].at = "open"]
           ELSE /\ active' = [active EXCEPT ![i] = @ + 1]
                /\ call' = [call EXCEPT ![c].at = "open", ![c].counted = TRUE]
    /\ UNCHANGED <<instances, turn, strategy, foreign, picks>>

Decremented(n) == IF n > 0 THEN n - 1 ELSE 0

RecordRequestEnd(c) ==
    /\ call[c].at = "open"
    /\ LET i == call[c].on
       IN  /\ active' = IF active[i] = None THEN active
                        ELSE [active EXCEPT ![i] = Decremented(@)]
           /\ foreign' = IF active[i] # None /\ ~ call[c].counted THEN foreign \cup {i} ELSE foreign
    /\ call' = [call EXCEPT ![c] = Idle]
    /\ UNCHANGED <<instances, turn, strategy, picks>>

Balance ==
    /\ \/ \E i \in Instances : RegisterInstance(i) \/ UnregisterInstance(i)
       \/ \E n \in {"round_robin", "weighted", "least_connections"} : SetStrategy(n)
       \/ \E c \in Calls : Select(c) \/ RecordRequestStart(c) \/ RecordRequestEnd(c)
    /\ UNCHANGED <<chooseVars, prompt>>

(* ------------------------------ complexity ----------------------------- *)
(* n: hundreds of characters, with the history *)
LengthFactor(n) ==
    CASE n < 1 -> 100 [] n < 5 -> 300 [] n < 15 -> 500 [] n < 30 -> 700
      [] OTHER -> Least(900, 700 + (n - 30) * 10)

(* list markers, conditionals and the like, about 0.2 each *)
StructureFactor(n) == Least(n * 200, 1000)

(* keywords of reasoning, and of mathematics at one and a half *)
ReasoningFactor(r, m) ==
    LET doubled == 2 * r + 3 * m
    IN  CASE doubled = 0 -> 200 [] doubled < 6 -> 400 [] doubled < 12 -> 600
          [] doubled < 20 -> 800 [] OTHER -> 950

DomainFactor(coding, creative) ==
    CASE coding > 3 -> 800 [] coding <= 3 /\ creative > 3 -> 500
      [] coding = 0 /\ creative = 0 -> 300 [] OTHER -> 600

ContextFactor(n) ==
    CASE n = 0 -> 100 [] n = 1 -> 200 [] n \in 2 .. 4 -> 400 [] n \in 5 .. 9 -> 600
      [] OTHER -> Least(900, 600 + n * 20)

TechnicalFactor(n) == Least(n * 150, 900)

(* Mutant: the factor ends with the second pattern found. *)
TechnicalWrapped(n) == IF n > 1 THEN 0 ELSE n * 150

Overall(p) ==
    (15 * LengthFactor(p.length) + 15 * StructureFactor(p.structure)
       + 25 * ReasoningFactor(p.reasoning, p.math) + 20 * DomainFactor(p.coding, p.creative)
       + 15 * ContextFactor(p.context) + 10 * TechnicalFactor(p.technical)) \div 100

Level(overall) ==
    CASE overall < 300 -> 0 [] overall < 600 -> 1 [] overall < 800 -> 2 [] OTHER -> 3

Grow(f) ==
    /\ prompt[f] < Limits[f]
    /\ prompt' = [prompt EXCEPT ![f] = @ + 1]

Estimate ==
    /\ \E f \in DOMAIN Limits : Grow(f)
    /\ UNCHANGED <<chooseVars, balanceVars>>

Next == Choose \/ Balance \/ Estimate

(* ------------------------------ properties ----------------------------- *)
TypeOK ==
    /\ \A m \in Models : meta[m] # None <=> m \in Range(models)
    /\ \A i \in Instances : active[i] # None <=> i \in Range(instances)
    /\ Range(index) = {m \in Range(models) : Data[m].able}

(* What a selection picks was available, within the request's limits and   *)
(* able when its candidates were read, although the registry may change    *)
(* before each later step; and a session is only ever sent back to a model *)
(* that was picked for it.                                                 *)
SelectionSound ==
    /\ wrong = {}
    /\ \A s \in Sessions : sessionModel[s] \in known[s] \cup {None}

(* The connections counted for an instance are its calls under way, unless *)
(* a call that began under an earlier registration has ended on it.        *)
ConnectionsCounted ==
    \A i \in Instances \ foreign :
        active[i] # None =>
            active[i] = Cardinality({c \in Calls : call[c] # Idle /\ call[c].on = i /\ call[c].counted})

(* Since the instances last changed each had its share of the turns: its   *)
(* copies once per round of the wheel, wherever the index stood.           *)
TurnsShared ==
    LET share(i) == IF strategy = "round_robin" THEN 1 ELSE Copies[i]
        total == FoldSeq(LAMBDA i, n : n + picks[i], 0, instances)
        round == Most(Len(Wheel), 1)
    IN  strategy # "least_connections" =>
            \A i \in Range(instances) :
                /\ picks[i] >= share(i) * (total \div round)
                /\ picks[i] <= share(i) * (total \div round + 1)

(* A prompt that grows in any respect but its creative words (four of them *)
(* count less than one) is never estimated to be simpler.                  *)
ComplexityGrows ==
    \A f \in DOMAIN Limits \ {"creative"} :
        prompt[f] < Limits[f] =>
            /\ Overall([prompt EXCEPT ![f] = @ + 1]) >= Overall(prompt)
            /\ Level(Overall([prompt EXCEPT ![f] = @ + 1])) >= Level(Overall(prompt))
=============================================================================
