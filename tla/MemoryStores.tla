----------------------------- MODULE MemoryStores ---------------------------
(***************************************************************************)
(* What the agents remember: the layered memory hub (core/memory_hub), the *)
(* kernel's memory adapter and context bus (core/kernel/kernel.py), the    *)
(* reasoning scratchpad (core/reasoning/scratchpad.py) and the             *)
(* metacognition loop (core/metacognition). Each runs on one event loop    *)
(* and never really suspends, so every call is one action. Hub, Kernel,    *)
(* Pad and Reflect are the next-state relations of their own variables.    *)
(*                                                                         *)
(* Abstracted: a stored value is the number of its write; a text is its    *)
(* first 80 characters (its head) and the heads that occur anywhere in it, *)
(* whatever the case of their letters.                                     *)
(***************************************************************************)
EXTENDS Integers, FiniteSets, FiniteSetsExt, SequencesExt

CONSTANTS
    None, Keys, HubKeys,
    Policies,                      \* members of ConflictPolicy
    Confidences, Full,             \* callers' confidences; 1.0
    High,                          \* WritebackPlanner's high_confidence
    Ttl,                           \* a time to live
    MaxEntries,                    \* of the scratchpad
    Messages, HeadOf, Holds,       \* texts; text[:80]; the heads that occur in it
    MaxItems,                      \* of the debt ledger
    MaxWrites, MaxTime, MaxTraces  \* bounds of the model

VARIABLES
    policy, layers, written,       \* the hub: layer -> key -> None or [value, confidence, updated];
                                   \* the writes of a key since it was last cleared
    store, expiry, stack,          \* MemoryAdapter._store, _ttls; ContextBus._stack
    objects, pad, snapshot,        \* ScratchpadEntry objects; key -> object or 0; a copy of it
    known, debt, seen,             \* patterns (heads); the ledger; messages observed
    writes, now

hubVars == <<policy, layers, written>>
kernelVars == <<store, expiry, stack>>
padVars == <<objects, pad, snapshot>>
debtVars == <<known, debt, seen>>
vars == <<hubVars, kernelVars, padVars, debtVars, writes, now>>

(* retrieve's order *)
Layers == <<"l1_context", "l2_session", "l3_profile", "l4_knowledge">>

Init ==
    /\ policy \in Policies
    /\ layers = [l \in ToSet(Layers) |-> [k \in HubKeys |-> None]]
    /\ written = [l \in ToSet(Layers) |-> [k \in HubKeys |-> {}]]
    /\ store = [k \in Keys |-> None] /\ expiry = [k \in Keys |-> None]
    /\ stack = [k \in Keys |-> <<>>]
    /\ objects = <<>> /\ pad = [k \in Keys |-> 0] /\ snapshot = None
    /\ known = {} /\ debt = <<>> /\ seen = <<>>
    /\ writes = 0 /\ now = 0

Tick == now < MaxTime /\ now' = now + 1 /\ UNCHANGED writes

Write == writes < MaxWrites /\ writes' = writes + 1 /\ UNCHANGED now

(* ------------------------------ memory hub ----------------------------- *)
(* ConflictResolver.resolve *)
Resolve(existing, incoming) ==
    IF existing = None THEN incoming
    ELSE CASE policy = "prefer_existing" -> existing
           [] policy = "prefer_newer" -> IF incoming.updated >= existing.updated THEN incoming ELSE existing
           [] OTHER -> IF incoming.confidence > existing.confidence THEN incoming ELSE existing

(* Mutant: without the strict comparison of confidences. *)
ResolveNewest(existing, incoming) == incoming

Clamp(c) == IF c > Full THEN Full ELSE c

(* upsert: the chosen item is stored again, as of now, and its confidence  *)
(* set, which clamps it                                                    *)
Upsert(k, l, c) ==
    /\ Write
    /\ LET chosen == Resolve(layers[l][k], [value |-> writes + 1, confidence |-> c, updated |-> now])
       IN layers' = [layers EXCEPT ![l][k] =
              [value |-> chosen.value, confidence |-> Clamp(chosen.confidence), updated |-> now]]
    /\ written' = [written EXCEPT ![l][k] = @ \cup {[value |-> writes + 1, confidence |-> Clamp(c)]}]
    /\ UNCHANGED policy

(* WritebackPlanner.plan *)
LayerFor(c, flag) ==
    CASE flag = "ephemeral" -> "l1_context"
      [] flag = "knowledge" -> "l4_knowledge"
      [] OTHER -> IF c >= High THEN "l3_profile" ELSE "l2_session"

Writeback(k, c, flag) == Upsert(k, LayerFor(c, flag), c)

(* delete of a layer *)
Forget(k, l) ==
    /\ layers[l][k] # None
    /\ layers' = [layers EXCEPT ![l][k] = None]
    /\ written' = [written EXCEPT ![l][k] = {}]
    /\ UNCHANGED <<policy, writes, now>>

(* shutdown clears every layer *)
Shutdown ==
    /\ layers' = [l \in ToSet(Layers) |-> [k \in HubKeys |-> None]]
    /\ written' = [l \in ToSet(Layers) |-> [k \in HubKeys |-> {}]]
    /\ UNCHANGED <<policy, writes, now>>

Hub ==
    /\ \/ \E k \in HubKeys :
             \/ \E c \in Confidences, f \in {"ephemeral", "knowledge", "plain"} : Writeback(k, c, f)
             \/ \E l \in ToSet(Layers) : Forget(k, l)
       \/ Shutdown
       \/ Tick /\ UNCHANGED hubVars
    /\ UNCHANGED <<kernelVars, padVars, debtVars>>

(* -------------------------------- kernel ------------------------------- *)
(* store: without a ttl the one of an earlier store stays *)
Store(k, ttl) ==
    /\ Write
    /\ store' = [store EXCEPT ![k] = writes + 1]
    /\ expiry' = IF ttl THEN [expiry EXCEPT ![k] = now + Ttl] ELSE expiry
    /\ UNCHANGED stack

Dropped(k) == store' = [store EXCEPT ![k] = None] /\ expiry' = [expiry EXCEPT ![k] = None]

(* Mutant: delete leaves the time to live behind. *)
DroppedValue(k) == store' = [store EXCEPT ![k] = None] /\ UNCHANGED expiry

Expired(k) == expiry[k] # None /\ now > expiry[k]

(* retrieve drops an expired key; others it only reads *)
Retrieve(k) == Expired(k) /\ Dropped(k) /\ UNCHANGED <<stack, writes, now>>

Delete(k) == store[k] # None /\ Dropped(k) /\ UNCHANGED <<stack, writes, now>>

Push(k) == Write /\ stack' = [stack EXCEPT ![k] = Append(@, writes + 1)] /\ UNCHANGED <<store, expiry>>

Pop(k) ==
    /\ stack[k] # <<>> /\ stack' = [stack EXCEPT ![k] = Front(@)]
    /\ UNCHANGED <<store, expiry, writes, now>>

SetTop(k) ==
    /\ Write
    /\ stack' = [stack EXCEPT ![k] = IF @ = <<>> THEN <<writes + 1>> ELSE Append(Front(@), writes + 1)]
    /\ UNCHANGED <<store, expiry>>

Kernel ==
    /\ \/ \E k \in Keys : \/ \E ttl \in BOOLEAN : Store(k, ttl)
                          \/ Retrieve(k) \/ Delete(k) \/ Push(k) \/ Pop(k) \/ SetTop(k)
       \/ Tick /\ UNCHANGED kernelVars
    /\ UNCHANGED <<hubVars, padVars, debtVars>>

(* ------------------------------ scratchpad ----------------------------- *)
Held == {k \in Keys : pad[k] # 0}

(* _evict_oldest *)
Oldest == {k \in Held : \A j \in Held : objects[pad[k]].at <= objects[pad[j]].at}

Place(k, from) == pad' = [from EXCEPT ![k] = Len(objects) + 1]

(* Mutant: nothing is evicted for a key the pad does not hold. *)
PlaceAnyway(k, from) == pad' = [pad EXCEPT ![k] = Len(objects) + 1]

(* store: a full pad evicts, though the key may be one it holds *)
PadStore(k) ==
    /\ Write
    /\ objects' = Append(objects, [value |-> writes + 1, at |-> now])
    /\ \/ Cardinality(Held) < MaxEntries /\ Place(k, pad)
       \/ Cardinality(Held) >= MaxEntries /\ \E o \in Oldest : Place(k, [pad EXCEPT ![o] = 0])
    /\ UNCHANGED snapshot

(* update changes the entry itself, which snapshots share *)
PadUpdate(k) ==
    /\ k \in Held /\ Write
    /\ objects' = [objects EXCEPT ![pad[k]].value = writes + 1, ![pad[k]].at = now]
    /\ UNCHANGED <<pad, snapshot>>

(* delete, and retrieve of an expired entry *)
PadDrop(k) ==
    /\ k \in Held
    /\ pad' = [pad EXCEPT ![k] = 0]
    /\ UNCHANGED <<objects, snapshot, writes, now>>

PadSnapshot == snapshot' = pad /\ UNCHANGED <<objects, pad, writes, now>>
PadRestore == snapshot # None /\ pad' = snapshot /\ UNCHANGED <<objects, snapshot, writes, now>>

Pad ==
    /\ \/ \E k \in Keys : PadStore(k) \/ PadUpdate(k) \/ PadDrop(k)
       \/ PadSnapshot \/ PadRestore
       \/ Tick /\ UNCHANGED padVars
    /\ UNCHANGED <<hubVars, kernelVars, debtVars>>

(* ----------------------------- metacognition --------------------------- *)
(* FailurePatternLibrary.match: re.search of the patterns, ignoring case;  *)
(* a trace without an error or a message has the empty text, here None     *)
Matches(m) == {h \in known : m # None /\ h \in Holds[m]}

(* Mutant: the ledger drops what is new when it is full. *)
LedgerKeepsOld(items) == SubSeq(items, 1, IF Len(items) < MaxItems THEN Len(items) ELSE MaxItems)

(* CognitiveDebtLedger.add keeps the newest *)
Ledger(items) == SubSeq(items, IF Len(items) <= MaxItems THEN 1 ELSE Len(items) - MaxItems + 1, Len(items))

Added(items, type, n) == Ledger(Append(items, [type |-> type, trace |-> n]))

(* observe adds its items one after the other *)
Observe(m, confident) ==
    /\ Len(seen) < MaxTraces
    /\ LET n == Len(seen) + 1
           matched == IF Matches(m) # {} THEN Added(debt, "failure_pattern", n) ELSE debt
       IN /\ seen' = Append(seen, [message |-> m, known |-> m # None /\ Holds[m] \cap known # {}])
          /\ debt' = IF confident THEN matched ELSE Added(matched, "low_confidence", n)
    /\ UNCHANGED <<known, writes, now>>

(* apply_update of what propose_updates said when trace n was the last: a  *)
(* pattern of its head, escaped, unless its text is empty                  *)
ApplyUpdate(n) ==
    /\ seen[n].message # None
    /\ known' = known \cup {HeadOf[seen[n].message]}
    /\ UNCHANGED <<debt, seen, writes, now>>

Reflect ==
    /\ \/ \E n \in DOMAIN seen : ApplyUpdate(n)
       \/ \E m \in Messages \cup {None}, c \in BOOLEAN : Observe(m, c)
    /\ UNCHANGED <<hubVars, kernelVars, padVars>>

Next == Hub \/ Kernel \/ Pad \/ Reflect

TypeOK ==
    /\ \A l \in ToSet(Layers), k \in HubKeys : layers[l][k] # None => layers[l][k].value \in 1 .. writes
    /\ \A k \in Keys : store[k] \in 1 .. writes \cup {None} /\ expiry[k] \in 0 .. MaxTime + Ttl \cup {None}
    /\ pad \in [Keys -> 0 .. Len(objects)]
    /\ known \subseteq {HeadOf[m] : m \in Messages}
-----------------------------------------------------------------------------
(* With prefer_higher_confidence a layer holds, of a key, the first of the *)
(* writes since the key was forgotten than which none is more confident,   *)
(* with prefer_existing the very first, with prefer_newer the last, and    *)
(* its confidence with it, though every upsert stores the survivor anew.   *)
(* At full confidence a caller's greater one wins again (resolve, upsert). *)
SurvivorKept ==
    \A l \in ToSet(Layers), k \in HubKeys :
       LET item == layers[l][k]
           mine == written[l][k]
       IN item # None =>
             /\ \E w \in mine : w.value = item.value /\ w.confidence = item.confidence
             /\ policy = "prefer_existing" => \A w \in mine : item.value <= w.value
             /\ policy = "prefer_newer" => \A w \in mine : item.value >= w.value
             /\ policy = "prefer_higher_confidence" =>
                   \A w \in mine : /\ w.confidence <= item.confidence
                                   /\ w.confidence = item.confidence /\ w.confidence < Full
                                         => item.value <= w.value

(* A time to live belongs to a stored key, so that retrieving an expired   *)
(* one finds what it deletes and a deleted key's time never ends a later   *)
(* value's life (MemoryAdapter).                                           *)
TimesHaveKeys == \A k \in Keys : expiry[k] # None => store[k] # None

(* The scratchpad never holds more than max_entries, not after a restore   *)
(* either, and each key its own entry (store, restore).                    *)
PadBounded ==
    /\ Cardinality(Held) <= MaxEntries
    /\ \A j, k \in Held : pad[j] = pad[k] => j = k

(* An error in which the head of a learnt one occurs is recognised: the    *)
(* ledger has an item for it as long as it is not crowded out by MaxItems  *)
(* later ones, and none for an error in which nothing learnt occurs        *)
(* (observe, propose_updates, apply_update, match, add).                   *)
LearntIsRecognised ==
    /\ Len(debt) <= MaxItems
    /\ \A n \in DOMAIN seen :
          LET mine == {i \in DOMAIN debt : debt[i] = [type |-> "failure_pattern", trace |-> n]}
          IN /\ mine # {} => seen[n].known
             /\ seen[n].known /\ mine = {} =>
                   Len(debt) = MaxItems /\ \A i \in DOMAIN debt : debt[i].trace >= n
=============================================================================
