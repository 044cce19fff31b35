------------------------- MODULE MCResources_proofs --------------------------
(***************************************************************************)
(* Parts of MCResources, for any values of their constants: the tiers of   *)
(* the cache keep SwapKeepsUpdates, the stores keep StoresSound, and the   *)
(* local cache and the tiers keep CacheSound.                              *)
(***************************************************************************)
EXTENDS MCResources, FiniteSetTheorems, SequenceTheorems, WellFoundedInduction, TLAPS

Flag == BOOLEAN

-----------------------------------------------------------------------------
(* The tiers of the cache *)

Cell == [value : (0 .. MaxSource) \cup {none}, version : Nat]

Call == [op : {"idle", "load", "swap"}, key : CacheKeys \cup {none},
         value : (0 .. MaxSource) \cup {none}, version : Nat]

TiersTypes ==
    /\ source \in [CacheKeys -> 0 .. MaxSource]
    /\ l2 \in [CacheKeys -> Cell]
    /\ counter \in Nat
    /\ doing \in [CacheThreads -> Call]
    /\ \A t \in CacheThreads : doing[t].op # "idle" => doing[t].key \in CacheKeys

(* Until an entry of a peer arrives, this node has given out every version *)
(* there is, each once: an entry that still has the version a swap read    *)
(* still has its value.                                                    *)
VersionTells(t) ==
    doing[t].op = "swap" =>
        /\ doing[t].version <= counter
        /\ l2[doing[t].key].version = doing[t].version =>
               l2[doing[t].key] = Cached!NoEntry \/ l2[doing[t].key].value = doing[t].value

VersionsGivenOut ==
    ~ synced =>
        /\ \A k \in CacheKeys : l2[k].version <= counter
        /\ \A t \in CacheThreads : VersionTells(t)

TiersInv == part = "tiers" => TiersTypes /\ VersionsGivenOut

-----------------------------------------------------------------------------
(* The stores *)

NodeStates == [Nodes -> NodeStatuses \cup {"pending"}]
Row == [version : Nat, nodes : NodeStates]
Marked == [node : Nodes, status : NodeStatuses]
Lease == [owner : Processes, until : 0 .. LastTick + LeaseTtl]
LeaseFile == Lease \cup {none, Stores!Torn}

(* What a process is about to do, by the place it is at.                   *)
Task ==
    {Stores!Idle} \cup [at : {"put", "log", "swap"}, read : Row, mark : Marked]
    \cup [at : {"open"}, read : LeaseFile] \cup [at : {"write"}, until : 0 .. LastTick + LeaseTtl]
    \cup [at : {"unlink"}, read : Lease]

RunTypes == row \in Row /\ log \in Seq(Marked) /\ lostMark \in BOOLEAN
LeaseTypes == file \in LeaseFile /\ held \subseteq Lease /\ storeNow \in 0 .. LastTick
TaskTypes == doer \in [Processes -> Task]

(* A mark that was logged, or is about to be, is stored; and while every   *)
(* put replaced the row it had read, what was marked stays so.             *)
Kept(m) == m \in stored /\ (lostMark \/ row.nodes[m.node] # "pending")

MarksKept ==
    /\ \A i \in DOMAIN log : Kept(log[i])
    /\ \A p \in Processes : doer[p].at = "log" => Kept(doer[p].mark)

(* As long as acquire and release never overlap, the leases held are at    *)
(* most the one in the file, they are live, and who is about to write one  *)
(* has found none that is.                                                 *)
FileRules ==
    ~ stale =>
        /\ held \subseteq {file}
        /\ \A l \in held : l.until > storeNow
        /\ \A p \in Processes : doer[p].at = "open" => Stores!Expired(doer[p].read)

StoringInv ==
    part = "stores" =>
        /\ RunTypes /\ LeaseTypes /\ TaskTypes /\ MarksKept /\ FileRules
        /\ versions \subseteq DOMAIN Migrations

-----------------------------------------------------------------------------
(* The schema *)

Server == [at : {"down", "up", "migrating", "failed"}, todo : SUBSET DOMAIN Migrations,
           step : Nat \ {0}]

SchemaTypes ==
    /\ service \in [Processes -> Server]
    /\ versions \subseteq DOMAIN Migrations
    /\ raced \subseteq Processes

Tables(m) == {Migrations[m][i] : i \in DOMAIN Migrations[m]}

(* A process has executed the statements before its place, and has nothing *)
(* left to do but what was not recorded when it started; what it has left  *)
(* is recorded meanwhile only in a race.                                   *)
OnItsWay(p) ==
    /\ service[p].at = "up" => versions = DOMAIN Migrations
    /\ service[p].at = "failed" => p \in raced
    /\ Stores!Migrating(p) =>
          /\ service[p].todo # {} /\ DOMAIN Migrations \ service[p].todo \subseteq versions
          /\ p \in raced \/ service[p].todo \cap versions = {}
          /\ \A q \in Processes : q # p /\ Stores!Migrating(q) => p \in raced
          /\ \A m \in service[p].todo : Stores!IsFirst(m, service[p].todo) =>
                \A i \in DOMAIN Migrations[m] : i < service[p].step => Migrations[m][i] \in tables

SchemaInv ==
    part = "schema" =>
        /\ RunTypes /\ LeaseTypes /\ SchemaTypes
        /\ \A m \in versions : Tables(m) \subseteq tables
        /\ \A p \in Processes : OnItsWay(p)

-----------------------------------------------------------------------------
(* The tiers of the cache *)

LEMMA TiersInit == Init => TiersInv
<1> SUFFICES ASSUME Init PROVE TiersTypes /\ VersionsGivenOut
    BY DEF TiersInv
<1>1. /\ l2 = [k \in CacheKeys |-> Cached!NoEntry] /\ counter = 0
      /\ doing = [t \in CacheThreads |-> Cached!Idle]
    BY DEF Init, Cached!TiersInit
<1>2. source \in [CacheKeys -> 0 .. MaxSource]
    BY CacheAssumption DEF Init, Cached!TiersInit
<1>3. TiersTypes
    BY <1>1, <1>2 DEF TiersTypes, Cell, Call, Cached!NoEntry, Cached!Idle
<1> QED
    BY <1>1, <1>3 DEF VersionsGivenOut, VersionTells, Cached!NoEntry, Cached!Idle

(* A new version is above all that were read.                              *)
LEMMA CachePut ==
    ASSUME TiersTypes, VersionsGivenOut, source' \in [CacheKeys -> 0 .. MaxSource],
           NEW k \in CacheKeys,
           NEW v \in (0 .. MaxSource) \cup {none}, Cached!Put(k, v), UNCHANGED synced,
           doing' \in [CacheThreads -> Call],
           \A t \in CacheThreads : doing'[t] = doing[t] \/ doing'[t] = Cached!Idle
    PROVE  TiersTypes' /\ VersionsGivenOut'
<1>1. /\ counter' = counter + 1
      /\ l2' = [l2 EXCEPT ![k] = [value |-> v, version |-> counter + 1]]
    BY DEF Cached!Put
<1>2. TiersTypes'
    BY <1>1 DEF TiersTypes, Cell, Call, Cached!Idle
<1>3. ASSUME ~ synced PROVE VersionsGivenOut'
  <2>1. counter \in Nat
      BY DEF TiersTypes
  <2>2. \A q \in CacheKeys : l2'[q].version <= counter'
    <3>1. ASSUME NEW q \in CacheKeys, q # k PROVE l2'[q].version <= counter'
        BY <1>1, <1>3, <2>1, <3>1 DEF TiersTypes, VersionsGivenOut, Cell
    <3>2. l2'[k].version = counter'
        BY <1>1 DEF TiersTypes
    <3> QED
        BY <1>1, <2>1, <3>1, <3>2
  <2>3. ASSUME NEW t \in CacheThreads, doing'[t].op = "swap" PROVE VersionTells(t)'
    <3>1. doing'[t] = doing[t] /\ VersionTells(t)
        BY <1>3, <2>3 DEF VersionsGivenOut, Cached!Idle
    <3>2. /\ doing[t].version \in Nat /\ doing[t].version <= counter
          /\ doing[t].key \in CacheKeys
        BY <2>3, <3>1 DEF VersionTells, TiersTypes, Call
    <3>3. CASE doing[t].key = k
      <4>1. l2'[k].version = counter + 1
          BY <1>1 DEF TiersTypes
      <4> QED
          BY <1>1, <2>1, <3>1, <3>2, <3>3, <4>1 DEF VersionTells
    <3>4. CASE doing[t].key # k
      <4>1. l2'[doing[t].key] = l2[doing[t].key]
          BY <1>1, <3>2, <3>4 DEF TiersTypes
      <4> QED
          BY <1>1, <2>1, <2>3, <3>1, <3>2, <4>1 DEF VersionTells
    <3> QED
        BY <3>3, <3>4
  <2>4. \A t \in CacheThreads : VersionTells(t)'
      BY <2>3 DEF VersionTells
  <2> QED
      BY <2>2, <2>4 DEF VersionsGivenOut
<1> QED
    BY <1>2, <1>3 DEF VersionsGivenOut

(* An entry that is dropped is not taken for another.                      *)
LEMMA Dropped ==
    ASSUME TiersTypes, VersionsGivenOut, source' \in [CacheKeys -> 0 .. MaxSource],
           NEW k \in CacheKeys,
           l2' = [l2 EXCEPT ![k] = Cached!NoEntry] \/ l2' = l2,
           UNCHANGED <<counter, doing, synced>>
    PROVE  TiersTypes' /\ VersionsGivenOut'
<1>1. TiersTypes'
    BY DEF TiersTypes, Cell, Cached!NoEntry
<1>2. \A q \in CacheKeys : l2'[q] = l2[q] \/ l2'[q] = Cached!NoEntry
    BY DEF TiersTypes
<1>3. ASSUME ~ synced, NEW q \in CacheKeys PROVE l2'[q].version <= counter
    BY <1>2, <1>3 DEF VersionsGivenOut, TiersTypes, Cached!NoEntry
<1>4. ASSUME ~ synced, NEW t \in CacheThreads, doing[t].op = "swap" PROVE VersionTells(t)'
  <2>1. doing[t].key \in CacheKeys /\ VersionTells(t)
      BY <1>4 DEF TiersTypes, VersionsGivenOut
  <2> QED
      BY <1>2, <1>4, <2>1 DEF VersionTells
<1> QED
    BY <1>1, <1>3, <1>4 DEF VersionsGivenOut, VersionTells

(* What a request begins with.                                             *)
LEMMA RequestStarts ==
    ASSUME TiersTypes, VersionsGivenOut, source' \in [CacheKeys -> 0 .. MaxSource],
           NEW t \in CacheThreads, NEW c1 \in Call,
           doing' = [doing EXCEPT ![t] = c1], c1.op # "idle" => c1.key \in CacheKeys,
           c1.op = "swap" => c1.value = l2[c1.key].value /\ c1.version = l2[c1.key].version,
           UNCHANGED <<l2, counter, synced>>
    PROVE  TiersTypes' /\ VersionsGivenOut'
<1>1. doing'[t] = c1 /\ \A u \in CacheThreads \ {t} : doing'[u] = doing[u]
    BY DEF TiersTypes
<1>2. TiersTypes'
    BY <1>1 DEF TiersTypes
<1>3. ASSUME ~ synced, NEW u \in CacheThreads PROVE VersionTells(u)'
  <2>1. VersionTells(u) /\ \A q \in CacheKeys : l2[q].version <= counter
      BY <1>3 DEF VersionsGivenOut
  <2>2. CASE u = t
      BY <1>1, <2>1, <2>2 DEF VersionTells
  <2>3. CASE u # t
      BY <1>1, <2>1, <2>3 DEF VersionTells
  <2> QED
      BY <2>2, <2>3
<1> QED
    BY <1>2, <1>3 DEF VersionsGivenOut


LEMMA TiersStep ==
    ASSUME TiersTypes, VersionsGivenOut, Cached!TiersNext
    PROVE  TiersTypes' /\ VersionsGivenOut'
<1>0. source' \in [CacheKeys -> 0 .. MaxSource]
  <2>1. source' = source \/ \E k \in CacheKeys : source[k] < MaxSource
                                               /\ source' = [source EXCEPT ![k] = @ + 1]
      BY DEF Cached!TiersNext, Cached!SourceChanges, Cached!Drop, Cached!Get, Cached!Set,
             Cached!Invalidate, Cached!SyncEntry, Cached!ApplyInvalidation,
             Cached!InvalidateMany, Cached!StartLoad, Cached!ReadForSwap, Cached!FinishLoad,
             Cached!Swap
  <2> QED
      BY <2>1, CacheAssumption DEF TiersTypes
<1>1. ASSUME NEW k \in CacheKeys,
             Cached!SourceChanges(k) \/ Cached!Drop(k) \/ Cached!Get(k)
               \/ Cached!Invalidate(k) \/ Cached!ApplyInvalidation(k)
      PROVE  TiersTypes' /\ VersionsGivenOut'
  <2>1. /\ l2' = [l2 EXCEPT ![k] = Cached!NoEntry] \/ l2' = l2
        /\ UNCHANGED <<counter, doing, synced>>
      BY <1>1 DEF Cached!SourceChanges, Cached!Drop, Cached!Get, Cached!Invalidate,
                  Cached!ApplyInvalidation
  <2> QED
      BY <1>0, <2>1, Dropped
<1>2. ASSUME NEW S, Cached!InvalidateMany(S) PROVE TiersTypes' /\ VersionsGivenOut'
  <2>1. UNCHANGED <<l2, counter, doing, synced>>
      BY <1>2 DEF Cached!InvalidateMany
  <2> QED
      BY <1>0, <2>1 DEF TiersTypes, VersionsGivenOut, VersionTells
<1>3. ASSUME NEW k \in CacheKeys, NEW v \in Cached!Values, Cached!Set(k, v)
      PROVE  TiersTypes' /\ VersionsGivenOut'
  <2>1. Cached!Put(k, v) /\ UNCHANGED <<doing, synced>>
      BY <1>3 DEF Cached!Set
  <2> QED
      BY <1>0, <2>1, CachePut DEF Cached!Values, TiersTypes
<1>4. ASSUME NEW k \in CacheKeys, NEW v \in Cached!Values, NEW n \in 1 .. MaxSynced,
             Cached!SyncEntry(k, v, n)
      PROVE  TiersTypes' /\ VersionsGivenOut'
  <2>1. /\ l2' = [l2 EXCEPT ![k] = [value |-> v, version |-> n]] /\ synced' = TRUE
        /\ UNCHANGED <<counter, doing>>
      BY <1>4 DEF Cached!SyncEntry
  <2>2. [value |-> v, version |-> n] \in Cell
      BY CacheAssumption DEF Cell, Cached!Values
  <2> QED
      BY <1>0, <2>1, <2>2 DEF TiersTypes, VersionsGivenOut
<1>5. ASSUME NEW t \in CacheThreads, NEW k \in CacheKeys, Cached!StartLoad(t, k)
      PROVE  TiersTypes' /\ VersionsGivenOut'
  <2>1. PICK c1 : c1 = [op |-> "load", key |-> k, value |-> source[k], version |-> 0]
      OBVIOUS
  <2>2. doing' = [doing EXCEPT ![t] = c1] /\ UNCHANGED <<l2, counter, synced>>
      BY <1>5, <2>1 DEF Cached!StartLoad
  <2>3. c1 \in Call
      BY <2>1 DEF Call, TiersTypes
  <2> QED
      BY <1>0, <2>1, <2>2, <2>3, RequestStarts
<1>6. ASSUME NEW t \in CacheThreads, NEW k \in CacheKeys, Cached!ReadForSwap(t, k)
      PROVE  TiersTypes' /\ VersionsGivenOut'
  <2>1. PICK c1 : c1 = [op |-> "swap", key |-> k, value |-> l2[k].value,
                        version |-> l2[k].version]
      OBVIOUS
  <2>2. doing' = [doing EXCEPT ![t] = c1] /\ UNCHANGED <<l2, counter, synced>>
      BY <1>6, <2>1 DEF Cached!ReadForSwap
  <2>3. c1 \in Call
      BY <2>1 DEF Call, TiersTypes, Cell
  <2> QED
      BY <1>0, <2>1, <2>2, <2>3, RequestStarts
<1>7. ASSUME NEW t \in CacheThreads, Cached!FinishLoad(t)
      PROVE  TiersTypes' /\ VersionsGivenOut'
  <2>1. /\ Cached!Put(doing[t].key, doing[t].value) /\ UNCHANGED synced
        /\ doing' = [doing EXCEPT ![t] = Cached!Idle] /\ doing[t].op = "load"
      BY <1>7 DEF Cached!FinishLoad
  <2>2. doing[t].key \in CacheKeys /\ doing[t].value \in (0 .. MaxSource) \cup {none}
      BY <2>1 DEF TiersTypes, Call
  <2>3. /\ doing' \in [CacheThreads -> Call]
        /\ \A u \in CacheThreads : doing'[u] = doing[u] \/ doing'[u] = Cached!Idle
      BY <2>1 DEF TiersTypes, Call, Cached!Idle
  <2> QED
      BY <1>0, <2>1, <2>2, <2>3, CachePut
<1>8. ASSUME NEW t \in CacheThreads, Cached!Swap(t)
      PROVE  TiersTypes' /\ VersionsGivenOut'
  <2>1. /\ doing' = [doing EXCEPT ![t] = Cached!Idle] /\ doing[t].op = "swap" /\ UNCHANGED synced
        /\ \/ Cached!Put(doing[t].key, source[doing[t].key])
           \/ UNCHANGED <<l2, counter>>
      BY <1>8 DEF Cached!Swap
  <2>2. doing[t].key \in CacheKeys
      BY <2>1 DEF TiersTypes
  <2>3. /\ doing' \in [CacheThreads -> Call] /\ doing'[t] = Cached!Idle
        /\ \A u \in CacheThreads \ {t} : doing'[u] = doing[u]
      BY <2>1 DEF TiersTypes, Call, Cached!Idle
  <2>4. CASE Cached!Put(doing[t].key, source[doing[t].key])
    <3>1. source[doing[t].key] \in (0 .. MaxSource) \cup {none}
        BY <2>2 DEF TiersTypes
    <3> QED
        BY <3>1, <1>0, <2>1, <2>2, <2>3, <2>4, CachePut
  <2>5. CASE UNCHANGED <<l2, counter>>
      BY <1>0, <2>1, <2>3, <2>5, RequestStarts DEF Cached!Idle, Call
  <2> QED
      BY <2>1, <2>4, <2>5
<1> QED
    BY <1>1, <1>2, <1>3, <1>4, <1>5, <1>6, <1>7, <1>8 DEF Cached!TiersNext


LEMMA TiersInvariance == TiersInv /\ [Next]_vars => TiersInv'
<1> SUFFICES ASSUME TiersInv, [Next]_vars, part' = "tiers"
             PROVE  TiersTypes' /\ VersionsGivenOut'
    BY DEF TiersInv
<1>1. part = "tiers"
    BY DEF Next, vars
<1>2. TiersTypes /\ VersionsGivenOut
    BY <1>1 DEF TiersInv
<1>3. CASE Next
  <2>1. Cached!TiersNext
      BY <1>1, <1>3 DEF Next, Tenancy, Caching, Storing, Serving, Choosing, Thinking, Showing,
                        Grading
  <2> QED
      BY <1>2, <2>1, TiersStep
<1>4. CASE UNCHANGED vars
  <2>1. UNCHANGED <<source, l2, counter, doing, synced>>
      BY <1>4 DEF vars, cachingVars, tiersVars
  <2> QED
      BY <1>2, <2>1 DEF TiersTypes, VersionsGivenOut, VersionTells
<1> QED
    BY <1>3, <1>4

(* A swap takes effect only on what its caller read.                       *)
LEMMA SwapReplaces ==
    ASSUME TiersTypes, VersionsGivenOut, Cached!TiersNext
    PROVE  Cached!SwapReplacesRead
<1> SUFFICES ASSUME NEW t \in CacheThreads, ~ synced, doing[t].op = "swap",
                    doing'[t] = Cached!Idle, counter' # counter
             PROVE  l2[doing[t].key].value = doing[t].value
    BY DEF Cached!SwapReplacesRead
<1>1. doing'[t] # doing[t]
    BY DEF Cached!Idle
<1>2. Cached!Swap(t)
  <2>1. ASSUME NEW u \in CacheThreads, u # t PROVE ~ Cached!FinishLoad(u) /\ ~ Cached!Swap(u)
      BY <1>1, <2>1 DEF Cached!FinishLoad, Cached!Swap, TiersTypes
  <2>2. ~ Cached!FinishLoad(t)
      BY DEF Cached!FinishLoad
  <2> QED
      BY <1>1, <2>1, <2>2 DEF Cached!TiersNext, Cached!SourceChanges, Cached!Drop, Cached!Get,
         Cached!Set, Cached!Invalidate, Cached!SyncEntry, Cached!ApplyInvalidation,
         Cached!InvalidateMany, Cached!StartLoad, Cached!ReadForSwap
<1>3. /\ l2[doing[t].key] # Cached!NoEntry
      /\ l2[doing[t].key].version = doing[t].version
    BY <1>2 DEF Cached!Swap
<1> QED
    BY <1>3 DEF VersionsGivenOut, VersionTells

(* A swap on L2 replaces what its caller read, whatever other requests and *)
(* invalidations came between, until an entry of a peer was stored         *)
(* (compare_and_set).                                                      *)
THEOREM SwapsReplaceWhatWasRead == Spec => SwapKeepsUpdates
<1>1. TiersInv /\ [Next]_vars => [part = "tiers" => Cached!SwapReplacesRead]_vars
  <2> SUFFICES ASSUME TiersInv, Next, part = "tiers" PROVE Cached!SwapReplacesRead
      OBVIOUS
  <2>1. TiersTypes /\ VersionsGivenOut
      BY DEF TiersInv
  <2>2. Cached!TiersNext
      BY DEF Next, Tenancy, Caching, Storing, Serving, Choosing, Thinking, Showing, Grading
  <2> QED
      BY <2>1, <2>2, SwapReplaces
<1> QED
    BY <1>1, TiersInit, TiersInvariance, PTL DEF Spec, SwapKeepsUpdates

-----------------------------------------------------------------------------
(* The stores *)

LEMMA StoresTypesInit == Stores!Init => RunTypes /\ LeaseTypes
<1> SUFFICES ASSUME Stores!Init PROVE RunTypes /\ LeaseTypes
    OBVIOUS
<1>1. /\ row = [version |-> 0, nodes |-> [n \in Nodes |-> "pending"]]
      /\ log = <<>> /\ lostMark = FALSE /\ file = none /\ held = {} /\ storeNow = 0
    BY DEF Stores!Init
<1>2. [n \in Nodes |-> "pending"] \in NodeStates
    BY DEF NodeStates
<1>3. row \in Row
    BY <1>1, <1>2 DEF Row
<1>4. log \in Seq(Marked)
    BY <1>1
<1>5. RunTypes
    BY <1>1, <1>3, <1>4 DEF RunTypes
<1>6. LeaseTypes
    BY <1>1, StoresAssumption DEF LeaseTypes, LeaseFile
<1> QED
    BY <1>5, <1>6

LEMMA StoringInit == Init => StoringInv
<1> SUFFICES ASSUME Init
             PROVE  /\ RunTypes /\ LeaseTypes /\ TaskTypes /\ MarksKept /\ FileRules
                    /\ versions \subseteq DOMAIN Migrations
    BY DEF StoringInv
<1>1. /\ log = <<>> /\ doer = [p \in Processes |-> Stores!Idle] /\ held = {} /\ versions = {}
    BY DEF Init, Stores!Init
<1>2. RunTypes /\ LeaseTypes
    BY StoresTypesInit DEF Init
<1>3. TaskTypes
    BY <1>1 DEF TaskTypes, Task
<1>4. MarksKept /\ FileRules
    BY <1>1 DEF MarksKept, FileRules, Stores!Idle
<1> QED
    BY <1>1, <1>2, <1>3, <1>4

(* What is in hand, by the place of the process.                           *)
LEMMA InHand ==
    ASSUME TaskTypes, NEW p \in Processes
    PROVE  /\ doer[p].at \in {"put", "log", "swap"} =>
                  doer[p].read \in Row /\ doer[p].mark \in Marked
           /\ doer[p].at = "open" => doer[p].read \in LeaseFile
           /\ doer[p].at = "write" => doer[p].until \in 0 .. LastTick + LeaseTtl
           /\ doer[p].at = "unlink" => doer[p].read \in Lease
BY DEF TaskTypes, Task, Stores!Idle

(* A step in which the run record is left alone.                           *)
LEMMA RunUntouched ==
    ASSUME RunTypes, MarksKept, UNCHANGED <<row, log, stored, lostMark>>,
           \A p \in Processes : doer'[p].at = "log" => doer'[p] = doer[p]
    PROVE  RunTypes' /\ MarksKept'
BY DEF RunTypes, MarksKept, Kept

(* A step in which the lease file is left alone.                           *)
LEMMA LeaseUntouched ==
    ASSUME LeaseTypes, FileRules, UNCHANGED <<file, held, stale, storeNow>>,
           \A p \in Processes : doer'[p].at = "open" => doer'[p] = doer[p]
    PROVE  LeaseTypes' /\ FileRules'
BY DEF LeaseTypes, FileRules, Stores!Expired

LEMMA LoadStep ==
    ASSUME RunTypes, LeaseTypes, TaskTypes, MarksKept, FileRules,
           NEW p \in Processes, NEW n \in Nodes, NEW s \in NodeStatuses,
           Stores!LoadForMark(p, n, s) \/ Stores!CompareForSwap(p, n, s)
    PROVE  RunTypes' /\ LeaseTypes' /\ TaskTypes' /\ MarksKept' /\ FileRules'
<1>1. PICK place \in {"put", "swap"} :
          doer' = [doer EXCEPT ![p] = [at |-> place, read |-> row, mark |-> Stores!Mark(n, s)]]
    BY DEF Stores!LoadForMark, Stores!CompareForSwap
<1>2. UNCHANGED <<row, log, stored, lostMark, file, held, stale, storeNow>>
    BY DEF Stores!LoadForMark, Stores!CompareForSwap, Stores!runVars, Stores!leaseVars
<1>3. [at |-> place, read |-> row, mark |-> Stores!Mark(n, s)] \in Task
    BY DEF Task, RunTypes, Stores!Mark, Marked
<1>4. TaskTypes'
    BY <1>1, <1>3 DEF TaskTypes
<1>5. \A q \in Processes : doer'[q] = doer[q] \/ doer'[q].at \in {"put", "swap"}
    BY <1>1 DEF TaskTypes
<1> QED
    BY <1>2, <1>4, <1>5, RunUntouched, LeaseUntouched

(* A put that marks m in what was read.                                    *)
LEMMA PutStep ==
    ASSUME RunTypes, TaskTypes, MarksKept, UNCHANGED log,
           NEW p \in Processes, doer[p].read \in Row, NEW m \in Marked,
           Stores!Put(p, [doer[p].read.nodes EXCEPT ![m.node] = m.status]),
           \A q \in Processes : doer'[q].at = "log" =>
               \/ doer[q].at = "log" /\ doer'[q].mark = doer[q].mark
               \/ doer'[q].mark = m
    PROVE  RunTypes' /\ MarksKept'
<1> DEFINE put == [doer[p].read.nodes EXCEPT ![m.node] = m.status]
<1>1. /\ row' = [version |-> row.version + 1, nodes |-> put]
      /\ lostMark' = (lostMark \/ row # doer[p].read)
      /\ stored' = stored \cup {Stores!Mark(n, put[n]) : n \in Nodes}
    BY DEF Stores!Put
<1>2. /\ m.node \in Nodes /\ m.status \in NodeStatuses
      /\ doer[p].read.nodes \in NodeStates /\ row \in Row
    BY DEF Marked, Row, RunTypes
<1>3. put \in NodeStates /\ put[m.node] = m.status
    BY <1>2 DEF NodeStates
<1>4. RunTypes'
  <2>1. row' \in Row
      BY <1>1, <1>2, <1>3 DEF Row
  <2>2. log' \in Seq(Marked) /\ lostMark' \in BOOLEAN
      BY <1>1 DEF RunTypes
  <2> QED
      BY <2>1, <2>2 DEF RunTypes
<1>5. Kept(m)'
  <2>1. Stores!Mark(m.node, put[m.node]) = m
      BY <1>3 DEF Stores!Mark, Marked
  <2>2. m \in stored'
      BY <1>1, <1>2, <2>1
  <2>3. row'.nodes[m.node] # "pending"
      BY <1>1, <1>2, <1>3, StoresAssumption
  <2> QED
      BY <2>2, <2>3 DEF Kept
<1>6. ASSUME NEW x \in Marked, Kept(x) PROVE Kept(x)'
  <2>1. x \in stored'
      BY <1>1, <1>6 DEF Kept
  <2>2. ASSUME ~ lostMark' PROVE row'.nodes[x.node] # "pending"
    <3>1. row.nodes[x.node] # "pending" /\ put = [row.nodes EXCEPT ![m.node] = m.status]
        BY <1>1, <1>6, <2>2 DEF Kept
    <3>2. row.nodes \in NodeStates /\ x.node \in Nodes
        BY <1>2 DEF Row, Marked
    <3>3. put[x.node] # "pending"
        BY <1>2, <3>1, <3>2, StoresAssumption DEF NodeStates
    <3> QED
        BY <1>1, <3>3
  <2> QED
      BY <2>1, <2>2 DEF Kept
<1>7. ASSUME NEW i \in DOMAIN log' PROVE Kept(log[i])'
  <2>1. log'[i] = log[i] /\ log[i] \in Marked /\ Kept(log[i])
      BY <1>7 DEF RunTypes, MarksKept
  <2> QED
      BY <1>6, <2>1 DEF Kept
<1>8. ASSUME NEW q \in Processes, doer'[q].at = "log" PROVE Kept(doer[q].mark)'
  <2>1. CASE doer'[q].mark = m
      BY <1>5, <2>1 DEF Kept
  <2>2. CASE doer[q].at = "log" /\ doer'[q].mark = doer[q].mark
    <3>1. doer[q].mark \in Marked /\ Kept(doer[q].mark)
        BY <2>2, InHand DEF MarksKept
    <3> QED
        BY <1>6, <2>2, <3>1 DEF Kept
  <2> QED
      BY <1>8, <2>1, <2>2
<1> QED
    BY <1>4, <1>7, <1>8 DEF MarksKept

LEMMA PersistStep ==
    ASSUME RunTypes, LeaseTypes, TaskTypes, MarksKept, FileRules,
           NEW p \in Processes, Stores!PersistMark(p) \/ Stores!Swap(p)
    PROVE  RunTypes' /\ LeaseTypes' /\ TaskTypes' /\ MarksKept' /\ FileRules'
<1>1. /\ doer[p].at \in {"put", "swap"}
      /\ Stores!Put(p, [doer[p].read.nodes EXCEPT ![doer[p].mark.node] = doer[p].mark.status])
      /\ UNCHANGED <<log, file, held, stale, storeNow>>
    BY DEF Stores!PersistMark, Stores!Swap, Stores!leaseVars
<1>2. doer[p].read \in Row /\ doer[p].mark \in Marked
    BY <1>1, InHand
<1>3. PICK work \in Task : /\ doer' = [doer EXCEPT ![p] = work]
                           /\ \/ work = Stores!Idle
                              \/ work.at = "log" /\ work.mark = doer[p].mark
  <2>1. CASE Stores!PersistMark(p)
    <3>1. doer[p] \in [at : {"put", "log", "swap"}, read : Row, mark : Marked]
        BY <1>1 DEF TaskTypes, Task, Stores!Idle
    <3>2. [doer[p] EXCEPT !.at = "log"] \in [at : {"put", "log", "swap"}, read : Row, mark : Marked]
        BY <3>1
    <3>3. [doer[p] EXCEPT !.at = "log"].at = "log"
          /\ [doer[p] EXCEPT !.at = "log"].mark = doer[p].mark
        BY <3>1
    <3>4. doer' = [doer EXCEPT ![p] = [doer[p] EXCEPT !.at = "log"]]
        BY <2>1 DEF Stores!PersistMark
    <3> QED
        BY <3>2, <3>3, <3>4 DEF Task
  <2>2. CASE Stores!Swap(p)
    <3>1. doer' = [doer EXCEPT ![p] = Stores!Idle] /\ Stores!Idle \in Task
        BY <2>2 DEF Stores!Swap, Task
    <3> QED
        BY <3>1
  <2> QED
      BY <2>1, <2>2
<1>4. TaskTypes'
    BY <1>3 DEF TaskTypes
<1>5. \A q \in Processes : \/ doer'[q] = doer[q]
                           \/ doer'[q] = Stores!Idle
                           \/ doer'[q].at = "log" /\ doer'[q].mark = doer[p].mark
    BY <1>3 DEF TaskTypes
<1>6. \A q \in Processes : /\ doer'[q].at = "open" => doer'[q] = doer[q]
                           /\ doer'[q].at = "log" =>
                                 \/ doer[q].at = "log" /\ doer'[q].mark = doer[q].mark
                                 \/ doer'[q].mark = doer[p].mark
    BY <1>5 DEF Stores!Idle
<1>7. LeaseTypes' /\ FileRules'
    BY <1>1, <1>6, LeaseUntouched
<1>8. RunTypes' /\ MarksKept'
    BY <1>1, <1>2, <1>6, PutStep
<1> QED
    BY <1>4, <1>7, <1>8

LEMMA LogStep ==
    ASSUME RunTypes, LeaseTypes, TaskTypes, MarksKept, FileRules,
           NEW p \in Processes, Stores!LogMark(p)
    PROVE  RunTypes' /\ LeaseTypes' /\ TaskTypes' /\ MarksKept' /\ FileRules'
<1>1. /\ doer[p].at = "log" /\ doer' = [doer EXCEPT ![p] = Stores!Idle]
      /\ log' = Append(log, doer[p].mark)
      /\ UNCHANGED <<row, stored, lostMark, file, held, stale, storeNow>>
    BY DEF Stores!LogMark, Stores!leaseVars
<1>2. doer[p].mark \in Marked /\ Kept(doer[p].mark)
    BY <1>1, InHand DEF MarksKept
<1>3. TaskTypes'
    BY <1>1 DEF TaskTypes, Task
<1>4. \A q \in Processes : doer'[q] = doer[q] \/ doer'[q] = Stores!Idle
    BY <1>1 DEF TaskTypes
<1>5. LeaseTypes' /\ FileRules'
    BY <1>1, <1>4, LeaseUntouched DEF Stores!Idle
<1>6. RunTypes'
    BY <1>1, <1>2 DEF RunTypes
<1>7. ASSUME NEW i \in DOMAIN log' PROVE Kept(log[i])'
  <2>1. (i \in DOMAIN log /\ log'[i] = log[i]) \/ log'[i] = doer[p].mark
      BY <1>1, <1>2, <1>7 DEF RunTypes
  <2>2. Kept(log'[i])
      BY <1>2, <2>1 DEF MarksKept
  <2> QED
      BY <1>1, <2>2 DEF Kept
<1>8. ASSUME NEW q \in Processes, doer'[q].at = "log" PROVE Kept(doer[q].mark)'
  <2>1. doer'[q] = doer[q] /\ Kept(doer[q].mark)
      BY <1>4, <1>8 DEF MarksKept, Stores!Idle
  <2> QED
      BY <1>1, <2>1 DEF Kept
<1> QED
    BY <1>3, <1>5, <1>6, <1>7, <1>8 DEF MarksKept


(* A step of a process on the lease file, up to the file.                  *)
LEMMA AtTheFile ==
    ASSUME RunTypes, TaskTypes, MarksKept, UNCHANGED <<row, log, stored, lostMark>>,
           NEW p \in Processes, NEW work \in Task, work.at # "log",
           doer' = [doer EXCEPT ![p] = work]
    PROVE  /\ RunTypes' /\ TaskTypes' /\ MarksKept'
           /\ \A q \in Processes : doer'[q] = doer[q] \/ doer'[q] = work
<1>1. TaskTypes' /\ \A q \in Processes : doer'[q] = doer[q] \/ doer'[q] = work
    BY DEF TaskTypes
<1> QED
    BY <1>1, RunUntouched

(* What is in the file is a lease, or shows no process.                    *)
LEMMA Leases == \A l \in Lease : l # none /\ l # Stores!Torn /\ l.until \in Nat
<1> SUFFICES ASSUME NEW l \in Lease PROVE l # none /\ l # Stores!Torn /\ l.until \in Nat
    OBVIOUS
<1>1. l.owner \in Processes /\ l.until \in Nat /\ l = [owner |-> l.owner, until |-> l.until]
    BY StoresAssumption DEF Lease
<1>2. l \in [owner : Processes \cup {"torn"}, until : Nat]
    BY <1>1
<1>3. l # Stores!Torn
    BY <1>1, StoresAssumption DEF Stores!Torn
<1> QED
    BY <1>1, <1>2, <1>3, StoresAssumption

LEMMA ReadStep ==
    ASSUME RunTypes, LeaseTypes, TaskTypes, MarksKept, FileRules,
           NEW p \in Processes, Stores!ReadForAcquire(p) \/ Stores!ReadForRelease(p)
    PROVE  RunTypes' /\ LeaseTypes' /\ TaskTypes' /\ MarksKept' /\ FileRules'
<1>1. UNCHANGED <<row, log, stored, lostMark, file, held, stale, storeNow>>
    BY DEF Stores!ReadForAcquire, Stores!ReadForRelease, Stores!runVars, Stores!leaseVars
<1>2. PICK place \in {"open", "unlink"} :
          /\ doer' = [doer EXCEPT ![p] = [at |-> place, read |-> file]]
          /\ place = "open" => Stores!Expired(file)
          /\ place = "unlink" => file \in Lease
    BY DEF Stores!ReadForAcquire, Stores!ReadForRelease, LeaseTypes, LeaseFile
<1> DEFINE work == [at |-> place, read |-> file]
<1>3. work \in Task /\ work.at # "log"
    BY <1>2 DEF Task, LeaseTypes
<1>4. /\ RunTypes' /\ TaskTypes' /\ MarksKept'
      /\ \A q \in Processes : doer'[q] = doer[q] \/ doer'[q] = work
  <2> HIDE DEF work
  <2>1. PICK w \in Task : w = work
      BY <1>3
  <2> QED
      BY <1>1, <1>2, <1>3, <2>1, AtTheFile DEF work
<1>5. LeaseTypes'
    BY <1>1 DEF LeaseTypes
<1>6. FileRules'
  <2> SUFFICES ASSUME ~ stale, NEW q \in Processes, doer'[q].at = "open"
               PROVE  Stores!Expired(doer[q].read)'
      BY <1>1 DEF FileRules
  <2>1. Stores!Expired(doer'[q].read)
      BY <1>2, <1>4 DEF FileRules
  <2> QED
      BY <1>1, <2>1 DEF Stores!Expired
<1> QED
    BY <1>4, <1>5, <1>6

LEMMA OpenStep ==
    ASSUME RunTypes, LeaseTypes, TaskTypes, MarksKept, FileRules,
           NEW p \in Processes, Stores!OpenLease(p)
    PROVE  RunTypes' /\ LeaseTypes' /\ TaskTypes' /\ MarksKept' /\ FileRules'
<1>1. /\ doer[p].at = "open" /\ file' = Stores!Torn
      /\ stale' = (stale \/ file # doer[p].read)
      /\ doer' = [doer EXCEPT ![p] = [at |-> "write", until |-> storeNow + LeaseTtl]]
      /\ UNCHANGED <<row, log, stored, lostMark, held, storeNow>>
    BY DEF Stores!OpenLease, Stores!runVars
<1>2. PICK work \in Task : work = [at |-> "write", until |-> storeNow + LeaseTtl]
  <2>1. storeNow + LeaseTtl \in 0 .. LastTick + LeaseTtl
      BY StoresAssumption DEF LeaseTypes
  <2>2. [at |-> "write", until |-> storeNow + LeaseTtl] \in Task
      BY <2>1 DEF Task
  <2> QED
      BY <2>2
<1>3. work.at = "write"
    BY <1>2
<1>4. /\ RunTypes' /\ TaskTypes' /\ MarksKept'
      /\ \A q \in Processes : doer'[q] = doer[q] \/ doer'[q] = work
    BY <1>1, <1>2, <1>3, AtTheFile
<1>5. LeaseTypes'
    BY <1>1 DEF LeaseTypes, LeaseFile
<1>6. ASSUME ~ stale' PROVE held = {}
  <2>1. ~ stale /\ Stores!Expired(file)
      BY <1>1, <1>6 DEF FileRules
  <2>2. \A l \in held : l = file /\ l \in Lease /\ l.until > storeNow
      BY <2>1 DEF FileRules, LeaseTypes
  <2>3. \A l \in held : l # none /\ l # Stores!Torn /\ l.until \in Nat
      BY <2>2, Leases
  <2> QED
      BY <2>1, <2>2, <2>3 DEF Stores!Expired, LeaseTypes
<1>7. ASSUME ~ stale', NEW q \in Processes, doer'[q].at = "open"
      PROVE  Stores!Expired(doer[q].read)'
  <2>1. doer'[q] = doer[q] /\ Stores!Expired(doer[q].read)
      BY <1>1, <1>3, <1>4, <1>7 DEF FileRules
  <2> QED
      BY <1>1, <2>1 DEF Stores!Expired
<1>8. FileRules'
    BY <1>1, <1>6, <1>7 DEF FileRules
<1> QED
    BY <1>4, <1>5, <1>8

LEMMA WriteStep ==
    ASSUME RunTypes, LeaseTypes, TaskTypes, MarksKept, FileRules,
           NEW p \in Processes, Stores!WriteLease(p)
    PROVE  RunTypes' /\ LeaseTypes' /\ TaskTypes' /\ MarksKept' /\ FileRules'
<1>1. /\ doer[p].at = "write" /\ file' = [owner |-> p, until |-> doer[p].until]
      /\ held' = held \cup (IF doer[p].until > storeNow THEN {file'} ELSE {})
      /\ ~ stale' => ~ stale /\ file = Stores!Torn
      /\ doer' = [doer EXCEPT ![p] = Stores!Idle]
      /\ UNCHANGED <<row, log, stored, lostMark, storeNow>>
    BY DEF Stores!WriteLease, Stores!runVars
<1>2. PICK work \in Task : work = Stores!Idle /\ work.at = "idle"
  <2>1. Stores!Idle \in Task /\ Stores!Idle.at = "idle"
      BY DEF Task, Stores!Idle
  <2> QED
      BY <2>1
<1>3. /\ RunTypes' /\ TaskTypes' /\ MarksKept'
      /\ \A q \in Processes : doer'[q] = doer[q] \/ doer'[q] = work
    BY <1>1, <1>2, AtTheFile
<1>4. file' \in Lease
    BY <1>1, InHand DEF Lease
<1>5. LeaseTypes'
    BY <1>1, <1>4 DEF LeaseTypes, LeaseFile
<1>6. ASSUME ~ stale' PROVE held' \subseteq {file'} /\ \A l \in held' : l.until > storeNow'
  <2>1. held = {}
      BY <1>1, <1>6, Leases DEF FileRules, LeaseTypes
  <2> QED
      BY <1>1, <2>1
<1>7. ASSUME ~ stale', NEW q \in Processes, doer'[q].at = "open"
      PROVE  Stores!Expired(doer[q].read)'
  <2>1. doer'[q] = doer[q] /\ Stores!Expired(doer[q].read)
      BY <1>1, <1>2, <1>3, <1>7 DEF FileRules
  <2> QED
      BY <1>1, <2>1 DEF Stores!Expired
<1>8. FileRules'
    BY <1>6, <1>7 DEF FileRules
<1> QED
    BY <1>3, <1>5, <1>8

(* The file is removed, or a process dies.                                 *)
LEMMA DropStep ==
    ASSUME RunTypes, LeaseTypes, TaskTypes, MarksKept, FileRules,
           NEW p \in Processes, Stores!Unlink(p) \/ Stores!Crash(p)
    PROVE  RunTypes' /\ LeaseTypes' /\ TaskTypes' /\ MarksKept' /\ FileRules'
<1>1. /\ doer' = [doer EXCEPT ![p] = Stores!Idle] /\ held' \subseteq held
      /\ \/ file' = none /\ stale' = (stale \/ file # doer[p].read) /\ held' = held \ {doer[p].read}
         \/ UNCHANGED <<file, stale>>
      /\ UNCHANGED <<row, log, stored, lostMark, storeNow>>
    BY DEF Stores!Unlink, Stores!Crash, Stores!runVars
<1>2. PICK work \in Task : work = Stores!Idle /\ work.at = "idle"
  <2>1. Stores!Idle \in Task /\ Stores!Idle.at = "idle"
      BY DEF Task, Stores!Idle
  <2> QED
      BY <2>1
<1>3. /\ RunTypes' /\ TaskTypes' /\ MarksKept'
      /\ \A q \in Processes : doer'[q] = doer[q] \/ doer'[q] = work
    BY <1>1, <1>2, AtTheFile
<1>4. LeaseTypes'
    BY <1>1 DEF LeaseTypes, LeaseFile
<1>5. ASSUME ~ stale' PROVE ~ stale /\ held' \subseteq {file'} /\ \A l \in held' : l.until > storeNow'
  <2>1. ~ stale
      BY <1>1, <1>5
  <2>2. held \subseteq {file} /\ \A l \in held : l.until > storeNow
      BY <2>1 DEF FileRules
  <2>3. CASE file' = none /\ file = doer[p].read /\ held' = held \ {doer[p].read}
      BY <1>1, <2>1, <2>2, <2>3
  <2>4. CASE UNCHANGED file
      BY <1>1, <2>1, <2>2, <2>4
  <2> QED
      BY <1>1, <1>5, <2>3, <2>4
<1>6. ASSUME ~ stale', NEW q \in Processes, doer'[q].at = "open"
      PROVE  Stores!Expired(doer[q].read)'
  <2>1. doer'[q] = doer[q] /\ Stores!Expired(doer[q].read)
      BY <1>2, <1>3, <1>5, <1>6 DEF FileRules
  <2> QED
      BY <1>1, <2>1 DEF Stores!Expired
<1>7. FileRules'
    BY <1>5, <1>6 DEF FileRules
<1> QED
    BY <1>3, <1>4, <1>7

LEMMA TickStep ==
    ASSUME RunTypes, LeaseTypes, TaskTypes, MarksKept, FileRules, Stores!Tick
    PROVE  RunTypes' /\ LeaseTypes' /\ TaskTypes' /\ MarksKept' /\ FileRules'
<1>1. /\ storeNow < LastTick /\ storeNow' = storeNow + 1
      /\ held' = {l \in held : l.until > storeNow + 1}
      /\ UNCHANGED <<row, log, stored, lostMark, file, stale, doer>>
    BY DEF Stores!Tick, Stores!runVars
<1>2. RunTypes' /\ TaskTypes' /\ MarksKept'
    BY <1>1, RunUntouched DEF TaskTypes
<1>3. LeaseTypes'
    BY <1>1, StoresAssumption DEF LeaseTypes
<1>4. ASSUME ~ stale, NEW q \in Processes, doer[q].at = "open"
      PROVE  Stores!Expired(doer[q].read)'
  <2>1. doer[q].read \in LeaseFile /\ Stores!Expired(doer[q].read) /\ storeNow \in Nat
      BY <1>4, InHand, StoresAssumption DEF FileRules, LeaseTypes
  <2>2. doer[q].read \in {none, Stores!Torn} \/ doer[q].read.until \in Nat
      BY <2>1, Leases DEF LeaseFile
  <2> QED
      BY <1>1, <2>1, <2>2 DEF Stores!Expired
<1>5. FileRules'
    BY <1>1, <1>4 DEF FileRules
<1> QED
    BY <1>2, <1>3, <1>5


LEMMA StoringInvariance == StoringInv /\ [Next]_vars => StoringInv'
<1> SUFFICES ASSUME StoringInv, [Next]_vars, part' = "stores"
             PROVE  /\ RunTypes' /\ LeaseTypes' /\ TaskTypes' /\ MarksKept' /\ FileRules'
                    /\ (versions \subseteq DOMAIN Migrations)'
    BY DEF StoringInv
<1>1. part = "stores"
    BY DEF Next, vars
<1>2. RunTypes /\ LeaseTypes /\ TaskTypes /\ MarksKept /\ FileRules
    BY <1>1 DEF StoringInv
<1>3. versions \subseteq DOMAIN Migrations
    BY <1>1 DEF StoringInv
<1>4. CASE UNCHANGED vars
  <2>1. UNCHANGED storeVars
      BY <1>4 DEF vars
  <2>2. UNCHANGED <<row, log, file, doer, storeNow, held, stale, stored, lostMark, versions>>
      BY <2>1 DEF storeVars
  <2>3. RunTypes' /\ TaskTypes' /\ MarksKept'
      BY <1>2, <2>2, RunUntouched DEF TaskTypes
  <2>4. LeaseTypes' /\ FileRules'
      BY <1>2, <2>2, LeaseUntouched
  <2> QED
      BY <1>3, <2>2, <2>3, <2>4
<1>5. CASE Next
  <2>1. Stores!Storing
      BY <1>1, <1>5
      DEF Next, Tenancy, Caching, Storing, Serving, Choosing, Thinking, Showing, Grading
  <2>2. (versions \subseteq DOMAIN Migrations)'
      BY <1>3, <2>1 DEF Stores!Storing, Stores!schemaVars
  <2>3. \/ Stores!Marks
        \/ \E p \in Processes :
              \/ Stores!PersistMark(p) \/ Stores!LogMark(p) \/ Stores!Swap(p)
              \/ Stores!ReadForAcquire(p) \/ Stores!OpenLease(p) \/ Stores!WriteLease(p)
              \/ Stores!ReadForRelease(p) \/ Stores!Unlink(p) \/ Stores!Crash(p)
        \/ Stores!Tick
      BY <2>1 DEF Stores!Storing
  <2>4. CASE Stores!Marks
    <3>1. PICK p \in Processes, n \in Nodes, s \in NodeStatuses :
              Stores!LoadForMark(p, n, s) \/ Stores!CompareForSwap(p, n, s)
        BY <2>4 DEF Stores!Marks
    <3> QED
        BY <1>2, <2>2, <3>1, LoadStep
  <2>5. CASE Stores!Tick
      BY <1>2, <2>2, <2>5, TickStep
  <2>6. ASSUME NEW p \in Processes,
               \/ Stores!PersistMark(p) \/ Stores!LogMark(p) \/ Stores!Swap(p)
               \/ Stores!ReadForAcquire(p) \/ Stores!OpenLease(p) \/ Stores!WriteLease(p)
               \/ Stores!ReadForRelease(p) \/ Stores!Unlink(p) \/ Stores!Crash(p)
        PROVE  RunTypes' /\ LeaseTypes' /\ TaskTypes' /\ MarksKept' /\ FileRules'
      BY <1>2, <2>6, PersistStep, LogStep, ReadStep, OpenStep, WriteStep, DropStep
  <2> QED
      BY <2>2, <2>3, <2>4, <2>5, <2>6
<1> QED
    BY <1>4, <1>5

-----------------------------------------------------------------------------
(* The schema *)

LEMMA SchemaInit == Init => SchemaInv
<1> SUFFICES ASSUME Init, part = "schema" PROVE SchemaInv
    BY DEF SchemaInv
<1>1. /\ tables = {} /\ versions = {} /\ raced = {}
      /\ service = [p \in Processes |-> Stores!Service("down", {})]
    BY DEF Init, Stores!Init
<1>2. RunTypes /\ LeaseTypes
    BY StoresTypesInit DEF Init
<1>3. SchemaTypes
    BY <1>1 DEF SchemaTypes, Server, Stores!Service
<1>4. \A p \in Processes : OnItsWay(p)
    BY <1>1 DEF OnItsWay, Stores!Migrating, Stores!Service
<1> QED
    BY <1>1, <1>2, <1>3, <1>4 DEF SchemaInv


(* The rules of the processes a step of p leaves alone.                    *)
LEMMA OthersOnTheirWay ==
    ASSUME SchemaTypes, NEW p \in Processes, NEW q \in Processes, q # p, OnItsWay(q),
           service'[q] = service[q], tables \subseteq tables', versions \subseteq versions',
           versions' \subseteq DOMAIN Migrations,
           q \in raced => q \in raced',
           Stores!Migrating(q) /\ service'[p].at = "migrating" => q \in raced',
           \A r \in Processes : r # p => service'[r] = service[r],
           Stores!Migrating(q) => versions' = versions \/ q \in raced'
    PROVE  OnItsWay(q)'
<1>1. service[q].at = "up" => versions' = DOMAIN Migrations
    BY DEF OnItsWay
<1>2. service[q].at = "failed" => q \in raced'
    BY DEF OnItsWay
<1>3. ASSUME Stores!Migrating(q)
      PROVE  /\ service[q].todo # {} /\ DOMAIN Migrations \ service[q].todo \subseteq versions'
             /\ q \in raced' \/ service[q].todo \cap versions' = {}
             /\ \A r \in Processes : r # q /\ service'[r].at = "migrating" => q \in raced'
  <2>1. /\ service[q].todo # {} /\ DOMAIN Migrations \ service[q].todo \subseteq versions
        /\ q \in raced \/ service[q].todo \cap versions = {}
        /\ \A r \in Processes : r # q /\ Stores!Migrating(r) => q \in raced
      BY <1>3 DEF OnItsWay
  <2>2. \A r \in Processes : r # q /\ service'[r].at = "migrating" => q \in raced'
      BY <1>3, <2>1 DEF Stores!Migrating
  <2> QED
      BY <1>3, <2>1, <2>2
<1>4. ASSUME Stores!Migrating(q), NEW m \in service[q].todo, Stores!IsFirst(m, service[q].todo),
             NEW i \in DOMAIN Migrations[m], i < service[q].step
      PROVE  Migrations[m][i] \in tables'
    BY <1>4 DEF OnItsWay
<1> QED
    BY <1>1, <1>2, <1>3, <1>4 DEF OnItsWay, Stores!Migrating, Stores!IsFirst

LEMMA StartStep ==
    ASSUME SchemaTypes, \A m \in versions : Tables(m) \subseteq tables,
           \A p \in Processes : OnItsWay(p),
           NEW p \in Processes, Stores!StartService(p)
    PROVE  /\ SchemaTypes' /\ (\A m \in versions : Tables(m) \subseteq tables)'
           /\ (\A q \in Processes : OnItsWay(q))'
<1> DEFINE left == DOMAIN Migrations \ versions
<1>1. /\ service' = [service EXCEPT ![p] = Stores!Begun(left)]
      /\ UNCHANGED <<tables, versions>>
    BY DEF Stores!StartService
<1>2. PICK at \in {"up", "migrating"} :
          /\ Stores!Begun(left) = [at |-> at, todo |-> left, step |-> 1]
          /\ at = "up" <=> left = {}
    BY DEF Stores!Begun, Stores!Service
<1>3. /\ raced' \subseteq Processes /\ raced \ {p} \subseteq raced'
      /\ \A q \in Processes : q # p /\ Stores!Migrating(q) => p \in raced' /\ q \in raced'
    BY DEF Stores!StartService, Stores!Race, SchemaTypes
<1>4. SchemaTypes'
  <2>1. \A w \in SUBSET DOMAIN Migrations : [at |-> at, todo |-> w, step |-> 1] \in Server
      BY DEF Server
  <2>2. Stores!Begun(left) \in Server
      BY <1>2, <2>1
  <2>3. service' \in [Processes -> Server]
      BY <1>1, <2>2 DEF SchemaTypes
  <2> QED
      BY <1>1, <1>3, <2>3 DEF SchemaTypes
<1>5. service'[p] = [at |-> at, todo |-> left, step |-> 1]
    BY <1>1, <1>2 DEF SchemaTypes
<1>6. \A q \in Processes : q # p => service'[q] = service[q]
    BY <1>1 DEF SchemaTypes
<1>7. OnItsWay(p)'
  <2>1. at = "up" => versions' = DOMAIN Migrations
      BY <1>1, <1>2 DEF SchemaTypes
  <2>2. DOMAIN Migrations \ left \subseteq versions' /\ left \cap versions' = {}
      BY <1>1
  <2>3. \A q \in Processes : q # p /\ service'[q].at = "migrating" => p \in raced'
      BY <1>3, <1>6 DEF Stores!Migrating
  <2>4. \A m \in left : \A i \in DOMAIN Migrations[m] : ~ i < 1
      BY StoresAssumption
  <2> QED
      BY <1>2, <1>5, <2>1, <2>2, <2>3, <2>4 DEF OnItsWay, Stores!Migrating
<1>8. ASSUME NEW q \in Processes, q # p PROVE OnItsWay(q)'
    BY <1>1, <1>3, <1>4, <1>6, <1>8, OthersOnTheirWay DEF SchemaTypes
<1> QED
    BY <1>1, <1>4, <1>7, <1>8 DEF Tables

LEMMA StopStep ==
    ASSUME SchemaTypes, \A m \in versions : Tables(m) \subseteq tables,
           \A p \in Processes : OnItsWay(p),
           NEW p \in Processes, Stores!StopService(p)
    PROVE  /\ SchemaTypes' /\ (\A m \in versions : Tables(m) \subseteq tables)'
           /\ (\A q \in Processes : OnItsWay(q))'
<1>1. /\ service' = [service EXCEPT ![p] = [at |-> "down", todo |-> {}, step |-> 1]]
      /\ UNCHANGED <<tables, versions, raced>>
    BY DEF Stores!StopService, Stores!Service
<1>2. SchemaTypes'
    BY <1>1 DEF SchemaTypes, Server
<1>3. service'[p].at = "down" /\ \A q \in Processes : q # p => service'[q] = service[q]
    BY <1>1 DEF SchemaTypes
<1>4. OnItsWay(p)'
    BY <1>3 DEF OnItsWay, Stores!Migrating
<1>5. ASSUME NEW q \in Processes, q # p PROVE OnItsWay(q)'
    BY <1>1, <1>2, <1>3, <1>5, OthersOnTheirWay DEF SchemaTypes
<1> QED
    BY <1>1, <1>2, <1>4, <1>5 DEF Tables


LEMMA TypesOfStores ==
    ASSUME RunTypes, LeaseTypes, versions \subseteq DOMAIN Migrations
    PROVE  Stores!TypeOK
<1>1. row.nodes \in [Nodes -> NodeStatuses \cup {"pending"}]
    BY DEF RunTypes, Row, NodeStates
<1>2. file \in {none, Stores!Torn} \cup [owner : Processes, until : 0 .. LastTick + LeaseTtl]
    BY DEF LeaseTypes, LeaseFile, Lease
<1>3. \A i \in DOMAIN log : log[i] \in [node : Nodes, status : NodeStatuses]
  <2>1. \A i \in DOMAIN log : log[i] \in Marked
      BY DEF RunTypes
  <2> QED
      BY <2>1 DEF Marked
<1> QED
    BY <1>1, <1>2, <1>3 DEF Stores!TypeOK


(* The migration a process is at is the only first one it has left.        *)
LEMMA OneFirst ==
    ASSUME NEW work \in SUBSET DOMAIN Migrations, NEW m \in work, NEW k \in work,
           Stores!IsFirst(m, work), Stores!IsFirst(k, work)
    PROVE  m = k
<1>1. m <= k /\ k <= m /\ m \in Nat /\ k \in Nat
    BY StoresAssumption DEF Stores!IsFirst
<1> QED
    BY <1>1

LEMMA ExecuteStep ==
    ASSUME SchemaTypes, \A m \in versions : Tables(m) \subseteq tables,
           \A p \in Processes : OnItsWay(p),
           NEW p \in Processes, Stores!Migrating(p),
           NEW m \in service[p].todo, Stores!IsFirst(m, service[p].todo),
           Stores!Execute(p, m), UNCHANGED raced
    PROVE  /\ SchemaTypes' /\ (\A k \in versions : Tables(k) \subseteq tables)'
           /\ (\A q \in Processes : OnItsWay(q))'
<1>1. /\ tables' = tables \cup {Migrations[m][service[p].step]}
      /\ service' = [service EXCEPT ![p].step = @ + 1]
      /\ UNCHANGED <<versions, raced>>
    BY DEF Stores!Execute
<1>2. service[p] \in Server /\ service[p].step \in Nat \ {0} /\ service[p].todo \in SUBSET DOMAIN Migrations
    BY DEF SchemaTypes, Server
<1>3. SchemaTypes'
    BY <1>1, <1>2 DEF SchemaTypes, Server
<1>4. /\ service'[p].at = service[p].at /\ service'[p].todo = service[p].todo
      /\ service'[p].step = service[p].step + 1
      /\ \A q \in Processes : q # p => service'[q] = service[q]
    BY <1>1, <1>2 DEF SchemaTypes, Server
<1>5. \A q \in Processes : service'[q].at = service[q].at
    BY <1>4
<1>6. OnItsWay(p)'
  <2>1. ASSUME NEW k \in service[p].todo, Stores!IsFirst(k, service[p].todo),
               NEW i \in DOMAIN Migrations[k], i < service[p].step + 1
        PROVE  Migrations[k][i] \in tables'
    <3>1. k = m /\ i \in Nat
        BY <1>2, <2>1, OneFirst, StoresAssumption
    <3>2. CASE i < service[p].step
        BY <1>1, <2>1, <3>2 DEF OnItsWay
    <3>3. CASE i = service[p].step
        BY <1>1, <3>1, <3>3
    <3> QED
        BY <1>2, <2>1, <3>1, <3>2, <3>3
  <2>2. /\ service[p].todo # {} /\ DOMAIN Migrations \ service[p].todo \subseteq versions
        /\ p \in raced \/ service[p].todo \cap versions = {}
        /\ \A q \in Processes : q # p /\ service[q].at = "migrating" => p \in raced
        /\ service[p].at = "migrating"
      BY DEF OnItsWay, Stores!Migrating
  <2> QED
      BY <1>1, <1>4, <1>5, <2>1, <2>2 DEF OnItsWay, Stores!Migrating, Stores!IsFirst
<1>7. ASSUME NEW q \in Processes, q # p PROVE OnItsWay(q)'
  <2>1. Stores!Migrating(q) => q \in raced
      BY <1>7 DEF OnItsWay
  <2> QED
      BY <1>1, <1>3, <1>4, <1>7, <2>1, OthersOnTheirWay DEF SchemaTypes
<1> QED
    BY <1>1, <1>3, <1>6, <1>7 DEF Tables

LEMMA RecordStep ==
    ASSUME SchemaTypes, \A m \in versions : Tables(m) \subseteq tables,
           \A p \in Processes : OnItsWay(p),
           NEW p \in Processes, Stores!Migrating(p),
           NEW m \in service[p].todo, Stores!IsFirst(m, service[p].todo),
           Stores!Record(p, m), UNCHANGED raced
    PROVE  /\ SchemaTypes' /\ (\A k \in versions : Tables(k) \subseteq tables)'
           /\ (\A q \in Processes : OnItsWay(q))'
<1>1. /\ service[p].step > Len(Migrations[m])
      /\ versions' = versions \cup {m} /\ UNCHANGED <<tables, raced>>
      /\ service' = [service EXCEPT ![p] = IF m \in versions THEN Stores!Service("failed", {})
                                           ELSE Stores!Begun(service[p].todo \ {m})]
    BY DEF Stores!Record
<1>2. service[p].step \in Nat \ {0} /\ service[p].todo \in SUBSET DOMAIN Migrations
    BY DEF SchemaTypes, Server
<1>3. versions' \subseteq DOMAIN Migrations
    BY <1>1, <1>2 DEF SchemaTypes
<1>4. /\ DOMAIN Migrations \ service[p].todo \subseteq versions
      /\ p \in raced \/ service[p].todo \cap versions = {}
      /\ \A q \in Processes : q # p /\ Stores!Migrating(q) => p \in raced
    BY DEF OnItsWay
<1>5. PICK next \in Server :
          /\ service' = [service EXCEPT ![p] = next]
          /\ next.step = 1 /\ next.at \in {"up", "migrating", "failed"}
          /\ next.at = "failed" => m \in versions
          /\ next.at # "failed" => next.todo = service[p].todo \ {m} /\ m \notin versions
          /\ next.at = "up" <=> next.at # "failed" /\ next.todo = {}
  <2>1. CASE m \in versions
    <3>1. service' = [service EXCEPT ![p] = Stores!Service("failed", {})]
        BY <1>1, <2>1
    <3>2. Stores!Service("failed", {}) \in Server
        BY DEF Stores!Service, Server
    <3> QED
        BY <2>1, <3>1, <3>2 DEF Stores!Service
  <2>2. CASE m \notin versions
    <3>1. service' = [service EXCEPT ![p] = Stores!Begun(service[p].todo \ {m})]
        BY <1>1, <2>2
    <3>2. Stores!Begun(service[p].todo \ {m}) \in Server
        BY <1>2 DEF Stores!Begun, Stores!Service, Server
    <3> QED
        BY <2>2, <3>1, <3>2 DEF Stores!Begun, Stores!Service
  <2> QED
      BY <2>1, <2>2
<1>6. SchemaTypes'
    BY <1>1, <1>3, <1>5 DEF SchemaTypes
<1>7. service'[p] = next /\ \A q \in Processes : q # p => service'[q] = service[q]
    BY <1>5 DEF SchemaTypes
<1>8. \A k \in versions' : Tables(k) \subseteq tables'
  <2>1. ASSUME NEW i \in DOMAIN Migrations[m] PROVE Migrations[m][i] \in tables
    <3>1. Len(Migrations[m]) \in Nat /\ i \in 1 .. Len(Migrations[m])
        BY <1>2, StoresAssumption
    <3>2. i < service[p].step
        BY <1>1, <1>2, <3>1
    <3> QED
        BY <3>2 DEF OnItsWay
  <2> QED
      BY <1>1, <2>1 DEF Tables
<1>9. OnItsWay(p)'
  <2>1. next.at = "up" => versions' = DOMAIN Migrations
      BY <1>1, <1>3, <1>4, <1>5
  <2>2. next.at = "failed" => p \in raced'
      BY <1>1, <1>4, <1>5
  <2>3. next.at = "migrating" =>
            /\ next.todo # {} /\ DOMAIN Migrations \ next.todo \subseteq versions'
            /\ p \in raced' \/ next.todo \cap versions' = {}
      BY <1>1, <1>4, <1>5
  <2>4. \A q \in Processes : q # p /\ service'[q].at = "migrating" => p \in raced'
      BY <1>1, <1>4, <1>7 DEF Stores!Migrating
  <2>5. \A k \in next.todo : \A i \in DOMAIN Migrations[k] : next.at # "failed" => ~ i < 1
      BY <1>2, <1>5, StoresAssumption
  <2> QED
      BY <1>5, <1>7, <2>1, <2>2, <2>3, <2>4, <2>5 DEF OnItsWay, Stores!Migrating
<1>10. ASSUME NEW q \in Processes, q # p PROVE OnItsWay(q)'
  <2>1. Stores!Migrating(q) => q \in raced'
      BY <1>1, <1>10 DEF OnItsWay
  <2> QED
      BY <1>1, <1>3, <1>7, <1>10, <2>1, OthersOnTheirWay
<1> QED
    BY <1>6, <1>8, <1>9, <1>10 DEF Tables

LEMMA SchemaInvariance == SchemaInv /\ [Next]_vars => SchemaInv'
<1> SUFFICES ASSUME SchemaInv, [Next]_vars, part' = "schema" PROVE SchemaInv'
    BY DEF SchemaInv
<1>1. part = "schema"
    BY DEF Next, vars
<1>2. /\ RunTypes /\ LeaseTypes /\ SchemaTypes
      /\ (\A m \in versions : Tables(m) \subseteq tables)
      /\ \A p \in Processes : OnItsWay(p)
    BY <1>1 DEF SchemaInv
<1>3. CASE UNCHANGED vars
  <2>1. UNCHANGED storeVars
      BY <1>3 DEF vars
  <2>2. UNCHANGED <<row, log, lostMark, file, held, storeNow, tables, versions, service, raced>>
      BY <2>1 DEF storeVars
  <2>3. RunTypes' /\ LeaseTypes' /\ SchemaTypes'
      BY <1>2, <2>2 DEF RunTypes, LeaseTypes, SchemaTypes
  <2>4. (\A p \in Processes : OnItsWay(p))'
      BY <1>2, <2>2 DEF OnItsWay, Stores!Migrating
  <2> QED
      BY <1>2, <2>2, <2>3, <2>4 DEF SchemaInv, Tables
<1>4. CASE Next
  <2>1. Stores!Starting
      BY <1>1, <1>4
      DEF Next, Tenancy, Caching, Storing, Serving, Choosing, Thinking, Showing, Grading
  <2>2. UNCHANGED <<row, log, lostMark, file, held, storeNow>>
      BY <2>1 DEF Stores!Starting
  <2>3. RunTypes' /\ LeaseTypes'
      BY <1>2, <2>2 DEF RunTypes, LeaseTypes
  <2>4. PICK p \in Processes : Stores!StartService(p) \/ Stores!MigrateStep(p) \/ Stores!StopService(p)
      BY <2>1 DEF Stores!Starting
  <2>5. CASE Stores!MigrateStep(p)
    <3>1. PICK m \in service[p].todo :
              /\ Stores!IsFirst(m, service[p].todo)
              /\ Stores!Execute(p, m) \/ Stores!Record(p, m)
        BY <2>5 DEF Stores!MigrateStep
    <3>2. Stores!Migrating(p) /\ UNCHANGED raced
        BY <2>5 DEF Stores!MigrateStep
    <3> QED
        BY <1>2, <2>3, <3>1, <3>2, ExecuteStep, RecordStep DEF SchemaInv
  <2> QED
      BY <1>2, <2>3, <2>4, <2>5, StartStep, StopStep DEF SchemaInv
<1> QED
    BY <1>3, <1>4

-----------------------------------------------------------------------------
(* However marks, swaps, acquires, releases, deaths and starts of any      *)
(* number of processes interleave: two hold a lease only after a step on a *)
(* file that had changed since it was read (LeaseStore); the log never     *)
(* says what the store did not (mark_node, compare_and_swap); and who is   *)
(* up has every table (StateDB.migrate).                                   *)
THEOREM StoresKeepTheirRules == Spec => []StoresSound
<1>1. StoringInv /\ SchemaInv => StoresSound
  <2>1. ASSUME StoringInv, part = "stores"
        PROVE  Stores!TypeOK /\ Stores!OneHolder /\ Stores!LogFollowsStore
    <3>1. /\ RunTypes /\ LeaseTypes /\ MarksKept /\ FileRules
          /\ versions \subseteq DOMAIN Migrations
        BY <2>1 DEF StoringInv
    <3>2. Stores!TypeOK
        BY <3>1, TypesOfStores
    <3>3. Stores!OneHolder
        BY <3>1 DEF FileRules, Stores!OneHolder
    <3>4. Stores!LogFollowsStore
        BY <3>1 DEF MarksKept, Kept, Stores!LogFollowsStore
    <3> QED
        BY <3>2, <3>3, <3>4
  <2>2. ASSUME SchemaInv, part = "schema" PROVE Stores!TypeOK /\ Stores!SchemaComplete
    <3>1. /\ RunTypes /\ LeaseTypes /\ SchemaTypes
          /\ (\A m \in versions : Tables(m) \subseteq tables)
          /\ \A p \in Processes : OnItsWay(p)
        BY <2>2 DEF SchemaInv
    <3>2. Stores!TypeOK
        BY <3>1, TypesOfStores DEF SchemaTypes
    <3>3. Stores!SchemaComplete
        BY <3>1 DEF Stores!SchemaComplete, Tables, OnItsWay
    <3> QED
        BY <3>2, <3>3
  <2> QED
      BY <2>1, <2>2 DEF StoresSound
<1> QED
    BY <1>1, StoringInit, SchemaInit, StoringInvariance, SchemaInvariance, PTL DEF Spec

-----------------------------------------------------------------------------
(* Sums over finite sets *)

(* Every set of natural numbers has a least element. *)
LEMMA SmallestOf == \A S \in SUBSET Nat : S # {} => \E x \in S : \A y \in S : x <= y
<1> SUFFICES ASSUME NEW S \in SUBSET Nat, S # {} PROVE \E x \in S : \A y \in S : x <= y
    OBVIOUS
<1>1. PICK x \in S : \A y \in S : ~ (<<y, x>> \in OpToRel(<, Nat))
    BY NatLessThanWellFounded, WFMin
<1>2. \A y \in S : ~ (y < x)
    BY <1>1 DEF OpToRel
<1>3. x \in Nat /\ \A y \in S : y \in Nat
    OBVIOUS
<1> QED
    BY <1>2, <1>3

(* Induction over the subsets of a finite set: what holds of a set as soon *)
(* as it holds of the set without any one of its elements holds of all.    *)
LEMMA SubsetInduction ==
    ASSUME NEW S, IsFiniteSet(S), NEW Fine,
           \A T \in SUBSET S : (\A x \in T : T \ {x} \in Fine) => T \in Fine
    PROVE  \A T \in SUBSET S : T \in Fine
<1> DEFINE bad == {n \in Nat : \E T \in SUBSET S : T \notin Fine /\ Cardinality(T) = n}
<1>1. \A T \in SUBSET S : IsFiniteSet(T) /\ Cardinality(T) \in Nat
    BY FS_Subset, FS_CardinalityType
<1>2. CASE bad = {}
    BY <1>1, <1>2
<1>3. CASE bad # {}
  <2>1. PICK n \in bad : \A m \in bad : n <= m
      BY <1>3, SmallestOf
  <2>2. PICK T \in SUBSET S : T \notin Fine /\ Cardinality(T) = n
      BY <2>1
  <2>3. ASSUME NEW x \in T PROVE T \ {x} \in Fine
    <3>1. T \ {x} \in SUBSET S /\ Cardinality(T \ {x}) = n - 1 /\ n - 1 \in Nat
      <4>1. IsFiniteSet(T \ {x}) /\ Cardinality(T \ {x}) = Cardinality(T) - 1
          BY <1>1, FS_RemoveElement
      <4>2. Cardinality(T \ {x}) \in Nat
          BY <4>1, FS_CardinalityType
      <4> QED
          BY <2>2, <4>1, <4>2
    <3>2. n - 1 \notin bad
        BY <2>1, <3>1
    <3> QED
        BY <3>1, <3>2
  <2> QED
      BY <2>2, <2>3
<1> QED
    BY <1>2, <1>3

(* The sum of f over S, in the order in which the fold takes the elements. *)
Chosen(s) == CHOOSE x \in s : TRUE
SumsUp(f, D, it) ==
    it = [s \in D |-> IF s = {} THEN 0 ELSE f[Chosen(s)] + it[s \ {Chosen(s)}]]
Totals(f, S, it) == SumsUp(f, SUBSET S, it)
Sum(f, S) == (CHOOSE it : SumsUp(f, SUBSET S, it))[S]

LEMMA ChosenIn == \A s : s # {} => Chosen(s) \in s
    BY DEF Chosen

LEMMA SumExists ==
    ASSUME NEW f, NEW S, IsFiniteSet(S)
    PROVE  \E it : SumsUp(f, SUBSET S, it)
<1> DEFINE Upto(n) == {s \in SUBSET S : Cardinality(s) <= n}
           bad == {n \in Nat : ~ \E it : SumsUp(f, Upto(n), it)}
<1>1. \A T \in SUBSET S : IsFiniteSet(T) /\ Cardinality(T) \in Nat
    BY FS_Subset, FS_CardinalityType
<1>2. ASSUME NEW n \in bad, \A m \in bad : n <= m
      PROVE  FALSE
  <2>1. CASE n = 0
    <3>1. Upto(0) = {{}}
      <4>1. ASSUME NEW s \in Upto(0) PROVE s = {}
        <5>1. Cardinality(s) = 0
            BY <1>1
        <5> QED
            BY <1>1, <5>1, FS_EmptySet
      <4>2. {} \in Upto(0)
          BY FS_EmptySet
      <4> QED
          BY <4>1, <4>2
    <3> DEFINE it == [s \in {{}} |-> 0]
    <3>2. SumsUp(f, {{}}, it)
        BY DEF SumsUp
    <3> QED
        BY <1>2, <2>1, <3>1, <3>2
  <2>2. CASE n # 0
    <3>1. n - 1 \in Nat /\ n - 1 \notin bad
      <4>1. n \in Nat
          OBVIOUS
      <4>2. n - 1 \in Nat /\ ~ (n <= n - 1)
          BY <2>2, <4>1
      <4> HIDE DEF bad
      <4> QED
          BY <1>2, <4>2
    <3>2. PICK g : SumsUp(f, Upto(n - 1), g)
        BY <3>1
    <3> DEFINE h == [s \in Upto(n) |-> IF s = {} THEN 0 ELSE f[Chosen(s)] + g[s \ {Chosen(s)}]]
    <3>3. \A s \in Upto(n - 1) : s \in Upto(n) /\ h[s] = g[s]
      <4>1. \A s \in Upto(n - 1) : s \in Upto(n)
          BY <1>1, <3>1
      <4> HIDE DEF Upto
      <4> QED
          BY <3>2, <4>1 DEF SumsUp
    <3>4. ASSUME NEW s \in Upto(n), s # {}
          PROVE  s \ {Chosen(s)} \in Upto(n - 1)
      <4>1. Chosen(s) \in s
          BY <3>4, ChosenIn
      <4>2. s \ {Chosen(s)} \in SUBSET S /\ Cardinality(s \ {Chosen(s)}) = Cardinality(s) - 1
          BY <1>1, <4>1, FS_RemoveElement
      <4>3. Cardinality(s) \in Nat /\ Cardinality(s) <= n /\ n \in Nat
          BY <1>1
      <4> QED
          BY <4>2, <4>3
    <3> HIDE DEF Upto
    <3>5. h = [s \in Upto(n) |-> IF s = {} THEN 0 ELSE f[Chosen(s)] + h[s \ {Chosen(s)}]]
      <4>1. \A s \in Upto(n) : s # {} => h[s \ {Chosen(s)}] = g[s \ {Chosen(s)}]
          BY <3>3, <3>4
      <4> QED
          BY <4>1
    <3>6. SumsUp(f, Upto(n), h)
        BY <3>5 DEF SumsUp
    <3> QED
        BY <1>2, <3>6
  <2> QED
      BY <2>1, <2>2
<1>3. bad = {}
  <2>1. bad \in SUBSET Nat
      OBVIOUS
  <2> HIDE DEF bad
  <2> QED
      BY <1>2, <2>1, SmallestOf
<1>4. Cardinality(S) \in Nat /\ \E it : SumsUp(f, Upto(Cardinality(S)), it)
    BY <1>1, <1>3
<1>5. Upto(Cardinality(S)) = SUBSET S
    BY FS_Subset
<1> QED
    BY <1>4, <1>5

(* Any two such functions agree on what both sum up. *)
LEMMA SumUnique ==
    ASSUME NEW f, NEW S, IsFiniteSet(S), NEW g, Totals(f, S, g),
           NEW T, T \subseteq S, NEW h, Totals(f, T, h)
    PROVE  g[T] = h[T]
<1> DEFINE Fine == {s \in SUBSET T : g[s] = h[s]}
<1>1. IsFiniteSet(T)
    BY FS_Subset
<1>2. \A s \in SUBSET T :
         /\ g[s] = IF s = {} THEN 0 ELSE f[Chosen(s)] + g[s \ {Chosen(s)}]
         /\ h[s] = IF s = {} THEN 0 ELSE f[Chosen(s)] + h[s \ {Chosen(s)}]
    BY DEF Totals, SumsUp
<1>3. ASSUME NEW s \in SUBSET T, \A x \in s : s \ {x} \in Fine
      PROVE  s \in Fine
  <2>1. s # {} => g[s \ {Chosen(s)}] = h[s \ {Chosen(s)}]
      BY <1>3, ChosenIn
  <2> QED
      BY <1>2, <2>1
<1> HIDE DEF Fine
<1>4. T \in Fine
    BY <1>1, <1>3, SubsetInduction
<1> QED
    BY <1>4 DEF Fine

LEMMA SumIs ==
    ASSUME NEW f, NEW S, IsFiniteSet(S), NEW g, Totals(f, S, g), NEW T, T \subseteq S
    PROVE  g[T] = Sum(f, T)
<1> DEFINE h == CHOOSE it : SumsUp(f, SUBSET T, it)
<1>1. IsFiniteSet(T)
    BY FS_Subset
<1>2. SumsUp(f, SUBSET T, h)
    BY <1>1, SumExists
<1>3. Sum(f, T) = h[T]
    BY DEF Sum
<1> HIDE DEF h
<1>4. g[T] = h[T]
  <2>1. Totals(f, S, g) /\ Totals(f, T, h) /\ T \subseteq S
      BY <1>2 DEF Totals
  <2> QED
      BY <2>1, SumUnique
<1> QED
    BY <1>3, <1>4

LEMMA SumUnfold ==
    ASSUME NEW f, NEW S, IsFiniteSet(S)
    PROVE  Sum(f, S) = IF S = {} THEN 0 ELSE f[Chosen(S)] + Sum(f, S \ {Chosen(S)})
<1>1. PICK g : SumsUp(f, SUBSET S, g)
    BY SumExists
<1>2. \A T \in SUBSET S : g[T] = Sum(f, T)
  <2>1. Totals(f, S, g)
      BY <1>1 DEF Totals
  <2>2. ASSUME NEW T \in SUBSET S PROVE g[T] = Sum(f, T)
      BY <2>1, SumIs
  <2> QED
      BY <2>2
<1>3. g[S] = IF S = {} THEN 0 ELSE f[Chosen(S)] + g[S \ {Chosen(S)}]
  <2>1. S \in SUBSET S
      OBVIOUS
  <2> QED
      BY <1>1, <2>1 DEF SumsUp
<1> QED
    BY <1>2, <1>3

LEMMA SumEmpty == \A f : Sum(f, {}) = 0
    BY SumUnfold, FS_EmptySet

(* What sums up over S sums up over every subset, with the same numbers. *)
LEMMA SumSame ==
    ASSUME NEW S, IsFiniteSet(S), NEW f, NEW g, \A x \in S : f[x] = g[x]
    PROVE  Sum(f, S) = Sum(g, S)
<1> DEFINE fine == {T \in SUBSET S : Sum(f, T) = Sum(g, T)}
<1>1. ASSUME NEW T \in SUBSET S, \A x \in T : T \ {x} \in fine
      PROVE  T \in fine
  <2>1. IsFiniteSet(T)
      BY FS_Subset
  <2>2. CASE T = {}
      BY <2>2, SumEmpty
  <2>3. CASE T # {}
    <3>1. Chosen(T) \in T
        BY <2>3, ChosenIn
    <3>2. f[Chosen(T)] = g[Chosen(T)] /\ Sum(f, T \ {Chosen(T)}) = Sum(g, T \ {Chosen(T)})
        BY <1>1, <3>1
    <3>3. /\ Sum(f, T) = f[Chosen(T)] + Sum(f, T \ {Chosen(T)})
          /\ Sum(g, T) = g[Chosen(T)] + Sum(g, T \ {Chosen(T)})
        BY <2>1, <2>3, SumUnfold
    <3> QED
        BY <3>2, <3>3
  <2> QED
      BY <2>2, <2>3
<1> HIDE DEF fine
<1>2. S \in fine
  <2>1. \A T \in SUBSET S : (\A w \in T : T \ {w} \in fine) => T \in fine
      BY <1>1
  <2> QED
      BY ONLY <2>1, IsFiniteSet(S), SubsetInduction
<1> QED
    BY <1>2 DEF fine

LEMMA SumInt ==
    ASSUME NEW S, IsFiniteSet(S), NEW f, \A x \in S : f[x] \in Int
    PROVE  Sum(f, S) \in Int
<1> DEFINE fine == {T \in SUBSET S : Sum(f, T) \in Int}
<1>1. ASSUME NEW T \in SUBSET S, \A x \in T : T \ {x} \in fine
      PROVE  T \in fine
  <2>1. IsFiniteSet(T)
      BY FS_Subset
  <2>2. CASE T = {}
      BY <2>2, SumEmpty
  <2>3. CASE T # {}
    <3>1. Chosen(T) \in T
        BY <2>3, ChosenIn
    <3>2. f[Chosen(T)] \in Int /\ Sum(f, T \ {Chosen(T)}) \in Int
        BY <1>1, <3>1
    <3>3. Sum(f, T) = f[Chosen(T)] + Sum(f, T \ {Chosen(T)})
        BY <2>1, <2>3, SumUnfold
    <3> QED
        BY <3>2, <3>3
  <2> QED
      BY <2>2, <2>3
<1> HIDE DEF fine
<1>2. S \in fine
  <2>1. \A T \in SUBSET S : (\A w \in T : T \ {w} \in fine) => T \in fine
      BY <1>1
  <2> QED
      BY ONLY <2>1, IsFiniteSet(S), SubsetInduction
<1> QED
    BY <1>2 DEF fine

(* Any element can be taken out first. *)
LEMMA SumTakeOut ==
    ASSUME NEW S, IsFiniteSet(S), NEW f, \A x \in S : f[x] \in Int, NEW x \in S
    PROVE  Sum(f, S) = f[x] + Sum(f, S \ {x})
<1> DEFINE fine == {T \in SUBSET S : \A y \in T : Sum(f, T) = f[y] + Sum(f, T \ {y})}
<1>1. ASSUME NEW T \in SUBSET S, \A y \in T : T \ {y} \in fine
      PROVE  T \in fine
  <2>1. ASSUME NEW y \in T
        PROVE  Sum(f, T) = f[y] + Sum(f, T \ {y})
    <3> DEFINE z == Chosen(T)
               rest == (T \ {y}) \ {z}
    <3>1. z \in T
        BY ChosenIn
    <3>2. IsFiniteSet(T) /\ IsFiniteSet(T \ {y})
        BY FS_Subset
    <3>3. Sum(f, T) = f[z] + Sum(f, T \ {z})
        BY <3>1, <3>2, SumUnfold
    <3>4. CASE y = z
        BY <3>3, <3>4
    <3>5. CASE y # z
      <4>1. T \ {z} \in fine /\ T \ {y} \in fine
          BY <1>1, <3>1
      <4>2. Sum(f, T \ {z}) = f[y] + Sum(f, (T \ {z}) \ {y})
          BY <3>5, <4>1
      <4>3. Sum(f, T \ {y}) = f[z] + Sum(f, (T \ {y}) \ {z})
          BY <3>1, <3>5, <4>1
      <4>4. (T \ {z}) \ {y} = rest
          OBVIOUS
      <4>5. f[y] \in Int /\ f[z] \in Int /\ Sum(f, rest) \in Int
        <5>1. \A w \in rest : f[w] \in Int
            OBVIOUS
        <5>2. IsFiniteSet(rest)
            BY <3>2, FS_Subset
        <5>3. Sum(f, rest) \in Int
            BY <5>1, <5>2, SumInt
        <5> QED
            BY <3>1, <5>3
      <4>6. Sum(f, T \ {z}) = f[y] + Sum(f, rest) /\ Sum(f, T \ {y}) = f[z] + Sum(f, rest)
          BY <4>2, <4>3, <4>4, Zenon
      <4> DEFINE p == Sum(f, T \ {z})
                 q == Sum(f, T \ {y})
                 r == Sum(f, rest)
      <4>7. Sum(f, T) = f[z] + p /\ p = f[y] + r /\ q = f[z] + r /\ r \in Int
          BY <3>3, <4>5, <4>6
      <4> HIDE DEF z, p, q, r
      <4>8. Sum(f, T) = f[y] + q
          BY <4>5, <4>7
      <4> QED
          BY <4>8 DEF q
    <3> QED
        BY <3>4, <3>5
  <2> QED
      BY <2>1
<1> HIDE DEF fine
<1>2. S \in fine
  <2>1. \A T \in SUBSET S : (\A w \in T : T \ {w} \in fine) => T \in fine
      BY <1>1
  <2> QED
      BY ONLY <2>1, IsFiniteSet(S), SubsetInduction
<1> QED
    BY <1>2 DEF fine

(* The sum over a set is that over any part of it and that over the rest. *)
LEMMA SumSplit ==
    ASSUME NEW S, IsFiniteSet(S), NEW f, \A x \in S : f[x] \in Int, NEW T, T \subseteq S
    PROVE  Sum(f, S) = Sum(f, T) + Sum(f, S \ T)
<1> DEFINE fine == {U \in SUBSET T : Sum(f, S) = Sum(f, U) + Sum(f, S \ U)}
<1>1. IsFiniteSet(T)
    BY FS_Subset
<1>2. ASSUME NEW U \in SUBSET T, \A x \in U : U \ {x} \in fine
      PROVE  U \in fine
  <2>1. CASE U = {}
    <3>1. Sum(f, U) = 0
        BY <2>1, SumEmpty
    <3>2. S \ U = S
        BY <2>1
    <3>3. Sum(f, S) \in Int
        BY SumInt
    <3>4. Sum(f, S) = Sum(f, U) + Sum(f, S)
        BY <3>1, <3>3
    <3> QED
        BY <3>2, <3>4
  <2>2. CASE U # {}
    <3>1. PICK x \in U : TRUE
        BY <2>2
    <3>2. IsFiniteSet(U) /\ IsFiniteSet(S \ (U \ {x})) /\ IsFiniteSet(S \ U) /\ IsFiniteSet(U \ {x})
        BY <1>1, FS_Subset
    <3>3. Sum(f, U) = f[x] + Sum(f, U \ {x})
        BY <3>2, SumTakeOut
    <3>4. Sum(f, S \ (U \ {x})) = f[x] + Sum(f, (S \ (U \ {x})) \ {x})
      <4>1. x \in S \ (U \ {x}) /\ \A y \in S \ (U \ {x}) : f[y] \in Int
          OBVIOUS
      <4> QED
          BY <3>2, <4>1, SumTakeOut
    <3>5. (S \ (U \ {x})) \ {x} = S \ U
        OBVIOUS
    <3>6. Sum(f, S) = Sum(f, U \ {x}) + Sum(f, S \ (U \ {x}))
        BY <1>2
    <3>7. f[x] \in Int /\ Sum(f, U \ {x}) \in Int /\ Sum(f, S \ U) \in Int
      <4>1. (\A y \in U \ {x} : f[y] \in Int) /\ \A y \in S \ U : f[y] \in Int
          OBVIOUS
      <4> QED
          BY <3>2, <4>1, SumInt
    <3>8. Sum(f, S) = Sum(f, U) + Sum(f, S \ U)
      <4> DEFINE p == Sum(f, U \ {x})
                 q == Sum(f, S \ U)
                 r == Sum(f, S \ (U \ {x}))
      <4>1. r = f[x] + q /\ Sum(f, U) = f[x] + p /\ Sum(f, S) = p + r
          BY <3>3, <3>4, <3>5, <3>6
      <4>2. f[x] \in Int /\ p \in Int /\ q \in Int
          BY <3>7
      <4> HIDE DEF p, q, r
      <4>3. Sum(f, S) = Sum(f, U) + q
          BY <4>1, <4>2
      <4> QED
          BY <4>3 DEF q
    <3> QED
        BY <3>8
  <2> QED
      BY <2>1, <2>2
<1> HIDE DEF fine
<1>3. T \in fine
    BY <1>1, <1>2, SubsetInduction
<1> QED
    BY <1>3 DEF fine

-----------------------------------------------------------------------------
(* The local cache: the order of its keys *)

(* A function that carries a step through the prefixes of a sequence. *)
Keeps(order, S, n, g) ==
    g = [m \in 0 .. n |-> IF m = 0 THEN <<>>
                          ELSE IF order[m] \in S THEN g[m - 1]
                          ELSE Append(g[m - 1], order[m])]

LEMMA KeepsExists ==
    ASSUME NEW order, NEW S, NEW n \in Nat
    PROVE  \E g : Keeps(order, S, n, g)
<1> DEFINE bad == {m \in Nat : ~ \E g : Keeps(order, S, m, g)}
<1>1. ASSUME NEW m \in bad, \A j \in bad : m <= j
      PROVE  FALSE
  <2>1. m \in Nat /\ ~ \E g : Keeps(order, S, m, g)
      OBVIOUS
  <2>2. CASE m = 0
    <3> DEFINE g == [i \in 0 .. 0 |-> <<>>]
    <3>1. g = [i \in 0 .. 0 |-> IF i = 0 THEN <<>>
                                ELSE IF order[i] \in S THEN g[i - 1]
                                ELSE Append(g[i - 1], order[i])]
        OBVIOUS
    <3> QED
        BY <2>1, <2>2, <3>1 DEF Keeps
  <2>3. CASE m # 0
    <3>1. m - 1 \in Nat /\ ~ (m <= m - 1)
        BY <2>1, <2>3
    <3>2. m - 1 \notin bad
      <4> HIDE DEF bad
      <4> QED
          BY <1>1, <3>1
    <3>3. PICK h : Keeps(order, S, m - 1, h)
        BY <3>1, <3>2
    <3> DEFINE g == [i \in 0 .. m |-> IF i = 0 THEN <<>>
                                      ELSE IF order[i] \in S THEN h[i - 1]
                                      ELSE Append(h[i - 1], order[i])]
    <3>4. \A i \in 0 .. m - 1 : i \in 0 .. m /\ g[i] = h[i]
      <4>1. \A i \in 0 .. m - 1 : i \in 0 .. m
          BY <2>1
      <4>2. \A i \in 0 .. m - 1 : h[i] = IF i = 0 THEN <<>>
                                        ELSE IF order[i] \in S THEN h[i - 1]
                                        ELSE Append(h[i - 1], order[i])
          BY <3>3 DEF Keeps
      <4>3. \A i \in 0 .. m : g[i] = IF i = 0 THEN <<>>
                                    ELSE IF order[i] \in S THEN h[i - 1]
                                    ELSE Append(h[i - 1], order[i])
          OBVIOUS
      <4> HIDE DEF g
      <4> QED
          BY <4>1, <4>2, <4>3
    <3>5. \A i \in 0 .. m : i # 0 => i - 1 \in 0 .. m - 1
        BY <2>1
    <3>6. \A i \in 0 .. m : i # 0 => g[i - 1] = h[i - 1]
        BY <3>4, <3>5
    <3>7. g = [i \in 0 .. m |-> IF i = 0 THEN <<>>
                                ELSE IF order[i] \in S THEN g[i - 1]
                                ELSE Append(g[i - 1], order[i])]
        BY <3>6
    <3> HIDE DEF g
    <3>8. Keeps(order, S, m, g)
        BY <3>7 DEF Keeps
    <3> QED
        BY <2>1, <3>8
  <2> QED
      BY <2>2, <2>3
<1>2. bad = {}
  <2>1. bad \in SUBSET Nat
      OBVIOUS
  <2> HIDE DEF bad
  <2> QED
      BY <1>1, <2>1, SmallestOf
<1> QED
    BY <1>2

Ordered(order, D) ==
    /\ order \in Seq(D)
    /\ \A i, j \in 1 .. Len(order) : order[i] = order[j] => i = j
Listed(order) == {order[i] : i \in 1 .. Len(order)}

(* What is left of the first n of a list without repetitions. *)
Left(order, D, S, n, rest) ==
    /\ Ordered(rest, D)
    /\ \A k : k \in Listed(rest) <=> k \notin S /\ \E i \in 1 .. n : order[i] = k

LEMMA LeftStep ==
    ASSUME NEW D, NEW order, Ordered(order, D), NEW S, NEW n \in 1 .. Len(order), NEW rest,
           Left(order, D, S, n - 1, rest)
    PROVE  Left(order, D, S, n, IF order[n] \in S THEN rest ELSE Append(rest, order[n]))
<1>1. /\ order \in Seq(D) /\ Len(order) \in Nat /\ order[n] \in D
      /\ \A i, j \in 1 .. Len(order) : order[i] = order[j] => i = j
    BY LenProperties, ElementOfSeq DEF Ordered
<1>2. \A i : i \in 1 .. n <=> i \in 1 .. n - 1 \/ i = n
    BY <1>1
<1>3. /\ rest \in Seq(D) /\ Len(rest) \in Nat
      /\ \A i, j \in 1 .. Len(rest) : rest[i] = rest[j] => i = j
      /\ \A k : k \in Listed(rest) <=> k \notin S /\ \E i \in 1 .. n - 1 : order[i] = k
    BY LenProperties DEF Left, Ordered
<1>4. CASE order[n] \in S
  <2>1. \A k : k \in Listed(rest) <=> k \notin S /\ \E i \in 1 .. n : order[i] = k
      BY <1>2, <1>3, <1>4
  <2> QED
      BY <1>3, <1>4, <2>1 DEF Left, Ordered
<1>5. CASE order[n] \notin S
  <2> DEFINE more == Append(rest, order[n])
  <2>1. /\ more \in Seq(D) /\ Len(more) = Len(rest) + 1 /\ more[Len(rest) + 1] = order[n]
        /\ \A i \in 1 .. Len(rest) : more[i] = rest[i]
      BY <1>1, <1>3, AppendProperties
  <2>2. \A i : i \in 1 .. Len(more) <=> i \in 1 .. Len(rest) \/ i = Len(rest) + 1
      BY <1>3, <2>1
  <2> HIDE DEF more
  <2>3. \A k : k \in Listed(more) <=> k \in Listed(rest) \/ k = order[n]
      BY <2>1, <2>2 DEF Listed
  <2>4. order[n] \notin Listed(rest)
    <3>1. \A i \in 1 .. n - 1 : i \in 1 .. Len(order) /\ i # n
        BY <1>1
    <3> QED
        BY <1>1, <1>3, <3>1
  <2>5. \A i \in 1 .. Len(rest) : more[i] # order[n]
      BY <2>1, <2>4 DEF Listed
  <2>6. \A i, j \in 1 .. Len(more) : more[i] = more[j] => i = j
      BY <1>3, <2>1, <2>2, <2>5
  <2>7. \A k : k \in Listed(more) <=> k \notin S /\ \E i \in 1 .. n : order[i] = k
      BY <1>2, <1>3, <1>5, <2>3
  <2> QED
      BY <1>5, <2>1, <2>6, <2>7 DEF Left, Ordered, more
<1> QED
    BY <1>4, <1>5

LEMMA WithoutIs ==
    ASSUME NEW D, NEW order, Ordered(order, D), NEW S
    PROVE  /\ Ordered(Cached!Without(order, S), D)
           /\ Listed(Cached!Without(order, S)) = Listed(order) \ S
<1> DEFINE N == Len(order)
           kept == CHOOSE g : Keeps(order, S, N, g)
           bad == {n \in Nat : n <= N /\ ~ Left(order, D, S, n, kept[n])}
<1>1. N \in Nat
    BY LenProperties DEF Ordered
<1>2. Cached!Without(order, S) = kept[N]
    BY DEF Cached!Without, Keeps
<1>3. Keeps(order, S, N, kept)
    BY <1>1, KeepsExists
<1> HIDE DEF kept, N
<1>4. \A n \in 0 .. N : kept[n] = IF n = 0 THEN <<>>
                                  ELSE IF order[n] \in S THEN kept[n - 1]
                                  ELSE Append(kept[n - 1], order[n])
    BY <1>3 DEF Keeps
<1>5. ASSUME NEW n \in bad, \A m \in bad : n <= m
      PROVE  FALSE
  <2>1. n \in Nat /\ n <= N /\ n \in 0 .. N /\ ~ Left(order, D, S, n, kept[n])
      BY <1>1
  <2>2. CASE n = 0
    <3>1. kept[n] = <<>>
        BY <1>4, <2>1, <2>2
    <3>2. <<>> \in Seq(D) /\ Len(<<>>) = 0
        BY EmptySeq
    <3>3. Left(order, D, S, n, <<>>)
        BY <2>2, <3>2 DEF Left, Ordered, Listed
    <3> QED
        BY <2>1, <3>1, <3>3
  <2>3. CASE n # 0
    <3>1. n - 1 \in Nat /\ ~ (n <= n - 1) /\ n - 1 <= N /\ n \in 1 .. N
        BY <1>1, <2>1, <2>3
    <3>2. n - 1 \notin bad
      <4> HIDE DEF bad
      <4> QED
          BY <1>5, <3>1
    <3>3. Left(order, D, S, n - 1, kept[n - 1])
        BY <3>1, <3>2
    <3>4. kept[n] = IF order[n] \in S THEN kept[n - 1] ELSE Append(kept[n - 1], order[n])
        BY <1>4, <2>1, <2>3
    <3>5. Left(order, D, S, n, kept[n])
        BY <3>1, <3>3, <3>4, LeftStep DEF N
    <3> QED
        BY <2>1, <3>5
  <2> QED
      BY <2>2, <2>3
<1>6. bad = {}
  <2>1. bad \in SUBSET Nat
      OBVIOUS
  <2> HIDE DEF bad
  <2> QED
      BY <1>5, <2>1, SmallestOf
<1>7. Left(order, D, S, N, kept[N])
    BY <1>1, <1>6
<1>8. \A k : k \in Listed(order) <=> \E i \in 1 .. N : order[i] = k
    BY DEF Listed, N
<1> QED
    BY <1>2, <1>7, <1>8 DEF Left

-----------------------------------------------------------------------------
(* The local cache: its books *)

Slot == [size : Sizes \cup {0}, tags : SUBSET Tags, expired : Flag]
Cache == [entry : [LocalKeys -> Slot], order : Seq(LocalKeys), index : [Tags -> SUBSET LocalKeys],
          count : Int, total : Int]
Weights(book) == [k \in LocalKeys |-> book.entry[k].size]

(* The books of a cache: a key that is not there has no size and no tags,  *)
(* which is what storing it relies on.                                     *)
Books(book) ==
    /\ book \in Cache
    /\ Ordered(book.order, LocalKeys)
    /\ \A k \in LocalKeys \ Listed(book.order) : book.entry[k] = Cached!Absent
    /\ \A t \in Tags : book.index[t] = {k \in Listed(book.order) : t \in book.entry[k].tags}
    /\ book.count = Cardinality(Listed(book.order))
    /\ book.total = Sum(Weights(book), Listed(book.order))

Limits(book) == book.count <= MaxEntries /\ (book.count = MaxEntries => book.total <= MaxSize)

LocalInv == part = "l1" => Books(cache) /\ Limits(cache)

LEMMA CacheCardinality == \A S : Cached!Cardinality(S) = Cardinality(S)
    BY DEF Cached!Cardinality, Cardinality

LEMMA ListedFacts ==
    ASSUME NEW order, NEW D, Ordered(order, D)
    PROVE  /\ Listed(order) \subseteq D
           /\ IsFiniteSet(Listed(order))
           /\ Cardinality(Listed(order)) = Len(order)
           /\ Cached!Range(order) = Listed(order)
           /\ Cached!IsInjective(order)
<1>1. order \in Seq(D) /\ Len(order) \in Nat /\ DOMAIN order = 1 .. Len(order)
    BY LenProperties DEF Ordered
<1>2. Listed(order) \subseteq D
    BY <1>1, ElementOfSeq DEF Listed
<1>3. Cached!Range(order) = Listed(order)
    BY <1>1 DEF Cached!Range, Listed
<1>4. Cached!IsInjective(order)
    BY <1>1 DEF Cached!IsInjective, Ordered
<1>5. order \in Bijection(1 .. Len(order), Listed(order))
  <2>1. order \in [1 .. Len(order) -> Listed(order)]
      BY <1>1 DEF Listed
  <2>2. order \in Injection(1 .. Len(order), Listed(order))
      BY <1>1, <2>1 DEF Injection, IsInjective, Ordered
  <2>3. order \in Surjection(1 .. Len(order), Listed(order))
      BY <2>1 DEF Surjection, Listed
  <2> QED
      BY <2>2, <2>3 DEF Bijection
<1>6. IsFiniteSet(1 .. Len(order)) /\ Cardinality(1 .. Len(order)) = Len(order)
  <2>1. IsFiniteSet(1 .. Len(order))
           /\ Cardinality(1 .. Len(order)) = IF 1 > Len(order) THEN 0 ELSE Len(order) - 1 + 1
      BY <1>1, FS_Interval
  <2> QED
      BY <1>1, <2>1
<1>7. ExistsBijection(1 .. Len(order), Listed(order))
    BY <1>5 DEF ExistsBijection
<1>8. IsFiniteSet(Listed(order)) /\ Cardinality(Listed(order)) = Len(order)
    BY <1>6, <1>7, FS_Bijection
<1> QED
    BY <1>2, <1>3, <1>4, <1>8

(* What the fold over the entries adds up.                                 *)
LEMMA EntriesSum ==
    ASSUME NEW e, NEW S, IsFiniteSet(S), S \subseteq LocalKeys
    PROVE  Cached!MapThenSumSet(LAMBDA k : e[k].size, S) = Sum([k \in LocalKeys |-> e[k].size], S)
<1> DEFINE it == CHOOSE iter : iter = [s \in SUBSET S |-> IF s = {} THEN 0 ELSE e[Chosen(s)].size + iter[s \ {Chosen(s)}]]
           f == [k \in LocalKeys |-> e[k].size]
<1>1. Cached!MapThenSumSet(LAMBDA k : e[k].size, S) = it[S]
    BY DEF Cached!MapThenSumSet, Cached!MapThenFoldSet, Chosen
<1>2. \A s \in SUBSET S : s # {} => Chosen(s) \in S /\ f[Chosen(s)] = e[Chosen(s)].size
    BY ChosenIn
<1>3. PICK g : SumsUp(f, SUBSET S, g)
    BY SumExists
<1>4. g = [s \in SUBSET S |-> IF s = {} THEN 0 ELSE e[Chosen(s)].size + g[s \ {Chosen(s)}]]
    BY <1>2, <1>3 DEF SumsUp
<1>5. it = [s \in SUBSET S |-> IF s = {} THEN 0 ELSE e[Chosen(s)].size + it[s \ {Chosen(s)}]]
    BY <1>4, Zenon
<1> HIDE DEF it
<1>6. SumsUp(f, SUBSET S, it)
    BY <1>2, <1>5 DEF SumsUp
<1>7. it[S] = Sum(f, S)
  <2>1. Totals(f, S, it) /\ S \subseteq S
      BY <1>6 DEF Totals
  <2> HIDE DEF f
  <2> QED
      BY <2>1, SumIs
<1> QED
    BY <1>1, <1>7

(* The fields of a cache some entries of which are removed.                *)
Taken(book, gone, r) ==
    /\ r.entry = [k \in LocalKeys |-> IF k \in gone THEN Cached!Absent ELSE book.entry[k]]
    /\ r.order = Cached!Without(book.order, gone)
    /\ r.index = [t \in Tags |-> book.index[t] \ {k \in gone : t \in book.entry[k].tags}]
    /\ r.count = book.count - Cardinality(gone)
    /\ r.total = book.total - Sum(Weights(book), gone)
    /\ r = [entry |-> r.entry, order |-> r.order, index |-> r.index, count |-> r.count, total |-> r.total]

LEMMA RemovedIs ==
    ASSUME NEW book, Books(book), NEW S
    PROVE  Taken(book, S \cap Listed(book.order), Cached!Removed(book, S))
<1> DEFINE gone == S \cap Listed(book.order)
<1>1. book \in Cache /\ Ordered(book.order, LocalKeys)
    BY DEF Books
<1>2. Cached!Present(book) = Listed(book.order) /\ Listed(book.order) \subseteq LocalKeys
         /\ IsFiniteSet(Listed(book.order))
    BY <1>1, ListedFacts DEF Cached!Present
<1>3. IsFiniteSet(gone) /\ gone \subseteq LocalKeys
    BY <1>2, FS_Subset
<1>4. Cached!MapThenSumSet(LAMBDA k : book.entry[k].size, gone) = Sum(Weights(book), gone)
    BY <1>3, EntriesSum DEF Weights
<1>5. Cached!Cardinality(gone) = Cardinality(gone)
    BY CacheCardinality
<1>6. book = [entry |-> book.entry, order |-> book.order, index |-> book.index, count |-> book.count, total |-> book.total]
    BY <1>1 DEF Cache
<1> DEFINE sizes == Cached!MapThenSumSet(LAMBDA k : book.entry[k].size, gone)
           many == Cached!Cardinality(gone)
<1>7. Cached!Removed(book, S) =
        [book EXCEPT !.entry = [k \in LocalKeys |-> IF k \in gone THEN Cached!Absent ELSE book.entry[k]],
                     !.order = Cached!Without(book.order, gone),
                     !.index = [t \in Tags |-> book.index[t] \ {k \in gone : t \in book.entry[k].tags}],
                     !.count = book.count - many,
                     !.total = book.total - sizes]
    BY <1>2 DEF Cached!Removed
<1>8. Cached!Removed(book, S) =
        [entry |-> [k \in LocalKeys |-> IF k \in gone THEN Cached!Absent ELSE book.entry[k]],
         order |-> Cached!Without(book.order, gone),
         index |-> [t \in Tags |-> book.index[t] \ {k \in gone : t \in book.entry[k].tags}],
         count |-> book.count - Cardinality(gone),
         total |-> book.total - Sum(Weights(book), gone)]
  <2> HIDE DEF sizes, many
  <2>1. Cached!Removed(book, S) =
        [entry |-> [k \in LocalKeys |-> IF k \in gone THEN Cached!Absent ELSE book.entry[k]],
         order |-> Cached!Without(book.order, gone),
         index |-> [t \in Tags |-> book.index[t] \ {k \in gone : t \in book.entry[k].tags}],
         count |-> book.count - many,
         total |-> book.total - sizes]
      BY <1>6, <1>7
  <2> QED
      BY <1>4, <1>5, <2>1 DEF sizes, many
<1> HIDE DEF gone
<1> QED
    BY <1>8 DEF Taken, gone

(* Removing entries keeps the books, and there are no more than before.    *)
Smaller(book, S, r) ==
    /\ Books(r)
    /\ Listed(r.order) = Listed(book.order) \ S
    /\ r.count <= book.count

LEMMA CardinalitySplit ==
    ASSUME NEW S, IsFiniteSet(S), NEW T, T \subseteq S
    PROVE  /\ IsFiniteSet(T) /\ IsFiniteSet(S \ T)
           /\ Cardinality(T) \in Nat /\ Cardinality(S \ T) \in Nat
           /\ Cardinality(S) = Cardinality(T) + Cardinality(S \ T)
<1>1. IsFiniteSet(T) /\ IsFiniteSet(S \ T)
    BY FS_Subset
<1>2. Cardinality(T) \in Nat /\ Cardinality(S \ T) \in Nat
    BY <1>1, FS_CardinalityType
<1>3. /\ Cardinality(T \cup (S \ T))
            = Cardinality(T) + Cardinality(S \ T) - Cardinality(T \cap (S \ T))
    BY <1>1, FS_Union
<1>4. T \cup (S \ T) = S /\ T \cap (S \ T) = {}
    OBVIOUS
<1>5. Cardinality(S) = Cardinality(T) + Cardinality(S \ T) - 0
    BY <1>3, <1>4, FS_EmptySet
<1> QED
    BY <1>1, <1>2, <1>5

LEMMA BookTypes ==
    ASSUME NEW book, Books(book)
    PROVE  /\ book.entry \in [LocalKeys -> Slot] /\ book.order \in Seq(LocalKeys)
           /\ book.index \in [Tags -> SUBSET LocalKeys]
           /\ book.count \in Nat /\ book.total \in Int
           /\ Listed(book.order) \subseteq LocalKeys /\ IsFiniteSet(Listed(book.order))
           /\ book.count = Len(book.order)
<1>1. book \in Cache /\ Ordered(book.order, LocalKeys)
    BY DEF Books
<1>2. /\ book.entry \in [LocalKeys -> Slot] /\ book.order \in Seq(LocalKeys)
      /\ book.index \in [Tags -> SUBSET LocalKeys] /\ book.total \in Int
    BY <1>1 DEF Cache
<1>3. /\ Listed(book.order) \subseteq LocalKeys /\ IsFiniteSet(Listed(book.order))
      /\ Cardinality(Listed(book.order)) = Len(book.order)
    BY <1>1, ListedFacts
<1>4. book.count = Len(book.order) /\ book.count \in Nat
    BY <1>2, <1>3, LenProperties DEF Books
<1> QED
    BY <1>2, <1>3, <1>4

LEMMA WeightsAre ==
    ASSUME NEW book, Books(book)
    PROVE  \A k \in LocalKeys : Weights(book)[k] = book.entry[k].size /\ Weights(book)[k] \in Nat
<1>1. ASSUME NEW k \in LocalKeys
      PROVE  Weights(book)[k] = book.entry[k].size /\ Weights(book)[k] \in Nat
  <2>1. book.entry[k] \in Slot
      BY BookTypes
  <2>2. book.entry[k].size \in Sizes \cup {0}
      BY <2>1 DEF Slot
  <2>3. book.entry[k].size \in Nat
    <3>1. Sizes \cup {0} \subseteq Nat
        BY CacheAssumption
    <3> QED
        BY <2>2, <3>1
  <2>4. Weights(book)[k] = book.entry[k].size
      BY DEF Weights
  <2> QED
      BY <2>3, <2>4
<1> QED
    BY <1>1

LEMMA RemovedKeeps ==
    ASSUME NEW book, Books(book), NEW S
    PROVE  Smaller(book, S, Cached!Removed(book, S))
<1> DEFINE gone == S \cap Listed(book.order)
           r == Cached!Removed(book, S)
           left == Listed(book.order) \ gone
<1>1. Taken(book, gone, r)
    BY RemovedIs
<1> HIDE DEF r
<1>2. /\ book.entry \in [LocalKeys -> Slot] /\ book.index \in [Tags -> SUBSET LocalKeys]
      /\ book.count \in Nat /\ book.total \in Int
      /\ Listed(book.order) \subseteq LocalKeys /\ IsFiniteSet(Listed(book.order))
    BY BookTypes
<1>3. Ordered(r.order, LocalKeys) /\ Listed(r.order) = left
  <2>1. Ordered(book.order, LocalKeys)
      BY DEF Books
  <2>2. r.order = Cached!Without(book.order, gone)
      BY <1>1 DEF Taken
  <2> QED
      BY <2>1, <2>2, WithoutIs
<1>4. /\ IsFiniteSet(gone) /\ IsFiniteSet(left)
      /\ Cardinality(gone) \in Nat /\ Cardinality(left) \in Nat
      /\ Cardinality(Listed(book.order)) = Cardinality(gone) + Cardinality(left)
    BY <1>2, CardinalitySplit
<1>5. \A k \in LocalKeys : r.entry[k] = IF k \in gone THEN Cached!Absent ELSE book.entry[k]
    BY <1>1 DEF Taken
<1>6. Cached!Absent \in Slot
    BY DEF Cached!Absent, Slot, Flag
<1>7. r.entry \in [LocalKeys -> Slot]
  <2>1. r.entry = [k \in LocalKeys |-> IF k \in gone THEN Cached!Absent ELSE book.entry[k]]
      BY <1>1 DEF Taken
  <2> HIDE DEF gone
  <2>2. \A k \in LocalKeys : (IF k \in gone THEN Cached!Absent ELSE book.entry[k]) \in Slot
      BY <1>2, <1>6
  <2> QED
      BY <2>1, <2>2
<1>8. \A k \in LocalKeys \ Listed(r.order) : r.entry[k] = Cached!Absent
    BY <1>3, <1>5 DEF Books
<1>9. r.index \in [Tags -> SUBSET LocalKeys]
      /\ \A t \in Tags : r.index[t] = {k \in Listed(r.order) : t \in r.entry[k].tags}
  <2>1. r.index = [t \in Tags |-> book.index[t] \ {k \in gone : t \in book.entry[k].tags}]
      BY <1>1 DEF Taken
  <2>2. ASSUME NEW t \in Tags
        PROVE  book.index[t] \ {k \in gone : t \in book.entry[k].tags}
                   = {k \in left : t \in book.entry[k].tags}
    <3>1. book.index[t] = {k \in Listed(book.order) : t \in book.entry[k].tags}
        BY DEF Books
    <3> QED
        BY <3>1
  <2>3. ASSUME NEW t \in Tags
        PROVE  {k \in left : t \in book.entry[k].tags} = {k \in Listed(r.order) : t \in r.entry[k].tags}
    <3>1. \A k \in left : r.entry[k] = book.entry[k]
        BY <1>2, <1>5
    <3> QED
        BY <1>3, <3>1
  <2>4. \A t \in Tags : r.index[t] = {k \in Listed(r.order) : t \in r.entry[k].tags}
      BY <2>1, <2>2, <2>3
  <2>5. r.index \in [Tags -> SUBSET LocalKeys]
      BY <1>2, <2>1
  <2> QED
      BY <2>4, <2>5
<1>10. r.count = Cardinality(Listed(r.order)) /\ r.count \in Int /\ r.count <= book.count
  <2>1. r.count = book.count - Cardinality(gone) /\ book.count = Cardinality(Listed(book.order))
      BY <1>1 DEF Taken, Books
  <2> HIDE DEF gone, left
  <2> QED
      BY <1>2, <1>3, <1>4, <2>1
<1>11. r.total = Sum(Weights(r), Listed(r.order)) /\ r.total \in Int
  <2>1. r.total = book.total - Sum(Weights(book), gone)
           /\ book.total = Sum(Weights(book), Listed(book.order))
      BY <1>1 DEF Taken, Books
  <2>2. \A k \in Listed(book.order) : Weights(book)[k] \in Int
      BY <1>2, WeightsAre
  <2>3. Sum(Weights(book), Listed(book.order)) = Sum(Weights(book), gone) + Sum(Weights(book), left)
      BY <1>2, <2>2, SumSplit
  <2>4. Sum(Weights(book), gone) \in Int /\ Sum(Weights(book), left) \in Int
    <3>1. (\A k \in gone : Weights(book)[k] \in Int) /\ \A k \in left : Weights(book)[k] \in Int
        BY <2>2
    <3> QED
        BY <1>4, <3>1, SumInt
  <2>5. Sum(Weights(book), left) = Sum(Weights(r), left)
    <3>1. \A k \in left : Weights(book)[k] = Weights(r)[k]
        BY <1>2, <1>5 DEF Weights
    <3> QED
        BY <1>4, <3>1, SumSame
  <2>6. r.total = Sum(Weights(book), left) /\ r.total \in Int
    <3> DEFINE p == Sum(Weights(book), gone)
               q == Sum(Weights(book), left)
    <3>1. r.total = (p + q) - p /\ p \in Int /\ q \in Int
        BY <2>1, <2>3, <2>4
    <3> HIDE DEF p, q
    <3>2. r.total = q /\ r.total \in Int
        BY <3>1
    <3> QED
        BY <3>2 DEF q
  <2> QED
      BY <1>3, <2>5, <2>6
<1>12. r \in Cache
  <2>1. r.order \in Seq(LocalKeys)
      BY <1>3 DEF Ordered
  <2>2. r = [entry |-> r.entry, order |-> r.order, index |-> r.index, count |-> r.count, total |-> r.total]
      BY <1>1 DEF Taken
  <2> QED
      BY <1>7, <1>9, <1>10, <1>11, <2>1, <2>2 DEF Cache
<1>13. left = Listed(book.order) \ S
    OBVIOUS
<1>14. Books(r)
    BY <1>3, <1>8, <1>9, <1>10, <1>11, <1>12 DEF Books
<1> QED
    BY <1>3, <1>10, <1>13, <1>14 DEF Smaller, r

(* A key that is used moves to the end of the order.                       *)
Used(order, k) == Append(Cached!Without(order, {k}), k)

LEMMA UsedIs ==
    ASSUME NEW D, NEW order, Ordered(order, D), NEW k \in D
    PROVE  Ordered(Used(order, k), D) /\ Listed(Used(order, k)) = Listed(order) \cup {k}
<1> DEFINE rest == Cached!Without(order, {k})
           more == Append(rest, k)
<1>1. Ordered(rest, D) /\ Listed(rest) = Listed(order) \ {k}
    BY WithoutIs
<1> HIDE DEF rest
<1>2. /\ rest \in Seq(D) /\ Len(rest) \in Nat
      /\ \A i, j \in 1 .. Len(rest) : rest[i] = rest[j] => i = j
    BY <1>1, LenProperties DEF Ordered
<1>3. /\ more \in Seq(D) /\ Len(more) = Len(rest) + 1 /\ more[Len(rest) + 1] = k
      /\ \A i \in 1 .. Len(rest) : more[i] = rest[i]
    BY <1>2, AppendProperties
<1>4. \A i : i \in 1 .. Len(more) <=> i \in 1 .. Len(rest) \/ i = Len(rest) + 1
    BY <1>2, <1>3
<1> HIDE DEF more
<1>5. \A i \in 1 .. Len(rest) : rest[i] # k
    BY <1>1 DEF Listed
<1>6. \A i, j \in 1 .. Len(more) : more[i] = more[j] => i = j
    BY <1>2, <1>3, <1>4, <1>5
<1>7. \A x : x \in Listed(more) <=> x \in Listed(rest) \/ x = k
    BY <1>3, <1>4 DEF Listed
<1>8. Listed(more) = Listed(order) \cup {k}
    BY <1>1, <1>7
<1> QED
    BY <1>3, <1>6, <1>8 DEF Ordered, Used, more, rest

(* A cache in which only the order changes, or what else an entry says     *)
(* than its size and its tags.                                             *)
LEMMA ShuffledKeeps ==
    ASSUME NEW book, Books(book), NEW order, Ordered(order, LocalKeys),
           Listed(order) = Listed(book.order)
    PROVE  Books([book EXCEPT !.order = order])
<1> DEFINE r == [book EXCEPT !.order = order]
<1>1. book \in Cache
    BY DEF Books
<1>2. /\ r.entry = book.entry /\ r.order = order /\ r.index = book.index
      /\ r.count = book.count /\ r.total = book.total
      /\ r = [entry |-> book.entry, order |-> order, index |-> book.index,
              count |-> book.count, total |-> book.total]
    BY <1>1 DEF Cache
<1>3. Weights(r) = Weights(book)
    BY <1>2 DEF Weights
<1>4. order \in Seq(LocalKeys)
    BY DEF Ordered
<1>5. r \in Cache
    BY <1>1, <1>2, <1>4 DEF Cache
<1> HIDE DEF r
<1>6. Books(r)
    BY <1>2, <1>3, <1>5 DEF Books
<1> QED
    BY <1>6 DEF r

LEMMA MarkedKeeps ==
    ASSUME NEW book, Books(book), NEW k \in Listed(book.order), NEW flag \in Flag
    PROVE  Books([book EXCEPT !.entry[k].expired = flag])
<1> DEFINE r == [book EXCEPT !.entry[k].expired = flag]
           slot == [book.entry[k] EXCEPT !.expired = flag]
<1>1. book \in Cache /\ k \in LocalKeys /\ book.entry \in [LocalKeys -> Slot]
    BY BookTypes DEF Books
<1>2. book.entry[k] \in Slot
    BY <1>1
<1>3. slot \in Slot /\ slot.size = book.entry[k].size /\ slot.tags = book.entry[k].tags
    BY <1>2 DEF Slot
<1>4. r = [book EXCEPT !.entry = [book.entry EXCEPT ![k] = slot]]
    BY <1>1
<1> HIDE DEF r, slot
<1>5. /\ r.entry = [book.entry EXCEPT ![k] = slot] /\ r.order = book.order
      /\ r.index = book.index /\ r.count = book.count /\ r.total = book.total
      /\ r = [entry |-> r.entry, order |-> book.order, index |-> book.index,
              count |-> book.count, total |-> book.total]
    BY <1>1, <1>4 DEF Cache
<1>6. r.entry \in [LocalKeys -> Slot]
    BY <1>1, <1>3, <1>5
<1>7. \A j \in LocalKeys : /\ r.entry[j] = IF j = k THEN slot ELSE book.entry[j]
                           /\ r.entry[j].size = book.entry[j].size
                           /\ r.entry[j].tags = book.entry[j].tags
    BY <1>1, <1>3, <1>5
<1>8. Weights(r) = Weights(book)
    BY <1>7 DEF Weights
<1>9. r \in Cache
    BY <1>1, <1>5, <1>6 DEF Cache
<1>10. \A j \in LocalKeys \ Listed(r.order) : r.entry[j] = Cached!Absent
    BY <1>5, <1>7 DEF Books
<1>11. ASSUME NEW t \in Tags
       PROVE  r.index[t] = {j \in Listed(r.order) : t \in r.entry[j].tags}
  <2>1. r.index[t] = {j \in Listed(book.order) : t \in book.entry[j].tags}
      BY <1>5 DEF Books
  <2>2. Listed(book.order) \subseteq LocalKeys
      BY BookTypes
  <2> QED
      BY <1>5, <1>7, <2>1, <2>2
<1>12. Ordered(r.order, LocalKeys) /\ r.count = Cardinality(Listed(r.order))
          /\ r.total = Sum(Weights(r), Listed(r.order))
    BY <1>5, <1>8 DEF Books
<1>13. Books(r)
    BY <1>9, <1>10, <1>11, <1>12 DEF Books
<1> QED
    BY <1>13 DEF r

(* Storing an entry keeps the books, whatever the key had before.          *)
LEMMA StoredKeeps ==
    ASSUME NEW book, Books(book), NEW k \in LocalKeys, NEW size \in Sizes, NEW tags \in SUBSET Tags
    PROVE  /\ Books(Cached!Stored(book, k, size, tags))
           /\ Cached!Stored(book, k, size, tags).count <= book.count + 1
<1> DEFINE r == Cached!Stored(book, k, size, tags)
           slot == [size |-> size, tags |-> tags, expired |-> FALSE]
           before == Listed(book.order)
           others == before \ {k}
<1>1. /\ book \in Cache /\ Ordered(book.order, LocalKeys)
      /\ book.entry \in [LocalKeys -> Slot] /\ book.index \in [Tags -> SUBSET LocalKeys]
      /\ book.count \in Nat /\ book.total \in Int
      /\ before \subseteq LocalKeys /\ IsFiniteSet(before)
    BY BookTypes DEF Books
<1>2. Cached!Present(book) = before
    BY <1>1, ListedFacts DEF Cached!Present
<1>3. book = [entry |-> book.entry, order |-> book.order, index |-> book.index,
              count |-> book.count, total |-> book.total]
    BY <1>1 DEF Cache
<1>4. /\ r.entry = [book.entry EXCEPT ![k] = slot]
      /\ r.order = Used(book.order, k)
      /\ r.index = [t \in Tags |-> IF t \in tags THEN book.index[t] \cup {k}
                                   ELSE IF t \in book.entry[k].tags THEN book.index[t] \ {k}
                                   ELSE book.index[t]]
      /\ r.count = IF k \in before THEN book.count ELSE book.count + 1
      /\ r.total = book.total - book.entry[k].size + size
      /\ r = [entry |-> r.entry, order |-> r.order, index |-> r.index, count |-> r.count, total |-> r.total]
  <2> DEFINE tagged == [t \in Tags |-> IF t \in tags THEN book.index[t] \cup {k}
                                       ELSE IF t \in book.entry[k].tags THEN book.index[t] \ {k}
                                       ELSE book.index[t]]
             many == IF k \in before THEN book.count ELSE book.count + 1
             big == book.total - book.entry[k].size + size
  <2>1. r = [book EXCEPT !.entry[k] = slot, !.order = Used(book.order, k),
                         !.index = tagged, !.count = many, !.total = big]
      BY <1>2 DEF Cached!Stored, Used
  <2> HIDE DEF r, slot, tagged, many, big
  <2>2. r = [entry |-> [book.entry EXCEPT ![k] = slot], order |-> Used(book.order, k),
             index |-> tagged, count |-> many, total |-> big]
      BY <1>3, <2>1
  <2> QED
      BY <2>2 DEF tagged, many, big
<1> HIDE DEF r
<1>5. Ordered(r.order, LocalKeys) /\ Listed(r.order) = before \cup {k}
    BY <1>1, <1>4, UsedIs
<1>6. slot \in Slot /\ slot.size = size /\ slot.tags = tags
    BY DEF Slot, Flag
<1> HIDE DEF slot
<1>7. r.entry \in [LocalKeys -> Slot]
         /\ \A j \in LocalKeys : r.entry[j] = IF j = k THEN slot ELSE book.entry[j]
    BY <1>1, <1>4, <1>6
<1>8. \A j \in LocalKeys \ Listed(r.order) : r.entry[j] = Cached!Absent
    BY <1>5, <1>7 DEF Books
<1>9. k \notin before => book.entry[k].size = 0 /\ book.entry[k].tags = {}
    BY DEF Books, Cached!Absent
<1>10. r.index \in [Tags -> SUBSET LocalKeys]
          /\ \A t \in Tags : r.index[t] = {j \in Listed(r.order) : t \in r.entry[j].tags}
  <2>1. ASSUME NEW t \in Tags
        PROVE  r.index[t] = {j \in Listed(r.order) : t \in r.entry[j].tags}
    <3>1. book.index[t] = {j \in before : t \in book.entry[j].tags}
        BY DEF Books
    <3>2. r.index[t] = IF t \in tags THEN book.index[t] \cup {k}
                       ELSE IF t \in book.entry[k].tags THEN book.index[t] \ {k}
                       ELSE book.index[t]
        BY <1>4
    <3>3. \A j \in Listed(r.order) : t \in r.entry[j].tags <=>
              IF j = k THEN t \in tags ELSE t \in book.entry[j].tags
        BY <1>1, <1>5, <1>6, <1>7
    <3>4. \A j : j \in r.index[t] <=> j \in before \cup {k} /\ IF j = k THEN t \in tags ELSE t \in book.entry[j].tags
        BY <1>9, <3>1, <3>2
    <3>5. \A j : j \in r.index[t] <=> j \in Listed(r.order) /\ t \in r.entry[j].tags
        BY <1>5, <3>3, <3>4
    <3> QED
        BY <3>5
  <2>2. r.index = [t \in Tags |-> r.index[t]]
      BY <1>4
  <2>3. \A t \in Tags : r.index[t] \in SUBSET LocalKeys
      BY <1>1, <1>5, <2>1
  <2> QED
      BY <2>1, <2>2, <2>3
<1>11. r.count = Cardinality(Listed(r.order)) /\ r.count \in Nat /\ r.count <= book.count + 1
  <2>1. Cardinality(before \cup {k}) = IF k \in before THEN Cardinality(before) ELSE Cardinality(before) + 1
      BY <1>1, FS_AddElement
  <2>2. book.count = Cardinality(before)
      BY DEF Books
  <2>3. r.count = Cardinality(Listed(r.order))
      BY <1>4, <1>5, <2>1, <2>2
  <2>4. r.count \in Nat /\ r.count <= book.count + 1
      BY <1>1, <1>4
  <2> QED
      BY <2>3, <2>4
<1>12. IsFiniteSet(others) /\ IsFiniteSet(before \cup {k})
  <2>1. IsFiniteSet(others)
      BY <1>1, FS_Subset
  <2>2. IsFiniteSet(before \cup {k})
      BY <1>1, FS_AddElement
  <2> QED
      BY <2>1, <2>2
<1>13. \A j \in LocalKeys : Weights(book)[j] = book.entry[j].size /\ Weights(book)[j] \in Nat
    BY WeightsAre
<1>14. \A j \in LocalKeys : Weights(r)[j] = IF j = k THEN size ELSE Weights(book)[j]
    BY <1>6, <1>7 DEF Weights
<1>15. size \in Nat
    BY CacheAssumption
<1>16. book.total = book.entry[k].size + Sum(Weights(book), others) /\ Sum(Weights(book), others) \in Int
  <2>1. book.total = Sum(Weights(book), before)
      BY DEF Books
  <2>2. \A j \in before : Weights(book)[j] \in Int
      BY <1>1, <1>13
  <2>3. Sum(Weights(book), others) \in Int
    <3>1. \A j \in others : Weights(book)[j] \in Int
        BY <2>2
    <3> QED
        BY <1>12, <3>1, SumInt
  <2>4. CASE k \in before
    <3>1. Sum(Weights(book), before) = Weights(book)[k] + Sum(Weights(book), others)
        BY <1>1, <2>2, <2>4, SumTakeOut
    <3> QED
        BY <1>13, <2>1, <2>3, <3>1
  <2>5. CASE k \notin before
    <3>1. others = before
        BY <2>5
    <3>2. Sum(Weights(book), before) = Sum(Weights(book), others)
        BY <3>1
    <3> DEFINE p == Sum(Weights(book), others)
    <3>3. book.total = p /\ p \in Int /\ book.entry[k].size = 0
        BY <1>9, <2>1, <2>3, <2>5, <3>2
    <3> HIDE DEF p
    <3>4. book.total = book.entry[k].size + p
        BY <3>3
    <3> QED
        BY <2>3, <3>4 DEF p
  <2> QED
      BY <2>4, <2>5
<1>17. r.total = Sum(Weights(r), Listed(r.order)) /\ r.total \in Int
  <2>1. \A j \in before \cup {k} : Weights(r)[j] \in Int
      BY <1>1, <1>13, <1>14, <1>15
  <2>2. Sum(Weights(r), before \cup {k}) = Weights(r)[k] + Sum(Weights(r), (before \cup {k}) \ {k})
      BY <1>12, <2>1, SumTakeOut
  <2>3. (before \cup {k}) \ {k} = others
      OBVIOUS
  <2>4. Sum(Weights(r), others) = Sum(Weights(book), others)
    <3>1. \A j \in others : Weights(r)[j] = Weights(book)[j]
        BY <1>1, <1>14
    <3> QED
        BY <1>12, <3>1, SumSame
  <2>5. Sum(Weights(r), before \cup {k}) = size + Sum(Weights(book), others)
      BY <1>14, <2>2, <2>3, <2>4
  <2>6. r.total = book.total - book.entry[k].size + size /\ book.entry[k].size \in Int
      BY <1>4, <1>13
  <2> DEFINE p == Sum(Weights(book), others)
             q == Sum(Weights(r), before \cup {k})
  <2>7. q = size + p /\ p \in Int /\ book.total = book.entry[k].size + p
      BY <1>16, <2>5
  <2> HIDE DEF p, q
  <2>8. r.total = q /\ r.total \in Int
      BY <1>15, <2>6, <2>7
  <2> QED
      BY <1>5, <2>8 DEF q
<1>18. r \in Cache
  <2>1. r.order \in Seq(LocalKeys) /\ r.count \in Int
      BY <1>5, <1>11 DEF Ordered
  <2> QED
      BY <1>4, <1>7, <1>10, <1>17, <2>1 DEF Cache
<1>19. Books(r)
    BY <1>5, <1>8, <1>10, <1>11, <1>17, <1>18 DEF Books
<1> QED
    BY <1>11, <1>19 DEF r

LEMMA OldestHolds ==
    ASSUME NEW book, Books(book), NEW m \in 1 .. Len(book.order)
    PROVE  /\ book.order[1] \in Cached!Oldest(book, m)
           /\ book.order[1] \in Listed(book.order)
<1> DEFINE first == SubSeq(book.order, 1, m)
<1>1. book.order \in Seq(LocalKeys) /\ Len(book.order) \in Nat
    BY LenProperties DEF Books, Ordered
<1>2. /\ first \in Seq(LocalKeys) /\ Len(first) = m /\ first[1] = book.order[1]
      /\ 1 \in 1 .. Len(book.order) /\ m \in Nat /\ m >= 1
    BY <1>1
<1>3. 1 \in DOMAIN first
    BY <1>2, LenProperties
<1> HIDE DEF first
<1>4. book.order[1] \in Cached!Range(first)
    BY <1>2, <1>3 DEF Cached!Range
<1>5. Cached!Oldest(book, m) = Cached!Range(first)
    BY DEF Cached!Oldest, first
<1> QED
    BY <1>2, <1>4, <1>5 DEF Listed

LEMMA LessOf ==
    ASSUME NEW m \in Int, NEW n \in Int
    PROVE  /\ Cached!Min({m, n}) = IF m <= n THEN m ELSE n
           /\ Cached!Max({m, n}) = IF m >= n THEN m ELSE n
<1>1. Cached!Min({m, n}) = CHOOSE i \in {m, n} : \A j \in {m, n} : i <= j
    BY DEF Cached!Min
<1>2. Cached!Max({m, n}) = CHOOSE i \in {m, n} : \A j \in {m, n} : i >= j
    BY DEF Cached!Max
<1> QED
    BY <1>1, <1>2

LEMMA SelectedIs ==
    /\ Cached!Selected(0) = 0
    /\ Cached!Selected(MaxEntries + 1) \in 1 .. MaxEntries + 1
    /\ MaxEntries # 0 => Cached!Selected(MaxEntries) = 1
<1>1. MaxEntries \in Nat
    BY CacheAssumption
<1>2. Cached!Selected(0) = 0
  <2>1. Cached!Selected(0) = IF 0 - MaxEntries + 1 >= 0 THEN Cached!Min({0 - MaxEntries + 1, 0})
                             ELSE Cached!Max({0, 0 + (0 - MaxEntries + 1)})
      BY DEF Cached!Selected
  <2>2. 0 - MaxEntries + 1 \in Int /\ 0 + (0 - MaxEntries + 1) = 0 - MaxEntries + 1 /\ 0 \in Int
      BY <1>1
  <2> QED
      BY <2>1, <2>2, LessOf
<1>3. Cached!Selected(MaxEntries + 1) = IF 2 <= MaxEntries + 1 THEN 2 ELSE MaxEntries + 1
  <2>1. Cached!Selected(MaxEntries + 1) =
            IF (MaxEntries + 1) - MaxEntries + 1 >= 0
            THEN Cached!Min({(MaxEntries + 1) - MaxEntries + 1, MaxEntries + 1})
            ELSE Cached!Max({0, (MaxEntries + 1) + ((MaxEntries + 1) - MaxEntries + 1)})
      BY DEF Cached!Selected
  <2>2. (MaxEntries + 1) - MaxEntries + 1 = 2 /\ MaxEntries + 1 \in Int /\ 2 \in Int /\ 2 >= 0
      BY <1>1
  <2> QED
      BY <2>1, <2>2, LessOf
<1>4. Cached!Selected(MaxEntries) = IF 1 <= MaxEntries THEN 1 ELSE MaxEntries
  <2>1. Cached!Selected(MaxEntries) =
            IF MaxEntries - MaxEntries + 1 >= 0
            THEN Cached!Min({MaxEntries - MaxEntries + 1, MaxEntries})
            ELSE Cached!Max({0, MaxEntries + (MaxEntries - MaxEntries + 1)})
      BY DEF Cached!Selected
  <2>2. MaxEntries - MaxEntries + 1 = 1 /\ MaxEntries \in Int /\ 1 \in Int /\ 1 >= 0
      BY <1>1
  <2> QED
      BY <2>1, <2>2, LessOf
<1> QED
    BY <1>1, <1>2, <1>3, <1>4

(* The first loop: at most max_entries are left.                           *)
Fitting(book) ==
    IF Len(book.order) > MaxEntries
    THEN Cached!Removed(book, Cached!Oldest(book, Cached!Selected(Len(book.order))))
    ELSE book

LEMMA FittingKeeps ==
    ASSUME NEW book, Books(book), book.count <= MaxEntries + 1
    PROVE  Books(Fitting(book)) /\ Fitting(book).count <= MaxEntries
<1>1. MaxEntries \in Nat /\ book.count \in Nat /\ book.count = Len(book.order)
    BY CacheAssumption, BookTypes
<1>2. CASE Len(book.order) > MaxEntries
  <2> DEFINE S == Cached!Oldest(book, Cached!Selected(Len(book.order)))
             r == Cached!Removed(book, S)
  <2>1. Len(book.order) = MaxEntries + 1
      BY <1>1, <1>2
  <2>2. Cached!Selected(Len(book.order)) \in 1 .. Len(book.order)
      BY <2>1, SelectedIs
  <2>3. book.order[1] \in S /\ book.order[1] \in Listed(book.order)
      BY <2>2, OldestHolds
  <2> HIDE DEF S
  <2>4. Books(r) /\ Listed(r.order) = Listed(book.order) \ S
      BY RemovedKeeps DEF Smaller
  <2> HIDE DEF r
  <2>5. IsFiniteSet(Listed(book.order)) /\ Cardinality(Listed(book.order)) = MaxEntries + 1
      BY <1>1, <2>1, BookTypes DEF Books
  <2> DEFINE others == Listed(book.order) \ {book.order[1]}
  <2>6. IsFiniteSet(others) /\ Cardinality(others) = MaxEntries
    <3>1. /\ IsFiniteSet(others)
          /\ Cardinality(others) = IF book.order[1] \in Listed(book.order)
                                   THEN Cardinality(Listed(book.order)) - 1
                                   ELSE Cardinality(Listed(book.order))
        BY <2>5, FS_RemoveElement
    <3> QED
        BY <1>1, <2>3, <2>5, <3>1
  <2>7. Listed(r.order) \in SUBSET others
      BY <2>3, <2>4
  <2> HIDE DEF others
  <2>8. Cardinality(Listed(r.order)) <= MaxEntries
      BY <2>6, <2>7, FS_Subset
  <2>9. Fitting(book) = r
      BY <1>2 DEF Fitting, r, S
  <2> QED
      BY <2>4, <2>8, <2>9 DEF Books
<1>3. CASE ~ (Len(book.order) > MaxEntries)
    BY <1>1, <1>3 DEF Fitting
<1> QED
    BY <1>2, <1>3

(* The second loop.                                                        *)
After(book, m) == Cached!Removed(book, Cached!Oldest(book, m))
Stops(book) == {m \in 0 .. Len(book.order) : \/ After(book, m).total <= MaxSize
                                             \/ Cached!Selected(Len(book.order) - m) = 0}

LEMMA StopsAt ==
    ASSUME NEW book, Books(book)
    PROVE  Cached!Min(Stops(book)) \in Stops(book)
<1>1. Len(book.order) \in Nat
    BY BookTypes
<1>2. Len(book.order) \in Stops(book)
  <2>1. Len(book.order) - Len(book.order) = 0 /\ Len(book.order) \in 0 .. Len(book.order)
      BY <1>1
  <2> QED
      BY <2>1, SelectedIs DEF Stops
<1>3. Stops(book) \in SUBSET Nat
    BY <1>1 DEF Stops
<1>4. \E i \in Stops(book) : \A j \in Stops(book) : i <= j
    BY <1>2, <1>3, SmallestOf
<1> QED
    BY <1>4 DEF Cached!Min

LEMMA EnforceKeeps ==
    ASSUME NEW book, Books(book), book.count <= MaxEntries + 1
    PROVE  Books(Cached!Enforce(book)) /\ Limits(Cached!Enforce(book))
<1> DEFINE fit == Fitting(book)
           m == Cached!Min(Stops(fit))
           r == After(fit, m)
           S == Cached!Oldest(fit, m)
<1>1. Books(fit) /\ fit.count <= MaxEntries
    BY FittingKeeps
<1>2. Cached!Enforce(book) = r
    BY DEF Cached!Enforce, Fitting, After, Stops
<1> HIDE DEF fit
<1>3. m \in 0 .. Len(fit.order)
         /\ (After(fit, m).total <= MaxSize \/ Cached!Selected(Len(fit.order) - m) = 0)
    BY <1>1, StopsAt DEF Stops
<1> HIDE DEF m, S
<1>4. Books(r) /\ Listed(r.order) = Listed(fit.order) \ S /\ r.count <= fit.count
    BY <1>1, RemovedKeeps DEF Smaller, After, S
<1>5. /\ MaxEntries \in Nat /\ MaxSize \in Nat /\ r.count \in Nat
      /\ fit.count \in Nat /\ fit.count = Len(fit.order)
    BY <1>1, <1>4, CacheAssumption, BookTypes
<1>6. r.total = After(fit, m).total
    OBVIOUS
<1> HIDE DEF r
<1>7. ASSUME r.count = MaxEntries
      PROVE  r.total <= MaxSize
  <2>1. CASE MaxEntries = 0
    <3>1. IsFiniteSet(Listed(r.order)) /\ Cardinality(Listed(r.order)) = 0
        BY <1>4, <1>7, <2>1, BookTypes DEF Books
    <3>2. Listed(r.order) = {}
        BY <3>1, FS_EmptySet
    <3>3. r.total = 0
        BY <1>4, <3>2, SumEmpty DEF Books
    <3> QED
        BY <1>5, <3>3
  <2>2. CASE MaxEntries # 0
    <3>1. fit.count = MaxEntries
        BY <1>1, <1>4, <1>5, <1>7
    <3>2. m = 0
      <4>1. SUFFICES ASSUME m # 0 PROVE FALSE
          OBVIOUS
      <4>2. m \in 1 .. Len(fit.order)
          BY <1>3, <1>5, <4>1
      <4>3. fit.order[1] \in S /\ fit.order[1] \in Listed(fit.order)
          BY <1>1, <4>2, OldestHolds DEF S
      <4>4. IsFiniteSet(Listed(fit.order)) /\ Cardinality(Listed(fit.order)) = MaxEntries
               /\ Cardinality(Listed(r.order)) = MaxEntries
          BY <1>1, <1>4, <1>7, <3>1, BookTypes DEF Books
      <4>5. Listed(r.order) \in SUBSET Listed(fit.order) /\ Listed(r.order) # Listed(fit.order)
          BY <1>4, <4>3
      <4> QED
          BY <4>4, <4>5, FS_Subset
    <3>3. Len(fit.order) - m = MaxEntries
        BY <1>5, <3>1, <3>2
    <3>4. Cached!Selected(Len(fit.order) - m) # 0
        BY <2>2, <3>3, SelectedIs
    <3> QED
        BY <1>3, <1>6, <3>4
  <2> QED
      BY <2>1, <2>2
<1>8. r.count <= MaxEntries
    BY <1>1, <1>4, <1>5
<1> QED
    BY <1>2, <1>4, <1>7, <1>8 DEF Limits

-----------------------------------------------------------------------------
(* The tiers of the cache: what they show *)

TierCell == [value : Cached!Values \cup {none}, version : 0 .. MaxWrites + MaxSynced]
TierCall == [op : {"idle", "load", "swap"}, key : CacheKeys \cup {none},
             value : Cached!Values \cup {none}, version : 0 .. MaxWrites + MaxSynced]

ShownTypes ==
    /\ source \in [CacheKeys -> Cached!Values]
    /\ l1 \in [CacheKeys -> Cached!Values \cup {none}]
    /\ l2 \in [CacheKeys -> TierCell]
    /\ counter \in 0 .. MaxWrites
    /\ doing \in [CacheThreads -> TierCall]
    /\ clean \subseteq CacheKeys
    /\ synced \in Flag

ShownInv == part = "tiers" => ShownTypes /\ Cached!StaleOnlyByWriters

LEMMA ShownInit == Init => ShownInv
<1> SUFFICES ASSUME Init PROVE ShownTypes /\ Cached!StaleOnlyByWriters
    BY DEF ShownInv
<1>1. Cached!TiersInit
    BY DEF Init
<1>2. 0 \in Cached!Values /\ 0 \in 0 .. MaxWrites + MaxSynced /\ 0 \in 0 .. MaxWrites
    BY CacheAssumption DEF Cached!Values
<1>3. Cached!NoEntry \in TierCell /\ Cached!Idle \in TierCall
    BY <1>2 DEF TierCell, TierCall, Cached!NoEntry, Cached!Idle
<1> HIDE DEF Cached!NoEntry
<1>4. ShownTypes
    BY <1>1, <1>2, <1>3 DEF Cached!TiersInit, ShownTypes, Flag
<1>5. Cached!StaleOnlyByWriters
    BY <1>1 DEF Cached!TiersInit, Cached!StaleOnlyByWriters
<1> QED
    BY <1>4, <1>5

(* A write of the data as they are, or of older ones, by whoever makes it. *)
Written(k, v) ==
    /\ \E cell \in TierCell : cell.value = v /\ l2' = [l2 EXCEPT ![k] = cell]
    /\ clean' = IF v = source[k] THEN clean ELSE clean \ {k}

LEMMA WrittenByPut ==
    ASSUME NEW k \in CacheKeys, NEW v \in Cached!Values \cup {none}, counter \in 0 .. MaxWrites,
           Cached!Put(k, v)
    PROVE  Written(k, v) /\ counter' \in 0 .. MaxWrites
<1>1. /\ counter < MaxWrites /\ counter' = counter + 1
      /\ l2' = [l2 EXCEPT ![k] = [value |-> v, version |-> counter + 1]]
      /\ clean' = IF v = source[k] THEN clean ELSE clean \ {k}
    BY DEF Cached!Put
<1>2. counter + 1 \in 0 .. MaxWrites /\ counter + 1 \in 0 .. MaxWrites + MaxSynced
    BY <1>1, CacheAssumption
<1>3. [value |-> v, version |-> counter + 1] \in TierCell
    BY <1>2 DEF TierCell
<1> QED
    BY <1>1, <1>2, <1>3 DEF Written

(* What one key shows after a step that leaves or writes its data.         *)
LEMMA WriteShown ==
    ASSUME ShownTypes, Cached!StaleOnlyByWriters,
           NEW k \in CacheKeys, NEW v \in Cached!Values \cup {none}, Written(k, v),
           l1' = l1 \/ l1' = [l1 EXCEPT ![k] = v], source' = source,
           doing' \in [CacheThreads -> TierCall], counter' \in 0 .. MaxWrites, synced' \in Flag
    PROVE  ShownTypes' /\ Cached!StaleOnlyByWriters'
<1>1. PICK cell \in TierCell : cell.value = v /\ l2' = [l2 EXCEPT ![k] = cell]
    BY DEF Written
<1>2. clean' = IF v = source[k] THEN clean ELSE clean \ {k}
    BY DEF Written
<1>3. l1' \in [CacheKeys -> Cached!Values \cup {none}] /\ l2' \in [CacheKeys -> TierCell]
         /\ clean' \subseteq CacheKeys
    BY <1>1, <1>2 DEF ShownTypes
<1>4. ShownTypes'
    BY <1>3 DEF ShownTypes
<1>5. ASSUME NEW q \in clean' PROVE {l1'[q], l2'[q].value} \subseteq {source'[q], none}
  <2>1. q \in clean /\ q \in CacheKeys /\ {l1[q], l2[q].value} \subseteq {source[q], none}
      BY <1>2, <1>5 DEF ShownTypes, Cached!StaleOnlyByWriters
  <2>2. CASE q = k
    <3>1. v = source[k]
        BY <1>2, <1>5, <2>2
    <3>2. l2'[q].value = v /\ l1'[q] \in {l1[q], v}
        BY <1>1, <2>1, <2>2 DEF ShownTypes
    <3> QED
        BY <2>1, <2>2, <3>1, <3>2
  <2>3. CASE q # k
    <3>1. l2'[q] = l2[q] /\ l1'[q] = l1[q]
        BY <1>1, <2>1, <2>3 DEF ShownTypes
    <3> QED
        BY <2>1, <3>1
  <2> QED
      BY <2>2, <2>3
<1> QED
    BY <1>4, <1>5 DEF Cached!StaleOnlyByWriters

(* A step that writes no data: each tier of a key shows what it or the     *)
(* other showed, or nothing.                                               *)
LEMMA NothingNewShown ==
    ASSUME ShownTypes, Cached!StaleOnlyByWriters, UNCHANGED <<source, counter, synced>>,
           l1' \in [CacheKeys -> Cached!Values \cup {none}], l2' \in [CacheKeys -> TierCell],
           \A q \in CacheKeys : /\ l1'[q] \in {l1[q], l2[q].value, none}
                                /\ l2'[q].value \in {l2[q].value, none},
           clean' \subseteq CacheKeys,
           \A q \in clean' \ clean : l1'[q] = none /\ l2'[q].value = none,
           doing' \in [CacheThreads -> TierCall]
    PROVE  ShownTypes' /\ Cached!StaleOnlyByWriters'
<1>1. ShownTypes'
    BY DEF ShownTypes
<1>2. ASSUME NEW q \in clean' PROVE {l1'[q], l2'[q].value} \subseteq {source'[q], none}
  <2>1. CASE q \in clean
    <3>1. q \in CacheKeys /\ {l1[q], l2[q].value} \subseteq {source[q], none}
        BY <2>1 DEF ShownTypes, Cached!StaleOnlyByWriters
    <3> QED
        BY <3>1
  <2>2. CASE q \notin clean
      BY <1>2, <2>2
  <2> QED
      BY <2>1, <2>2
<1> QED
    BY <1>1, <1>2 DEF Cached!StaleOnlyByWriters

LEMMA ShownStep ==
    ASSUME TiersTypes, ShownTypes, Cached!StaleOnlyByWriters, Cached!TiersNext
    PROVE  ShownTypes' /\ Cached!StaleOnlyByWriters'
<1>1. Cached!NoEntry \in TierCell /\ Cached!NoEntry.value = none /\ Cached!Idle \in TierCall
  <2>1. 0 \in 0 .. MaxWrites + MaxSynced
      BY CacheAssumption
  <2> QED
      BY <2>1 DEF TierCell, TierCall, Cached!NoEntry, Cached!Idle
<1>2. /\ source \in [CacheKeys -> Cached!Values] /\ l1 \in [CacheKeys -> Cached!Values \cup {none}]
      /\ l2 \in [CacheKeys -> TierCell] /\ counter \in 0 .. MaxWrites
      /\ doing \in [CacheThreads -> TierCall] /\ clean \subseteq CacheKeys /\ synced \in Flag
    BY DEF ShownTypes
<1>3. \A k \in CacheKeys : l2[k].value \in Cached!Values \cup {none}
                              /\ l2[k].version \in 0 .. MaxWrites + MaxSynced
    BY <1>2 DEF TierCell
<1>4. ASSUME NEW k \in CacheKeys, Cached!SourceChanges(k)
      PROVE  ShownTypes' /\ Cached!StaleOnlyByWriters'
  <2>1. /\ source[k] < MaxSource /\ source' = [source EXCEPT ![k] = source[k] + 1]
        /\ clean' = clean \ {k} /\ UNCHANGED <<l1, l2, counter, doing, synced>>
      BY <1>4 DEF Cached!SourceChanges
  <2>2. source[k] + 1 \in Cached!Values
    <3>1. source[k] \in 0 .. MaxSource
        BY <1>2 DEF Cached!Values
    <3> QED
        BY <2>1, <3>1, CacheAssumption DEF Cached!Values
  <2> HIDE DEF Cached!Values
  <2>3. ShownTypes'
      BY <2>1, <2>2 DEF ShownTypes
  <2>4. \A q \in clean' : q \in clean /\ source'[q] = source[q] /\ l1'[q] = l1[q] /\ l2'[q] = l2[q]
      BY <1>2, <2>1
  <2> QED
      BY <2>3, <2>4 DEF Cached!StaleOnlyByWriters
<1>5. ASSUME NEW k \in CacheKeys,
             Cached!Drop(k) \/ Cached!Get(k) \/ Cached!Invalidate(k) \/ Cached!ApplyInvalidation(k)
      PROVE  ShownTypes' /\ Cached!StaleOnlyByWriters'
  <2>1. Cached!Lookup(k) \in {l1[k], l2[k].value}
      BY DEF Cached!Lookup
  <2>2. /\ \/ l1' = l1
           \/ l1' = [l1 EXCEPT ![k] = none]
           \/ l1' = [l1 EXCEPT ![k] = Cached!Lookup(k)]
        /\ l2' = l2 \/ l2' = [l2 EXCEPT ![k] = Cached!NoEntry]
        /\ UNCHANGED <<source, counter, doing, synced>>
        /\ \/ clean' = clean
           \/ /\ clean' = clean \cup {k} /\ l1' = [l1 EXCEPT ![k] = none]
              /\ l2' = [l2 EXCEPT ![k] = Cached!NoEntry]
      BY <1>5 DEF Cached!Drop, Cached!Get, Cached!Invalidate, Cached!ApplyInvalidation
  <2>3. l1' \in [CacheKeys -> Cached!Values \cup {none}]
           /\ \A q \in CacheKeys : l1'[q] \in {l1[q], l2[q].value, none}
      BY <1>2, <1>3, <2>1, <2>2
  <2>4. l2' \in [CacheKeys -> TierCell] /\ \A q \in CacheKeys : l2'[q].value \in {l2[q].value, none}
      BY <1>1, <1>2, <2>2
  <2>5. clean' \subseteq CacheKeys /\ \A q \in clean' \ clean : l1'[q] = none /\ l2'[q].value = none
      BY <1>1, <1>2, <2>2
  <2> QED
      BY <1>2, <2>2, <2>3, <2>4, <2>5, NothingNewShown
<1>6. ASSUME NEW S, Cached!InvalidateMany(S)
      PROVE  ShownTypes' /\ Cached!StaleOnlyByWriters'
  <2>1. /\ l1' = [k \in CacheKeys |-> IF k \in S THEN none ELSE l1[k]]
        /\ UNCHANGED <<source, l2, counter, doing, clean, synced>>
      BY <1>6 DEF Cached!InvalidateMany
  <2>2. l1' \in [CacheKeys -> Cached!Values \cup {none}]
           /\ \A q \in CacheKeys : l1'[q] \in {l1[q], l2[q].value, none}
      BY <1>2, <2>1
  <2> QED
      BY <1>2, <2>1, <2>2, NothingNewShown
<1>7. ASSUME NEW k \in CacheKeys, NEW v \in Cached!Values, Cached!Set(k, v)
      PROVE  ShownTypes' /\ Cached!StaleOnlyByWriters'
  <2>1. Cached!Put(k, v) /\ l1' = [l1 EXCEPT ![k] = v] /\ UNCHANGED <<source, doing, synced>>
      BY <1>7 DEF Cached!Set
  <2> QED
      BY <1>2, <2>1, WrittenByPut, WriteShown
<1>8. ASSUME NEW k \in CacheKeys, NEW v \in Cached!Values, NEW n \in 1 .. MaxSynced,
             Cached!SyncEntry(k, v, n)
      PROVE  ShownTypes' /\ Cached!StaleOnlyByWriters'
  <2>1. /\ l2' = [l2 EXCEPT ![k] = [value |-> v, version |-> n]] /\ synced' = TRUE
        /\ clean' = IF v = source[k] THEN clean ELSE clean \ {k}
        /\ UNCHANGED <<source, l1, counter, doing>>
      BY <1>8 DEF Cached!SyncEntry
  <2>2. n \in 0 .. MaxWrites + MaxSynced
      BY CacheAssumption
  <2>3. [value |-> v, version |-> n] \in TierCell
      BY <2>2 DEF TierCell
  <2>4. Written(k, v)
      BY <2>1, <2>3 DEF Written
  <2>5. synced' \in Flag
      BY <2>1 DEF Flag
  <2> QED
      BY <1>2, <2>1, <2>4, <2>5, WriteShown
<1>9. ASSUME NEW t \in CacheThreads, NEW k \in CacheKeys,
             Cached!StartLoad(t, k) \/ Cached!ReadForSwap(t, k)
      PROVE  ShownTypes' /\ Cached!StaleOnlyByWriters'
  <2>1. PICK call1 : /\ \/ call1 = [op |-> "load", key |-> k, value |-> source[k], version |-> 0]
                        \/ call1 = [op |-> "swap", key |-> k, value |-> l2[k].value,
                                    version |-> l2[k].version]
                     /\ doing' = [doing EXCEPT ![t] = call1]
      BY <1>9 DEF Cached!StartLoad, Cached!ReadForSwap
  <2>2. UNCHANGED <<source, l1, l2, counter, clean, synced>>
      BY <1>9 DEF Cached!StartLoad, Cached!ReadForSwap
  <2>3. call1 \in TierCall
    <3>1. 0 \in 0 .. MaxWrites + MaxSynced /\ source[k] \in Cached!Values
        BY <1>2, CacheAssumption
    <3> QED
        BY <1>3, <2>1, <3>1 DEF TierCall
  <2>4. doing' \in [CacheThreads -> TierCall]
      BY <1>2, <2>1, <2>3
  <2> QED
      BY <1>2, <2>2, <2>4, NothingNewShown
<1>10. ASSUME NEW t \in CacheThreads, Cached!FinishLoad(t)
       PROVE  ShownTypes' /\ Cached!StaleOnlyByWriters'
  <2> DEFINE k == doing[t].key
             v == doing[t].value
  <2>1. /\ l1' = [l1 EXCEPT ![k] = v] /\ Cached!Put(k, v) /\ doing[t].op = "load"
        /\ doing' = [doing EXCEPT ![t] = Cached!Idle] /\ UNCHANGED <<source, synced>>
      BY <1>10 DEF Cached!FinishLoad
  <2>2. k \in CacheKeys
      BY <2>1 DEF TiersTypes
  <2>3. v \in Cached!Values \cup {none}
      BY <1>2 DEF TierCall
  <2>4. doing' \in [CacheThreads -> TierCall]
      BY <1>1, <1>2, <2>1
  <2> HIDE DEF k, v
  <2> QED
      BY <1>2, <2>1, <2>2, <2>3, <2>4, WrittenByPut, WriteShown
<1>11. ASSUME NEW t \in CacheThreads, Cached!Swap(t)
       PROVE  ShownTypes' /\ Cached!StaleOnlyByWriters'
  <2> DEFINE k == doing[t].key
             v == source[k]
  <2>1. /\ Cached!Put(k, v) \/ UNCHANGED <<l2, counter, clean>>
        /\ doing' = [doing EXCEPT ![t] = Cached!Idle] /\ doing[t].op = "swap"
        /\ UNCHANGED <<source, l1, synced>>
      BY <1>11 DEF Cached!Swap
  <2>2. k \in CacheKeys
      BY <2>1 DEF TiersTypes
  <2>3. v \in Cached!Values \cup {none}
      BY <1>2, <2>2
  <2>4. doing' \in [CacheThreads -> TierCall]
      BY <1>1, <1>2, <2>1
  <2> HIDE DEF k, v
  <2>5. CASE Cached!Put(k, v)
      BY <1>2, <2>1, <2>2, <2>3, <2>4, <2>5, WrittenByPut, WriteShown
  <2>6. CASE UNCHANGED <<l2, counter, clean>>
      BY <1>2, <2>1, <2>4, <2>6, NothingNewShown
  <2> QED
      BY <2>1, <2>5, <2>6
<1> QED
    BY <1>4, <1>5, <1>6, <1>7, <1>8, <1>9, <1>10, <1>11 DEF Cached!TiersNext

LEMMA ShownInvariance == TiersInv /\ ShownInv /\ [Next]_vars => ShownInv'
<1> SUFFICES ASSUME TiersInv, ShownInv, [Next]_vars, part' = "tiers"
             PROVE  ShownTypes' /\ Cached!StaleOnlyByWriters'
    BY DEF ShownInv
<1>1. part = "tiers"
    BY DEF Next, vars
<1>2. TiersTypes /\ ShownTypes /\ Cached!StaleOnlyByWriters
    BY <1>1 DEF TiersInv, ShownInv
<1>3. CASE Next
  <2>1. Cached!TiersNext
      BY <1>1, <1>3 DEF Next, Tenancy, Caching, Storing, Serving, Choosing, Thinking, Showing,
                        Grading
  <2> QED
      BY <1>2, <2>1, ShownStep
<1>4. CASE UNCHANGED vars
  <2>1. UNCHANGED <<source, l1, l2, counter, doing, clean, synced>>
      BY <1>4 DEF vars, cachingVars, tiersVars
  <2> QED
      BY <1>2, <2>1 DEF ShownTypes, Cached!StaleOnlyByWriters
<1> QED
    BY <1>3, <1>4

-----------------------------------------------------------------------------
(* The local cache: its steps *)

LEMMA LocalInit == Init => LocalInv
<1> SUFFICES ASSUME Init PROVE Books(cache) /\ Limits(cache)
    BY DEF LocalInv
<1> DEFINE none1 == [k \in LocalKeys |-> Cached!Absent]
           none2 == [t \in Tags |-> {}]
<1>1. cache = [entry |-> none1, order |-> <<>>, index |-> none2, count |-> 0, total |-> 0]
    BY DEF Init, Cached!LocalInit
<1>2. Cached!Absent \in Slot
    BY DEF Cached!Absent, Slot, Flag
<1>3. none1 \in [LocalKeys -> Slot] /\ none2 \in [Tags -> SUBSET LocalKeys]
  <2> HIDE DEF Cached!Absent
  <2> QED
      BY <1>2
<1>4. <<>> \in Seq(LocalKeys) /\ Len(<<>>) = 0
    BY EmptySeq
<1>5. Ordered(<<>>, LocalKeys) /\ Listed(<<>>) = {}
    BY <1>4 DEF Ordered, Listed
<1>6. Cardinality({}) = 0 /\ Sum(Weights(cache), {}) = 0
    BY FS_EmptySet, SumEmpty
<1>7. /\ cache.entry = none1 /\ cache.order = <<>> /\ cache.index = none2
      /\ cache.count = 0 /\ cache.total = 0
    BY <1>1
<1>8. cache \in Cache
    BY <1>1, <1>3, <1>4 DEF Cache
<1>9. Books(cache)
    BY <1>5, <1>6, <1>7, <1>8 DEF Books
<1>10. Limits(cache)
    BY <1>7, CacheAssumption DEF Limits
<1> QED
    BY <1>9, <1>10

(* With fewer entries than the cache had, or as many with the same sizes,  *)
(* it is within its limits.                                                *)
LEMMA RemovedInLimits ==
    ASSUME NEW book, Books(book), Limits(book), NEW S
    PROVE  Books(Cached!Removed(book, S)) /\ Limits(Cached!Removed(book, S))
<1> DEFINE r == Cached!Removed(book, S)
<1>1. Books(r) /\ Listed(r.order) = Listed(book.order) \ S /\ r.count <= book.count
    BY RemovedKeeps DEF Smaller
<1>2. Taken(book, S \cap Listed(book.order), r)
    BY RemovedIs
<1> HIDE DEF r
<1>3. MaxEntries \in Nat /\ r.count \in Nat /\ book.count \in Nat /\ r.total \in Int
    BY <1>1, CacheAssumption, BookTypes
<1>4. r.count <= MaxEntries
    BY <1>1, <1>3 DEF Limits
<1>5. ASSUME r.count = MaxEntries PROVE r.total <= MaxSize
  <2>1. book.count = MaxEntries /\ book.total <= MaxSize
      BY <1>1, <1>3, <1>5 DEF Limits
  <2>2. /\ IsFiniteSet(Listed(book.order)) /\ Cardinality(Listed(book.order)) = MaxEntries
        /\ Cardinality(Listed(r.order)) = MaxEntries
      BY <1>1, <1>5, <2>1, BookTypes DEF Books
  <2>3. Listed(r.order) \in SUBSET Listed(book.order)
      BY <1>1
  <2>4. Listed(r.order) = Listed(book.order)
      BY <2>2, <2>3, FS_Subset
  <2>5. S \cap Listed(book.order) = {}
      BY <1>1, <2>4
  <2>6. r.total = book.total - Sum(Weights(book), {})
      BY <1>2, <2>5 DEF Taken
  <2>7. book.total \in Int
      BY BookTypes
  <2>8. r.total = book.total
      BY <2>6, <2>7, SumEmpty
  <2> QED
      BY <2>1, <2>8
<1> QED
    BY <1>1, <1>4, <1>5 DEF Limits, r

LEMMA LocalStep ==
    ASSUME Books(cache), Limits(cache), Cached!LocalNext
    PROVE  Books(cache') /\ Limits(cache')
<1>1. Cached!Present(cache) = Listed(cache.order) /\ Listed(cache.order) \subseteq LocalKeys
         /\ cache \in Cache /\ Ordered(cache.order, LocalKeys)
  <2>1. cache \in Cache /\ Ordered(cache.order, LocalKeys)
      BY DEF Books
  <2> QED
      BY <2>1, ListedFacts DEF Cached!Present
<1>2. ASSUME NEW S, cache' = Cached!Removed(cache, S) PROVE Books(cache') /\ Limits(cache')
    BY <1>2, RemovedInLimits
<1>3. ASSUME NEW k \in LocalKeys, NEW size \in Sizes, NEW tags \in SUBSET Tags,
             Cached!SetLocal(k, size, tags)
      PROVE  Books(cache') /\ Limits(cache')
  <2> DEFINE r == Cached!Stored(cache, k, size, tags)
  <2>1. cache' = Cached!Enforce(r)
      BY <1>3 DEF Cached!SetLocal
  <2>2. Books(r) /\ r.count <= cache.count + 1
      BY StoredKeeps
  <2> HIDE DEF r
  <2>3. r.count <= MaxEntries + 1
    <3>1. r.count \in Nat /\ cache.count \in Nat /\ MaxEntries \in Nat
        BY <2>2, BookTypes, CacheAssumption
    <3> QED
        BY <2>2, <3>1 DEF Limits
  <2> QED
      BY <2>1, <2>2, <2>3, EnforceKeeps
<1>4. ASSUME NEW k \in LocalKeys, Cached!GetLocal(k) PROVE Books(cache') /\ Limits(cache')
  <2>1. k \in Listed(cache.order)
      BY <1>1, <1>4 DEF Cached!GetLocal
  <2>2. CASE cache.entry[k].expired
      BY <1>2, <1>4, <2>2 DEF Cached!GetLocal
  <2>3. CASE ~ cache.entry[k].expired
    <3>1. cache' = [cache EXCEPT !.order = Used(cache.order, k)]
        BY <1>4, <2>3 DEF Cached!GetLocal, Used
    <3>2. Ordered(Used(cache.order, k), LocalKeys)
             /\ Listed(Used(cache.order, k)) = Listed(cache.order)
      <4>1. Listed(cache.order) \cup {k} = Listed(cache.order)
          BY <2>1
      <4>2. /\ Ordered(Used(cache.order, k), LocalKeys)
            /\ Listed(Used(cache.order, k)) = Listed(cache.order) \cup {k}
          BY <1>1, UsedIs
      <4> QED
          BY <4>1, <4>2
    <3>3. Books(cache')
        BY <3>1, <3>2, ShuffledKeeps
    <3>4. cache'.count = cache.count /\ cache'.total = cache.total
        BY <1>1, <3>1 DEF Cache
    <3> QED
        BY <3>3, <3>4 DEF Limits
  <2> QED
      BY <2>2, <2>3
<1>5. ASSUME NEW k \in LocalKeys, Cached!RefreshTtl(k) \/ Cached!Expire(k)
      PROVE  Books(cache') /\ Limits(cache')
  <2>1. PICK flag \in Flag : cache' = [cache EXCEPT !.entry[k].expired = flag]
      BY <1>5 DEF Cached!RefreshTtl, Cached!Expire, Flag
  <2>2. k \in Listed(cache.order)
      BY <1>1, <1>5 DEF Cached!RefreshTtl, Cached!Expire
  <2>3. Books(cache')
      BY <2>1, <2>2, MarkedKeeps
  <2>4. cache'.count = cache.count /\ cache'.total = cache.total
      BY <1>1, <2>1 DEF Cache
  <2> QED
      BY <2>3, <2>4 DEF Limits
<1>6. ASSUME NEW k \in LocalKeys, Cached!Exists(k) \/ Cached!Delete(k)
      PROVE  Books(cache') /\ Limits(cache')
    BY <1>2, <1>6 DEF Cached!Exists, Cached!Delete
<1>7. ASSUME NEW t \in Tags, Cached!InvalidateByTag(t) PROVE Books(cache') /\ Limits(cache')
    BY <1>2, <1>7 DEF Cached!InvalidateByTag
<1>8. ASSUME Cached!InvalidateAll \/ Cached!CleanupExpired PROVE Books(cache') /\ Limits(cache')
    BY <1>2, <1>8 DEF Cached!InvalidateAll, Cached!CleanupExpired
<1> QED
    BY <1>3, <1>4, <1>5, <1>6, <1>7, <1>8 DEF Cached!LocalNext

LEMMA LocalInvariance == LocalInv /\ [Next]_vars => LocalInv'
<1> SUFFICES ASSUME LocalInv, [Next]_vars, part' = "l1" PROVE Books(cache') /\ Limits(cache')
    BY DEF LocalInv
<1>1. part = "l1"
    BY DEF Next, vars
<1>2. Books(cache) /\ Limits(cache)
    BY <1>1 DEF LocalInv
<1>3. CASE Next
  <2>1. Cached!LocalNext
      BY <1>1, <1>3 DEF Next, Tenancy, Caching, Storing, Serving, Choosing, Thinking, Showing,
                        Grading
  <2> QED
      BY <1>2, <2>1, LocalStep
<1>4. CASE UNCHANGED vars
  <2>1. cache' = cache
      BY <1>4 DEF vars, cachingVars
  <2> QED
      BY <1>2, <2>1
<1> QED
    BY <1>3, <1>4

(* The books of the local cache describe its entries and its limits hold,  *)
(* for any keys, tags, sizes and limits; and neither tier of the manager   *)
(* shows the old data of a key that was invalidated, unless a writer of    *)
(* old data put them there (L1LocalCache, MultiTierCacheManager).          *)
THEOREM CachesAreSound == Spec => []CacheSound
<1>1. LocalInv /\ part = "l1" => Cached!LocalTypeOK /\ Cached!BooksMatch /\ Cached!LimitsKept
  <2> SUFFICES ASSUME Books(cache), Limits(cache)
               PROVE  Cached!LocalTypeOK /\ Cached!BooksMatch /\ Cached!LimitsKept
      BY DEF LocalInv
  <2>1. /\ cache.entry \in [LocalKeys -> Slot] /\ cache.index \in [Tags -> SUBSET LocalKeys]
        /\ cache.count \in Nat /\ cache.total \in Int
        /\ Listed(cache.order) \subseteq LocalKeys /\ IsFiniteSet(Listed(cache.order))
      BY BookTypes
  <2>2. Cached!Range(cache.order) = Listed(cache.order) /\ Cached!IsInjective(cache.order)
    <3>1. Ordered(cache.order, LocalKeys)
        BY DEF Books
    <3> QED
        BY <3>1, ListedFacts
  <2>3. Cached!LocalTypeOK
      BY <2>1, <2>2 DEF Cached!LocalTypeOK, Slot, Flag
  <2>4. Cached!MapThenSumSet(LAMBDA k : cache.entry[k].size, Listed(cache.order))
            = Sum(Weights(cache), Listed(cache.order))
      BY <2>1, EntriesSum DEF Weights
  <2>5. Cached!BooksMatch
    <3>1. Cached!Present(cache) = Listed(cache.order)
        BY <2>2 DEF Cached!Present
    <3>2. \A t \in Tags : cache.index[t] = {k \in Listed(cache.order) : t \in cache.entry[k].tags}
        BY DEF Books
    <3>3. cache.count = Cached!Cardinality(Listed(cache.order))
        BY CacheCardinality DEF Books
    <3>4. cache.total = Cached!MapThenSumSet(LAMBDA k : cache.entry[k].size, Listed(cache.order))
        BY <2>4 DEF Books
    <3> QED
        BY <3>1, <3>2, <3>3, <3>4 DEF Cached!BooksMatch
  <2>6. Cached!LimitsKept
      BY DEF Limits, Cached!LimitsKept
  <2> QED
      BY <2>3, <2>5, <2>6
<1>2. ShownInv /\ part = "tiers" => Cached!TiersTypeOK /\ Cached!StaleOnlyByWriters
    BY DEF ShownInv, ShownTypes, Cached!TiersTypeOK, TierCell, TierCall, Flag
<1>3. LocalInv /\ ShownInv => CacheSound
    BY <1>1, <1>2 DEF CacheSound
<1> QED
    BY <1>3, LocalInit, LocalInvariance, TiersInit, TiersInvariance, ShownInit, ShownInvariance,
       PTL DEF Spec
=============================================================================
