----------------------------- MODULE MultiTenant ----------------------------
(***************************************************************************)
(* core/multi_tenant: the pools of resources, the rate limiter and the     *)
(* registry of tenants. They share no state.                               *)
(***************************************************************************)
EXTENDS Integers, Sequences, FiniteSets, SequencesExt, FiniteSetsExt

-----------------------------------------------------------------------------
(* resource_pool.py: pools of resources from which tenants take amounts,   *)
(* and the manager that tries the pools one by one. A pool's methods hold  *)
(* its lock, so each is one step; the manager has no lock:                 *)
(* allocate_from_any ranks the pools, then asks them in that order.        *)
CONSTANTS
    Pools,       \* pools, numbered in the order they were created
    Resources,   \* resource ids
    PoolOf,      \* [Resources -> Pools]: where callers add a resource
    Tenants,
    Capacity,    \* [Resources -> Nat \ {0}]
    Amounts,     \* amounts a tenant may ask for
    MaxAllocs,   \* bound: allocations ever made
    MaxAdds,     \* bound: resources ever added
    NoTenant

VARIABLES
    members,     \* [Pools -> Seq(record)]: _resources, in the order of the dict
    allocs,      \* Seq(record): _allocations of all pools, in the order made
    tenantAllocs,\* [Pools -> [Tenants -> set of indices of allocs]]: _tenant_allocations
    search,      \* the call of allocate_from_any that is under way
    added,       \* bound: how many resources were added
    lost         \* <<pool, id>> of every resource removed so far

States == {"available", "in_use", "maintenance", "drained"}

Resource == [id: Resources, state: States, used: Nat, tenant: Tenants \cup {NoTenant}]

Allocation == [pool: Pools, id: Resources, tenant: Tenants, amount: Amounts,
               preferred: BOOLEAN, status: {"active", "released"}]

NoSearch == [todo |-> <<>>, tenant |-> NoTenant, amount |-> 0]

PoolTypeOK ==
    /\ members \in [Pools -> Seq(Resource)]
    /\ \A p \in Pools : IsInjective([i \in DOMAIN members[p] |-> members[p][i].id])
    /\ allocs \in Seq(Allocation)
    /\ \A p \in Pools, t \in Tenants :
          tenantAllocs[p][t] = {a \in DOMAIN allocs : /\ allocs[a].pool = p
                                                      /\ allocs[a].tenant = t
                                                      /\ allocs[a].status = "active"}
    /\ search = NoSearch \/ (search.tenant \in Tenants /\ search.amount \in Amounts)
    /\ lost \subseteq Pools \X Resources

PoolInit ==
    /\ members = [p \in Pools |-> <<>>]
    /\ allocs = <<>>
    /\ tenantAllocs = [p \in Pools |-> [t \in Tenants |-> {}]]
    /\ search = NoSearch
    /\ added = 0
    /\ lost = {}

Room(r) == IF r.used < Capacity[r.id] THEN Capacity[r.id] - r.used ELSE 0

\* Mutant: the state alone decides, and it can be set back on a full resource.
AvailableByState(r) == r.state = "available"

IsAvailable(r) == r.state = "available" /\ Room(r) > 0

\* r.utilization < s.utilization, without the division
LessUtilized(r, s) == r.used * Capacity[s.id] < s.used * Capacity[r.id]

Position(p, id) == {i \in DOMAIN members[p] : members[p][i].id = id}

\* The loop over _resources: the first of those with the least utilization.
Ranked(p, amount) ==
    LET fit == {i \in DOMAIN members[p] :
                    /\ IsAvailable(members[p][i])
                    /\ Room(members[p][i]) >= amount}
    IN  {i \in fit : \A j \in fit :
            \/ LessUtilized(members[p][i], members[p][j])
            \/ ~LessUtilized(members[p][j], members[p][i]) /\ i <= j}

\* Where allocate puts the amount: a preferred resource that has any room at
\* all, else the best that has room enough. A set of at most one position.
Target(p, amount, preferred) ==
    LET wanted == {i \in Position(p, preferred) : IsAvailable(members[p][i])}
    IN  IF wanted # {} THEN wanted ELSE Ranked(p, amount)

Grant(p, t, amount, i, preferred) ==
    LET r == members[p][i]
        taken == [r EXCEPT !.used = @ + amount, !.tenant = t]
    IN  /\ Len(allocs) < MaxAllocs
        /\ members' = [members EXCEPT ![p][i] =
                IF Room(taken) = 0 THEN [taken EXCEPT !.state = "in_use"] ELSE taken]
        /\ allocs' = Append(allocs, [pool |-> p, id |-> r.id, tenant |-> t, amount |-> amount,
                                     preferred |-> preferred, status |-> "active"])
        /\ tenantAllocs' = [tenantAllocs EXCEPT ![p][t] = @ \cup {Len(allocs) + 1}]

\* A call that finds no target notifies the listeners and changes nothing.
Allocate(p, t, amount, preferred) ==
    /\ \E i \in Target(p, amount, preferred) :
            Grant(p, t, amount, i, members[p][i].id = preferred)
    /\ UNCHANGED <<search, added, lost>>

\* Mutant: a release forgets the room it gives back.
ReleaseKeeps(a) ==
    /\ a \in DOMAIN allocs /\ allocs[a].status = "active"
    /\ allocs' = [allocs EXCEPT ![a].status = "released"]
    /\ UNCHANGED <<members, tenantAllocs, search, added, lost>>

\* The resource may have been removed, or added anew, since.
Release(a) ==
    /\ a \in DOMAIN allocs /\ allocs[a].status = "active"
    /\ LET p == allocs[a].pool
           t == allocs[a].tenant
           back(r) == [r EXCEPT !.used = IF @ > allocs[a].amount THEN @ - allocs[a].amount ELSE 0]
       IN  /\ members' = [members EXCEPT ![p] =
                [i \in DOMAIN @ |->
                    IF @[i].id # allocs[a].id THEN @[i]
                    ELSE IF Room(back(@[i])) > 0
                         THEN [back(@[i]) EXCEPT !.state = "available"]
                         ELSE back(@[i])]]
           /\ tenantAllocs' = [tenantAllocs EXCEPT ![p][t] = @ \ {a}]
    /\ allocs' = [allocs EXCEPT ![a].status = "released"]
    /\ UNCHANGED <<search, added, lost>>

AddResource(p, id) ==
    /\ added < MaxAdds
    /\ p = PoolOf[id] /\ Position(p, id) = {}
    /\ members' = [members EXCEPT ![p] =
            Append(@, [id |-> id, state |-> "available", used |-> 0, tenant |-> NoTenant])]
    /\ added' = added + 1
    /\ UNCHANGED <<allocs, tenantAllocs, search, lost>>

\* Only the state is checked, not whether something is still allocated.
RemoveResource(p, id) ==
    /\ \E i \in Position(p, id) :
            /\ members[p][i].state = "available"
            /\ members' = [members EXCEPT ![p] = RemoveAt(@, i)]
    /\ lost' = lost \cup {<<p, id>>}
    /\ UNCHANGED <<allocs, tenantAllocs, search, added>>

SetState(p, id, s) ==
    /\ \E i \in Position(p, id) : members' = [members EXCEPT ![p][i].state = s]
    /\ UNCHANGED <<allocs, tenantAllocs, search, added, lost>>

Drain(p, id) == SetState(p, id, "drained")

\* Maintenance is refused unless available; its end is never refused.
SetMaintenance(p, id, maintenance) ==
    /\ maintenance => \A i \in Position(p, id) : members[p][i].state = "available"
    /\ SetState(p, id, IF maintenance THEN "maintenance" ELSE "available")

----------------------------------------------------------------------------
(* ResourcePoolManager *)

PoolUsed(p) == FoldSeq(LAMBDA r, sum : r.used + sum, 0, members[p])
PoolCapacity(p) == FoldSeq(LAMBDA r, sum : Capacity[r.id] + sum, 0, members[p])

\* get_utilization of p is below that of q; an empty pool's is 0.
PoolBelow(p, q) ==
    IF PoolCapacity(q) = 0 THEN FALSE
    ELSE IF PoolCapacity(p) = 0 THEN PoolUsed(q) > 0
    ELSE PoolUsed(p) * PoolCapacity(q) < PoolUsed(q) * PoolCapacity(p)

\* The pools are sorted once, before the first of them is asked; pools of the same
\* utilization stay in the order they were created in.
StartSearch(t, amount) ==
    /\ search = NoSearch
    /\ LET before(p, q) == PoolBelow(p, q) \/ (~PoolBelow(q, p) /\ p < q)
       IN  \E order \in [1 .. Cardinality(Pools) -> Pools] :
              /\ \A i, j \in DOMAIN order : i < j => before(order[i], order[j])
              /\ search' = [todo |-> order, tenant |-> t, amount |-> amount]
    /\ UNCHANGED <<members, allocs, tenantAllocs, added, lost>>

AskPool ==
    /\ search.todo # <<>>
    /\ LET p == Head(search.todo)
           target == Target(p, search.amount, NoTenant)
       IN  \/ /\ target # {}
              /\ \E i \in target : Grant(p, search.tenant, search.amount, i, FALSE)
              /\ search' = NoSearch
           \/ /\ target = {}
              /\ search' = IF Len(search.todo) = 1 THEN NoSearch
                           ELSE [search EXCEPT !.todo = Tail(@)]
              /\ UNCHANGED <<members, allocs, tenantAllocs>>
    /\ UNCHANGED <<added, lost>>

PoolNext ==
    \/ \E p \in Pools, id \in Resources :
        \/ AddResource(p, id)
        \/ RemoveResource(p, id)
        \/ Drain(p, id)
        \/ \E m \in BOOLEAN : SetMaintenance(p, id, m)
        \/ \E t \in Tenants, n \in Amounts : Allocate(p, t, n, id)
    \/ \E a \in DOMAIN allocs : Release(a)
    \/ \E t \in Tenants, n \in Amounts : StartSearch(t, n)
    \/ AskPool

----------------------------------------------------------------------------
(* Properties *)

Held(p, id) == {a \in DOMAIN allocs : /\ allocs[a].pool = p
                                      /\ allocs[a].id = id
                                      /\ allocs[a].status = "active"}

\* What a resource says is used is the sum of what is allocated on it, as long as
\* it was never removed: remove_resource does not look for allocations, and those
\* that are left reduce the resource added later under the same id.
PoolLedger ==
    \A p \in Pools : \A i \in DOMAIN members[p] :
        LET r == members[p][i]
        IN  <<p, r.id>> \notin lost =>
                r.used = MapThenSumSet(LAMBDA a : allocs[a].amount, Held(p, r.id))

\* allocate gives a preferred resource more than it has room for, but only once:
\* an overcommitted resource is so by a single preferred allocation.
OvercommitByOne ==
    \A p \in Pools : \A i \in DOMAIN members[p] :
        LET r == members[p][i]
        IN  (<<p, r.id>> \notin lost /\ r.used > Capacity[r.id]) =>
                \E a \in Held(p, r.id) :
                    allocs[a].preferred /\ r.used - allocs[a].amount < Capacity[r.id]

-----------------------------------------------------------------------------
(* rate_limiter.py: sliding windows per key and policy. check() finds the  *)
(* window under the limiter's lock and records in it under the window's    *)
(* own lock: between the two, another thread may reset the key or replace  *)
(* the policy.                                                             *)
CONSTANTS
    Keys,
    Threads,
    Limits,      \* policies that may be in force: records [max, window, enabled]
    MaxTime,     \* bound: the clock
    MaxWindows,  \* bound: windows ever created
    NoPolicy

VARIABLES
    policy,      \* the policy registered under the name asked for, or NoPolicy
    counters,    \* [key -> index of windows, or 0]: _counters
    windows,     \* every SlidingWindowCounter ever made, also those reset since
    limiterPc,   \* [thread -> the window it found and has not recorded in, or 0]
    clock,
    fresh        \* keys that were never reset

Window == [key: Keys, max: Nat, window: Nat, requests: Seq(Nat), granted: Seq(Nat)]

LimiterTypeOK ==
    /\ policy \in Limits \cup {NoPolicy}
    /\ counters \in [Keys -> 0..Len(windows)]
    /\ windows \in Seq(Window)
    /\ limiterPc \in [Threads -> 0..Len(windows)]
    /\ fresh \subseteq Keys

LimiterInit ==
    /\ policy \in Limits \cup {NoPolicy}
    /\ counters = [k \in Keys |-> 0]
    /\ windows = <<>>
    /\ limiterPc = [t \in Threads |-> 0]
    /\ clock = 0
    /\ fresh = Keys

Tick ==
    /\ clock < MaxTime
    /\ clock' = clock + 1
    /\ UNCHANGED <<policy, counters, windows, limiterPc, fresh>>

AddPolicy(limit) ==
    /\ policy' = limit
    /\ UNCHANGED <<counters, windows, limiterPc, clock, fresh>>

RemovePolicy ==
    /\ policy' = NoPolicy
    /\ UNCHANGED <<counters, windows, limiterPc, clock, fresh>>

NewWindow(k, limit) ==
    [key |-> k, max |-> limit.max, window |-> limit.window, requests |-> <<>>, granted |-> <<>>]

\* Mutant: the window is looked for without the lock; each thread that does
\* not see one makes its own.
FindOwnWindow(t, k) ==
    /\ limiterPc[t] = 0 /\ policy # NoPolicy /\ policy.enabled
    /\ Len(windows) < MaxWindows
    /\ windows' = Append(windows, NewWindow(k, policy))
    /\ counters' = [counters EXCEPT ![k] = Len(windows) + 1]
    /\ limiterPc' = [limiterPc EXCEPT ![t] = Len(windows) + 1]
    /\ UNCHANGED <<policy, clock, fresh>>

\* The first half of check. Without a policy, or with one that is disabled,
\* everything is allowed and nothing is recorded. A window keeps the limit it
\* was created with.
FindWindow(t, k) ==
    /\ limiterPc[t] = 0 /\ policy # NoPolicy /\ policy.enabled
    /\ IF counters[k] # 0
       THEN /\ limiterPc' = [limiterPc EXCEPT ![t] = counters[k]]
            /\ UNCHANGED <<counters, windows>>
       ELSE /\ Len(windows) < MaxWindows
            /\ windows' = Append(windows, NewWindow(k, policy))
            /\ counters' = [counters EXCEPT ![k] = Len(windows) + 1]
            /\ limiterPc' = [limiterPc EXCEPT ![t] = Len(windows) + 1]
    /\ UNCHANGED <<policy, clock, fresh>>

\* The requests that still count at this time: they are in the order of time, so
\* the filter leaves the end of the list.
Recent(w) ==
    LET over == {i \in DOMAIN w.requests : w.requests[i] <= clock - w.window}
    IN  SubSeq(w.requests, Cardinality(over) + 1, Len(w.requests))

\* Mutant: the limit itself is let through.
RecordedPastMax(w) ==
    LET recent == Recent(w)
    IN  IF Len(recent) > w.max THEN [w EXCEPT !.requests = recent]
        ELSE [w EXCEPT !.requests = Append(recent, clock), !.granted = Append(@, clock)]

\* SlidingWindowCounter.record; granted is the history, requests is pruned.
Recorded(w) ==
    LET recent == Recent(w)
    IN  IF Len(recent) >= w.max THEN [w EXCEPT !.requests = recent]
        ELSE [w EXCEPT !.requests = Append(recent, clock), !.granted = Append(@, clock)]

\* The second half of check; what get_remaining and get_reset_time then read
\* prunes the window once more and is only reported.
Record(t) ==
    /\ limiterPc[t] # 0
    /\ windows' = [windows EXCEPT ![limiterPc[t]] = Recorded(@)]
    /\ limiterPc' = [limiterPc EXCEPT ![t] = 0]
    /\ UNCHANGED <<policy, counters, clock, fresh>>

Reset(k) ==
    /\ counters[k] # 0
    /\ counters' = [counters EXCEPT ![k] = 0]
    /\ fresh' = fresh \ {k}
    /\ UNCHANGED <<policy, windows, limiterPc, clock>>

LimiterNext ==
    \/ Tick
    \/ \E limit \in Limits : AddPolicy(limit)
    \/ RemovePolicy
    \/ \E t \in Threads, k \in Keys : FindWindow(t, k)
    \/ \E t \in Threads : Record(t)
    \/ \E k \in Keys : Reset(k)

----------------------------------------------------------------------------
(* Properties *)

\* Requests of a key granted from one time to another, in all its windows.
Granted(k, from, to) ==
    MapThenSumSet(LAMBDA i : Cardinality({g \in DOMAIN windows[i].granted :
                                             windows[i].granted[g] \in from..to}),
                  {i \in DOMAIN windows : windows[i].key = k})

\* A key that was never reset is granted no more than the limit it started with in
\* any stretch of time as long as its window, whatever threads race for it and
\* although the list of requests is pruned all the time.
WindowBound ==
    \A i \in DOMAIN windows : windows[i].key \in fresh =>
        \A from \in 0..clock :
            Granted(windows[i].key, from, from + windows[i].window - 1) <= windows[i].max

-----------------------------------------------------------------------------
(* tenant.py: the registry of tenants and its index of names.              *)
(* TenantManager has no lock around its methods: create_tenant checks the  *)
(* name, then writes two dicts; delete_tenant removes from one, then from  *)
(* the other. Requests of several threads meet between the two.            *)
CONSTANTS
    Names,
    MaxTenants     \* bound: tenants ever created

VARIABLES
    tenants,      \* Seq(record): every Tenant object ever created
    live,         \* the keys of _tenants
    index,        \* [Names -> a tenant or NoTenant]: _name_index
    registryPc,           \* [Threads -> record]: the call a thread is in the middle of
    disturbed     \* a tenant was renamed, or deleted before its creation returned

Statuses == {"active", "suspended"}

Tenant == [name: Names, status: Statuses]

Idle == [op |-> "idle"]

Calls == {Idle}
    \cup [op: {"create"}, name: Names]
    \cup [op: {"index"}, name: Names, id: 1..MaxTenants]
    \cup [op: {"unindex"}, id: 1..MaxTenants]

RegistryTypeOK ==
    /\ tenants \in Seq(Tenant)
    /\ live \subseteq DOMAIN tenants
    /\ index \in [Names -> DOMAIN tenants \cup {NoTenant}]
    /\ registryPc \in [Threads -> Calls]
    /\ disturbed \in BOOLEAN

RegistryInit ==
    /\ tenants = <<>>
    /\ live = {}
    /\ index = [n \in Names |-> NoTenant]
    /\ registryPc = [t \in Threads |-> Idle]
    /\ disturbed = FALSE

\* create_tenant: the name is free ...
CheckName(t, n) ==
    /\ registryPc[t] = Idle /\ index[n] = NoTenant
    /\ registryPc' = [registryPc EXCEPT ![t] = [op |-> "create", name |-> n]]
    /\ UNCHANGED <<tenants, live, index, disturbed>>

\* ... the tenant is registered ...
Register(t) ==
    /\ registryPc[t].op = "create" /\ Len(tenants) < MaxTenants
    /\ tenants' = Append(tenants, [name |-> registryPc[t].name, status |-> "active"])
    /\ live' = live \cup {Len(tenants) + 1}
    /\ registryPc' = [registryPc EXCEPT ![t] = [op |-> "index", name |-> registryPc[t].name, id |-> Len(tenants) + 1]]
    /\ UNCHANGED <<index, disturbed>>

\* ... and the name points at it, whatever it is called by now.
IndexName(t) ==
    /\ registryPc[t].op = "index"
    /\ index' = [index EXCEPT ![registryPc[t].name] = registryPc[t].id]
    /\ registryPc' = [registryPc EXCEPT ![t] = Idle]
    /\ UNCHANGED <<tenants, live, disturbed>>

Delete(t, id) ==
    /\ registryPc[t] = Idle /\ id \in live
    /\ live' = live \ {id}
    /\ registryPc' = [registryPc EXCEPT ![t] = [op |-> "unindex", id |-> id]]
    /\ disturbed' = (disturbed \/ \E u \in Threads : registryPc[u].op = "index" /\ registryPc[u].id = id)
    /\ UNCHANGED <<tenants, index>>

\* Mutant: the test for its own entry is the wrong way round.
UnindexOthers(t) ==
    /\ registryPc[t].op = "unindex"
    /\ LET n == tenants[registryPc[t].id].name
       IN  index' = IF index[n] # registryPc[t].id THEN [index EXCEPT ![n] = NoTenant] ELSE index
    /\ registryPc' = [registryPc EXCEPT ![t] = Idle]
    /\ UNCHANGED <<tenants, live, disturbed>>

\* The entry of its present name goes, whichever tenant the entry is for.
Unindex(t) ==
    /\ registryPc[t].op = "unindex"
    /\ index' = [index EXCEPT ![tenants[registryPc[t].id].name] = NoTenant]
    /\ registryPc' = [registryPc EXCEPT ![t] = Idle]
    /\ UNCHANGED <<tenants, live, disturbed>>

\* update_tenant, suspend_tenant and activate_tenant; the index is not touched.
SetStatus(t, id, status) ==
    /\ registryPc[t] = Idle /\ id \in live
    /\ tenants' = [tenants EXCEPT ![id].status = status]
    /\ UNCHANGED <<live, index, registryPc, disturbed>>

Rename(t, id, n) ==
    /\ registryPc[t] = Idle /\ id \in live
    /\ tenants' = [tenants EXCEPT ![id].name = n]
    /\ disturbed' = TRUE
    /\ UNCHANGED <<live, index, registryPc>>

RegistryNext ==
    \E t \in Threads :
        \/ \E n \in Names : CheckName(t, n)
        \/ Register(t)
        \/ IndexName(t)
        \/ \E id \in live :
            \/ Delete(t, id)
            \/ \E s \in Statuses : SetStatus(t, id, s)
            \/ \E n \in Names : Rename(t, id, n)
        \/ Unindex(t)

----------------------------------------------------------------------------
(* Properties *)

\* While nobody renames a tenant or deletes one before its creation returned, a name
\* leads to a live tenant that has it, unless that tenant's deletion is half done:
\* creations that race leave tenants without an entry, never an entry without a tenant.
NamesLeadToLive ==
    ~disturbed => \A n \in Names : index[n] # NoTenant =>
        /\ tenants[index[n]].name = n
        /\ \/ index[n] \in live
           \/ \E t \in Threads : registryPc[t] = [op |-> "unindex", id |-> index[n]]
=============================================================================
