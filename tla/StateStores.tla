----------------------------- MODULE StateStores ----------------------------
(***************************************************************************)
(* The stores the services share through the file system: the run record   *)
(* that core/orchestrator/executor.py keeps in the SqliteStateStore and    *)
(* logs to the JsonlWAL, and one file of the LeaseStore. None of them is   *)
(* locked: a process reads, and writes later what it made of it; it may    *)
(* die in between. And the schema of the StateDB, which every service      *)
(* migrates when it starts, in transactions of one statement each.         *)
(***************************************************************************)
EXTENDS Naturals, Sequences, FiniteSets

CONSTANTS
    Processes, Nodes,
    Statuses,        \* of a node
    Ttl,             \* ttl_sec of a lease
    Schema,          \* the migrations: a sequence of sequences of statements
    None,
    MaxWrites, MaxTime, MaxCrashes    \* bounds of the model

VARIABLES
    row,         \* the state table's row of the run: [version, nodes]
    log,         \* orchestrator_node_status records
    file,        \* the lease: [owner, until], None, or Torn while it is being written
    proc,        \* what each process has read and is about to do with it
    now, crashes,
    held,        \* ghost: leases that acquire returned: [owner, until]
    stale,       \* ghost: a lease was decided on what the file no longer said
    stored,      \* ghost: every [node, status] that was ever in the row
    lostMark,    \* ghost: a mark or a swap replaced a row it had not read
    tables,      \* StateDB: statements that were executed
    versions,    \* schema_migrations
    service,     \* per process [at, todo, step]: its state, the versions it has left to
                 \* migrate, its place in the first of them
    raced        \* ghost: processes that migrated while another did

schemaVars == <<tables, versions, service, raced>>
vars == <<row, log, file, proc, now, crashes, held, stale, stored, lostMark, schemaVars>>
leaseVars == <<file, held, stale>>
runVars == <<row, log, stored, lostMark>>

Idle == [at |-> "idle"]
Torn == [owner |-> "torn", until |-> 0]
Service(at, todo) == [at |-> at, todo |-> todo, step |-> 1]
Mark(n, s) == [node |-> n, status |-> s]

Init ==
    /\ row = [version |-> 0, nodes |-> [n \in Nodes |-> "pending"]]
    /\ log = <<>> /\ file = None
    /\ proc = [p \in Processes |-> Idle]
    /\ now = 0 /\ crashes = 0
    /\ held = {} /\ stale = FALSE /\ stored = {} /\ lostMark = FALSE
    /\ tables = {} /\ versions = {} /\ raced = {}
    /\ service = [p \in Processes |-> Service("down", {})]

(* ------------------- DagExecutor over SqliteStateStore ----------------- *)
(* load: the whole record *)
LoadForMark(p, n, s) ==
    /\ proc[p] = Idle
    /\ proc' = [proc EXCEPT ![p] = [at |-> "put", read |-> row, mark |-> Mark(n, s)]]
    /\ UNCHANGED <<runVars, leaseVars, now, crashes>>

(* put gives the row a new version, whatever version it has by now *)
Put(p, nodes) ==
    /\ row.version < MaxWrites
    /\ row' = [version |-> row.version + 1, nodes |-> nodes]
    /\ lostMark' = (lostMark \/ row # proc[p].read)
    /\ stored' = stored \cup {Mark(n, nodes[n]) : n \in Nodes}

(* mark_node stores the record it loaded with one entry changed ... *)
PersistMark(p) ==
    /\ proc[p].at = "put"
    /\ Put(p, [proc[p].read.nodes EXCEPT ![proc[p].mark.node] = proc[p].mark.status])
    /\ proc' = [proc EXCEPT ![p].at = "log"]
    /\ UNCHANGED <<log, leaseVars, now, crashes>>

(* Mutant: the record is logged before it is stored. *)
LogBefore(p) ==
    /\ proc[p].at \in {"put", "log"}
    /\ log' = Append(log, proc[p].mark)
    /\ proc' = [proc EXCEPT ![p] = Idle]
    /\ UNCHANGED <<row, stored, lostMark, leaseVars, now, crashes>>

(* ... and logs it afterwards *)
LogMark(p) ==
    /\ proc[p].at = "log"
    /\ log' = Append(log, proc[p].mark)
    /\ proc' = [proc EXCEPT ![p] = Idle]
    /\ UNCHANGED <<row, stored, lostMark, leaseVars, now, crashes>>

(* compare_and_swap of a client that changes one node of what it read: get *)
(* and compare, then put without comparing again                           *)
CompareForSwap(p, n, s) ==
    /\ proc[p] = Idle
    /\ proc' = [proc EXCEPT ![p] = [at |-> "swap", read |-> row, mark |-> Mark(n, s)]]
    /\ UNCHANGED <<runVars, leaseVars, now, crashes>>

Swap(p) ==
    /\ proc[p].at = "swap"
    /\ Put(p, [proc[p].read.nodes EXCEPT ![proc[p].mark.node] = proc[p].mark.status])
    /\ proc' = [proc EXCEPT ![p] = Idle]
    /\ UNCHANGED <<log, leaseVars, now, crashes>>

(* ------------------------------ LeaseStore ----------------------------- *)
(* Mutant: a lease may be taken over in its last second. *)
ExpiredEarly(lease) == lease \notin {None, Torn} => lease.until <= now + 1

(* _read of a missing, empty or half written file is None *)
Expired(lease) == lease \notin {None, Torn} => lease.until <= now

ReadForAcquire(p) ==
    /\ proc[p] = Idle /\ Expired(file)
    /\ proc' = [proc EXCEPT ![p] = [at |-> "open", read |-> file]]
    /\ UNCHANGED <<runVars, leaseVars, now, crashes>>

(* write_text: the file is emptied, then written and closed *)
OpenLease(p) ==
    /\ proc[p].at = "open"
    /\ file' = Torn
    /\ stale' = (stale \/ file # proc[p].read)
    /\ proc' = [proc EXCEPT ![p] = [at |-> "write", until |-> now + Ttl]]
    /\ UNCHANGED <<runVars, held, now, crashes>>

WriteLease(p) ==
    /\ proc[p].at = "write"
    /\ file' = [owner |-> p, until |-> proc[p].until]
    /\ held' = held \cup (IF proc[p].until > now THEN {file'} ELSE {})
    /\ stale' = (stale \/ file # Torn \/ (\E q \in Processes \ {p} : proc[q].at = "write"))
    /\ proc' = [proc EXCEPT ![p] = Idle]
    /\ UNCHANGED <<runVars, now, crashes>>

(* release: the owner is read, the file unlinked later *)
ReadForRelease(p) ==
    /\ proc[p] = Idle /\ file \notin {None, Torn} /\ file.owner = p
    /\ proc' = [proc EXCEPT ![p] = [at |-> "unlink", read |-> file]]
    /\ UNCHANGED <<runVars, leaseVars, now, crashes>>

Unlink(p) ==
    /\ proc[p].at = "unlink"
    /\ stale' = (stale \/ file # proc[p].read)
    /\ held' = held \ {proc[p].read}
    /\ file' = None
    /\ proc' = [proc EXCEPT ![p] = Idle]
    /\ UNCHANGED <<runVars, now, crashes>>

(* ------------------------------------------------------------------------ *)
(* what the dead process held it does not act on any more *)
Crash(p) ==
    /\ crashes < MaxCrashes /\ crashes' = crashes + 1
    /\ proc' = [proc EXCEPT ![p] = Idle]
    /\ held' = {l \in held : l.owner # p}
    /\ UNCHANGED <<runVars, file, stale, now>>

Tick ==
    /\ now < MaxTime /\ now' = now + 1
    /\ held' = {l \in held : l.until > now + 1}
    /\ UNCHANGED <<runVars, file, stale, proc, crashes>>

(* -------------------------- the StateDB's schema ----------------------- *)
(* every statement creates what does not exist yet; the version is         *)
(* recorded after those of its migration                                   *)
Migrating(p) == service[p].at = "migrating"
Begun(todo) == Service(IF todo = {} THEN "up" ELSE "migrating", todo)

Race(p) == IF \E q \in Processes \ {p} : Migrating(q)
           THEN raced \cup {q \in Processes : q = p \/ Migrating(q)} ELSE raced \ {p}

(* the constructor: schema_migrations is created and read                  *)
StartService(p) ==
    /\ service[p].at \in {"down", "failed"}
    /\ service' = [service EXCEPT ![p] = Begun(DOMAIN Schema \ versions)]
    /\ raced' = Race(p)
    /\ UNCHANGED <<tables, versions>>

IsFirst(m, todo) == m \in todo /\ \A k \in todo : m <= k

(* the next statement of the first migration it found not to be applied    *)
Execute(p, m) ==
    /\ service[p].step <= Len(Schema[m])
    /\ tables' = tables \cup {Schema[m][service[p].step]}
    /\ service' = [service EXCEPT ![p].step = @ + 1]
    /\ UNCHANGED versions

(* Mutant: the version is recorded although the last statement is still to *)
(* be executed.                                                            *)
RecordEarly(p, m) ==
    /\ service[p].step >= Len(Schema[m])
    /\ versions' = versions \cup {m}
    /\ service' = [service EXCEPT ![p] = IF m \in versions THEN Service("failed", {})
                                         ELSE Begun(service[p].todo \ {m})]
    /\ UNCHANGED tables

(* its version; to record one that another process recorded meanwhile is   *)
(* an error, which ends the process                                        *)
Record(p, m) ==
    /\ service[p].step > Len(Schema[m])
    /\ versions' = versions \cup {m}
    /\ service' = [service EXCEPT ![p] = IF m \in versions THEN Service("failed", {})
                                         ELSE Begun(service[p].todo \ {m})]
    /\ UNCHANGED tables

MigrateStep(p) ==
    /\ Migrating(p)
    /\ \E m \in service[p].todo : IsFirst(m, service[p].todo) /\ (Execute(p, m) \/ Record(p, m))
    /\ UNCHANGED raced

StopService(p) ==
    /\ service[p].at \notin {"down", "failed"} /\ crashes < MaxCrashes /\ crashes' = crashes + 1
    /\ service' = [service EXCEPT ![p] = Service("down", {})]
    /\ UNCHANGED <<tables, versions, raced>>

Starting ==
    /\ \E p \in Processes :
          \/ (StartService(p) \/ MigrateStep(p)) /\ UNCHANGED crashes
          \/ StopService(p)
    /\ UNCHANGED <<row, log, file, proc, now, held, stale, stored, lostMark>>

Marks == \E p \in Processes, n \in Nodes, s \in Statuses :
             LoadForMark(p, n, s) \/ CompareForSwap(p, n, s)

Storing ==
    /\ \/ Marks
       \/ \E p \in Processes :
             \/ PersistMark(p) \/ LogMark(p) \/ Swap(p)
             \/ ReadForAcquire(p) \/ OpenLease(p) \/ WriteLease(p)
             \/ ReadForRelease(p) \/ Unlink(p) \/ Crash(p)
       \/ Tick
    /\ UNCHANGED schemaVars

Next == Storing \/ Starting

TypeOK ==
    /\ row.nodes \in [Nodes -> Statuses \cup {"pending"}]
    /\ file \in {None, Torn} \cup [owner : Processes, until : 0 .. MaxTime + Ttl]
    /\ \A i \in DOMAIN log : log[i] \in [node : Nodes, status : Statuses]
    /\ versions \subseteq DOMAIN Schema

(* Two processes hold the lease at once only after a step of the lease     *)
(* file was taken on what another had changed since it was read: as long   *)
(* as acquire and release never overlap, expiry, crashes in the middle of  *)
(* a write and the release of an expired lease leave one holder.           *)
OneHolder == ~ stale => \A l, m \in held : l.owner = m.owner

(* What the log says of a node was in the state store before, also when a  *)
(* process dies between the two, and the store has not forgotten that the  *)
(* node moved unless a mark or a swap replaced a row it had not read.      *)
LogFollowsStore ==
    \A i \in DOMAIN log :
        /\ log[i] \in stored
        /\ lostMark \/ row.nodes[log[i].node] # "pending"

(* A recorded version has all its tables, and a service that is up has all *)
(* tables of all versions, wherever another one died in the middle of a    *)
(* migration; and a start fails only if it was not the only one.           *)
SchemaComplete ==
    /\ \A m \in versions : {Schema[m][i] : i \in DOMAIN Schema[m]} \subseteq tables
    /\ \A p \in Processes :
          /\ service[p].at = "up" => versions = DOMAIN Schema
          /\ service[p].at = "failed" => p \in raced

=============================================================================
