---------------------------- MODULE QuotaManager ----------------------------
(***************************************************************************)
(* core/multi_tenant/quota_manager.py: one quota of one tenant, used by    *)
(* threads. Every method holds _lock, a threading.Lock, and the ones that  *)
(* need the quota call get_quota, which takes the same lock again.         *)
(***************************************************************************)
EXTENDS Integers, Sequences, FiniteSets

CONSTANTS
    Threads,
    Limit, Amounts,
    MaxReservations, \* bound: reservations ever made
    MaxTime,         \* bound: the clock
    Ttl, Period,     \* lifetimes of a reservation and of a period
    Free             \* the lock is not held

VARIABLES
    used, reserved,  \* of the quota; its limit does not change here
    periodEnd,
    reservations,    \* Seq of [amount, expires, status]
    lock,            \* the thread that holds _lock, or Free
    pc,              \* [Threads -> [at, op]]: idle, called, holding, or past get_quota
    clock

vars == <<used, reserved, periodEnd, reservations, lock, pc, clock>>

Plain == [name: {"set_quota", "get_quota", "cleanup"}]
Amounted == [name: {"consume", "reserve", "release"}, amount: Amounts]
OnReservation == [name: {"commit", "cancel"}, id: 1..MaxReservations]
Calls == Plain \cup Amounted \cup OnReservation
Idle == [at |-> "idle"]

Init ==
    /\ used = 0 /\ reserved = 0 /\ periodEnd = Period
    /\ reservations = <<>>
    /\ lock = Free
    /\ pc = [t \in Threads |-> Idle]
    /\ clock = 0

Active(id) == id \in DOMAIN reservations /\ reservations[id].status = "active"
Overdue == {id \in DOMAIN reservations : Active(id) /\ clock > reservations[id].expires}

\* The calls that come to a second acquisition of the lock.
Nested(call) ==
    \/ call.name \in {"consume", "reserve", "release"}
    \/ call.name \in {"commit", "cancel"} /\ Active(call.id)
    \/ call.name = "cleanup" /\ Overdue # {}

Call(t, call) ==
    /\ pc[t] = Idle
    /\ pc' = [pc EXCEPT ![t] = [at |-> "called", op |-> call]]
    /\ UNCHANGED <<used, reserved, periodEnd, reservations, lock, clock>>

\* threading.Lock does not know who holds it.
CanAcquire(t) == lock = Free

Acquire(t) ==
    /\ pc[t].at = "called" /\ CanAcquire(t)
    /\ lock' = t
    /\ pc' = [pc EXCEPT ![t].at = "holding"]
    /\ UNCHANGED <<used, reserved, periodEnd, reservations, clock>>

\* with self._lock: ... self.get_quota(...)
AcquireAgain(t) ==
    /\ pc[t].at = "holding" /\ Nested(pc[t].op) /\ CanAcquire(t)
    /\ pc' = [pc EXCEPT ![t].at = "inner"]
    /\ UNCHANGED <<used, reserved, periodEnd, reservations, lock, clock>>

Return(t) ==
    /\ lock' = Free
    /\ pc' = [pc EXCEPT ![t] = Idle]
    /\ UNCHANGED clock

\* A call that needs no second acquisition; set_quota starts a new quota.
FinishPlain(t) ==
    /\ pc[t].at = "holding" /\ ~Nested(pc[t].op)
    /\ IF pc[t].op.name = "set_quota"
       THEN used' = 0 /\ reserved' = 0 /\ periodEnd' = clock + Period
       ELSE UNCHANGED <<used, reserved, periodEnd>>
    /\ UNCHANGED reservations
    /\ Return(t)

Inner(t, name) == pc[t].at = "inner" /\ pc[t].op.name = name

\* Once the period is over, _reset_period forgets what is used and reserved; it sets
\* the end of the period to now + (period_end - now), so it stays over. What is
\* reserved does not count here.
Consume(t) ==
    /\ Inner(t, "consume")
    /\ LET over == clock > periodEnd
           before == IF over THEN 0 ELSE used
       IN  /\ used' = IF before + pc[t].op.amount > Limit THEN before
                      ELSE before + pc[t].op.amount
           /\ reserved' = IF over THEN 0 ELSE reserved
    /\ UNCHANGED <<periodEnd, reservations>>
    /\ Return(t)

Reserve(t) ==
    /\ Inner(t, "reserve")
    /\ IF used + reserved + pc[t].op.amount > Limit \/ Len(reservations) = MaxReservations
       THEN UNCHANGED <<reserved, reservations>>
       ELSE /\ reserved' = reserved + pc[t].op.amount
            /\ reservations' = Append(reservations,
                    [amount |-> pc[t].op.amount, expires |-> clock + Ttl, status |-> "active"])
    /\ UNCHANGED <<used, periodEnd>>
    /\ Return(t)

Commit(t) ==
    /\ Inner(t, "commit")
    /\ used' = used + reservations[pc[t].op.id].amount
    /\ reserved' = reserved - reservations[pc[t].op.id].amount
    /\ reservations' = [reservations EXCEPT ![pc[t].op.id].status = "committed"]
    /\ UNCHANGED periodEnd
    /\ Return(t)

Cancel(t) ==
    /\ Inner(t, "cancel")
    /\ reserved' = reserved - reservations[pc[t].op.id].amount
    /\ reservations' = [reservations EXCEPT ![pc[t].op.id].status = "cancelled"]
    /\ UNCHANGED <<used, periodEnd>>
    /\ Return(t)

Release(t) ==
    /\ Inner(t, "release")
    /\ used' = IF used > pc[t].op.amount THEN used - pc[t].op.amount ELSE 0
    /\ UNCHANGED <<reserved, periodEnd, reservations>>
    /\ Return(t)

\* cleanup_expired_reservations cancels what is overdue, one by one.
Cleanup(t) ==
    /\ Inner(t, "cleanup")
    /\ \E id \in Overdue :
        /\ reserved' = reserved - reservations[id].amount
        /\ reservations' = [reservations EXCEPT ![id].status = "cancelled"]
        /\ IF Overdue = {id} THEN Return(t) ELSE UNCHANGED <<lock, pc, clock>>
    /\ UNCHANGED <<used, periodEnd>>

Tick ==
    /\ clock < MaxTime
    /\ clock' = clock + 1
    /\ UNCHANGED <<used, reserved, periodEnd, reservations, lock, pc>>

Run(t) ==
    \/ Acquire(t) \/ AcquireAgain(t) \/ FinishPlain(t)
    \/ Consume(t) \/ Reserve(t) \/ Commit(t) \/ Cancel(t) \/ Release(t) \/ Cleanup(t)

Next ==
    \/ \E t \in Threads, call \in Calls : Call(t, call)
    \/ \E t \in Threads : Run(t)
    \/ Tick

\* The threads run; one that waits for a lock gets it if it is free again and again.
Spec == Init /\ [][Next]_vars /\ \A t \in Threads : SF_vars(Run(t))

\* A call of the quota manager returns: consume(...) -> (bool, QuotaUsage) in the
\* interface (Part02, 2.14). The second acquisition waits for the first for ever.
CallsReturn == \A t \in Threads : (pc[t].at = "called") ~> (pc[t] = Idle)
=============================================================================
