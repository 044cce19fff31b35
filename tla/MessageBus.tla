------------------------------ MODULE MessageBus ----------------------------
(***************************************************************************)
(* core/message_bus/message_bus.py: publish calls the handlers of a topic  *)
(* one after another and awaits each; subscriptions come and go meanwhile, *)
(* and the list publish walks through is the live one. One topic.          *)
(***************************************************************************)
EXTENDS Naturals, Sequences, SequencesExt, FiniteSets

CONSTANTS
    Subs, Publishers,
    MaxPublished,       \* bound of the model
    HistoryLimit

VARIABLES
    order,        \* _topic_subscriptions[topic]
    subscribed,   \* keys of _subscriptions
    publish,      \* per publisher: [on, next, got, were, twice], next = index in the live list
    history,      \* _message_history[topic], as its message numbers
    published,
    removed       \* ghost: per publisher, an earlier entry was removed while it walked

vars == <<order, subscribed, publish, history, published, removed>>

Quiet == [on |-> FALSE, next |-> 1, got |-> {}, were |-> {}, twice |-> FALSE]

Init ==
    /\ order = <<>> /\ subscribed = {}
    /\ publish = [p \in Publishers |-> Quiet]
    /\ history = <<>> /\ published = 0
    /\ removed = {}

Subscribe(s) ==
    /\ s \notin subscribed
    /\ order' = Append(order, s) /\ subscribed' = subscribed \cup {s}
    /\ UNCHANGED <<publish, history, published, removed>>

(* the list after the entry at i was removed                               *)
Without(i) == [j \in 1 .. Len(order) - 1 |-> order[IF j < i THEN j ELSE j + 1]]

(* Python's list iterator counts positions: what is removed in front of it *)
(* makes it pass over one entry                                            *)
Unsubscribe(s) ==
    /\ s \in subscribed /\ subscribed' = subscribed \ {s}
    /\ \E i \in DOMAIN order : order[i] = s /\ order' = Without(i)
    /\ removed' = removed \cup {p \in Publishers : publish[p].on}
    /\ publish' = [p \in Publishers |-> [publish[p] EXCEPT !.were = @ \ {s}]]
    /\ UNCHANGED <<history, published>>

(* [-n:] *)
LastN(seq, n) == IF Len(seq) > n THEN SubSeq(seq, Len(seq) - n + 1, Len(seq)) ELSE seq

(* a list without entries is walked through at once                        *)
BeginPublish(p) ==
    /\ ~ publish[p].on /\ published < MaxPublished
    /\ published' = published + 1
    /\ history' = LastN(Append(history, published + 1), HistoryLimit)
    /\ publish' = [publish EXCEPT ![p] = [Quiet EXCEPT !.on = order # <<>>, !.were = subscribed]]
    /\ removed' = removed \ {p}
    /\ UNCHANGED <<order, subscribed>>

(* Mutant: the position is not advanced past a handler that raised. *)
StepBack(p) == publish[p].next

Step(p) == publish[p].next + 1

(* one handler, started with the next entry of the live list; the await    *)
(* after it is where the other calls run                                   *)
Deliver(p) ==
    /\ publish[p].on /\ publish[p].next <= Len(order)
    /\ LET s == order[publish[p].next] IN
       publish' = [publish EXCEPT ![p].next = Step(p), ![p].got = @ \cup {s},
                                  ![p].twice = @ \/ s \in publish[p].got]
    /\ UNCHANGED <<order, subscribed, history, published, removed>>

EndPublish(p) ==
    /\ publish[p].on /\ publish[p].next > Len(order)
    /\ publish' = [publish EXCEPT ![p].on = FALSE]
    /\ UNCHANGED <<order, subscribed, history, published, removed>>

(* the lists are dropped, not emptied: a publish that is under way goes on *)
(* through the old one and finds no subscription any more                  *)
Shutdown ==
    /\ subscribed' = {} /\ order' = <<>>
    /\ publish' = [p \in Publishers |-> [publish[p] EXCEPT !.on = FALSE, !.were = {}]]
    /\ UNCHANGED <<history, published, removed>>

Next ==
    \/ \E s \in Subs : Subscribe(s) \/ Unsubscribe(s)
    \/ \E p \in Publishers : BeginPublish(p) \/ Deliver(p) \/ EndPublish(p)
    \/ Shutdown

TypeOK ==
    /\ ToSet(order) = subscribed /\ IsInjective(order)
    /\ Len(history) <= HistoryLimit
    /\ \A p \in Publishers : publish[p].next \in 1 .. Cardinality(Subs) + 1

(* When a publish returns, every subscription that was there from its      *)
(* start to its end has the message, once: one is missed only if another   *)
(* subscription was removed while the handlers were being awaited.         *)
SubscribersServed ==
    \A p \in Publishers :
        p \notin removed =>
            /\ ~ publish[p].twice
            /\ ~ publish[p].on => publish[p].were \subseteq publish[p].got
=============================================================================
