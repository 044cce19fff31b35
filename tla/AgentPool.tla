------------------------------ MODULE AgentPool -----------------------------
(***************************************************************************)
(* core/agent_pool: agents that take one task at a time. dispatch picks    *)
(* one of the agents that look free; an agent may be blocked, failed or    *)
(* rolled back while its task is under way, and is told of the end of a    *)
(* task without its name, so late and repeated reports end another.        *)
(* Abstracted: the skills and the score dispatch chooses by.               *)
(***************************************************************************)
EXTENDS Naturals, FiniteSets

CONSTANTS
    Agents, Tasks,
    MaxAgents,        \* max_agents of the config
    NoTask

VARIABLES
    agents,       \* ids in _agents
    agent,        \* [state, task, snapshot, rested] of each
    todo,         \* tasks not dispatched yet
    open,         \* ghost: tasks assigned to each agent and not finished
    interrupted   \* ghost: agents that were unblocked, rolled back or failed with a
                  \*        task, or told of the end of another task

vars == <<agents, agent, todo, open, interrupted>>

States == {"idle", "running", "failed", "blocked", "learning"}
NoSnapshot == [state |-> "none", task |-> NoTask]

(* rested: idle_timeout_sec have passed since _idle_since, which is None   *)
(* before the first task                                                   *)
Fresh == [state |-> "idle", task |-> NoTask, snapshot |-> NoSnapshot, rested |-> FALSE]

Init ==
    /\ agents = {} /\ agent = [a \in Agents |-> Fresh]
    /\ todo = Tasks
    /\ open = [a \in Agents |-> {}] /\ interrupted = {}

Register(a) ==
    /\ a \notin agents /\ Cardinality(agents) < MaxAgents
    /\ agents' = agents \cup {a}
    /\ agent' = [agent EXCEPT ![a] = Fresh]
    /\ open' = [open EXCEPT ![a] = {}] /\ interrupted' = interrupted \ {a}
    /\ UNCHANGED todo

Unregister(a) ==
    /\ a \in agents /\ agent[a].state # "running"
    /\ agents' = agents \ {a}
    /\ UNCHANGED <<agent, todo, open, interrupted>>

(* Mutant: a blocked agent counts as free. *)
FreeOrBlocked(a) == agent[a].state \in {"idle", "learning", "blocked"}

Free(a) == agent[a].state \in {"idle", "learning"}

Assign(a, t) ==
    /\ agent' = [agent EXCEPT ![a].snapshot = [state |-> agent[a].state, task |-> agent[a].task],
                              ![a].state = "running", ![a].task = t, ![a].rested = FALSE]
    /\ open' = [open EXCEPT ![a] = @ \cup {t}]

Dispatch(t) ==
    /\ t \in todo
    /\ \E a \in agents : Free(a) /\ Assign(a, t)
    /\ todo' = todo \ {t}
    /\ UNCHANGED <<agents, interrupted>>

(* complete_task takes no task id and looks at nothing: the end of t, which *)
(* was dispatched some time, in time, late or again, frees the agent        *)
CompleteTask(a, t) ==
    /\ a \in agents /\ t \in Tasks \ todo
    /\ agent' = [agent EXCEPT ![a].state = "idle", ![a].task = NoTask, ![a].rested = FALSE]
    /\ open' = [open EXCEPT ![a] = @ \ {t}]
    /\ interrupted' = IF open[a] \subseteq {t} THEN interrupted ELSE interrupted \cup {a}
    /\ UNCHANGED <<agents, todo>>

Interrupt(a) ==
    interrupted' = IF open[a] # {} THEN interrupted \cup {a} ELSE interrupted

(* fail: nothing but a rollback or a late complete_task leads out of it    *)
Fail(a) ==
    /\ a \in agents /\ agent[a].state # "failed"
    /\ agent' = [agent EXCEPT ![a].state = "failed"]
    /\ Interrupt(a)
    /\ UNCHANGED <<agents, todo, open>>

Block(a) ==
    /\ a \in agents /\ agent[a].state # "blocked"
    /\ agent' = [agent EXCEPT ![a].state = "blocked"]
    /\ UNCHANGED <<agents, todo, open, interrupted>>

(* IDLE, though the task it was blocked in is not finished *)
Unblock(a) ==
    /\ a \in agents /\ agent[a].state = "blocked"
    /\ agent' = [agent EXCEPT ![a].state = "idle"]
    /\ Interrupt(a)
    /\ UNCHANGED <<agents, todo, open>>

Rollback(a) ==
    /\ a \in agents /\ agent[a].snapshot # NoSnapshot
    /\ agent' = [agent EXCEPT ![a].state = agent[a].snapshot.state,
                              ![a].task = agent[a].snapshot.task]
    /\ Interrupt(a)
    /\ UNCHANGED <<agents, todo, open>>

Rest(a) ==
    /\ agent[a].state = "idle" /\ agent[a].snapshot # NoSnapshot /\ ~ agent[a].rested
    /\ agent' = [agent EXCEPT ![a].rested = TRUE]
    /\ UNCHANGED <<agents, todo, open, interrupted>>

(* tick: every agent that has rested starts to learn. Its heartbeat test   *)
(* asks the agent for a heartbeat and gets one of this very second, so it  *)
(* finds no agent dead.                                                    *)
Tick ==
    /\ \E a \in agents : agent[a].state = "idle" /\ agent[a].rested
    /\ agent' = [a \in Agents |->
                    IF a \in agents /\ agent[a].state = "idle" /\ agent[a].rested
                    THEN [agent[a] EXCEPT !.state = "learning"] ELSE agent[a]]
    /\ UNCHANGED <<agents, todo, open, interrupted>>

CompleteLearning(a) ==
    /\ a \in agents /\ agent[a].state = "learning"
    /\ agent' = [agent EXCEPT ![a].state = "idle", ![a].rested = FALSE]
    /\ UNCHANGED <<agents, todo, open, interrupted>>

Next ==
    \/ \E a \in Agents :
          \/ Register(a) \/ Unregister(a) \/ (\E t \in Tasks : CompleteTask(a, t))
          \/ Fail(a) \/ Block(a) \/ Unblock(a) \/ Rollback(a) \/ Rest(a) \/ CompleteLearning(a)
    \/ \E t \in Tasks : Dispatch(t)
    \/ Tick

TypeOK ==
    /\ agents \subseteq Agents /\ Cardinality(agents) <= MaxAgents
    /\ \A a \in Agents : agent[a].state \in States /\ agent[a].task \in Tasks \cup {NoTask}
    /\ todo \subseteq Tasks

(* An agent works on one task at a time, the one it shows as its current   *)
(* task: it is handed a second one, or shows another, only after it was    *)
(* failed, unblocked or rolled back in the middle of the first, or told of *)
(* the end of another task meanwhile.                                      *)
OneTaskAtATime ==
    \A a \in agents \ interrupted :
        /\ Cardinality(open[a]) <= 1
        /\ open[a] = {agent[a].task} \ {NoTask}
        /\ agent[a].state = "running" => open[a] # {}
=============================================================================
