------------------------------ MODULE CallGraph ------------------------------
(***************************************************************************)
(* The execution graph: src/main.py, the ContextVar _current_tool in       *)
(* _dispatch, /execute and _platform_call, the caller threaded through     *)
(* Inngest events, and _record_call_edge.                                  *)
(*                                                                         *)
(* A task is one asyncio context.  The calls of its tools are nested: each *)
(* sets the variable to its own tool and puts the old value back when it   *)
(* ends, by its result, an exception, a timeout of its own or of a call it *)
(* is nested in.  A tool also creates tasks that outlive it, posts to      *)
(* /execute, and fires events whose runs start later somewhere else.       *)
(***************************************************************************)
EXTENDS Naturals, Sequences, FiniteSets

CONSTANTS
    Tasks,
    Tools,
    Fire,       \* fire_inngest_event
    ExecSkip,   \* _EXEC_SKIP
    None,       \* no tool
    MaxDepth,   \* bound: calls nested in one task
    MaxPending  \* bound: events, and edges on their way, at a time

ASSUME ToolsAssumption == None \notin Tools /\ Fire \in Tools
ASSUME BoundAssumption == MaxDepth \in Nat \ {0} /\ MaxPending \in Nat

VARIABLES
    kind,      \* free; request: one outermost call, then over; spawned: created by a tool
    origin,    \* history: the tool on whose behalf the task runs
    current,   \* _current_tool in the task's context
    threaded,  \* _triggered_by_tool in the arguments of the task's outermost call
    stack,     \* the dispatches under way in the task
    events,    \* external: Inngest events not yet run
    recording  \* the tasks of _record_call_edge

vars == <<kind, origin, current, threaded, stack, events, recording>>

ToolOrNone == Tools \cup {None}

\* caller and the reset token as in the code; by is the tool that did make the call.
Frames == [tool : Tools, caller : ToolOrNone, token : ToolOrNone, by : ToolOrNone]
Edges  == [caller : ToolOrNone, callee : Tools, by : ToolOrNone]
Events == [parent : ToolOrNone, by : ToolOrNone]

TypeOK ==
    /\ kind \in [Tasks -> {"free", "request", "spawned", "over"}]
    /\ origin \in [Tasks -> ToolOrNone]
    /\ current \in [Tasks -> ToolOrNone]
    /\ threaded \in [Tasks -> ToolOrNone]
    /\ stack \in [Tasks -> Seq(Frames)]
    /\ events \subseteq Events
    /\ recording \subseteq Edges

Init ==
    /\ kind = [t \in Tasks |-> "free"]
    /\ origin = [t \in Tasks |-> None]
    /\ current = [t \in Tasks |-> None]
    /\ threaded = [t \in Tasks |-> None]
    /\ stack = [t \in Tasks |-> <<>>]
    /\ events = {}
    /\ recording = {}

Depth(t)   == Len(stack[t])
Top(t)     == stack[t][Depth(t)]
Running(t) == stack[t] # <<>>

-----------------------------------------------------------------------------
(* Tasks.                                                                  *)

\* A task whose context has this value and whose first call has this argument.
Begin(t, how, behalf, value, argument) ==
    /\ kind[t] = "free"
    /\ kind' = [kind EXCEPT ![t] = how]
    /\ origin' = [origin EXCEPT ![t] = behalf]
    /\ current' = [current EXCEPT ![t] = value]
    /\ threaded' = [threaded EXCEPT ![t] = argument]
    /\ UNCHANGED <<stack, recording>>

\* A call from outside, with no header.
Request(t) == Begin(t, "request", None, None, None) /\ UNCHANGED events

\* Mechanism 3: a tool of task u posts to /execute by _platform_call.
Execute(t, u) == Running(u) /\ Begin(t, "request", Top(u).tool, current[u], None) /\ UNCHANGED events

\* asyncio.create_task copies the context.
Spawn(t, u) == Running(u) /\ Begin(t, "spawned", Top(u).tool, current[u], None) /\ UNCHANGED events

\* Mechanism 2: the run of an event dispatches its tool with the event's arguments,
\* and may do so again.
RunEvent(t) ==
    \E e \in events :
        /\ Begin(t, "request", e.by, None, e.parent)
        /\ events' \in {events, events \ {e}}

End(t) ==
    /\ kind[t] # "free" /\ ~Running(t)
    /\ kind' = [kind EXCEPT ![t] = "free"]
    /\ origin' = [origin EXCEPT ![t] = None]
    /\ current' = [current EXCEPT ![t] = None]
    /\ threaded' = [threaded EXCEPT ![t] = None]
    /\ UNCHANGED <<stack, events, recording>>

-----------------------------------------------------------------------------
(* _dispatch.                                                              *)

\* Who makes the next call in the task.
Caller(t) == IF Running(t) THEN Top(t).tool ELSE origin[t]

\* Mutation: the argument is not looked at.
Captured_ContextOnly(t) == current[t]

\* The context comes first, the argument of the outermost call second.
Captured(t) == IF current[t] = None THEN threaded[t] ELSE current[t]

\* The call is under way; a call that is refused before that leaves no trace.
Call(t, tool) ==
    /\ kind[t] \in {"request", "spawned"}
    /\ Depth(t) < MaxDepth
    /\ stack' = [stack EXCEPT ![t] =
          Append(@, [tool |-> tool, caller |-> Captured(t), token |-> current[t], by |-> Caller(t)])]
    /\ current' = [current EXCEPT ![t] = tool]
    /\ threaded' = [threaded EXCEPT ![t] = None]
    /\ UNCHANGED <<kind, origin, events, recording>>

\* Mutation: the reset is not in a finally block.
Unwind_NoReset(t, i) ==
    /\ stack' = [stack EXCEPT ![t] = SubSeq(@, 1, i - 1)]
    /\ kind' = [kind EXCEPT ![t] = IF i = 1 /\ @ = "request" THEN "over" ELSE @]
    /\ UNCHANGED <<origin, current, threaded, events>>

\* The calls from the i-th on end, innermost first; a request makes no second call.
Unwind(t, i) ==
    /\ stack' = [stack EXCEPT ![t] = SubSeq(@, 1, i - 1)]
    /\ current' = [current EXCEPT ![t] = stack[t][i].token]
    /\ kind' = [kind EXCEPT ![t] = IF i = 1 /\ @ = "request" THEN "over" ELSE @]
    /\ UNCHANGED <<origin, threaded, events>>

IsEdge(caller, tool) ==
    caller # None /\ caller # tool /\ caller \notin ExecSkip /\ tool \notin ExecSkip

\* The innermost call returns, and its edge is recorded by a task of its own.
Return(t) ==
    /\ Running(t)
    /\ Cardinality(recording) < MaxPending
    /\ recording' = IF IsEdge(Top(t).caller, Top(t).tool)
                    THEN recording \cup {[caller |-> Top(t).caller, callee |-> Top(t).tool, by |-> Top(t).by]}
                    ELSE recording
    /\ Unwind(t, Depth(t))

\* The i-th call raises or times out; wait_for cancels the calls nested in it.
Fails(t, i) ==
    /\ i \in 1..Depth(t)
    /\ Unwind(t, i)
    /\ UNCHANGED recording

\* fire_inngest_event sends _caller_tool, the tool that called it.
FireEvent(t) ==
    /\ Running(t) /\ Top(t).tool = Fire
    /\ Cardinality(events) < MaxPending
    /\ events' = events \cup {[parent |-> Top(t).caller, by |-> Top(t).by]}
    /\ UNCHANGED <<kind, origin, current, threaded, stack, recording>>

\* _record_call_edge writes its two rows, or fails and logs that.
RecordCallEdge ==
    /\ \E r \in recording : recording' = recording \ {r}
    /\ UNCHANGED <<kind, origin, current, threaded, stack, events>>

Next ==
    \/ \E t \in Tasks :
          \/ Request(t) \/ RunEvent(t) \/ End(t) \/ Return(t) \/ FireEvent(t)
          \/ \E u \in Tasks : Execute(t, u) \/ Spawn(t, u)
          \/ \E tool \in Tools : Call(t, tool)
          \/ \E i \in 1..MaxDepth : Fails(t, i)
    \/ RecordCallEdge

Spec == Init /\ [][Next]_vars

-----------------------------------------------------------------------------
(* Properties.                                                             *)

\* The graph names the tool that did make the call: whatever calls are nested, siblings
\* run, calls time out or are cancelled, tasks outlive the tool that created them, and
\* events wait between the tool that fired them and their run.
EdgesAreReal == \A r \in recording : r.caller = r.by

\* "Three mechanisms record tool->tool edges across every dispatch boundary": a call that
\* a tool made, of another one, does not return without its edge.
EveryCallIsSeen ==
    [][\A t \in Tasks : Running(t) /\ Return(t) /\ IsEdge(Top(t).by, Top(t).tool) =>
          \E r \in recording' : r.by = Top(t).by /\ r.callee = Top(t).tool]_vars
=============================================================================
