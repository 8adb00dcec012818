--------------------------- MODULE CallGraphProofs ---------------------------
(***************************************************************************)
(* Proofs about CallGraph: for any number of tasks and tools and any depth *)
(* of calls, every edge names the tool that made the call, and no call of  *)
(* a tool returns without its edge.  The strengthening ties the context    *)
(* variable to the stack it is not told about: it holds the innermost      *)
(* tool, each reset token the tool below, and between calls the variable,  *)
(* or the threaded argument, names the tool the task runs for.             *)
(***************************************************************************)
EXTENDS CallGraph, SequenceTheorems, TLAPS

\* Calls under way: frames name their callers, tokens the tool below.
FramesOf(st) ==
    /\ \A i \in 1..Len(st) : st[i].caller = st[i].by
    /\ \A i \in 2..Len(st) : st[i].token = st[i-1].tool

\* The first token of a spawned task gives back what it was created with.
TaskInv(st, how, behalf, value, argument) ==
    /\ FramesOf(st)
    /\ st # <<>> =>
          /\ how \in {"request", "spawned"}
          /\ value = st[Len(st)].tool
          /\ argument = None
          /\ how = "spawned" => st[1].token = behalf
    /\ st = <<>> /\ how = "spawned" => value = behalf /\ argument = None
    /\ st = <<>> /\ how = "request" =>
          \/ value = behalf /\ argument = None
          \/ value = None /\ argument = behalf

TasksNamed  == \A t \in Tasks : TaskInv(stack[t], kind[t], origin[t], current[t], threaded[t])
EventsNamed == \A e \in events : e.parent = e.by

IInv == TypeOK /\ TasksNamed /\ EventsNamed /\ EdgesAreReal

-----------------------------------------------------------------------------
(* Stacks.                                                                 *)

\* The innermost call is one of the frames.
LEMMA TopIsFrame ==
  ASSUME TypeOK, NEW t \in Tasks, Running(t)
  PROVE  /\ stack[t] \in Seq(Frames)
         /\ Depth(t) \in 1..Depth(t)
         /\ Top(t) \in Frames
<1>1. stack[t] \in Seq(Frames) /\ stack[t] # <<>>
  BY DEF TypeOK, Running
<1>2. Len(stack[t]) \in Nat /\ Len(stack[t]) # 0
  BY <1>1, EmptySeq, LenProperties
<1> QED BY <1>1, <1>2, ElementOfSeq DEF Depth, Top

\* What a stack is once the calls from the i-th on are over.
LEMMA Shortened ==
  ASSUME NEW S, NEW s \in Seq(S), NEW i \in 1..Len(s)
  PROVE  /\ SubSeq(s, 1, i - 1) \in Seq(S)
         /\ Len(SubSeq(s, 1, i - 1)) = i - 1
         /\ \A k \in 1..(i - 1) : SubSeq(s, 1, i - 1)[k] = s[k]
         /\ SubSeq(s, 1, i - 1) = <<>> <=> i = 1
<1>1. i \in Nat /\ 1 <= i /\ i <= Len(s) /\ Len(s) \in Nat
  BY LenProperties
<1>2. \A k \in 1..(i - 1) : s[k] \in S
  BY <1>1, ElementOfSeq
<1>3. /\ SubSeq(s, 1, i - 1) \in Seq(S)
      /\ Len(SubSeq(s, 1, i - 1)) = IF 1 <= i - 1 THEN (i - 1) - 1 + 1 ELSE 0
      /\ \A k \in 1..((i - 1) - 1 + 1) : SubSeq(s, 1, i - 1)[k] = s[1 + k - 1]
  BY <1>1, <1>2, SubSeqProperties
<1>4. Len(SubSeq(s, 1, i - 1)) = i - 1
  BY <1>1, <1>3
<1>5. \A k \in 1..(i - 1) : SubSeq(s, 1, i - 1)[k] = s[k]
  BY <1>1, <1>3
<1>6. SubSeq(s, 1, i - 1) = <<>> <=> i = 1
  BY <1>1, <1>3, <1>4, EmptySeq
<1> QED BY <1>3, <1>4, <1>5, <1>6

\* The caller that _dispatch captures is the tool that makes the call.
LEMMA CapturedIsCaller ==
  ASSUME IInv, NEW t \in Tasks, kind[t] \in {"request", "spawned"}
  PROVE  Captured(t) = Caller(t) /\ Captured(t) \in ToolOrNone
<1>1. TaskInv(stack[t], kind[t], origin[t], current[t], threaded[t])
  BY DEF IInv, TasksNamed
<1>2. CASE Running(t)
  <2>1. Top(t).tool \in Tools /\ current[t] = Top(t).tool
    BY <1>1, <1>2, TopIsFrame DEF IInv, TaskInv, Running, Top, Depth, Frames
  <2> QED BY <2>1, <1>2, ToolsAssumption DEF Captured, Caller, ToolOrNone
<1>3. CASE ~Running(t)
  <2>1. origin[t] \in ToolOrNone
    BY DEF IInv, TypeOK
  <2> QED BY <2>1, <1>1, <1>3 DEF TaskInv, Running, Captured, Caller
<1> QED BY <1>2, <1>3

-----------------------------------------------------------------------------
(* The invariant.                                                          *)

\* A new task.
LEMMA BeginKeeps ==
  ASSUME IInv, NEW t \in Tasks, NEW how \in {"request", "spawned"},
         NEW behalf \in ToolOrNone, NEW value \in ToolOrNone, NEW argument \in ToolOrNone,
         Begin(t, how, behalf, value, argument),
         stack[t] = <<>>,
         \/ value = behalf /\ argument = None
         \/ how = "request" /\ value = None /\ argument = behalf,
         events' \subseteq events
  PROVE  IInv'
<1>1. TypeOK'
  BY DEF IInv, TypeOK, Begin
<1>2. TasksNamed'
  <2>1. \A u \in Tasks \ {t} : /\ stack'[u] = stack[u] /\ kind'[u] = kind[u] /\ origin'[u] = origin[u]
                               /\ current'[u] = current[u] /\ threaded'[u] = threaded[u]
    BY DEF IInv, TypeOK, Begin
  <2>2. /\ stack'[t] = <<>> /\ kind'[t] = how /\ origin'[t] = behalf
        /\ current'[t] = value /\ threaded'[t] = argument
    BY DEF IInv, TypeOK, Begin
  <2>3. Len(stack'[t]) = 0
    BY <2>2
  <2>4. FramesOf(stack'[t])
    BY <2>3 DEF FramesOf
  <2>5. TaskInv(stack'[t], kind'[t], origin'[t], current'[t], threaded'[t])
    BY <2>2, <2>4 DEF TaskInv
  <2>6. \A u \in Tasks : TaskInv(stack[u], kind[u], origin[u], current[u], threaded[u])
    BY DEF IInv, TasksNamed
  <2>7. \A u \in Tasks \ {t} : TaskInv(stack'[u], kind'[u], origin'[u], current'[u], threaded'[u])
    BY <2>1, <2>6
  <2> QED BY <2>5, <2>7 DEF TasksNamed
<1>3. EventsNamed' /\ EdgesAreReal'
  BY DEF IInv, EventsNamed, EdgesAreReal, Begin
<1> QED BY <1>1, <1>2, <1>3 DEF IInv

\* A free task, and one that is over, has no call under way.
LEMMA FreeIsIdle ==
  ASSUME IInv, NEW t \in Tasks, kind[t] \notin {"request", "spawned"}
  PROVE  stack[t] = <<>>
BY DEF IInv, TasksNamed, TaskInv

\* The task t changes its stack, its context and its argument, keeping the invariant.
LEMMA TaskStep ==
  ASSUME IInv, NEW t \in Tasks,
         \A u \in Tasks \ {t} : /\ stack'[u] = stack[u] /\ kind'[u] = kind[u]
                               /\ current'[u] = current[u] /\ threaded'[u] = threaded[u],
         UNCHANGED origin,
         TaskInv(stack'[t], kind'[t], origin[t], current'[t], threaded'[t])
  PROVE  TasksNamed'
<1>1. \A u \in Tasks \ {t} : TaskInv(stack'[u], kind'[u], origin'[u], current'[u], threaded'[u])
  BY DEF IInv, TasksNamed
<1> QED BY <1>1 DEF TasksNamed

\* A call becomes the innermost one.
LEMMA CallKeeps ==
  ASSUME IInv, NEW t \in Tasks, NEW tool \in Tools, Call(t, tool)
  PROVE  IInv'
<1> DEFINE frame == [tool |-> tool, caller |-> Captured(t), token |-> current[t], by |-> Caller(t)]
           st == Append(stack[t], frame)
<1>1. TypeOK /\ TaskInv(stack[t], kind[t], origin[t], current[t], threaded[t]) /\ stack[t] \in Seq(Frames)
  BY DEF IInv, TasksNamed, TypeOK
<1>2. kind[t] \in {"request", "spawned"} /\ Captured(t) = Caller(t) /\ Captured(t) \in ToolOrNone
  BY CapturedIsCaller DEF Call
<1>3. frame \in Frames /\ frame.caller = frame.by /\ frame.token = current[t] /\ frame.tool = tool
  BY <1>1, <1>2 DEF Frames, TypeOK
<1>4. /\ st \in Seq(Frames) /\ st # <<>> /\ Len(st) = Len(stack[t]) + 1
      /\ \A i \in 1..Len(stack[t]) : st[i] = stack[t][i]
      /\ st[Len(stack[t]) + 1] = frame
  BY <1>1, <1>3, AppendProperties
<1>5. Len(stack[t]) \in Nat /\ (stack[t] = <<>> <=> Len(stack[t]) = 0)
  BY <1>1, LenProperties, EmptySeq
<1>6. stack' = [stack EXCEPT ![t] = st] /\ current' = [current EXCEPT ![t] = tool]
      /\ threaded' = [threaded EXCEPT ![t] = None] /\ UNCHANGED <<kind, origin, events, recording>>
  BY DEF Call
<1>7. stack'[t] = st /\ current'[t] = tool /\ threaded'[t] = None /\ kind'[t] = kind[t]
  BY <1>1, <1>6 DEF TypeOK
<1>8. TypeOK'
  BY <1>1, <1>4, <1>6, ToolsAssumption DEF TypeOK, ToolOrNone
<1>9. FramesOf(st)
  <2>1. \A i \in 1..Len(st) : st[i].caller = st[i].by
    BY <1>1, <1>3, <1>4, <1>5 DEF TaskInv, FramesOf
  <2>2. ASSUME NEW i \in 2..Len(st)
        PROVE  st[i].token = st[i-1].tool
    <3>1. CASE i <= Len(stack[t])
      BY <1>1, <1>4, <1>5, <2>2, <3>1 DEF TaskInv, FramesOf
    <3>2. CASE ~(i <= Len(stack[t]))
      <4>1. i = Len(stack[t]) + 1 /\ i - 1 \in 1..Len(stack[t]) /\ stack[t] # <<>> /\ i - 1 = Len(stack[t])
        BY <1>4, <1>5, <2>2, <3>2
      <4>2. st[i].token = current[t] /\ st[i-1] = stack[t][Len(stack[t])]
        BY <4>1, <1>3, <1>4
      <4> QED BY <4>1, <4>2, <1>1 DEF TaskInv
    <3> QED BY <3>1, <3>2
  <2> QED BY <2>1, <2>2 DEF FramesOf
<1>10. kind[t] = "spawned" => st[1].token = origin[t]
  <2>1. CASE stack[t] = <<>>
    BY <2>1, <1>1, <1>3, <1>4, <1>5 DEF TaskInv
  <2>2. CASE stack[t] # <<>>
    <3>1. 1 \in 1..Len(stack[t])
      BY <2>2, <1>5
    <3> QED BY <3>1, <2>2, <1>1, <1>4 DEF TaskInv
  <2> QED BY <2>1, <2>2
<1>11. TaskInv(st, kind[t], origin[t], tool, None)
  BY <1>2, <1>3, <1>4, <1>9, <1>10 DEF TaskInv
<1>12. TasksNamed'
  BY <1>1, <1>6, <1>7, <1>11, TaskStep DEF TypeOK
<1> QED BY <1>6, <1>8, <1>12 DEF IInv, EventsNamed, EdgesAreReal

\* The calls from the i-th on are over: the token of the outermost of them is what the
\* variable held before, the tool below it or what the task was created with.
LEMMA UnwindKeeps ==
  ASSUME IInv, NEW t \in Tasks, NEW i \in 1..Depth(t), Unwind(t, i)
  PROVE  TasksNamed' /\ (recording' \subseteq Edges => TypeOK')
<1> DEFINE st == SubSeq(stack[t], 1, i - 1)
           how == IF i = 1 /\ kind[t] = "request" THEN "over" ELSE kind[t]
<1>1. TypeOK /\ TaskInv(stack[t], kind[t], origin[t], current[t], threaded[t]) /\ stack[t] \in Seq(Frames)
  BY DEF IInv, TasksNamed, TypeOK
<1>2. i \in 1..Len(stack[t]) /\ Len(stack[t]) \in Nat /\ stack[t] # <<>>
  BY <1>1, LenProperties, EmptySeq DEF Depth
<1>3. /\ st \in Seq(Frames) /\ Len(st) = i - 1
      /\ \A k \in 1..(i - 1) : st[k] = stack[t][k]
      /\ st = <<>> <=> i = 1
  BY <1>1, <1>2, Shortened
<1>4. stack' = [stack EXCEPT ![t] = st] /\ current' = [current EXCEPT ![t] = stack[t][i].token]
      /\ kind' = [kind EXCEPT ![t] = how] /\ UNCHANGED <<origin, threaded, events>>
  BY <1>1 DEF Unwind, TypeOK
<1>5. stack[t][i] \in Frames
  BY <1>1, <1>2, ElementOfSeq
<1>6. stack'[t] = st /\ current'[t] = stack[t][i].token /\ kind'[t] = how /\ threaded'[t] = threaded[t]
  BY <1>1, <1>4 DEF TypeOK
<1>7. recording' \subseteq Edges => TypeOK'
  BY <1>1, <1>3, <1>4, <1>5 DEF TypeOK, Frames
<1>8. FramesOf(st)
  BY <1>1, <1>2, <1>3 DEF TaskInv, FramesOf
<1>9. threaded[t] = None /\ kind[t] \in {"request", "spawned"}
  BY <1>1, <1>2 DEF TaskInv
<1>10. TaskInv(st, how, origin[t], stack[t][i].token, threaded[t])
  <2>1. CASE i = 1
    BY <2>1, <1>1, <1>2, <1>3, <1>8, <1>9 DEF TaskInv
  <2>2. CASE i # 1
    <3>1. i \in 2..Len(stack[t]) /\ Len(st) = i - 1 /\ i - 1 \in 1..(i - 1) /\ 1 \in 1..(i - 1)
      BY <2>2, <1>2, <1>3
    <3>2. stack[t][i].token = stack[t][i - 1].tool
      BY <3>1, <1>1 DEF TaskInv, FramesOf
    <3>3. st[Len(st)] = stack[t][i - 1] /\ st[1] = stack[t][1]
      BY <3>1, <1>3
    <3> QED BY <2>2, <3>2, <3>3, <1>1, <1>2, <1>3, <1>8, <1>9 DEF TaskInv
  <2> QED BY <2>1, <2>2
<1>11. TasksNamed'
  BY <1>1, <1>4, <1>6, <1>10, TaskStep DEF TypeOK
<1> QED BY <1>7, <1>11

\* The innermost call returns.
LEMMA ReturnKeeps ==
  ASSUME IInv, NEW t \in Tasks, Return(t)
  PROVE  IInv'
<1> DEFINE edge == [caller |-> Top(t).caller, callee |-> Top(t).tool, by |-> Top(t).by]
<1>1. Top(t) \in Frames /\ Depth(t) \in 1..Depth(t)
  BY TopIsFrame DEF IInv, Return
<1>2. Top(t).caller = Top(t).by
  BY <1>1 DEF IInv, TasksNamed, TaskInv, FramesOf, Top, Depth
<1>3. edge \in Edges /\ edge.caller = edge.by
  BY <1>1, <1>2 DEF Frames, Edges
<1>4. recording' \subseteq recording \cup {edge}
  BY DEF Return
<1>5. recording' \subseteq Edges /\ EdgesAreReal'
  BY <1>3, <1>4 DEF IInv, TypeOK, EdgesAreReal
<1>6. TypeOK' /\ TasksNamed'
  BY <1>1, <1>5, UnwindKeeps DEF Return
<1>7. EventsNamed'
  BY DEF IInv, EventsNamed, Return, Unwind
<1> QED BY <1>5, <1>6, <1>7 DEF IInv

\* A call raises, or takes the calls nested in it down.
LEMMA FailsKeeps ==
  ASSUME IInv, NEW t \in Tasks, NEW i \in 1..MaxDepth, Fails(t, i)
  PROVE  IInv'
<1>1. i \in 1..Depth(t) /\ Unwind(t, i) /\ recording' = recording
  BY DEF Fails
<1>2. recording' \subseteq Edges /\ EdgesAreReal'
  BY <1>1 DEF IInv, TypeOK, EdgesAreReal
<1>3. TypeOK' /\ TasksNamed'
  BY <1>1, <1>2, UnwindKeeps
<1>4. EventsNamed'
  BY <1>1 DEF IInv, EventsNamed, Unwind
<1> QED BY <1>2, <1>3, <1>4 DEF IInv

\* A tool starts a task, or a post to /execute, in its own name.
LEMMA ChildKeeps ==
  ASSUME IInv, NEW t \in Tasks, NEW u \in Tasks, NEW how \in {"request", "spawned"}, Running(u),
         Begin(t, how, Top(u).tool, current[u], None), UNCHANGED events
  PROVE  IInv'
<1>1. Top(u).tool \in ToolOrNone
  BY TopIsFrame DEF IInv, Frames, ToolOrNone
<1>2. current[u] = Top(u).tool
  BY DEF IInv, TasksNamed, TaskInv, Running, Top, Depth
<1>3. stack[t] = <<>>
  BY FreeIsIdle DEF Begin
<1> QED BY <1>1, <1>2, <1>3, BeginKeeps DEF ToolOrNone

\* An outside request, and the run of an event.
LEMMA ArrivalKeeps ==
  ASSUME IInv, NEW t \in Tasks, Request(t) \/ RunEvent(t)
  PROVE  IInv'
<1>1. stack[t] = <<>>
  BY FreeIsIdle DEF Request, RunEvent, Begin
<1>2. CASE Request(t)
  <2>1. Begin(t, "request", None, None, None) /\ events' \subseteq events
    BY <1>2 DEF Request
  <2> QED BY <1>1, <2>1, BeginKeeps DEF ToolOrNone
<1>3. CASE RunEvent(t)
  <2>1. PICK e \in events : Begin(t, "request", e.by, None, e.parent) /\ events' \in {events, events \ {e}}
    BY <1>3 DEF RunEvent
  <2>2. e.parent = e.by /\ e.by \in ToolOrNone
    BY <2>1 DEF IInv, EventsNamed, TypeOK, Events
  <2> QED BY <1>1, <2>1, <2>2, BeginKeeps DEF ToolOrNone
<1> QED BY <1>2, <1>3

\* A task is over.
LEMMA EndKeeps ==
  ASSUME IInv, NEW t \in Tasks, End(t)
  PROVE  IInv'
<1>1. TypeOK'
  BY DEF IInv, TypeOK, End, ToolOrNone
<1>2. \A u \in Tasks \ {t} : /\ stack'[u] = stack[u] /\ kind'[u] = kind[u] /\ origin'[u] = origin[u]
                             /\ current'[u] = current[u] /\ threaded'[u] = threaded[u]
  BY DEF IInv, TypeOK, End
<1>3. stack'[t] = <<>> /\ kind'[t] = "free" /\ FramesOf(stack[t])
  BY DEF IInv, TypeOK, End, Running, TasksNamed, TaskInv
<1>4. TaskInv(stack'[t], kind'[t], origin'[t], current'[t], threaded'[t])
  BY <1>3 DEF TaskInv, End
<1>5. \A u \in Tasks \ {t} : TaskInv(stack'[u], kind'[u], origin'[u], current'[u], threaded'[u])
  BY <1>2 DEF IInv, TasksNamed
<1> QED BY <1>1, <1>4, <1>5 DEF IInv, TasksNamed, EventsNamed, EdgesAreReal, End

\* The event carries the tool that had it fired.
LEMMA FireKeeps ==
  ASSUME IInv, NEW t \in Tasks, FireEvent(t)
  PROVE  IInv'
<1> DEFINE e == [parent |-> Top(t).caller, by |-> Top(t).by]
<1>1. Top(t) \in Frames /\ Depth(t) \in 1..Depth(t)
  BY TopIsFrame DEF IInv, FireEvent
<1>2. Top(t).caller = Top(t).by
  BY <1>1 DEF IInv, TasksNamed, TaskInv, FramesOf, Top, Depth
<1>3. e \in Events /\ e.parent = e.by /\ events' = events \cup {e}
  BY <1>1, <1>2 DEF Frames, Events, FireEvent
<1>4. TypeOK' /\ EventsNamed'
  BY <1>3 DEF IInv, TypeOK, EventsNamed, FireEvent
<1> QED BY <1>4 DEF IInv, TasksNamed, EdgesAreReal, FireEvent

\* An edge is written or its writing fails.
LEMMA RecordKeeps ==
  ASSUME IInv, RecordCallEdge
  PROVE  IInv'
<1>1. recording' \subseteq recording
  BY DEF RecordCallEdge
<1> QED BY <1>1 DEF IInv, TypeOK, TasksNamed, EventsNamed, EdgesAreReal, RecordCallEdge

\* Nothing happens.
LEMMA StutterKeeps ==
  ASSUME IInv, UNCHANGED vars
  PROVE  IInv'
BY DEF IInv, TypeOK, TasksNamed, EventsNamed, EdgesAreReal, vars

\* No task, no event and no edge at first.
LEMMA Initially == Init => IInv
<1> SUFFICES ASSUME Init PROVE IInv
  OBVIOUS
<1>1. TypeOK
  BY EmptySeq DEF Init, TypeOK, ToolOrNone
<1>2. ASSUME NEW t \in Tasks
      PROVE  TaskInv(stack[t], kind[t], origin[t], current[t], threaded[t])
  <2>1. stack[t] = <<>> /\ Len(stack[t]) = 0 /\ kind[t] = "free"
    BY DEF Init
  <2> QED BY <2>1 DEF TaskInv, FramesOf
<1> QED BY <1>1, <1>2 DEF IInv, TasksNamed, EventsNamed, EdgesAreReal, Init

-----------------------------------------------------------------------------

\* IInv is inductive and holds of every state.
THEOREM Invariance == Spec => []IInv
<1>1. ASSUME IInv, Next PROVE IInv'
  <2>1. ASSUME NEW t \in Tasks, Request(t) \/ RunEvent(t) PROVE IInv'
    BY <1>1, <2>1, ArrivalKeeps
  <2>2. ASSUME NEW t \in Tasks, End(t) PROVE IInv'
    BY <1>1, <2>2, EndKeeps
  <2>3. ASSUME NEW t \in Tasks, Return(t) PROVE IInv'
    BY <1>1, <2>3, ReturnKeeps
  <2>4. ASSUME NEW t \in Tasks, FireEvent(t) PROVE IInv'
    BY <1>1, <2>4, FireKeeps
  <2>5. ASSUME NEW t \in Tasks, NEW u \in Tasks, Execute(t, u) \/ Spawn(t, u) PROVE IInv'
    BY <1>1, <2>5, ChildKeeps DEF Execute, Spawn
  <2>6. ASSUME NEW t \in Tasks, NEW tool \in Tools, Call(t, tool) PROVE IInv'
    BY <1>1, <2>6, CallKeeps
  <2>7. ASSUME NEW t \in Tasks, NEW i \in 1..MaxDepth, Fails(t, i) PROVE IInv'
    BY <1>1, <2>7, FailsKeeps
  <2>8. ASSUME RecordCallEdge PROVE IInv'
    BY <1>1, <2>8, RecordKeeps
  <2> QED BY <1>1, <2>1, <2>2, <2>3, <2>4, <2>5, <2>6, <2>7, <2>8 DEF Next
<1>2. IInv /\ [Next]_vars => IInv'
  BY <1>1, StutterKeeps
<1> QED BY Initially, <1>2, PTL DEF Spec

\* Every variable of the tasks, events and edges keeps its type.
THEOREM TypeCorrect == Spec => []TypeOK
<1>1. IInv => TypeOK
  BY DEF IInv
<1> QED BY <1>1, Invariance, PTL

\* Every recorded edge names the tool that made the call, however calls are nested,
\* cancelled, started from tasks and events, for any number of them.
THEOREM EdgesReal == Spec => []EdgesAreReal
<1>1. IInv => EdgesAreReal
  BY DEF IInv
<1> QED BY <1>1, Invariance, PTL

\* No call that a tool made of another one returns without its edge.
THEOREM CallsSeen == Spec => EveryCallIsSeen
<1> DEFINE Seen == \A t \in Tasks : Running(t) /\ Return(t) /\ IsEdge(Top(t).by, Top(t).tool) =>
                      \E r \in recording' : r.by = Top(t).by /\ r.callee = Top(t).tool
<1>1. IInv => Seen
  <2> SUFFICES ASSUME IInv, NEW t \in Tasks, Running(t), Return(t), IsEdge(Top(t).by, Top(t).tool)
               PROVE  \E r \in recording' : r.by = Top(t).by /\ r.callee = Top(t).tool
    OBVIOUS
  <2> DEFINE edge == [caller |-> Top(t).caller, callee |-> Top(t).tool, by |-> Top(t).by]
  <2>1. Depth(t) \in 1..Depth(t)
    BY TopIsFrame DEF IInv
  <2>2. Top(t).caller = Top(t).by
    BY <2>1 DEF IInv, TasksNamed, TaskInv, FramesOf, Top, Depth
  <2>3. edge \in recording'
    BY <2>2 DEF Return
  <2> QED BY <2>3
<1>2. IInv => [Seen]_vars
  BY <1>1
<1> QED BY <1>2, Invariance, PTL DEF EveryCallIsSeen
=============================================================================
