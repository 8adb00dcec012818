-------------------------- MODULE InngestRunsProofs --------------------------
(***************************************************************************)
(* Theorems about InngestRuns, for any number of tables and rows, any      *)
(* batch size and any number of faults.                                    *)
(*                                                                         *)
(* First, what a body may ask for: whatever is memoised, the operations    *)
(* that a request still has to do are due -- a step is not memoised and    *)
(* what it follows is, a write tells what is memoised -- and the last of   *)
(* them ends the request.  Second, what holds between the requests: what   *)
(* the memoised answers say of the executions, the tables and the load     *)
(* jobs, and which executions and load jobs are owed to a fault.           *)
(***************************************************************************)
EXTENDS InngestRuns, WellFoundedInduction, SequenceTheorems, TLAPS

\* The least number of a set of numbers.
LEMMA MinOf ==
    ASSUME NEW S \in SUBSET Nat, S # {}
    PROVE  Min(S) \in S /\ \A y \in S : Min(S) <= y
<1> DEFINE less == {ss \in Nat \X Nat : ss[1] < ss[2]}
<1>1. IsWellFoundedOn(less, Nat)
  BY NatLessThanWellFounded DEF OpToRel
<1>2. PICK n \in S : \A m \in S : ~(<<m, n>> \in less)
  BY <1>1, WFMin
<1>3. ASSUME NEW m \in S PROVE n <= m
  <2>1. <<m, n>> \in Nat \X Nat /\ <<m, n>>[1] = m /\ <<m, n>>[2] = n
    OBVIOUS
  <2>2. m < n => <<m, n>> \in less
    BY <2>1
  <2>3. QED
    BY <1>2, <2>2
<1> QED BY <1>3 DEF Min

-----------------------------------------------------------------------------
(* What a request may still have to do.                                    *)

M == memo["main"]

OpKinds == {"insert", "update", "sched", "dispatch", "reconcile", "return", "raise"} \cup Steps
OpArgs  == Nat \cup {"pending", "running", "done", "error", "RUNNING", "SUCCESS", "UNKNOWN"}
Ops     == [op : OpKinds, arg : OpArgs]

\* The body ends with the first of these.
Final == {"return", "raise"} \cup Steps

AllAltered ==
    /\ Tables \in DOMAIN M
    /\ \A i \in 1..NumBatches(M[Tables]) : Batch(i) \in DOMAIN M /\ M[Batch(i)] = {}

ToolRan  == fn \in {"tool", "cron", "driver"} => RunTool \in DOMAIN M
Harvested == fn = "bq" => Harvest \in DOMAIN M

\* A step is asked for only when it is not memoised and what it follows is.
StepIsDue(o) ==
    /\ <<o.op, o.arg>> \notin DOMAIN M
    /\ o.op # "batch" => o.arg = 0
    /\ o.op \in {"get-table-list", "batch"} => fn = "db"
    /\ o.op = "batch" => Tables \in DOMAIN M /\ o.arg \in 1..NumBatches(M[Tables])
    /\ o.op = "run-tool" => fn \in {"tool", "cron", "vertex", "driver"}
    /\ o.op \in {"poll"} \cup Logs => fn = "vertex"
    /\ o.op = "log-completed" /\ event.given => RunTool \in DOMAIN M
    /\ o.op = "harvest" => Submit \in DOMAIN M

\* What is written is what is memoised.
OtherIsDue(o) ==
    /\ o.op = "insert" => o.arg \in Open /\ fn \in {"tool", "cron"}
    /\ o.op = "update" =>
          /\ fn \in {"tool", "cron"}
          /\ o.arg = "running" \/ (RunTool \in DOMAIN M /\ o.arg = Verdict(M[RunTool]))
    /\ o.op = "sched" =>
          /\ fn = "db" /\ o.arg \in {"RUNNING", "SUCCESS", "UNKNOWN"}
          /\ o.arg = "SUCCESS" => AllAltered
    /\ o.op = "dispatch" => fn = "trigger"
    /\ o.op = "return" => ToolRan /\ Harvested
    /\ o.op # "reconcile"

Due(r, o) ==
    /\ o \in Ops
    /\ r = "main" => IF o.op \in Steps THEN StepIsDue(o) ELSE OtherIsDue(o)
    /\ r # "main" => o.op \in {"reconcile", "return"}

AllDue(r, s) == s \in Seq(Ops) /\ \A i \in 1..Len(s) : Due(r, s[i])

Plan(r, s) == AllDue(r, s) /\ s # <<>> /\ s[Len(s)].op \in Final

\* What is memoised is an answer, and follows what it was asked after.
MemoisedAnswers ==
    /\ Tables \in DOMAIN M => M[Tables] \in 0..MaxTables
    /\ \A i \in Nat : Batch(i) \in DOMAIN M => Tables \in DOMAIN M
    /\ RunTool \in DOMAIN M => M[RunTool] \in {"ok", "error"}
    /\ Poll \in DOMAIN M => M[Poll] \in {"not a dict", "RUNNING", "FAILED", "SUCCEEDED"}

LEMMA OneDue ==
    ASSUME NEW r, NEW a, Due(r, a)
    PROVE  AllDue(r, <<a>>) /\ (a.op \in Final => Plan(r, <<a>>))
<1>1. <<a>> \in Seq(Ops) /\ Len(<<a>>) = 1 /\ <<a>>[1] = a
  BY DEF Due
<1>2. QED
  BY <1>1 DEF AllDue, Plan

LEMMA TwoDue ==
    ASSUME NEW r, NEW a, NEW b, Due(r, a), Due(r, b)
    PROVE  AllDue(r, <<a, b>>) /\ (b.op \in Final => Plan(r, <<a, b>>))
<1>1. <<a, b>> \in Seq(Ops) /\ Len(<<a, b>>) = 2 /\ <<a, b>>[1] = a /\ <<a, b>>[2] = b
  BY DEF Due
<1>2. \A i \in 1..2 : i = 1 \/ i = 2
  OBVIOUS
<1>3. QED
  BY <1>1, <1>2 DEF AllDue, Plan

LEMMA PlanConcat ==
    ASSUME NEW r, NEW a, NEW s, AllDue(r, a), Plan(r, s)
    PROVE  Plan(r, a \o s)
<1> DEFINE t == a \o s
<1>1. /\ a \in Seq(Ops) /\ s \in Seq(Ops) /\ Len(a) \in Nat /\ Len(s) \in Nat \ {0}
      /\ \A i \in 1..Len(a) : Due(r, a[i])
      /\ \A i \in 1..Len(s) : Due(r, s[i])
      /\ s[Len(s)].op \in Final
  BY EmptySeq, LenProperties DEF Plan, AllDue
<1>2. /\ t \in Seq(Ops) /\ Len(t) = Len(a) + Len(s)
      /\ \A i \in 1..(Len(a) + Len(s)) : t[i] = IF i <= Len(a) THEN a[i] ELSE s[i - Len(a)]
  BY <1>1, ConcatProperties
<1> HIDE DEF t
<1>3. ASSUME NEW i \in 1..Len(t) PROVE Due(r, t[i])
  <2>0. t[i] = IF i <= Len(a) THEN a[i] ELSE s[i - Len(a)]
    BY <1>2
  <2>1. CASE i <= Len(a)
    <3>1. i \in 1..Len(a)
      BY <1>1, <1>2, <2>1
    <3>2. QED
      BY <1>1, <2>0, <2>1, <3>1
  <2>2. CASE ~(i <= Len(a))
    <3>1. i - Len(a) \in 1..Len(s)
      BY <1>1, <1>2, <2>2
    <3>2. QED
      BY <1>1, <2>0, <2>2, <3>1
  <2>3. QED
    BY <2>1, <2>2
<1>4. t # <<>>
  BY <1>1, <1>2, EmptySeq
<1>5. t[Len(t)] = s[Len(s)]
  <2>1. Len(t) \in 1..(Len(a) + Len(s)) /\ ~(Len(t) <= Len(a)) /\ Len(t) - Len(a) = Len(s)
    BY <1>1, <1>2
  <2>2. QED
    BY <1>2, <2>1
<1>6. QED
  BY <1>1, <1>2, <1>3, <1>4, <1>5 DEF Plan, AllDue, t

\* The operation under way, and what is left after it.
LEMMA PlanTail ==
    ASSUME NEW r, NEW s, Plan(r, s)
    PROVE  /\ Due(r, Head(s))
           /\ Head(s).op \notin Final => Plan(r, Tail(s))
<1>1. /\ s \in Seq(Ops) /\ Len(s) \in Nat \ {0} /\ s # <<>>
      /\ \A i \in 1..Len(s) : Due(r, s[i])
      /\ s[Len(s)].op \in Final
  BY EmptySeq, LenProperties DEF Plan, AllDue
<1>2. /\ Head(s) = s[1] /\ Tail(s) \in Seq(Ops) /\ Len(Tail(s)) = Len(s) - 1
      /\ \A i \in 1..Len(Tail(s)) : Tail(s)[i] = s[i + 1]
  BY <1>1, HeadTailProperties
<1>3. Due(r, Head(s))
  BY <1>1, <1>2
<1>4. ASSUME Head(s).op \notin Final PROVE Plan(r, Tail(s))
  <2>1. Len(s) # 1
    BY <1>1, <1>2, <1>4
  <2>2. Len(Tail(s)) \in Nat \ {0} /\ Tail(s) # <<>>
    <3>1. Len(Tail(s)) \in Nat \ {0}
      BY <1>1, <1>2, <2>1
    <3>2. QED
      BY <3>1, <1>2, EmptySeq
  <2>3. \A i \in 1..Len(Tail(s)) : i + 1 \in 1..Len(s)
    BY <1>1, <1>2
  <2>4. \A i \in 1..Len(Tail(s)) : Due(r, Tail(s)[i])
    BY <1>1, <1>2, <2>3
  <2>5. Tail(s)[Len(Tail(s))] = s[Len(s)]
    BY <1>1, <1>2, <2>2
  <2>6. QED
    BY <1>1, <1>2, <2>2, <2>4, <2>5 DEF Plan, AllDue
<1>5. QED
  BY <1>3, <1>4

\* The first step that is not memoised, or what follows them all.
LEMMA DurablyPlan ==
    ASSUME NEW n \in Nat, NEW steps, DOMAIN steps = 1..n, NEW after,
           (\A i \in 1..n : steps[i] \in DOMAIN M) => Plan("main", after),
           \A i \in 1..n : (steps[i] \notin DOMAIN M /\ \A j \in 1..(i - 1) : steps[j] \in DOMAIN M)
                            => Due("main", Step(steps[i])) /\ steps[i][1] \in Steps
    PROVE  Plan("main", Durably(steps, M, after))
<1> DEFINE left == {i \in 1..n : steps[i] \notin DOMAIN M}
           d    == Durably(steps, M, after)
<1>1. d = IF left = {} THEN after ELSE <<Step(steps[Min(left)])>>
  BY DEF Durably
<1>2. CASE left = {}
  BY <1>1, <1>2
<1>3. CASE left # {}
  <2>1. Min(left) \in left /\ \A y \in left : Min(left) <= y
    BY <1>3, MinOf
  <2> DEFINE i == Min(left)
  <2>2. i \in 1..n /\ steps[i] \notin DOMAIN M
    BY <2>1
  <2>3. \A j \in 1..(i - 1) : steps[j] \in DOMAIN M
    <3> SUFFICES ASSUME NEW j \in 1..(i - 1), steps[j] \notin DOMAIN M PROVE FALSE
      OBVIOUS
    <3>1. j \in 1..n /\ j < i
      BY <2>2
    <3>2. j \in left
      BY <3>1
    <3> HIDE DEF left
    <3>3. QED
      BY <2>1, <2>2, <3>1, <3>2
  <2> HIDE DEF i, left
  <2>4. Due("main", Step(steps[i])) /\ steps[i][1] \in Steps
    BY <2>2, <2>3
  <2>5. Step(steps[i]).op \in Final
    BY <2>4 DEF Final, Step, Op
  <2>6. QED
    BY <1>1, <1>3, <2>4, <2>5, OneDue DEF i
<1>4. QED
  BY <1>2, <1>3

\* The operations of the bodies that are due whatever is memoised, or with the tool's result.
LEMMA AlwaysDue ==
    /\ Due("main", Raise) /\ Raise.op \in Final
    /\ Return.op \in Final
    /\ ToolRan /\ Harvested => Due("main", Return)
    /\ fn = "db" => Due("main", Sched("RUNNING")) /\ Due("main", Sched("UNKNOWN"))
    /\ fn = "db" /\ AllAltered => Due("main", Sched("SUCCESS"))
    /\ fn \in {"tool", "cron"} =>
          /\ Due("main", Insert("pending")) /\ Due("main", Insert("running"))
          /\ Due("main", Update("running"))
          /\ RunTool \in DOMAIN M => Due("main", Update(Verdict(M[RunTool])))
    /\ fn = "trigger" => Due("main", Op("dispatch", 0))
<1> USE DEF Due, OtherIsDue, Ops, OpKinds, OpArgs, Op, Steps, Logs, Final
<1>1. Due("main", Raise) /\ Raise.op \in Final
  BY DEF Raise
<1>2. Return.op \in Final /\ (ToolRan /\ Harvested => Due("main", Return))
  BY DEF Return
<1>3. fn = "db" => Due("main", Sched("RUNNING")) /\ Due("main", Sched("UNKNOWN"))
  BY DEF Sched
<1>4. fn = "db" /\ AllAltered => Due("main", Sched("SUCCESS"))
  BY DEF Sched
<1>5. ASSUME fn \in {"tool", "cron"}
      PROVE  Due("main", Insert("pending")) /\ Due("main", Insert("running")) /\ Due("main", Update("running"))
  BY <1>5 DEF Insert, Update, Open
<1>6. ASSUME fn \in {"tool", "cron"}, RunTool \in DOMAIN M PROVE Due("main", Update(Verdict(M[RunTool])))
  <2>1. Verdict(M[RunTool]) \in OpArgs
    BY DEF Verdict
  <2> DEFINE v == Verdict(M[RunTool])
  <2> HIDE DEF v, OpArgs
  <2>2. QED
    BY <2>1, <1>6 DEF Update, v
<1>7. fn = "trigger" => Due("main", Op("dispatch", 0))
  OBVIOUS
<1>8. QED
  BY <1>1, <1>2, <1>3, <1>4, <1>5, <1>6, <1>7

\* A step not memoised is due.
LEMMA StepDue ==
    ASSUME NEW k \in Steps, NEW a \in Nat, <<k, a>> \notin DOMAIN M,
           k # "batch" => a = 0,
           k \in {"get-table-list", "batch"} => fn = "db",
           k = "batch" => Tables \in DOMAIN M /\ a \in 1..NumBatches(M[Tables]),
           k = "run-tool" => fn \in {"tool", "cron", "vertex", "driver"},
           k \in {"poll"} \cup Logs => fn = "vertex",
           k = "log-completed" /\ event.given => RunTool \in DOMAIN M,
           k = "harvest" => Submit \in DOMAIN M
    PROVE  Due("main", Step(<<k, a>>)) /\ <<k, a>>[1] \in Steps
<1>1. Step(<<k, a>>) = [op |-> k, arg |-> a]
  BY DEF Step, Op
<1>2. [op |-> k, arg |-> a] \in Ops
  BY DEF Ops, OpKinds, OpArgs
<1>3. QED
  BY <1>1, <1>2 DEF Due, StepIsDue

LEMMA DurablyOne ==
    ASSUME NEW a, NEW after,
           a \in DOMAIN M => Plan("main", after),
           a \notin DOMAIN M => Due("main", Step(a)) /\ a[1] \in Steps
    PROVE  Plan("main", Durably(<<a>>, M, after))
<1> DEFINE steps == <<a>>
<1>1. DOMAIN steps = 1..1 /\ steps[1] = a
  OBVIOUS
<1> HIDE DEF steps
<1>2. \A i \in 1..1 : steps[i] \notin DOMAIN M => Due("main", Step(steps[i])) /\ steps[i][1] \in Steps
  BY <1>1
<1>3. (\A i \in 1..1 : steps[i] \in DOMAIN M) => Plan("main", after)
  BY <1>1
<1>4. Plan("main", Durably(steps, M, after))
  BY <1>1, <1>2, <1>3, DurablyPlan
<1>5. QED
  BY <1>4 DEF steps

LEMMA DurablyTwo ==
    ASSUME NEW a, NEW b, NEW after,
           a \in DOMAIN M /\ b \in DOMAIN M => Plan("main", after),
           a \notin DOMAIN M => Due("main", Step(a)) /\ a[1] \in Steps,
           a \in DOMAIN M /\ b \notin DOMAIN M => Due("main", Step(b)) /\ b[1] \in Steps
    PROVE  Plan("main", Durably(<<a, b>>, M, after))
<1> DEFINE steps == <<a, b>>
<1>1. DOMAIN steps = 1..2 /\ steps[1] = a /\ steps[2] = b
  OBVIOUS
<1> HIDE DEF steps
<1>2. ASSUME NEW i \in 1..2, steps[i] \notin DOMAIN M, \A j \in 1..(i - 1) : steps[j] \in DOMAIN M
      PROVE  Due("main", Step(steps[i])) /\ steps[i][1] \in Steps
  <2>1. i = 1 \/ (i = 2 /\ 1 \in 1..(i - 1))
    OBVIOUS
  <2>2. QED
    BY <1>1, <1>2, <2>1
<1>3. (\A i \in 1..2 : steps[i] \in DOMAIN M) => Plan("main", after)
  BY <1>1
<1>4. Plan("main", Durably(steps, M, after))
  BY <1>1, <1>2, <1>3, DurablyPlan
<1>5. QED
  BY <1>4 DEF steps

LEMMA RunToolPlan ==
    ASSUME NEW after, RunTool \in DOMAIN M => Plan("main", after),
           fn \in {"tool", "cron", "driver"}
    PROVE  Plan("main", Durably(<<RunTool>>, M, after))
<1>1. RunTool \notin DOMAIN M => Due("main", Step(RunTool)) /\ RunTool[1] \in Steps
  BY StepDue DEF RunTool, Steps, Logs
<1>2. QED
  BY <1>1, DurablyOne

LEMMA ToolBodies ==
    ASSUME fn \in {"tool", "cron"}
    PROVE  Plan("main", IqEventDispatcher(M)) /\ Plan("main", DynamicCron(M))
<1> DEFINE end  == <<Update(Verdict(M[RunTool])), Return>>
           tool == Durably(<<RunTool>>, M, end)
<1>1. RunTool \in DOMAIN M => Plan("main", end)
  BY AlwaysDue, TwoDue DEF ToolRan, Harvested
<1> HIDE DEF end
<1>2. Plan("main", tool)
  BY <1>1, RunToolPlan
<1> HIDE DEF tool
<1>3. Plan("main", <<Insert("running")>> \o tool)
  BY <1>2, AlwaysDue, OneDue, PlanConcat
<1>4. DynamicCron(M) = <<Insert("running")>> \o tool
  BY DEF DynamicCron, tool, end
<1>5. Plan("main", IqEventDispatcher(M))
  <2>1. CASE ~event.valid
    BY <2>1, AlwaysDue, OneDue DEF IqEventDispatcher
  <2>2. CASE event.valid /\ event.given
    <3>1. Plan("main", <<Update("running")>> \o tool)
      BY <1>2, AlwaysDue, OneDue, PlanConcat
    <3>2. QED
      BY <2>2, <3>1 DEF IqEventDispatcher, tool, end
  <2>3. CASE event.valid /\ ~event.given
    <3>1. Plan("main", <<Insert("pending"), Update("running")>> \o tool)
      BY <1>2, AlwaysDue, TwoDue, PlanConcat
    <3>2. QED
      BY <2>3, <3>1 DEF IqEventDispatcher, tool, end
  <2>4. QED
    BY <2>1, <2>2, <2>3
<1>6. QED
  BY <1>3, <1>4, <1>5

LEMMA DriverBody ==
    ASSUME fn = "driver"
    PROVE  Plan("main", PlatformCronDriver(M))
<1>1. RunTool \in DOMAIN M => Plan("main", <<Return>>)
  BY AlwaysDue, OneDue DEF ToolRan, Harvested
<1>2. QED
  BY <1>1, RunToolPlan DEF PlatformCronDriver

LEMMA TriggerBody ==
    ASSUME fn = "trigger"
    PROVE  Plan("main", DynamicEventTrigger(M))
BY AlwaysDue, TwoDue DEF DynamicEventTrigger, ToolRan, Harvested

LEMMA BqBody ==
    ASSUME fn = "bq"
    PROVE  Plan("main", BqDrSyncTable(M))
<1> DEFINE steps == <<Submit, WaitForBq, Harvest>>
<1>1. DOMAIN steps = 1..3 /\ steps[1] = Submit /\ steps[2] = WaitForBq /\ steps[3] = Harvest
  OBVIOUS
<1>2. Harvest \in DOMAIN M => Plan("main", <<Return>>)
  BY AlwaysDue, OneDue DEF ToolRan, Harvested
<1>3. Submit \notin DOMAIN M => Due("main", Step(Submit)) /\ Submit[1] \in Steps
  BY StepDue DEF Submit, Steps, Logs
<1>4. WaitForBq \notin DOMAIN M => Due("main", Step(WaitForBq)) /\ WaitForBq[1] \in Steps
  BY StepDue DEF WaitForBq, Steps, Logs
<1>5. Harvest \notin DOMAIN M /\ Submit \in DOMAIN M => Due("main", Step(Harvest)) /\ Harvest[1] \in Steps
  BY StepDue DEF Harvest, Steps, Logs
<1> HIDE DEF steps
<1>6. ASSUME NEW i \in 1..3, steps[i] \notin DOMAIN M, \A j \in 1..(i - 1) : steps[j] \in DOMAIN M
      PROVE  Due("main", Step(steps[i])) /\ steps[i][1] \in Steps
  <2>1. i = 1 \/ i = 2 \/ (i = 3 /\ 1 \in 1..(i - 1))
    OBVIOUS
  <2>2. QED
    BY <1>1, <1>3, <1>4, <1>5, <1>6, <2>1
<1>7. (\A i \in 1..3 : steps[i] \in DOMAIN M) => Plan("main", <<Return>>)
  BY <1>1, <1>2
<1>8. Plan("main", Durably(steps, M, <<Return>>))
  BY <1>1, <1>6, <1>7, DurablyPlan
<1>9. QED
  BY <1>8, AlwaysDue, OneDue DEF BqDrSyncTable, steps

LEMMA VertexBody ==
    ASSUME fn = "vertex", MemoisedAnswers
    PROVE  Plan("main", VertexMonitor(M))
<1> DEFINE callback == IF event.given THEN <<RunTool, LogCompleted>> ELSE <<LogCompleted>>
           finale == CASE M[Poll] = "RUNNING"   -> <<Raise>>
                       [] M[Poll] = "FAILED"    -> Durably(<<LogFailed>>, M, <<Return>>)
                       [] M[Poll] = "SUCCEEDED" -> Durably(callback, M, <<Return>>)
           polled == IF M[Poll] = "not a dict" THEN <<Raise>> ELSE Durably(<<LogPoll>>, M, finale)
<1>1. Plan("main", <<Raise>>) /\ Plan("main", <<Return>>)
  BY AlwaysDue, OneDue DEF ToolRan, Harvested
<1>2. Plan("main", Durably(<<LogFailed>>, M, <<Return>>))
  <2>1. LogFailed \notin DOMAIN M => Due("main", Step(LogFailed)) /\ LogFailed[1] \in Steps
    BY StepDue DEF LogFailed, Steps, Logs
  <2>2. QED
    BY <1>1, <2>1, DurablyOne
<1>3. Plan("main", Durably(callback, M, <<Return>>))
  <2>1. RunTool \notin DOMAIN M => Due("main", Step(RunTool)) /\ RunTool[1] \in Steps
    BY StepDue DEF RunTool, Steps, Logs
  <2>2. LogCompleted \notin DOMAIN M /\ (event.given => RunTool \in DOMAIN M)
          => Due("main", Step(LogCompleted)) /\ LogCompleted[1] \in Steps
    BY StepDue DEF LogCompleted, Steps, Logs
  <2>3. CASE event.given
    BY <1>1, <2>1, <2>2, <2>3, DurablyTwo
  <2>4. CASE ~event.given
    BY <1>1, <2>2, <2>4, DurablyOne
  <2>5. QED
    BY <2>3, <2>4
<1> HIDE DEF callback
<1>4. ASSUME Poll \in DOMAIN M PROVE Plan("main", polled)
  <2>1. CASE M[Poll] = "not a dict"
    BY <1>1, <2>1
  <2>2. CASE M[Poll] # "not a dict"
    <3>1. M[Poll] = "RUNNING" \/ M[Poll] = "FAILED" \/ M[Poll] = "SUCCEEDED"
      BY <1>4, <2>2 DEF MemoisedAnswers
    <3>2. Plan("main", finale)
      BY <1>1, <1>2, <1>3, <3>1
    <3>3. LogPoll \notin DOMAIN M => Due("main", Step(LogPoll)) /\ LogPoll[1] \in Steps
      BY StepDue DEF LogPoll, Steps, Logs
    <3> HIDE DEF finale
    <3>4. QED
      BY <2>2, <3>2, <3>3, DurablyOne
  <2>3. QED
    BY <2>1, <2>2
<1>5. Plan("main", Durably(<<LogStarted, Poll>>, M, polled))
  <2>1. LogStarted \notin DOMAIN M => Due("main", Step(LogStarted)) /\ LogStarted[1] \in Steps
    BY StepDue DEF LogStarted, Steps, Logs
  <2>2. Poll \notin DOMAIN M => Due("main", Step(Poll)) /\ Poll[1] \in Steps
    BY StepDue DEF Poll, Steps, Logs
  <2> HIDE DEF polled
  <2>3. QED
    BY <1>4, <2>1, <2>2, DurablyTwo
<1>6. VertexMonitor(M) = IF ~event.valid THEN <<Raise>> ELSE Durably(<<LogStarted, Poll>>, M, polled)
  BY DEF VertexMonitor, callback
<1> HIDE DEF polled
<1>7. QED
  BY <1>1, <1>5, <1>6

\* The batches are numbered from one, and each table is in one of them.
LEMMA Batches ==
    ASSUME NEW n \in Nat
    PROVE  /\ NumBatches(n) \in Nat
           /\ \A t \in 1..n : \E i \in 1..NumBatches(n) : t \in TablesOf(i, n)
<1> DEFINE B == BatchSize
           N == NumBatches(n)
<1>1. B \in Nat \ {0}
  BY SizesAssumption
<1>2. N = (n + B - 1) \div B
  BY DEF NumBatches
<1> HIDE DEF B, N
<1>3. N \in Nat
  BY <1>1, <1>2
<1>4. ASSUME NEW t \in 1..n PROVE (t - 1) \div B + 1 \in 1..N
  BY <1>1, <1>2, <1>3
<1>5. ASSUME NEW t \in 1..n PROVE \E i \in 1..N : t \in TablesOf(i, n)
  <2> DEFINE d == (t - 1) \div B
  <2>1. d \in Nat
    BY <1>1
  <2> HIDE DEF d
  <2>2. d + 1 \in 1..N /\ (d + 1) - 1 = d
    BY <1>4, <2>1 DEF d
  <2>3. t \in TablesOf(d + 1, n)
    BY <2>2 DEF TablesOf, d, B
  <2>4. QED
    BY <2>2, <2>3
<1>6. QED
  BY <1>3, <1>5 DEF N

LEMMA DbBody ==
    ASSUME fn = "db", MemoisedAnswers
    PROVE  Plan("main", DbOperations(M))
<1> DEFINE N == NumBatches(M[Tables])
           batches == IF Tables \in DOMAIN M THEN [i \in 1..N |-> Batch(i)] ELSE <<>>
           after == <<Sched(IF Errors(M) = {} THEN "SUCCESS" ELSE "UNKNOWN"), Return>>
           steps == <<Tables>> \o batches
           rest == IF ~event.valid THEN <<Raise>> ELSE Durably(steps, M, after)
<1>1. ASSUME Tables \in DOMAIN M PROVE N \in Nat
  <2>0. M[Tables] \in 0..MaxTables
    BY <1>1 DEF MemoisedAnswers
  <2>1. M[Tables] \in Nat
    BY <2>0, SizesAssumption
  <2>2. QED
    BY <2>1, Batches
<1>2. ASSUME Tables \in DOMAIN M, \A i \in 1..N : Batch(i) \in DOMAIN M PROVE Plan("main", after)
  <2>1. ASSUME Errors(M) = {} PROVE AllAltered
    BY <1>2, <2>1 DEF Errors, AllAltered
  <2>2. Due("main", Return)
    BY AlwaysDue DEF ToolRan, Harvested
  <2>3. Due("main", Sched(IF Errors(M) = {} THEN "SUCCESS" ELSE "UNKNOWN"))
    BY <2>1, AlwaysDue
  <2>4. QED
    BY <2>2, <2>3, AlwaysDue, TwoDue
<1>3. Tables \notin DOMAIN M => Due("main", Step(Tables)) /\ Tables[1] \in Steps
  BY StepDue DEF Tables, Steps, Logs
<1>4. ASSUME Tables \in DOMAIN M, NEW i \in 1..N, Batch(i) \notin DOMAIN M
      PROVE  Due("main", Step(Batch(i))) /\ Batch(i)[1] \in Steps
  BY <1>1, <1>4, StepDue DEF Batch, Steps, Logs
<1> HIDE DEF N, after
<1>5. Plan("main", Durably(steps, M, after))
  <2>1. CASE Tables \notin DOMAIN M
    <3> DEFINE S     == {Tables}
               first == <<Tables>>
               none  == <<>>
    <3>1. steps = first \o none
      BY <2>1
    <3>2. first \in Seq(S) /\ none \in Seq(S) /\ Len(none) = 0 /\ Len(first) = 1 /\ first[1] = Tables
      BY EmptySeq
    <3> HIDE DEF S, first, none, steps
    <3>a. /\ steps \in Seq(S) /\ Len(steps) = 1
          /\ \A i \in 1..(Len(first) + Len(none)) :
                steps[i] = IF i <= Len(first) THEN first[i] ELSE none[i - Len(first)]
      BY <3>1, <3>2, ConcatProperties
    <3>3. steps \in Seq(S) /\ Len(steps) = 1 /\ steps[1] = Tables
      BY <3>2, <3>a
    <3>4. DOMAIN steps = 1..1
      BY <3>3, LenProperties
    <3>5. QED
      BY <1>3, <2>1, <3>3, <3>4, DurablyPlan
  <2>2. CASE Tables \in DOMAIN M
    <3> DEFINE S == {Tables} \cup {Batch(i) : i \in 1..N}
               b == [i \in 1..N |-> Batch(i)]
               first == <<Tables>>
    <3>1. steps = first \o b
      BY <2>2
    <3>2. N \in Nat
      BY <1>1, <2>2
    <3>3. b \in Seq(S) /\ Len(b) = N /\ \A i \in 1..N : b[i] = Batch(i)
      <4>1. b \in [1..N -> S]
        OBVIOUS
      <4> HIDE DEF b, S
      <4>2. b \in Seq(S)
        BY <3>2, <4>1, SeqDef
      <4>3. QED
        BY <3>2, <4>1, <4>2, LenProperties DEF b
    <3>4. first \in Seq(S) /\ Len(first) = 1 /\ first[1] = Tables
      OBVIOUS
    <3> HIDE DEF b, S, first, steps
    <3>a. /\ steps \in Seq(S) /\ Len(steps) = Len(first) + Len(b)
          /\ \A i \in 1..(Len(first) + Len(b)) :
                steps[i] = IF i <= Len(first) THEN first[i] ELSE b[i - Len(first)]
      BY <3>1, <3>3, <3>4, ConcatProperties
    <3>5. /\ steps \in Seq(S) /\ Len(steps) = 1 + N
          /\ \A i \in 1..(1 + N) : steps[i] = IF i <= 1 THEN first[i] ELSE b[i - 1]
      BY <3>3, <3>4, <3>a
    <3>6. DOMAIN steps = 1..(1 + N) /\ 1 + N \in Nat
      BY <3>2, <3>5, LenProperties
    <3>7. steps[1] = Tables
      BY <3>2, <3>4, <3>5
    <3>8. \A i \in 1..N : i + 1 \in 1..(1 + N) /\ steps[i + 1] = Batch(i)
      BY <3>2, <3>3, <3>5
    <3>9. ASSUME NEW i \in 1..(1 + N), steps[i] \notin DOMAIN M
          PROVE  Due("main", Step(steps[i])) /\ steps[i][1] \in Steps
      <4>1. i # 1
        BY <2>2, <3>7, <3>9
      <4>2. i - 1 \in 1..N /\ (i - 1) + 1 = i
        BY <3>2, <4>1
      <4>3. QED
        BY <1>4, <2>2, <3>8, <3>9, <4>2
    <3>10. (\A i \in 1..(1 + N) : steps[i] \in DOMAIN M) => Plan("main", after)
      BY <1>2, <2>2, <3>8
    <3>11. QED
      BY <3>6, <3>9, <3>10, DurablyPlan
  <2>3. QED
    BY <2>1, <2>2
<1> HIDE DEF steps
<1>6. Plan("main", rest)
  BY <1>5, AlwaysDue, OneDue
<1> HIDE DEF rest
<1>7. Plan("main", <<Sched("RUNNING")>> \o rest)
  BY <1>6, AlwaysDue, OneDue, PlanConcat
<1>8. QED
  BY <1>7 DEF DbOperations, rest, steps, batches, after, N

LEMMA BodyPlan ==
    ASSUME NEW r \in Runs, fn \in Functions, MemoisedAnswers
    PROVE  Plan(r, Body(r))
<1>1. CASE r = "main"
  BY <1>1, DbBody, ToolBodies, VertexBody, DriverBody, TriggerBody, BqBody
     DEF Body, Function, Functions, M
<1>2. CASE r = "handler"
  <2>1. Due(r, Op("reconcile", 0)) /\ Due(r, Return) /\ Return.op \in Final
    BY <1>2 DEF Due, Op, Return, Ops, OpKinds, OpArgs, Final
  <2>2. QED
    BY <1>2, <2>1, TwoDue DEF Body, Function, Lifecycle
<1>3. QED
  BY <1>1, <1>2 DEF Runs

-----------------------------------------------------------------------------
(* The invariant.                                                          *)

LoadJobs  == [exported : 0..MaxRows, state : {"RUNNING", "DONE", "ERROR"}, loaded : 0..MaxRows]
NoVerdict == {"no row", "pending"}
RowStates == NoVerdict \cup {"ok", "row_mismatch", "failed"}

RunShapes ==
    /\ memo = [r \in Runs |-> memo[r]]
    /\ todo = [r \in Runs |-> todo[r]]
    /\ attempt \in [Runs -> Nat]
    /\ loads \in Seq(LoadJobs) /\ drjobs \in Seq(RowStates) /\ Len(drjobs) = Len(loads)

\* What a request still has to do is due, and there is something as long as it lasts.
Plans == \A r \in Runs : IF pc[r] = "requested" THEN Plan(r, todo[r]) ELSE todo[r] = <<>>

\* The handler starts after the run.
Ordering ==
    /\ pc["main"] # "absent"
    /\ pc["handler"] # "absent" => pc["main"] \in {"returned", "failed"}
    /\ pc["main"] = "returned" => ToolRan /\ Harvested
    /\ job # {} => fn \in {"tool", "cron"}

\* An event trigger has dispatched its tool in this request.
Fired == pc["main"] = "returned" \/ (pc["main"] = "requested" /\ Current("main").op = "return")

\* The executions that no fault accounts for.
Owed == IF fn = "trigger" THEN (IF Fired THEN 1 ELSE 0) ELSE (IF RunTool \in DOMAIN M THEN 1 ELSE 0)

Executions ==
    /\ fn = "trigger" /\ pc["main"] = "requested" =>
           todo["main"] \in {<<Op("dispatch", 0), Return>>, <<Return>>}
    /\ execs <= faults + Owed
    /\ (fn = "trigger" /\ Fired) \/ RunTool \in DOMAIN M => execs >= 1
    /\ fn = "vertex" /\ sched = "SUCCESS" /\ event.given => RunTool \in DOMAIN M

\* A memoised batch names the tables it has not altered.
Altered == \A i \in Nat : Batch(i) \in DOMAIN M => TablesOf(i, M[Tables]) \ M[Batch(i)] \subseteq applied

\* The memoised load job is there, and has ended when its row has a verdict.
LoadBooks ==
    /\ Len(loads) <= faults + (IF Submit \in DOMAIN M THEN 1 ELSE 0)
    /\ Submit \in DOMAIN M => M[Submit] \in 1..Len(loads)
    /\ Harvest \in DOMAIN M => Submit \in DOMAIN M /\ drjobs[M[Submit]] \notin NoVerdict
    /\ \A j \in 1..Len(loads) : drjobs[j] \notin NoVerdict =>
           /\ Submit \in DOMAIN M /\ j = M[Submit]
           /\ loads[j].state # "RUNNING" /\ drjobs[j] = HarvestVerdict(loads[j])

RunsInv == /\ TypeOK /\ RunShapes /\ Plans /\ MemoisedAnswers
           /\ Ordering /\ RowTellsOutcome /\ Executions
           /\ Altered /\ SuccessIsComplete /\ LoadBooks

LEMMA RetriesNat == fn \in Functions => \A r \in Runs : Retries[Function(r)] \in Nat
BY DEF Functions, Function, Retries

LEMMA InitRunsInv == Init => RunsInv
<1> SUFFICES ASSUME Init PROVE RunsInv
  OBVIOUS
<1>1. M = <<>> /\ DOMAIN M = {} /\ loads = <<>> /\ Len(loads) = 0 /\ DOMAIN loads = {}
  BY EmptySeq DEF Init, M, Runs
<1>2. job \subseteq Open /\ (job # {} => fn = "tool")
  BY DEF Init, Open
<1>3. TypeOK
  <2>1. \A r \in Runs : Retries[Function(r)] \in Nat
    BY RetriesNat DEF Init
  <2>2. \A r \in Runs : attempt[r] \in 0..Retries[Function(r)]
    BY <2>1 DEF Init
  <2>3. table \in 0..MaxRows /\ latest \in 0..MaxRows
    BY SizesAssumption DEF Init
  <2>4. drjobs \in [DOMAIN loads -> {"no row", "pending", "ok", "row_mismatch", "failed"}]
    BY <1>1 DEF Init
  <2>5. faults \in 0..MaxFaults
    BY SizesAssumption DEF Init
  <2>6. QED
    BY <1>1, <1>2, <2>2, <2>3, <2>4, <2>5 DEF Init, TypeOK, Runs
<1>4. RunShapes
  <2>1. attempt \in [Runs -> Nat]
    BY DEF Init
  <2>2. loads \in Seq(LoadJobs) /\ drjobs \in Seq(RowStates) /\ Len(drjobs) = Len(loads)
    BY EmptySeq DEF Init
  <2>3. QED
    BY <2>1, <2>2 DEF Init, RunShapes
<1>5. Plans
  BY DEF Init, Plans, Runs
<1>6. MemoisedAnswers /\ Altered /\ LoadBooks
  BY <1>1, SizesAssumption DEF Init, MemoisedAnswers, Altered, LoadBooks
<1>7. Ordering
  BY <1>2 DEF Init, Ordering, Runs
<1>8. RowTellsOutcome /\ SuccessIsComplete
  BY <1>2 DEF Init, RowTellsOutcome, SuccessIsComplete, Open
<1>9. Executions
  BY <1>1, SizesAssumption DEF Init, Executions, Owed, Fired, Runs
<1>10. QED
  BY <1>3, <1>4, <1>5, <1>6, <1>7, <1>8, <1>9 DEF RunsInv

\* The operation under way is due; the handler has no steps.
LEMMA UnderWay ==
    ASSUME RunsInv, NEW r \in Runs, pc[r] = "requested"
    PROVE  /\ Due(r, Current(r)) /\ Current(r).op \in OpKinds
           /\ Current(r).op \notin Final => Plan(r, Tail(todo[r]))
           /\ Current(r).op \in Steps => r = "main" /\ StepIsDue(Current(r))
           /\ Current(r).op \notin Steps /\ r = "main" => OtherIsDue(Current(r))
           /\ r # "main" => Current(r).op \in {"reconcile", "return"}
<1>1. Plan(r, todo[r])
  BY DEF RunsInv, Plans
<1>2. Due(r, Current(r)) /\ (Current(r).op \notin Final => Plan(r, Tail(todo[r])))
  BY <1>1, PlanTail DEF Current
<1>3. Current(r).op \in OpKinds
  BY <1>2 DEF Due, Ops
<1>4. QED
  BY <1>2, <1>3 DEF Due, Steps, Logs

\* What is due depends on the function, its event and the memoised results only.
LEMMA PlansKept ==
    ASSUME UNCHANGED <<fn, event, memo>>,
           \A r \in Runs : IF pc'[r] = "requested" THEN Plan(r, todo'[r]) ELSE todo'[r] = <<>>
    PROVE  Plans'
BY DEF Plans, Plan, AllDue, Due, StepIsDue, OtherIsDue, AllAltered, ToolRan, Harvested, M

\* Nothing is memoised, altered or loaded.
LEMMA BooksKept ==
    ASSUME RunsInv, UNCHANGED <<fn, event, memo, applied, loads, drjobs>>, faults' \in Nat, faults <= faults'
    PROVE  MemoisedAnswers' /\ Altered' /\ LoadBooks' /\ (sched' = sched => SuccessIsComplete')
<1>1. faults \in Nat /\ Len(loads) \in Nat
  <2>1. faults \in 0..MaxFaults
    BY DEF RunsInv, TypeOK
  <2>2. loads \in Seq(LoadJobs)
    BY DEF RunsInv, RunShapes
  <2>3. QED
    BY <2>1, <2>2, SizesAssumption, LenProperties
<1>2. MemoisedAnswers' /\ Altered' /\ (sched' = sched => SuccessIsComplete')
  BY DEF RunsInv, MemoisedAnswers, Altered, SuccessIsComplete, M
<1>3. LoadBooks'
  BY <1>1 DEF RunsInv, LoadBooks, M
<1>4. QED
  BY <1>2, <1>3

\* What a failed request does to the run, and does not do to the books.
LEMMA EndsRequest ==
    ASSUME RunsInv, NEW r \in Runs, pc[r] = "requested", NEW s, RequestFails(r, s),
           s \in {"IDLE", "RUNNING", "SUCCESS", "UNKNOWN", "FAILURE"}
    PROVE  /\ UNCHANGED <<fn, event, memo>>
           /\ \A q \in Runs : attempt'[q] \in 0..Retries[Function(q)]
           /\ attempt' \in [Runs -> Nat]
           /\ pc' \in [Runs -> {"absent", "queued", "requested", "returned", "failed"}]
           /\ todo' = [q \in Runs |-> todo'[q]]
           /\ \A q \in Runs : (todo'[q] # <<>>) <=> (pc'[q] = "requested")
           /\ Plans' /\ Ordering' /\ RowTellsOutcome'
           /\ job' \subseteq Open \cup Closed
           /\ sched' = s \/ sched' = "FAILURE"
           /\ r = "main" => pc'["main"] \in {"queued", "failed"}
           /\ r # "main" => pc'["main"] = pc["main"] /\ todo'["main"] = todo["main"]
<1> USE DEF RunsInv
<1>1. UNCHANGED <<fn, event, memo>> /\ todo' = [todo EXCEPT ![r] = <<>>]
  BY DEF RequestFails
<1>2. \A q \in Runs : Retries[Function(q)] \in Nat /\ attempt[q] \in 0..Retries[Function(q)]
  BY RetriesNat DEF TypeOK
<1>3. /\ \A q \in Runs : attempt'[q] \in 0..Retries[Function(q)]
      /\ attempt' \in [Runs -> Nat]
  <2>1. CASE attempt' = [attempt EXCEPT ![r] = @ + 1] /\ attempt[r] < Retries[Function(r)]
    BY <1>2, <2>1 DEF RunShapes
  <2>2. CASE attempt' = attempt
    BY <1>2, <2>2 DEF RunShapes
  <2>3. QED
    BY <2>1, <2>2 DEF RequestFails
<1>4. /\ pc' \in [Runs -> {"absent", "queued", "requested", "returned", "failed"}]
      /\ pc'[r] \in {"queued", "failed"}
      /\ \A q \in Runs \ {r} :
            \/ pc'[q] = pc[q]
            \/ r = "main" /\ pc'[r] = "failed" /\ pc'[q] = "queued"
      /\ pc'[r] = "queued" => \A q \in Runs \ {r} : pc'[q] = pc[q]
  BY DEF RequestFails, Over, TypeOK
<1>5. /\ todo' = [q \in Runs |-> todo'[q]] /\ todo'[r] = <<>>
      /\ \A q \in Runs \ {r} : todo'[q] = todo[q]
  BY <1>1 DEF RunShapes
<1>6. ~(r = "main" /\ \E q \in Runs \ {r} : pc[q] # "absent")
  BY DEF Ordering, Runs
<1>7. \A q \in Runs \ {r} : pc'[q] # pc[q] => pc[q] = "absent" /\ pc'[q] = "queued"
  BY <1>4, <1>6
<1>8. ASSUME NEW q \in Runs PROVE (todo'[q] # <<>>) <=> (pc'[q] = "requested")
  <2>1. (todo[q] # <<>>) <=> (pc[q] = "requested")
    BY DEF TypeOK
  <2>2. CASE q = r
    BY <1>4, <1>5, <2>2
  <2>3. CASE q # r
    BY <1>5, <1>7, <2>1, <2>3
  <2>4. QED
    BY <2>2, <2>3
<1>9. Plans'
  <2>1. \A q \in Runs : IF pc'[q] = "requested" THEN Plan(q, todo'[q]) ELSE todo'[q] = <<>>
    BY <1>4, <1>5, <1>7 DEF Plans
  <2>2. QED
    BY <1>1, <2>1, PlansKept
<1>10. job' = job \/ (job' = {"error"} /\ r = "main" /\ pc'["main"] = "failed" /\ fn = "tool")
  BY DEF RequestFails, Over, Runs
<1>11. r # "main" => pc'["main"] = pc["main"] /\ todo'["main"] = todo["main"]
  BY <1>4, <1>5 DEF Runs
<1>12. Ordering'
  BY <1>1, <1>4, <1>7, <1>10, <1>11 DEF Ordering, ToolRan, Harvested, M, Runs
<1>13. RowTellsOutcome'
  BY <1>1, <1>10, <1>11 DEF RowTellsOutcome
<1>14. job' \subseteq Open \cup Closed
  BY <1>10 DEF TypeOK, Closed
<1>15. sched' = s \/ sched' = "FAILURE"
  BY DEF RequestFails
<1>16. QED
  BY <1>1, <1>3, <1>4, <1>5, <1>8, <1>9, <1>11, <1>12, <1>13, <1>14, <1>15

\* The request goes on: what is left is due as well.
LEMMA GoesOn ==
    ASSUME RunsInv, NEW r \in Runs, pc[r] = "requested", Current(r).op \notin Final, GoOn(r)
    PROVE  /\ todo' = [q \in Runs |-> todo'[q]]
           /\ todo'[r] = Tail(todo[r])
           /\ \A q \in Runs : (todo'[q] # <<>>) <=> (pc'[q] = "requested")
           /\ Plans'
           /\ r # "main" => todo'["main"] = todo["main"]
<1> USE DEF RunsInv
<1>1. /\ todo' = [q \in Runs |-> todo'[q]] /\ todo'[r] = Tail(todo[r])
      /\ \A q \in Runs \ {r} : todo'[q] = todo[q]
  BY DEF GoOn, RunShapes
<1>2. Plan(r, todo'[r])
  BY <1>1, UnderWay
<1>3. UNCHANGED <<fn, event, memo, pc>>
  BY DEF GoOn
<1>4. \A q \in Runs : IF pc'[q] = "requested" THEN Plan(q, todo'[q]) ELSE todo'[q] = <<>>
  BY <1>1, <1>2, <1>3 DEF Plans
<1>5. Plans'
  BY <1>3, <1>4, PlansKept
<1>6. \A q \in Runs : (todo'[q] # <<>>) <=> (pc'[q] = "requested")
  BY <1>4 DEF Plan
<1>7. QED
  BY <1>1, <1>5, <1>6 DEF Runs

LEMMA Counts ==
    ASSUME RunsInv
    PROVE  /\ faults \in Nat /\ execs \in Nat /\ Owed \in {0, 1}
           /\ execs <= faults + Owed
           /\ (faults < MaxFaults => faults + 1 \in 0..MaxFaults) /\ faults \in 0..MaxFaults
<1>1. faults \in 0..MaxFaults /\ execs \in Nat /\ MaxFaults \in Nat
  BY SizesAssumption DEF RunsInv, TypeOK
<1>2. Owed \in {0, 1}
  BY DEF Owed
<1>3. execs <= faults + Owed
  BY DEF RunsInv, Executions
<1>4. QED
  BY <1>1, <1>2, <1>3

\* A request that fails owes its executions to its fault.
LEMMA ExecutionsOfFailure ==
    ASSUME RunsInv, NEW r \in Runs, pc[r] = "requested", UNCHANGED <<fn, event, memo>>,
           r = "main" => pc'["main"] \in {"queued", "failed"},
           r # "main" => pc'["main"] = pc["main"] /\ todo'["main"] = todo["main"],
           execs' \in Nat, faults' \in Nat, execs <= execs', faults <= faults',
           execs' + faults <= execs + faults',
           r = "main" /\ Current("main").op = "return" => execs' = execs /\ faults' = faults + 1,
           fn = "vertex" /\ sched' = "SUCCESS" /\ event.given => RunTool \in DOMAIN M
    PROVE  Executions'
<1> USE DEF RunsInv
<1>1. /\ r # "main" => (Fired' <=> Fired)
      /\ r = "main" => ~Fired' /\ pc'["main"] # "requested"
  BY DEF Fired, Current
<1>2. (RunTool \in DOMAIN M)' <=> RunTool \in DOMAIN M
  BY DEF M
<1>3. \/ Owed' = Owed
      \/ Owed' = 0 /\ Owed = 1 /\ r = "main" /\ Current("main").op = "return"
  BY <1>1, <1>2 DEF Owed, Fired
<1>4. execs' <= faults' + Owed'
  BY <1>3, Counts
<1>5. (fn = "trigger" /\ Fired)' \/ (RunTool \in DOMAIN M)' => execs' >= 1
  BY <1>1, <1>2, Counts DEF Executions
<1>6. (fn = "trigger" /\ pc["main"] = "requested")' =>
         todo'["main"] \in {<<Op("dispatch", 0), Return>>, <<Return>>}
  BY <1>1 DEF Executions
<1>7. QED
  BY <1>2, <1>4, <1>5, <1>6 DEF Executions

\* Neither executions nor what they are owed to change.
LEMMA ExecutionsKept ==
    ASSUME RunsInv, UNCHANGED <<fn, event, memo, execs>>, faults' \in Nat, faults <= faults',
           fn = "trigger" => (Fired' <=> Fired),
           (fn = "trigger" /\ pc["main"] = "requested")' =>
               todo'["main"] \in {<<Op("dispatch", 0), Return>>, <<Return>>},
           fn = "vertex" /\ sched' = "SUCCESS" => sched = "SUCCESS"
    PROVE  Executions'
<1> USE DEF RunsInv
<1>1. Owed' = Owed /\ ((RunTool \in DOMAIN M)' <=> RunTool \in DOMAIN M)
  BY DEF Owed, M
<1>2. execs' <= faults' + Owed'
  BY <1>1, Counts
<1>3. QED
  BY <1>1, <1>2 DEF Executions

-----------------------------------------------------------------------------
(* The actions.                                                            *)

LEMMA RequestStep ==
    ASSUME RunsInv, NEW r \in Runs, Request(r)
    PROVE  RunsInv'
<1> USE DEF RunsInv
<1>1. UNCHANGED <<fn, event, memo, attempt, faults, job, sched, applied, execs, table, latest, loads, drjobs>>
  BY DEF Request, world, bq
<1>2. /\ pc[r] = "queued" /\ pc'[r] = "requested" /\ todo'[r] = Body(r)
      /\ \A q \in Runs \ {r} : pc'[q] = pc[q] /\ todo'[q] = todo[q]
      /\ pc' \in [Runs -> {"absent", "queued", "requested", "returned", "failed"}]
      /\ todo' = [q \in Runs |-> todo'[q]]
  BY DEF Request, TypeOK, RunShapes
<1>3. Plan(r, Body(r))
  BY BodyPlan DEF TypeOK
<1>4. Plans'
  <2>1. \A q \in Runs : IF pc'[q] = "requested" THEN Plan(q, todo'[q]) ELSE todo'[q] = <<>>
    BY <1>2, <1>3 DEF Plans
  <2>2. QED
    BY <1>1, <2>1, PlansKept
<1>5. \A q \in Runs : (todo'[q] # <<>>) <=> (pc'[q] = "requested")
  BY <1>2, <1>3 DEF Plan, TypeOK
<1>6. TypeOK'
  BY <1>1, <1>2, <1>5 DEF TypeOK, Function
<1>7. RunShapes'
  BY <1>1, <1>2 DEF RunShapes
<1>8. Ordering' /\ RowTellsOutcome'
  BY <1>1, <1>2 DEF Ordering, RowTellsOutcome, ToolRan, Harvested, M, Runs
<1>9. Executions'
  <2>1. fn = "trigger" /\ r = "main" => todo'["main"] = <<Op("dispatch", 0), Return>>
    BY <1>2 DEF Body, Function, DynamicEventTrigger
  <2>2. fn = "trigger" /\ r = "main" => Current("main")'.op = "dispatch"
    BY <2>1 DEF Current, Op
  <2>3. CASE r # "main"
    <3>1. (Fired' <=> Fired) /\ pc'["main"] = pc["main"] /\ todo'["main"] = todo["main"]
      BY <1>2, <2>3 DEF Fired, Current, Runs
    <3>2. QED
      BY <1>1, <3>1, Counts, ExecutionsKept DEF Executions
  <2>4. CASE r = "main" /\ fn = "trigger"
    <3>1. Fired' <=> Fired
      BY <1>2, <2>2, <2>4 DEF Fired
    <3>2. todo'["main"] \in {<<Op("dispatch", 0), Return>>, <<Return>>}
      BY <2>1, <2>4
    <3>3. QED
      BY <1>1, <3>1, <3>2, Counts, ExecutionsKept
  <2>5. CASE fn # "trigger"
    BY <1>1, <2>5 DEF Executions, Owed, M
  <2>6. QED
    BY <2>3, <2>4, <2>5
<1>10. MemoisedAnswers' /\ Altered' /\ LoadBooks' /\ SuccessIsComplete'
  BY <1>1, Counts, BooksKept
<1>11. QED
  BY <1>4, <1>6, <1>7, <1>8, <1>9, <1>10

LEMMA ReturnsStep ==
    ASSUME RunsInv, NEW r \in Runs, Returns(r)
    PROVE  RunsInv'
<1> USE DEF RunsInv
<1>1. UNCHANGED <<fn, event, memo, attempt, faults, job, sched, applied, execs, table, latest, loads, drjobs>>
  BY DEF Returns, world, bq
<1>2. /\ pc[r] = "requested" /\ pc'[r] = "returned" /\ todo'[r] = <<>> /\ Current(r).op = "return"
      /\ \A q \in Runs \ {r} : todo'[q] = todo[q] /\ pc'[q] = IF r = "main" THEN "queued" ELSE pc[q]
      /\ pc' \in [Runs -> {"absent", "queued", "requested", "returned", "failed"}]
      /\ todo' = [q \in Runs |-> todo'[q]]
  BY DEF Returns, Doing, Over, TypeOK, RunShapes
<1>3. \A q \in Runs \ {r} : pc'[q] # pc[q] => pc[q] = "absent" /\ pc'[q] = "queued"
  BY <1>2 DEF Ordering, Runs
<1>4. \A q \in Runs : IF pc'[q] = "requested" THEN Plan(q, todo'[q]) ELSE todo'[q] = <<>>
  BY <1>2, <1>3 DEF Plans
<1>5. Plans'
  BY <1>1, <1>4, PlansKept
<1>6. \A q \in Runs : (todo'[q] # <<>>) <=> (pc'[q] = "requested")
  BY <1>4 DEF Plan
<1>7. TypeOK'
  BY <1>1, <1>2, <1>6 DEF TypeOK, Function
<1>8. RunShapes'
  BY <1>1, <1>2 DEF RunShapes
<1>9. r = "main" => ToolRan /\ Harvested
  BY <1>2, UnderWay DEF OtherIsDue, Steps, Logs
<1>10. Ordering' /\ RowTellsOutcome'
  BY <1>1, <1>2, <1>3, <1>9 DEF Ordering, RowTellsOutcome, ToolRan, Harvested, M, Runs
<1>11. Executions'
  <2>1. Fired' <=> Fired
    BY <1>2 DEF Fired, Current, Runs
  <2>2. (fn = "trigger" /\ pc["main"] = "requested")' =>
           todo'["main"] \in {<<Op("dispatch", 0), Return>>, <<Return>>}
    BY <1>1, <1>2, <1>3 DEF Executions, Runs
  <2>3. QED
    BY <1>1, <2>1, <2>2, Counts, ExecutionsKept
<1>12. MemoisedAnswers' /\ Altered' /\ LoadBooks' /\ SuccessIsComplete'
  BY <1>1, Counts, BooksKept
<1>13. QED
  BY <1>5, <1>7, <1>8, <1>10, <1>11, <1>12

\* The shapes of the load jobs and their rows are what TypeOK says of them.
LEMMA LoadTypes ==
    ASSUME NEW l \in Seq(LoadJobs), NEW d \in Seq(RowStates), Len(d) = Len(l)
    PROVE  /\ \A j \in DOMAIN l : l[j] \in [exported : 0..MaxRows, state : {"RUNNING", "DONE", "ERROR"}, loaded : 0..MaxRows]
           /\ d \in [DOMAIN l -> {"no row", "pending", "ok", "row_mismatch", "failed"}]
           /\ DOMAIN l = 1..Len(l) /\ DOMAIN d = 1..Len(l)
<1>1. DOMAIN l = 1..Len(l) /\ DOMAIN d = 1..Len(l)
  BY LenProperties
<1>2. \A j \in 1..Len(l) : l[j] \in LoadJobs
  BY LenProperties
<1>3. d \in [1..Len(l) -> RowStates]
  BY LenProperties
<1>4. QED
  BY <1>1, <1>2, <1>3 DEF LoadJobs, RowStates, NoVerdict

\* A request that fails, whatever it has done.
LEMMA FailureStep ==
    ASSUME RunsInv, NEW r \in Runs, pc[r] = "requested",
           NEW s, RequestFails(r, s), s \in {"IDLE", "RUNNING", "SUCCESS", "UNKNOWN", "FAILURE"},
           fn = "vertex" /\ s = "SUCCESS" /\ event.given => RunTool \in DOMAIN M,
           fn = "db" => s = sched,
           execs' \in Nat, faults' \in 0..MaxFaults, execs <= execs', faults <= faults',
           execs' + faults <= execs + faults',
           r = "main" /\ Current("main").op = "return" => execs' = execs /\ faults' = faults + 1,
           applied \subseteq applied', applied' \subseteq 1..MaxTables,
           table' \in 0..MaxRows, latest' \in 0..MaxRows,
           loads' \in Seq(LoadJobs), drjobs' \in Seq(RowStates), Len(drjobs') = Len(loads'),
           LoadBooks'
    PROVE  RunsInv'
<1> USE DEF RunsInv
<1>1. /\ UNCHANGED <<fn, event, memo>>
      /\ \A q \in Runs : attempt'[q] \in 0..Retries[Function(q)]
      /\ attempt' \in [Runs -> Nat]
      /\ pc' \in [Runs -> {"absent", "queued", "requested", "returned", "failed"}]
      /\ todo' = [q \in Runs |-> todo'[q]]
      /\ \A q \in Runs : (todo'[q] # <<>>) <=> (pc'[q] = "requested")
      /\ Plans' /\ Ordering' /\ RowTellsOutcome'
      /\ job' \subseteq Open \cup Closed
      /\ sched' = s \/ sched' = "FAILURE"
      /\ r = "main" => pc'["main"] \in {"queued", "failed"}
      /\ r # "main" => pc'["main"] = pc["main"] /\ todo'["main"] = todo["main"]
  BY EndsRequest
<1>2. TypeOK'
  <2>1. /\ \A j \in DOMAIN loads' : loads'[j] \in [exported : 0..MaxRows, state : {"RUNNING", "DONE", "ERROR"}, loaded : 0..MaxRows]
        /\ drjobs' \in [DOMAIN loads' -> {"no row", "pending", "ok", "row_mismatch", "failed"}]
    BY LoadTypes
  <2>2. fn' \in Functions /\ event' \in [valid : BOOLEAN, given : BOOLEAN]
    BY <1>1 DEF TypeOK
  <2>3. \A q \in Runs : attempt'[q] \in (0..Retries[Function(q)])'
    BY <1>1 DEF Function
  <2>4. QED
    BY <1>1, <2>1, <2>2, <2>3 DEF TypeOK
<1>3. RunShapes'
  BY <1>1 DEF RunShapes
<1>4. Executions'
  <2>1. faults' \in Nat
    BY Counts, SizesAssumption
  <2>2. fn = "vertex" /\ sched' = "SUCCESS" /\ event.given => RunTool \in DOMAIN M
    BY <1>1
  <2>3. QED
    BY <1>1, <2>1, <2>2, ExecutionsOfFailure
<1>5. MemoisedAnswers' /\ Altered'
  BY <1>1 DEF MemoisedAnswers, Altered, M
<1>6. SuccessIsComplete'
  BY <1>1 DEF SuccessIsComplete
<1>7. QED
  BY <1>1, <1>2, <1>3, <1>4, <1>5, <1>6

\* A request that fails before it has done anything.
LEMMA PlainFailureStep ==
    ASSUME RunsInv, NEW r \in Runs, pc[r] = "requested", RequestFails(r, sched),
           UNCHANGED <<applied, execs, bq>>,
           \/ faults' = faults + 1 /\ faults < MaxFaults
           \/ faults' = faults /\ Current(r).op # "return"
    PROVE  RunsInv'
<1> USE DEF RunsInv
<1>1. faults' \in 0..MaxFaults /\ faults <= faults' /\ faults' \in Nat /\ execs \in Nat
  BY Counts, SizesAssumption
<1>2. UNCHANGED <<fn, event, memo>>
  BY DEF RequestFails
<1>3. LoadBooks'
  BY <1>1, <1>2, BooksKept DEF bq
<1>4. sched \in {"IDLE", "RUNNING", "SUCCESS", "UNKNOWN", "FAILURE"}
  BY DEF TypeOK
<1>5. fn = "vertex" /\ sched = "SUCCESS" /\ event.given => RunTool \in DOMAIN M
  BY DEF Executions
<1>6. applied' \subseteq 1..MaxTables /\ table' \in 0..MaxRows /\ latest' \in 0..MaxRows
  BY DEF TypeOK, bq
<1>7. loads' \in Seq(LoadJobs) /\ drjobs' \in Seq(RowStates) /\ Len(drjobs') = Len(loads')
  BY DEF RunShapes, bq
<1>8. execs' = execs /\ applied' = applied
  OBVIOUS
<1>9. execs' + faults <= execs + faults' /\ execs' \in Nat /\ execs <= execs'
  BY <1>1, <1>8, Counts
<1>10. r = "main" /\ Current("main").op = "return" => execs' = execs /\ faults' = faults + 1
  BY <1>8
<1>11. QED
  BY <1>1, <1>3, <1>4, <1>5, <1>6, <1>7, <1>8, <1>9, <1>10, FailureStep

LEMMA CrashStep ==
    ASSUME RunsInv, NEW r \in Runs, Crash(r)
    PROVE  RunsInv'
<1>1. pc[r] = "requested" /\ RequestFails(r, sched)
  BY DEF Crash
<1>2. UNCHANGED <<applied, execs, bq>>
  BY DEF Crash
<1>3. \/ faults' = faults + 1 /\ faults < MaxFaults
      \/ faults' = faults /\ Current(r).op # "return"
  BY DEF Crash, Fault
<1>4. QED
  BY <1>1, <1>2, <1>3, PlainFailureStep

LEMMA RaisesStep ==
    ASSUME RunsInv, NEW r \in Runs, Raises(r)
    PROVE  RunsInv'
<1>1. pc[r] = "requested" /\ Current(r).op # "return"
  BY DEF Raises, Doing
<1>2. QED
  BY <1>1, PlainFailureStep DEF Raises

\* When every batch is memoised with no error, every listed table is altered.
LEMMA AlteredAll ==
    ASSUME RunsInv, AllAltered
    PROVE  1..M[Tables] \subseteq applied
<1> USE DEF RunsInv
<1>1. M[Tables] \in 0..MaxTables
  BY DEF AllAltered, MemoisedAnswers
<1>2. M[Tables] \in Nat
  BY <1>1, SizesAssumption
<1> DEFINE n == M[Tables]
<1> SUFFICES ASSUME NEW t \in 1..n PROVE t \in applied
  OBVIOUS
<1>3. PICK i \in 1..NumBatches(n) : t \in TablesOf(i, n)
  BY <1>2, Batches
<1>4. NumBatches(n) \in Nat
  BY <1>2, Batches
<1>5. i \in Nat
  BY <1>4
<1>6. Batch(i) \in DOMAIN M /\ M[Batch(i)] = {}
  BY <1>3 DEF AllAltered
<1>7. TablesOf(i, M[Tables]) \ M[Batch(i)] \subseteq applied
  BY <1>5, <1>6 DEF Altered
<1>8. QED
  BY <1>3, <1>6, <1>7

LEMMA WriteRowStep ==
    ASSUME RunsInv, NEW r \in Runs, WriteRow(r)
    PROVE  RunsInv'
<1> USE DEF RunsInv
<1> DEFINE o == Current(r)
<1>1. pc[r] = "requested" /\ o.op \in {"insert", "update", "sched"} /\ GoOn(r)
  BY DEF WriteRow, Doing
<1>2. r = "main" /\ OtherIsDue(o) /\ o.op \notin Final /\ o.op \notin Steps
  BY <1>1, UnderWay DEF Final, Steps, Logs
<1>3. /\ todo' = [q \in Runs |-> todo'[q]]
      /\ \A q \in Runs : (todo'[q] # <<>>) <=> (pc'[q] = "requested")
      /\ Plans'
  BY <1>1, <1>2, GoesOn
<1>4. UNCHANGED <<fn, event, memo, pc, attempt, faults, execs, applied, table, latest, loads, drjobs>>
  BY DEF WriteRow, GoOn, bq
<1>5. /\ o.op = "insert" => /\ job' \in {job \cup {o.arg}, IF job = {} THEN {o.arg} ELSE job}
                            /\ sched' = sched
      /\ o.op = "update" => job' = (IF job = {} THEN {} ELSE {o.arg}) /\ sched' = sched
      /\ o.op = "sched" => job' = job /\ sched' = o.arg
  BY DEF WriteRow
<1> HIDE DEF o
<1>6. /\ job' \subseteq job \cup {o.arg}
      /\ job' # job => fn \in {"tool", "cron"}
      /\ \/ job' \subseteq job \cup Open
         \/ RunTool \in DOMAIN M /\ job' \subseteq {Verdict(M[RunTool])}
  BY <1>1, <1>2, <1>5 DEF OtherIsDue, Open
<1>7. RunTool \in DOMAIN M => /\ Verdict(M[RunTool]) \in Closed
                              /\ Verdict(M[RunTool]) = "done" => M[RunTool] = "ok"
                              /\ Verdict(M[RunTool]) = "error" => M[RunTool] = "error"
  BY DEF MemoisedAnswers, Verdict, Closed
<1>8. \/ sched' = sched
      \/ fn = "db" /\ sched' \in {"RUNNING", "SUCCESS", "UNKNOWN"} /\ (sched' = "SUCCESS" => AllAltered)
  BY <1>1, <1>2, <1>5 DEF OtherIsDue
<1>9. TypeOK'
  <2>1. job' \subseteq Open \cup Closed
    BY <1>6, <1>7 DEF TypeOK
  <2>2. sched' \in {"IDLE", "RUNNING", "SUCCESS", "UNKNOWN", "FAILURE"}
    BY <1>8 DEF TypeOK
  <2>3. QED
    BY <1>3, <1>4, <2>1, <2>2 DEF TypeOK, Function
<1>10. RunShapes'
  BY <1>3, <1>4 DEF RunShapes
<1>11. Ordering'
  BY <1>4, <1>6 DEF Ordering, ToolRan, Harvested, M
<1>12. RowTellsOutcome'
  <2>1. CASE job' \subseteq job \cup Open
    BY <1>4, <2>1 DEF RowTellsOutcome, Open
  <2>2. CASE RunTool \in DOMAIN M /\ job' \subseteq {Verdict(M[RunTool])}
    BY <1>4, <1>7, <2>2 DEF RowTellsOutcome, M
  <2>3. QED
    BY <1>6, <2>1, <2>2
<1>13. Executions'
  <2>1. fn # "trigger"
    BY <1>1, <1>2 DEF OtherIsDue
  <2>2. QED
    BY <1>4, <1>8, <2>1, Counts, ExecutionsKept
<1>14. MemoisedAnswers' /\ Altered' /\ LoadBooks' /\ (sched' = sched => SuccessIsComplete')
  BY <1>4, Counts, BooksKept
<1>15. SuccessIsComplete'
  <2>1. CASE sched' = sched
    BY <1>14, <2>1
  <2>2. CASE sched' = "SUCCESS" /\ AllAltered
    BY <1>4, <2>2, AlteredAll DEF SuccessIsComplete, AllAltered, M
  <2>3. CASE sched' \in {"RUNNING", "UNKNOWN"}
    BY <2>3 DEF SuccessIsComplete
  <2>4. QED
    BY <1>8, <2>1, <2>2, <2>3
<1>16. QED
  BY <1>3, <1>9, <1>10, <1>11, <1>12, <1>13, <1>14, <1>15

LEMMA WriteFailsStep ==
    ASSUME RunsInv, NEW r \in Runs, WriteFails(r)
    PROVE  RunsInv'
<1> USE DEF RunsInv
<1>1. /\ pc[r] = "requested" /\ Current(r).op \in {"insert", "update", "sched"}
      /\ faults' = faults + 1 /\ faults < MaxFaults /\ execs' = execs
  BY DEF WriteFails, Doing, Fault
<1>2. r = "main" /\ OtherIsDue(Current(r)) /\ Current(r).op \notin Final
  BY <1>1, UnderWay DEF Final, Steps, Logs
<1>3. CASE RequestFails(r, sched) /\ UNCHANGED <<applied, bq>>
  BY <1>1, <1>3, PlainFailureStep
<1>4. CASE GoOn(r) /\ UNCHANGED <<job, sched>>
  <2>1. /\ todo' = [q \in Runs |-> todo'[q]]
        /\ \A q \in Runs : (todo'[q] # <<>>) <=> (pc'[q] = "requested")
        /\ Plans'
    BY <1>1, <1>2, <1>4, GoesOn
  <2>2. UNCHANGED <<fn, event, memo, pc, attempt, job, sched, execs, applied, table, latest, loads, drjobs>>
    BY <1>1, <1>4 DEF GoOn, bq
  <2>3. faults' \in 0..MaxFaults /\ faults' \in Nat /\ faults <= faults'
    BY <1>1, Counts
  <2>4. TypeOK'
    BY <2>1, <2>2, <2>3 DEF TypeOK, Function
  <2>5. RunShapes' /\ Ordering' /\ RowTellsOutcome'
    BY <2>1, <2>2 DEF RunShapes, Ordering, RowTellsOutcome, ToolRan, Harvested, M
  <2>6. Executions'
    <3>1. fn # "trigger"
      BY <1>1, <1>2 DEF OtherIsDue
    <3>2. QED
      BY <2>2, <2>3, <3>1, ExecutionsKept
  <2>7. MemoisedAnswers' /\ Altered' /\ LoadBooks' /\ SuccessIsComplete'
    BY <2>2, <2>3, BooksKept
  <2>8. QED
    BY <2>1, <2>4, <2>5, <2>6, <2>7
<1>5. QED
  BY <1>3, <1>4 DEF WriteFails

\* The handler closes the rows with the outcome that is memoised.
LEMMA ReconcileStep ==
    ASSUME RunsInv, NEW r \in Runs, Reconcile(r)
    PROVE  RunsInv'
<1> USE DEF RunsInv
<1>1. pc[r] = "requested" /\ Current(r).op = "reconcile" /\ GoOn(r)
  BY DEF Reconcile, Doing
<1>2. r # "main" /\ Current(r).op \notin Final
  BY <1>1, UnderWay DEF OtherIsDue, Final, Steps, Logs
<1>3. /\ todo' = [q \in Runs |-> todo'[q]]
      /\ \A q \in Runs : (todo'[q] # <<>>) <=> (pc'[q] = "requested")
      /\ Plans' /\ todo'["main"] = todo["main"]
  BY <1>1, <1>2, GoesOn
<1>4. UNCHANGED <<fn, event, memo, pc, attempt, faults, sched, execs, applied, table, latest, loads, drjobs>>
  BY DEF Reconcile, GoOn, bq
<1>5. pc["main"] \in {"returned", "failed"}
  BY <1>1, <1>2 DEF Ordering, Runs
<1>6. /\ job' \subseteq Open \cup Closed
      /\ job' # {} => fn \in {"tool", "cron"}
      /\ RowTellsOutcome'
  <2>1. CASE job \cap Open = {}
    <3>1. job' = job
      BY <2>1 DEF Reconcile
    <3>2. QED
      BY <1>4, <3>1 DEF TypeOK, Ordering, RowTellsOutcome
  <2>2. CASE job \cap Open # {}
    <3>1. job' = {IF pc["main"] = "failed" THEN "error" ELSE Verdict(M[RunTool])}
      BY <2>2 DEF Reconcile, M
    <3>2. fn \in {"tool", "cron"}
      BY <2>2 DEF Ordering
    <3>3. CASE pc["main"] = "failed"
      BY <1>4, <3>1, <3>2, <3>3 DEF RowTellsOutcome, Closed
    <3>4. CASE pc["main"] = "returned"
      <4>1. RunTool \in DOMAIN M /\ M[RunTool] \in {"ok", "error"}
        BY <3>2, <3>4 DEF Ordering, ToolRan, MemoisedAnswers
      <4>2. QED
        BY <1>4, <3>1, <3>2, <3>4, <4>1 DEF RowTellsOutcome, Verdict, Closed, M
    <3>5. QED
      BY <1>5, <3>3, <3>4
  <2>3. QED
    BY <2>1, <2>2
<1>7. TypeOK'
  BY <1>3, <1>4, <1>6 DEF TypeOK, Function
<1>8. RunShapes' /\ Ordering'
  BY <1>3, <1>4, <1>6 DEF RunShapes, Ordering, ToolRan, Harvested, M
<1>9. Executions'
  <2>1. Fired' <=> Fired
    BY <1>3, <1>4 DEF Fired, Current
  <2>2. (fn = "trigger" /\ pc["main"] = "requested")' =>
           todo'["main"] \in {<<Op("dispatch", 0), Return>>, <<Return>>}
    BY <1>3, <1>4 DEF Executions
  <2>3. QED
    BY <1>4, <2>1, <2>2, Counts, ExecutionsKept
<1>10. MemoisedAnswers' /\ Altered' /\ LoadBooks' /\ SuccessIsComplete'
  BY <1>4, Counts, BooksKept
<1>11. QED
  BY <1>3, <1>6, <1>7, <1>8, <1>9, <1>10

\* A trigger dispatches its tool; what is left is to return.
LEMMA DispatchStep ==
    ASSUME RunsInv, NEW r \in Runs, Dispatch(r)
    PROVE  RunsInv'
<1> USE DEF RunsInv
<1>1. pc[r] = "requested" /\ Current(r).op = "dispatch" /\ GoOn(r)
  BY DEF Dispatch, Doing
<1>2. r = "main" /\ fn = "trigger" /\ Current(r).op \notin Final
  BY <1>1, UnderWay DEF OtherIsDue, Final, Steps, Logs
<1>3. /\ todo' = [q \in Runs |-> todo'[q]] /\ todo'["main"] = Tail(todo["main"])
      /\ \A q \in Runs : (todo'[q] # <<>>) <=> (pc'[q] = "requested")
      /\ Plans'
  BY <1>1, <1>2, GoesOn
<1>4. UNCHANGED <<fn, event, memo, pc, attempt, faults, job, sched, applied, table, latest, loads, drjobs>>
  BY DEF Dispatch, GoOn, bq
<1>5. execs' = execs + 1
  BY DEF Dispatch
<1>6. TypeOK' /\ RunShapes'
  <2>1. execs' \in Nat
    BY <1>5, Counts
  <2>2. TypeOK'
    BY <1>3, <1>4, <2>1 DEF TypeOK, Function
  <2>3. QED
    BY <1>3, <1>4, <2>2 DEF RunShapes
<1>7. Ordering' /\ RowTellsOutcome'
  BY <1>3, <1>4 DEF Ordering, RowTellsOutcome, ToolRan, Harvested, M
<1>8. Executions'
  <2>1. todo["main"] = <<Op("dispatch", 0), Return>>
    BY <1>1, <1>2 DEF Executions, Current, Return, Op
  <2>2. todo'["main"] = <<Return>>
    BY <1>3, <2>1
  <2>3. ~Fired /\ Fired'
    BY <1>1, <1>2, <1>4, <2>2 DEF Fired, Current, Return, Op
  <2>4. Owed = 0 /\ Owed' = 1
    BY <1>2, <1>4, <2>3 DEF Owed
  <2>5. QED
    BY <1>2, <1>4, <1>5, <2>2, <2>4, Counts DEF Executions
<1>9. MemoisedAnswers' /\ Altered' /\ LoadBooks' /\ SuccessIsComplete'
  BY <1>4, Counts, BooksKept
<1>10. QED
  BY <1>3, <1>6, <1>7, <1>8, <1>9

\* BigQuery runs a load job that has no verdict; the table changes; nothing happens.
LEMMA OutsideStep ==
    ASSUME RunsInv, (\E j \in DOMAIN loads : LoadRuns(j)) \/ OthersWrite \/ UNCHANGED vars
    PROVE  RunsInv'
<1> USE DEF RunsInv
<1>1. UNCHANGED <<fn, event, memo, todo, pc, attempt, faults, job, sched, applied, execs, drjobs>>
  BY DEF LoadRuns, OthersWrite, vars, world, bq
<1>2. table' \in 0..MaxRows /\ latest' \in 0..MaxRows
  BY DEF LoadRuns, OthersWrite, vars, world, bq, TypeOK
<1>3. /\ loads' \in Seq(LoadJobs) /\ Len(loads') = Len(loads) /\ Len(loads) \in Nat
      /\ \A j \in 1..Len(loads) : loads'[j] = loads[j] \/ loads[j].state = "RUNNING"
  <2>1. CASE loads' = loads
    BY <2>1, LenProperties DEF RunShapes
  <2>2. ASSUME NEW j \in DOMAIN loads, LoadRuns(j)
        PROVE  /\ loads' \in Seq(LoadJobs) /\ Len(loads') = Len(loads) /\ Len(loads) \in Nat
               /\ \A i \in 1..Len(loads) : loads'[i] = loads[i] \/ loads[i].state = "RUNNING"
    <3>1. loads \in Seq(LoadJobs) /\ DOMAIN loads = 1..Len(loads) /\ Len(loads) \in Nat /\ loads[j] \in LoadJobs
      BY <2>2, LenProperties DEF RunShapes
    <3>2. PICK l \in LoadJobs : loads' = [loads EXCEPT ![j] = l]
      <4>1. CASE loads' = [loads EXCEPT ![j].state = "DONE", ![j].loaded = latest]
        <5>1. [loads[j] EXCEPT !.state = "DONE", !.loaded = latest] \in LoadJobs
          BY <3>1 DEF LoadJobs, TypeOK
        <5>2. loads' = [loads EXCEPT ![j] = [loads[j] EXCEPT !.state = "DONE", !.loaded = latest]]
          BY <3>1, <4>1
        <5>3. QED
          BY <5>1, <5>2
      <4>2. CASE loads' = [loads EXCEPT ![j].state = "ERROR"]
        <5>1. [loads[j] EXCEPT !.state = "ERROR"] \in LoadJobs
          BY <3>1 DEF LoadJobs
        <5>2. loads' = [loads EXCEPT ![j] = [loads[j] EXCEPT !.state = "ERROR"]]
          BY <4>2
        <5>3. QED
          BY <5>1, <5>2
      <4>3. QED
        BY <2>2, <4>1, <4>2 DEF LoadRuns
    <3>3. loads[j].state = "RUNNING"
      BY <2>2 DEF LoadRuns
    <3>4. QED
      BY <3>1, <3>2, <3>3, ExceptSeq
  <2>3. QED
    BY <2>1, <2>2 DEF OthersWrite, vars, world, bq
<1>4. TypeOK'
  <2>1. drjobs' \in Seq(RowStates) /\ Len(drjobs') = Len(loads')
    BY <1>1, <1>3 DEF RunShapes
  <2>2. /\ \A j \in DOMAIN loads' : loads'[j] \in [exported : 0..MaxRows, state : {"RUNNING", "DONE", "ERROR"}, loaded : 0..MaxRows]
        /\ drjobs' \in [DOMAIN loads' -> {"no row", "pending", "ok", "row_mismatch", "failed"}]
    BY <1>3, <2>1, LoadTypes
  <2>3. QED
    BY <1>1, <1>2, <2>2 DEF TypeOK, Function
<1>5. RunShapes'
  BY <1>1, <1>3 DEF RunShapes
<1>6. Plans'
  BY <1>1, PlansKept DEF Plans
<1>7. Ordering' /\ RowTellsOutcome' /\ MemoisedAnswers' /\ Altered' /\ SuccessIsComplete'
  BY <1>1 DEF Ordering, RowTellsOutcome, MemoisedAnswers, Altered, SuccessIsComplete, ToolRan, Harvested, M
<1>8. Executions'
  BY <1>1 DEF Executions, Owed, Fired, Current, M
<1>9. LoadBooks'
  BY <1>1, <1>3 DEF LoadBooks, M
<1>10. QED
  BY <1>4, <1>5, <1>6, <1>7, <1>8, <1>9

\* What the execution of a step does, whether its answer arrives or not.
LEMMA Performs ==
    ASSUME RunsInv, NEW r \in Runs, Doing(r, Steps), ~TooEarly(r), NEW a \in Answers(r), Perform(r, a)
    PROVE  /\ r = "main" /\ StepIsDue(Current(r)) /\ Current(r).op \in Steps
           /\ applied \subseteq applied' /\ applied' \subseteq 1..MaxTables
           /\ Current(r).op = "batch" => TablesOf(Current(r).arg, M[Tables]) \ a \subseteq applied'
           /\ execs' = execs + (IF Current(r).op = "run-tool" THEN 1 ELSE 0)
           /\ table' \in 0..MaxRows /\ latest' \in 0..MaxRows
           /\ loads' \in Seq(LoadJobs) /\ drjobs' \in Seq(RowStates) /\ Len(drjobs') = Len(loads')
           /\ \A j \in 1..Len(loads) : loads'[j] = loads[j]
           /\ Current(r).op = "submit-load-job" =>
                 /\ a = Len(loads) + 1 /\ Len(loads') = Len(loads) + 1
                 /\ drjobs'[Len(loads) + 1] = "pending"
                 /\ \A j \in 1..Len(loads) : drjobs'[j] = drjobs[j]
           /\ Current(r).op # "submit-load-job" => loads' = loads
           /\ Current(r).op = "harvest" =>
                 /\ loads[M[Submit]].state # "RUNNING"
                 /\ drjobs'[M[Submit]] = HarvestVerdict(loads[M[Submit]])
                 /\ drjobs'[M[Submit]] \notin NoVerdict
                 /\ \A j \in 1..Len(loads) : j # M[Submit] => drjobs'[j] = drjobs[j]
           /\ Current(r).op \notin {"submit-load-job", "harvest"} => drjobs' = drjobs
<1> USE DEF RunsInv
<1> DEFINE o == Current(r)
<1>1. r = "main" /\ StepIsDue(o) /\ o.op \in Steps
  BY UnderWay DEF Doing
<1>2. /\ loads \in Seq(LoadJobs) /\ drjobs \in Seq(RowStates) /\ Len(drjobs) = Len(loads)
      /\ Len(loads) \in Nat /\ DOMAIN drjobs = 1..Len(loads)
  BY LenProperties DEF RunShapes
<1>3. applied \subseteq applied' /\ applied' \subseteq 1..MaxTables
      /\ (o.op = "batch" => TablesOf(o.arg, M[Tables]) \ a \subseteq applied')
  <2>1. CASE o.op = "batch"
    <3>1. Tables \in DOMAIN M /\ M[Tables] \in 0..MaxTables
      BY <1>1, <2>1 DEF StepIsDue, MemoisedAnswers
    <3>2. TablesOf(o.arg, M[Tables]) \subseteq 1..MaxTables
      <4>1. 1..M[Tables] \subseteq 1..MaxTables
        BY <3>1, SizesAssumption
      <4>2. QED
        BY <4>1 DEF TablesOf
    <3>3. applied' = applied \cup (TablesOf(o.arg, M[Tables]) \ a)
      BY <1>1, <2>1 DEF Perform, M
    <3>4. QED
      BY <3>2, <3>3 DEF TypeOK
  <2>2. CASE o.op # "batch"
    BY <2>2 DEF Perform, TypeOK
  <2>3. QED
    BY <2>1, <2>2
<1>4. execs' = execs + (IF o.op = "run-tool" THEN 1 ELSE 0)
  BY DEF Perform
<1>5. table' \in 0..MaxRows /\ latest' \in 0..MaxRows
  BY DEF Perform, TypeOK
<1>6. CASE o.op = "submit-load-job"
  <2> DEFINE new == [exported |-> table, state |-> "RUNNING", loaded |-> 0]
  <2>a. table \in 0..MaxRows
    BY DEF TypeOK
  <2>0. table \in 0..MaxRows /\ 0 \in 0..MaxRows
    BY <2>a, SizesAssumption
  <2>1. new \in LoadJobs
    BY <2>0 DEF LoadJobs
  <2>2. loads' = Append(loads, new) /\ drjobs' = Append(drjobs, "pending") /\ a = Len(loads) + 1
    BY <1>6 DEF Perform, Answers
  <2>3. "pending" \in RowStates
    BY DEF RowStates, NoVerdict
  <2> HIDE DEF new
  <2>4. /\ loads' \in Seq(LoadJobs) /\ Len(loads') = Len(loads) + 1
        /\ \A j \in 1..Len(loads) : loads'[j] = loads[j]
    BY <1>2, <2>1, <2>2, AppendProperties
  <2>5. /\ drjobs' \in Seq(RowStates) /\ Len(drjobs') = Len(loads) + 1
        /\ \A j \in 1..Len(loads) : drjobs'[j] = drjobs[j]
        /\ drjobs'[Len(loads) + 1] = "pending"
    BY <1>2, <2>2, <2>3, AppendProperties
  <2>6. QED
    BY <1>1, <1>3, <1>4, <1>5, <1>6, <2>2, <2>4, <2>5
<1>7. CASE o.op = "harvest"
  <2> DEFINE s == M[Submit]
             v == HarvestVerdict(loads[s])
  <2>1. Submit \in DOMAIN M /\ s \in 1..Len(loads)
    BY <1>1, <1>7 DEF StepIsDue, LoadBooks
  <2>2. loads' = loads /\ a = v /\ drjobs' = [drjobs EXCEPT ![s] = v]
    BY <1>1, <1>7 DEF Perform, Answers, Submitted, M
  <2>3. v \in RowStates \ NoVerdict
    BY DEF HarvestVerdict, RowStates, NoVerdict
  <2>4. loads[s].state # "RUNNING"
    BY <1>1, <1>7 DEF TooEarly, Submitted, M
  <2> HIDE DEF s, v
  <2>5. /\ drjobs' \in Seq(RowStates) /\ Len(drjobs') = Len(loads)
        /\ \A j \in 1..Len(loads) : drjobs'[j] = IF j = s THEN v ELSE drjobs[j]
    BY <1>2, <2>1, <2>2, <2>3, ExceptSeq
  <2>6. drjobs'[s] = v /\ \A j \in 1..Len(loads) : j # s => drjobs'[j] = drjobs[j]
    BY <2>1, <2>5
  <2>7. QED
    BY <1>1, <1>2, <1>3, <1>4, <1>5, <1>7, <2>2, <2>3, <2>4, <2>5, <2>6 DEF s, v
<1>8. CASE o.op \notin {"submit-load-job", "harvest"}
  <2>1. loads' = loads /\ drjobs' = drjobs
    BY <1>8 DEF Perform
  <2>2. QED
    BY <1>1, <1>2, <1>3, <1>4, <1>5, <1>8, <2>1
<1>9. QED
  BY <1>6, <1>7, <1>8

LEMMA AnswerLostStep ==
    ASSUME RunsInv, NEW r \in Runs, AnswerLost(r)
    PROVE  RunsInv'
<1> USE DEF RunsInv
<1> DEFINE o == Current(r)
<1>1. /\ Doing(r, Steps) /\ ~TooEarly(r) /\ RequestFails(r, Logged(r)) /\ pc[r] = "requested"
      /\ faults' = faults + 1 /\ faults < MaxFaults
  BY DEF AnswerLost, Doing, Fault
<1>2. PICK a \in Answers(r) : Perform(r, a)
  BY DEF AnswerLost
<1>3. /\ r = "main" /\ StepIsDue(o) /\ o.op \in Steps
      /\ applied \subseteq applied' /\ applied' \subseteq 1..MaxTables
      /\ execs' = execs + (IF o.op = "run-tool" THEN 1 ELSE 0)
      /\ table' \in 0..MaxRows /\ latest' \in 0..MaxRows
      /\ loads' \in Seq(LoadJobs) /\ drjobs' \in Seq(RowStates) /\ Len(drjobs') = Len(loads')
  BY <1>1, <1>2, Performs
<1>4. UNCHANGED <<fn, event, memo>>
  BY <1>1 DEF RequestFails
<1>5. faults \in Nat /\ execs \in Nat /\ faults' \in 0..MaxFaults
  BY <1>1, Counts
<1>6. Len(loads) \in Nat /\ Len(drjobs) = Len(loads)
  BY LenProperties DEF RunShapes
<1>7. LoadBooks'
  <2>1. Len(loads') <= faults' + (IF Submit \in DOMAIN M THEN 1 ELSE 0) /\ Len(loads') >= Len(loads) /\ Len(loads') \in Nat
    <3>1. Len(loads) <= faults + (IF Submit \in DOMAIN M THEN 1 ELSE 0)
      BY DEF LoadBooks
    <3>2. Len(loads') = Len(loads) + 1 \/ Len(loads') = Len(loads)
      BY <1>1, <1>2, Performs
    <3>3. QED
      BY <1>1, <1>5, <1>6, <3>1, <3>2
  <2>2. CASE o.op = "submit-load-job"
    <3>1. /\ Len(loads') = Len(loads) + 1 /\ drjobs'[Len(loads) + 1] = "pending"
          /\ \A j \in 1..Len(loads) : drjobs'[j] = drjobs[j] /\ loads'[j] = loads[j]
      BY <1>1, <1>2, <2>2, Performs
    <3>2. Submit \notin DOMAIN M
      BY <1>3, <2>2 DEF StepIsDue, Submit
    <3>3. \A j \in 1..Len(loads') : j \in 1..Len(loads) \/ j = Len(loads) + 1
      BY <1>6, <3>1
    <3>4. \A j \in 1..Len(loads') : drjobs'[j] \in NoVerdict
      BY <3>1, <3>2, <3>3 DEF LoadBooks, NoVerdict
    <3>5. QED
      BY <1>4, <2>1, <3>2, <3>4 DEF LoadBooks, M
  <2>3. CASE o.op = "harvest"
    <3>1. /\ loads' = loads /\ loads[M[Submit]].state # "RUNNING"
          /\ drjobs'[M[Submit]] = HarvestVerdict(loads[M[Submit]]) /\ drjobs'[M[Submit]] \notin NoVerdict
          /\ \A j \in 1..Len(loads) : j # M[Submit] => drjobs'[j] = drjobs[j]
      BY <1>1, <1>2, <2>3, Performs
    <3>2. Submit \in DOMAIN M
      BY <1>3, <2>3 DEF StepIsDue
    <3>3. QED
      BY <1>4, <2>1, <3>1, <3>2 DEF LoadBooks, M
  <2>4. CASE o.op \notin {"submit-load-job", "harvest"}
    <3>1. loads' = loads /\ drjobs' = drjobs
      BY <1>1, <1>2, <2>4, Performs
    <3>2. QED
      BY <1>4, <2>1, <3>1 DEF LoadBooks, M
  <2>5. QED
    BY <2>2, <2>3, <2>4
<1>8. Logged(r) \in {"IDLE", "RUNNING", "SUCCESS", "UNKNOWN", "FAILURE"}
  BY DEF Logged, TypeOK
<1>9. /\ fn = "vertex" /\ Logged(r) = "SUCCESS" /\ event.given => RunTool \in DOMAIN M
      /\ fn = "db" => Logged(r) = sched
  BY <1>3 DEF Logged, StepIsDue, Executions, Logs
<1>10. execs' \in Nat /\ execs <= execs' /\ faults <= faults' /\ execs' + faults <= execs + faults'
  BY <1>1, <1>3, <1>5
<1>11. o.op # "return"
  BY <1>3 DEF Steps, Logs
<1>12. QED
  BY <1>1, <1>3, <1>5, <1>7, <1>8, <1>9, <1>10, <1>11, FailureStep

LEMMA SubmitFailsStep ==
    ASSUME RunsInv, NEW r \in Runs, SubmitFails(r)
    PROVE  RunsInv'
<1> USE DEF RunsInv
<1>1. /\ pc[r] = "requested" /\ Current(r).op = "submit-load-job" /\ RequestFails(r, sched)
      /\ faults' = faults + 1 /\ faults < MaxFaults /\ UNCHANGED <<applied, execs, table>> /\ latest' = table
  BY DEF SubmitFails, Doing, Fault
<1>2. UNCHANGED <<fn, event, memo>>
  BY <1>1 DEF RequestFails
<1>3. Submit \notin DOMAIN M
  <2>1. StepIsDue(Current(r))
    BY <1>1, UnderWay DEF Steps
  <2>2. QED
    BY <1>1, <2>1 DEF StepIsDue, Submit
<1>4. /\ loads \in Seq(LoadJobs) /\ drjobs \in Seq(RowStates) /\ Len(drjobs) = Len(loads) /\ Len(loads) \in Nat
  BY LenProperties DEF RunShapes
<1>5. faults \in Nat /\ execs \in Nat /\ faults' \in 0..MaxFaults /\ faults' \in Nat
  BY <1>1, Counts
<1>6. /\ loads' \in Seq(LoadJobs) /\ drjobs' \in Seq(RowStates) /\ Len(drjobs') = Len(loads')
      /\ LoadBooks'
  <2>1. CASE UNCHANGED <<loads, drjobs>>
    <3>1. applied' = applied
      BY <1>1
    <3>2. QED
      BY <1>1, <1>2, <1>4, <1>5, <2>1, BooksKept
  <2>2. CASE /\ loads' = Append(loads, [exported |-> table, state |-> "RUNNING", loaded |-> 0])
             /\ drjobs' = Append(drjobs, "no row")
    <3> DEFINE new == [exported |-> table, state |-> "RUNNING", loaded |-> 0]
    <3>a. table \in 0..MaxRows
      BY DEF TypeOK
    <3>0. table \in 0..MaxRows /\ 0 \in 0..MaxRows
      BY <3>a, SizesAssumption
    <3>1. new \in LoadJobs
      BY <3>0 DEF LoadJobs
    <3>2. "no row" \in RowStates
      BY DEF RowStates, NoVerdict
    <3>3. loads' = Append(loads, new)
      BY <2>2
    <3> HIDE DEF new
    <3>4. /\ loads' \in Seq(LoadJobs) /\ Len(loads') = Len(loads) + 1
      BY <1>4, <3>1, <3>3, AppendProperties
    <3>5. /\ drjobs' \in Seq(RowStates) /\ Len(drjobs') = Len(loads) + 1
          /\ \A j \in 1..Len(loads) : drjobs'[j] = drjobs[j]
          /\ drjobs'[Len(loads) + 1] = "no row"
      <4>1. drjobs' = Append(drjobs, "no row") /\ drjobs \in Seq(RowStates)
        BY <1>4, <2>2
      <4> DEFINE w == "no row"
                 d == Append(drjobs, w)
      <4>2. w \in RowStates /\ drjobs' = d
        BY <3>2, <4>1
      <4> HIDE DEF w
      <4>3. /\ d \in Seq(RowStates) /\ Len(d) = Len(drjobs) + 1
            /\ \A j \in 1..Len(drjobs) : d[j] = drjobs[j]
            /\ d[Len(drjobs) + 1] = w
        BY <4>1, <4>2, AppendProperties
      <4> HIDE DEF d
      <4>4. QED
        BY <1>4, <4>2, <4>3 DEF w
    <3>6. \A j \in 1..Len(loads') : j \in 1..Len(loads) \/ j = Len(loads) + 1
      BY <1>4, <3>4
    <3>7. \A j \in 1..Len(loads') : drjobs'[j] \in NoVerdict
      BY <1>3, <3>5, <3>6 DEF LoadBooks, NoVerdict
    <3>8. Len(loads') <= faults'
      BY <1>1, <1>3, <1>4, <1>5, <3>4 DEF LoadBooks
    <3>9. Harvest \notin DOMAIN M
      BY <1>3 DEF LoadBooks
    <3>10. LoadBooks'
      BY <1>2, <1>3, <1>5, <3>7, <3>8, <3>9 DEF LoadBooks, M
    <3>11. QED
      BY <3>4, <3>5, <3>10
  <2>3. QED
    BY <2>1, <2>2 DEF SubmitFails
<1>7. sched \in {"IDLE", "RUNNING", "SUCCESS", "UNKNOWN", "FAILURE"}
  BY DEF TypeOK
<1>8. fn = "vertex" /\ sched = "SUCCESS" /\ event.given => RunTool \in DOMAIN M
  BY DEF Executions
<1>9. applied \subseteq applied' /\ applied' \subseteq 1..MaxTables /\ table' \in 0..MaxRows /\ latest' \in 0..MaxRows
  BY <1>1 DEF TypeOK
<1>10. execs' = execs /\ execs' \in Nat /\ execs <= execs' /\ faults <= faults' /\ execs' + faults <= execs + faults'
  BY <1>1, <1>5
<1>11. QED
  BY <1>1, <1>5, <1>6, <1>7, <1>8, <1>9, <1>10, FailureStep

\* The step is memoised: what it follows was, and what is memoised stays.
LEMMA StepAnswersStep ==
    ASSUME RunsInv, NEW r \in Runs, StepAnswers(r)
    PROVE  RunsInv'
<1> USE DEF RunsInv
<1> DEFINE o  == Current(r)
           id == <<o.op, o.arg>>
<1>1. Doing(r, Steps) /\ ~TooEarly(r) /\ pc[r] = "requested"
  BY DEF StepAnswers, Doing
<1>2. PICK a \in Answers(r) : /\ Perform(r, a) /\ sched' = Logged(r)
                              /\ memo' = [memo EXCEPT ![r] = Memoised(@, id, a)]
  BY DEF StepAnswers
<1>3. /\ r = "main" /\ StepIsDue(o) /\ o.op \in Steps
      /\ applied \subseteq applied' /\ applied' \subseteq 1..MaxTables
      /\ o.op = "batch" => TablesOf(o.arg, M[Tables]) \ a \subseteq applied'
      /\ execs' = execs + (IF o.op = "run-tool" THEN 1 ELSE 0)
      /\ table' \in 0..MaxRows /\ latest' \in 0..MaxRows
      /\ loads' \in Seq(LoadJobs) /\ drjobs' \in Seq(RowStates) /\ Len(drjobs') = Len(loads')
  BY <1>1, <1>2, Performs
<1>4. /\ UNCHANGED <<fn, event, faults, job>>
      /\ attempt' = [attempt EXCEPT ![r] = 0] /\ pc' = [pc EXCEPT ![r] = "queued"]
      /\ todo' = [todo EXCEPT ![r] = <<>>]
  BY DEF StepAnswers
<1>5. id \notin DOMAIN M
  BY <1>3 DEF StepIsDue
<1>6. M' = Memoised(M, id, a) /\ memo' = [q \in Runs |-> memo'[q]]
  BY <1>2, <1>3 DEF M, RunShapes, Runs
<1>7. /\ DOMAIN M' = DOMAIN M \cup {id} /\ M'[id] = a
      /\ \A x \in DOMAIN M : M'[x] = M[x]
  <2> HIDE DEF id
  <2>1. /\ DOMAIN Memoised(M, id, a) = DOMAIN M \cup {id}
        /\ Memoised(M, id, a)[id] = a
        /\ \A x \in DOMAIN M \ {id} : Memoised(M, id, a)[x] = M[x]
    BY DEF Memoised
  <2>2. QED
    BY <1>5, <1>6, <2>1
<1>8. /\ id = Tables => o.op = "get-table-list"
      /\ \A i : id = Batch(i) => o.op = "batch" /\ o.arg = i
      /\ id = RunTool <=> o.op = "run-tool"
      /\ id = Poll => o.op = "poll"
      /\ id = Submit <=> o.op = "submit-load-job"
      /\ id = Harvest <=> o.op = "harvest"
  <2> DEFINE k == o.op
             x == o.arg
  <2>1. k # "batch" => x = 0
    BY <1>3 DEF StepIsDue
  <2> HIDE DEF k, x
  <2>2. /\ <<k, x>> = Tables => k = "get-table-list"
        /\ \A i : <<k, x>> = Batch(i) => k = "batch" /\ x = i
        /\ <<k, x>> = RunTool <=> k = "run-tool"
        /\ <<k, x>> = Poll => k = "poll"
        /\ <<k, x>> = Submit <=> k = "submit-load-job"
        /\ <<k, x>> = Harvest <=> k = "harvest"
    BY <2>1 DEF Tables, Batch, RunTool, Poll, Submit, Harvest
  <2>3. QED
    BY <2>2 DEF k, x
<1>9. /\ pc'["main"] = "queued" /\ todo'["main"] = <<>>
      /\ \A q \in Runs \ {"main"} : pc'[q] = pc[q] /\ todo'[q] = todo[q] /\ pc[q] = "absent"
      /\ pc' \in [Runs -> {"absent", "queued", "requested", "returned", "failed"}]
      /\ todo' = [q \in Runs |-> todo'[q]]
  BY <1>1, <1>3, <1>4 DEF TypeOK, RunShapes, Ordering, Runs
<1>10. \A q \in Runs : pc'[q] # "requested" /\ todo'[q] = <<>>
  BY <1>9 DEF Plans
<1>11. RunShapes'
  <2>1. attempt' \in [Runs -> Nat]
    BY <1>4 DEF RunShapes
  <2>2. QED
    BY <1>3, <1>6, <1>9, <2>1 DEF RunShapes
<1>12. TypeOK'
  <2>1. \A q \in Runs : Retries[Function(q)] \in Nat
    BY RetriesNat DEF TypeOK
  <2>2. \A q \in Runs : attempt'[q] \in (0..Retries[Function(q)])'
    <3> SUFFICES ASSUME NEW q \in Runs PROVE attempt'[q] \in 0..Retries[Function(q)]
      BY <1>4 DEF Function
    <3>1. attempt'[q] = attempt[q] \/ attempt'[q] = 0
      BY <1>4 DEF RunShapes
    <3>2. attempt[q] \in 0..Retries[Function(q)]
      BY DEF TypeOK
    <3>3. 0 \in 0..Retries[Function(q)]
      BY <2>1
    <3>4. QED
      BY <3>1, <3>2, <3>3
  <2>3. execs' \in Nat
    BY <1>3, Counts
  <2>4. sched' \in {"IDLE", "RUNNING", "SUCCESS", "UNKNOWN", "FAILURE"}
    BY <1>2 DEF Logged, TypeOK
  <2>5. /\ \A j \in DOMAIN loads' : loads'[j] \in [exported : 0..MaxRows, state : {"RUNNING", "DONE", "ERROR"}, loaded : 0..MaxRows]
        /\ drjobs' \in [DOMAIN loads' -> {"no row", "pending", "ok", "row_mismatch", "failed"}]
    BY <1>3, LoadTypes
  <2>6. \A q \in Runs : (todo'[q] # <<>>) <=> (pc'[q] = "requested")
    BY <1>10
  <2>7. fn' \in Functions /\ event' \in [valid : BOOLEAN, given : BOOLEAN] /\ faults' \in 0..MaxFaults
        /\ job' \subseteq Open \cup Closed
    BY <1>4 DEF TypeOK
  <2>8. QED
    BY <1>3, <1>9, <2>2, <2>3, <2>4, <2>5, <2>6, <2>7 DEF TypeOK
<1>13. Plans'
  BY <1>10 DEF Plans
<1>14. MemoisedAnswers'
  <2>1. o.op = "get-table-list" => a \in 0..MaxTables
    BY DEF Answers
  <2>2. o.op = "run-tool" => a \in {"ok", "error"}
    BY DEF Answers
  <2>3. o.op = "poll" => a \in {"not a dict", "RUNNING", "FAILED", "SUCCEEDED"}
    BY DEF Answers
  <2>4. (Tables \in DOMAIN M)' => M'[Tables] \in 0..MaxTables
    BY <1>7, <1>8, <2>1 DEF MemoisedAnswers
  <2>5. (RunTool \in DOMAIN M)' => M'[RunTool] \in {"ok", "error"}
    BY <1>7, <1>8, <2>2 DEF MemoisedAnswers
  <2>6. (Poll \in DOMAIN M)' => M'[Poll] \in {"not a dict", "RUNNING", "FAILED", "SUCCEEDED"}
    BY <1>7, <1>8, <2>3 DEF MemoisedAnswers
  <2>7. ASSUME NEW i \in Nat, Batch(i) \in DOMAIN M' PROVE Tables \in DOMAIN M'
    <3>1. CASE Batch(i) \in DOMAIN M
      BY <1>7, <3>1 DEF MemoisedAnswers
    <3>2. CASE Batch(i) = id
      BY <1>3, <1>7, <1>8, <3>2 DEF StepIsDue
    <3>3. QED
      BY <1>7, <2>7, <3>1, <3>2
  <2>8. QED
    BY <2>4, <2>5, <2>6, <2>7 DEF MemoisedAnswers
<1>15. Ordering' /\ RowTellsOutcome'
  <2>1. Ordering'
    BY <1>4, <1>9 DEF Ordering, Runs
  <2>2. pc["main"] # "failed"
    BY <1>1, <1>3
  <2>3. RowTellsOutcome'
    BY <1>4, <1>7, <2>2 DEF RowTellsOutcome, M
  <2>4. QED
    BY <2>1, <2>3
<1>16. Executions'
  <2>1. o.op # "return" /\ (o.op = "run-tool" => fn # "trigger" /\ RunTool \notin DOMAIN M)
    BY <1>3, <1>5, <1>8 DEF StepIsDue, Steps, Logs
  <2>2. ~Fired /\ ~Fired'
    BY <1>1, <1>3, <1>9, <2>1 DEF Fired
  <2>3. (RunTool \in DOMAIN M)' <=> RunTool \in DOMAIN M \/ o.op = "run-tool"
    BY <1>7, <1>8
  <2>4. Owed' = Owed + (IF o.op = "run-tool" THEN 1 ELSE 0)
    BY <1>4, <2>1, <2>2, <2>3 DEF Owed
  <2>5. execs' <= faults' + Owed'
    BY <1>3, <1>4, <2>4, Counts
  <2>6. (RunTool \in DOMAIN M)' => execs' >= 1
    BY <1>3, <2>3, Counts DEF Executions
  <2>7. (fn = "vertex" /\ sched = "SUCCESS" /\ event.given)' => (RunTool \in DOMAIN M)'
    BY <1>2, <1>3, <1>4, <2>3 DEF Logged, StepIsDue, Executions
  <2>8. (fn = "trigger" /\ pc["main"] = "requested")' => FALSE
    BY <1>9
  <2>9. QED
    BY <2>2, <2>5, <2>6, <2>7, <2>8 DEF Executions
<1>17. Altered'
  <2> SUFFICES ASSUME NEW i \in Nat, Batch(i) \in DOMAIN M'
               PROVE  TablesOf(i, M'[Tables]) \ M'[Batch(i)] \subseteq applied'
    BY DEF Altered
  <2>1. CASE Batch(i) \in DOMAIN M
    <3>1. Tables \in DOMAIN M /\ TablesOf(i, M[Tables]) \ M[Batch(i)] \subseteq applied
      BY <2>1 DEF Altered, MemoisedAnswers
    <3>2. M'[Tables] = M[Tables] /\ M'[Batch(i)] = M[Batch(i)]
      BY <1>7, <2>1, <3>1
    <3>3. QED
      BY <1>3, <3>1, <3>2
  <2>2. CASE Batch(i) = id
    <3>1. o.op = "batch" /\ o.arg = i
      BY <1>8, <2>2
    <3>2. Tables \in DOMAIN M
      BY <1>3, <3>1 DEF StepIsDue
    <3>3. M'[Tables] = M[Tables] /\ M'[Batch(i)] = a
      BY <1>7, <2>2, <3>2
    <3>4. QED
      BY <1>3, <3>1, <3>3
  <2>3. QED
    BY <1>7, <2>1, <2>2
<1>18. SuccessIsComplete'
  <2>1. fn = "db" => sched' = sched
    BY <1>2, <1>3 DEF Logged, StepIsDue, Logs
  <2>2. QED
    BY <1>3, <1>4, <1>7, <2>1 DEF SuccessIsComplete, M
<1>19. LoadBooks'
  <2>0. Len(loads) \in Nat /\ Len(drjobs) = Len(loads) /\ faults \in Nat
    BY Counts, LenProperties DEF RunShapes
  <2>1. CASE o.op = "submit-load-job"
    <3>1. /\ a = Len(loads) + 1 /\ Len(loads') = Len(loads) + 1 /\ drjobs'[Len(loads) + 1] = "pending"
          /\ \A j \in 1..Len(loads) : drjobs'[j] = drjobs[j]
      BY <1>1, <1>2, <2>1, Performs
    <3>2. Submit \notin DOMAIN M /\ Submit = id
      BY <1>5, <1>8, <2>1
    <3>3. \A j \in 1..Len(loads') : j \in 1..Len(loads) \/ j = Len(loads) + 1
      BY <2>0, <3>1
    <3>4. \A j \in 1..Len(loads') : drjobs'[j] \in NoVerdict
      BY <3>1, <3>2, <3>3 DEF LoadBooks, NoVerdict
    <3>5. M'[Submit] \in 1..Len(loads') /\ Submit \in DOMAIN M'
      BY <1>7, <2>0, <3>1, <3>2
    <3>6. Len(loads) <= faults
      BY <2>0, <3>2 DEF LoadBooks
    <3>7. Len(loads') <= faults' + 1
      BY <1>4, <2>0, <3>1, <3>6
    <3>8. Harvest \notin DOMAIN M'
      BY <1>7, <1>8, <2>1, <3>2 DEF LoadBooks
    <3>9. QED
      BY <3>4, <3>5, <3>7, <3>8 DEF LoadBooks
  <2>2. ASSUME o.op # "submit-load-job"
        PROVE  (Submit \in DOMAIN M' <=> Submit \in DOMAIN M) /\ (Submit \in DOMAIN M => M'[Submit] = M[Submit])
    BY <1>7, <1>8, <2>2
  <2>3. CASE o.op = "harvest"
    <3>1. /\ loads' = loads /\ loads[M[Submit]].state # "RUNNING"
          /\ drjobs'[M[Submit]] = HarvestVerdict(loads[M[Submit]]) /\ drjobs'[M[Submit]] \notin NoVerdict
          /\ \A j \in 1..Len(loads) : j # M[Submit] => drjobs'[j] = drjobs[j]
      BY <1>1, <1>2, <2>3, Performs
    <3>2. Submit \in DOMAIN M
      BY <1>3, <2>3 DEF StepIsDue
    <3>3. Submit \in DOMAIN M' /\ M'[Submit] = M[Submit]
      BY <2>2, <2>3, <3>2
    <3>4. QED
      BY <1>4, <3>1, <3>2, <3>3 DEF LoadBooks
  <2>4. CASE o.op \notin {"submit-load-job", "harvest"}
    <3>1. loads' = loads /\ drjobs' = drjobs
      BY <1>1, <1>2, <2>4, Performs
    <3>2. (Submit \in DOMAIN M' <=> Submit \in DOMAIN M) /\ (Submit \in DOMAIN M => M'[Submit] = M[Submit])
      BY <2>2, <2>4
    <3>3. Harvest \in DOMAIN M' <=> Harvest \in DOMAIN M
      BY <1>7, <1>8, <2>4
    <3>4. QED
      BY <1>4, <3>1, <3>2, <3>3 DEF LoadBooks
  <2>5. QED
    BY <2>1, <2>3, <2>4
<1>20. QED
  BY <1>11, <1>12, <1>13, <1>14, <1>15, <1>16, <1>17, <1>18, <1>19

LEMMA RunsInvStep == RunsInv /\ [Next]_vars => RunsInv'
BY RequestStep, WriteRowStep, StepAnswersStep, DispatchStep, ReconcileStep, ReturnsStep, RaisesStep,
   WriteFailsStep, AnswerLostStep, CrashStep, SubmitFailsStep, OutsideStep DEF Next, Proceed

LEMMA AlwaysRunsInv == Spec => []RunsInv
BY InitRunsInv, RunsInvStep, PTL DEF Spec

-----------------------------------------------------------------------------

\* The runs, the rows and the load jobs keep their types, and no run is asked for more
\* attempts than its retries.
THEOREM RunsTypeCorrect == Spec => []TypeOK
<1>1. RunsInv => TypeOK
  BY DEF RunsInv
<1>2. QED
  BY <1>1, AlwaysRunsInv, PTL

\* A row in background_jobs tells the memoised outcome, whatever is retried or lost.
THEOREM RowsTellOutcome == Spec => []RowTellsOutcome
<1>1. RunsInv => RowTellsOutcome
  BY DEF RunsInv
<1>2. QED
  BY <1>1, AlwaysRunsInv, PTL

\* The tool is executed once, and once more for each fault at most.
THEOREM ToolsRunOnce == Spec => []ToolRunsOnce
<1>1. ASSUME RunsInv PROVE ToolRunsOnce
  <2>1. execs <= 1 + faults
    BY <1>1, Counts
  <2>2. ASSUME RunsTool, pc["main"] = "returned" PROVE execs >= 1
    <3>1. (fn = "trigger" /\ Fired) \/ RunTool \in DOMAIN M
      BY <1>1, <2>2 DEF RunsTool, RunsInv, Ordering, ToolRan, Executions, Fired
    <3>2. QED
      BY <1>1, <3>1 DEF RunsInv, Executions
  <2>3. QED
    BY <2>1, <2>2 DEF ToolRunsOnce
<1>2. QED
  BY <1>1, AlwaysRunsInv, PTL

\* A database operation that succeeds has altered every table it listed.
THEOREM SuccessesComplete == Spec => []SuccessIsComplete
<1>1. RunsInv => SuccessIsComplete
  BY DEF RunsInv
<1>2. QED
  BY <1>1, AlwaysRunsInv, PTL

\* The verdict in bq_dr_jobs is that of the load job that was memoised.
THEOREM JobsHarvested == Spec => []HarvestsItsJob
<1>1. ASSUME RunsInv PROVE HarvestsItsJob
  <2>1. DOMAIN drjobs = 1..Len(loads) /\ Len(loads) \in Nat
    BY <1>1, LenProperties DEF RunsInv, RunShapes
  <2>2. Len(loads) <= 1 + faults
    BY <1>1, <2>1, Counts DEF RunsInv, LoadBooks
  <2>3. fn = "bq" /\ pc["main"] = "returned" => drjobs[M[Submit]] \notin NoVerdict
    BY <1>1 DEF RunsInv, LoadBooks, Ordering, Harvested
  <2>4. \A j \in DOMAIN drjobs : drjobs[j] \notin NoVerdict =>
           Submit \in DOMAIN M /\ j = M[Submit] /\ drjobs[j] = HarvestVerdict(loads[j])
    BY <1>1, <2>1 DEF RunsInv, LoadBooks
  <2>5. QED
    BY <2>2, <2>3, <2>4 DEF HarvestsItsJob, NoVerdict, M
<1>2. QED
  BY <1>1, AlwaysRunsInv, PTL
=============================================================================
