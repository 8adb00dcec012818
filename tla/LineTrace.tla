------------------------------ MODULE LineTrace ------------------------------
(***************************************************************************)
(* Which lines ran for a request: src/line_trace.py (begin, end, _on_line) *)
(* as _WorkTicketDoor of src/server.py uses it.                            *)
(*                                                                         *)
(* One callback of sys.monitoring serves every request of the process.  A  *)
(* recorder past its budget disables the lines it reaches, for everybody,  *)
(* until the next begin() re-arms them; the epoch tells every recorder     *)
(* that was live meanwhile.  The recorder of a context is a ContextVar: a  *)
(* task inherits it and may outlive it; requests nest when the gateway     *)
(* calls itself.  The gateway has one thread, so a callback, begin() and   *)
(* end() are single steps.                                                 *)
(***************************************************************************)
EXTENDS Integers, FiniteSets

CONSTANTS
    Recs,       \* recorders, one for each begin()
    NoRec,      \* None
    Contexts,   \* contexts code runs in
    Lines,      \* locations of recordable code
    Budget,     \* BUDGET
    MaxEpoch    \* bound: epochs followed

ASSUME NoRecAssumption == NoRec \notin Recs
ASSUME BoundAssumption == Budget \in Nat /\ MaxEpoch \in Nat

VARIABLES
    disabled,   \* external: the locations whose callback returned DISABLE
    dirty,      \* _state["dirty"]
    epoch,      \* _state["epoch"]
    stage,      \* per recorder: unused, live, done
    events,     \* rec.n
    lines,      \* rec.lines
    cut,        \* rec.cut
    since,      \* rec.epoch
    partial,    \* "partial" of the summary end() returned
    outer,      \* rec.token: the recorder to go back to
    home,       \* the context begin() was called in
    cur,        \* _cur, per context
    ran         \* history: lines reached on behalf of a live recorder

monitor == <<disabled, dirty, epoch>>
vars == <<disabled, dirty, epoch, stage, events, lines, cut, since, partial, outer, home, cur, ran>>

TypeOK ==
    /\ disabled \subseteq Lines
    /\ dirty \in BOOLEAN
    /\ epoch \in 0..MaxEpoch
    /\ stage \in [Recs -> {"unused", "live", "done"}]
    /\ events \in [Recs -> Nat]
    /\ lines \in [Recs -> SUBSET Lines]
    /\ cut \in [Recs -> BOOLEAN]
    /\ since \in [Recs -> 0..MaxEpoch]
    /\ partial \in [Recs -> BOOLEAN]
    /\ outer \in [Recs -> Recs \cup {NoRec}]
    /\ home \in [Recs -> Contexts]
    /\ cur \in [Contexts -> Recs \cup {NoRec}]
    /\ ran \in [Recs -> SUBSET Lines]

Init ==
    /\ disabled = {}
    /\ dirty = FALSE
    /\ epoch = 0
    /\ stage = [r \in Recs |-> "unused"]
    /\ events = [r \in Recs |-> 0]
    /\ lines = [r \in Recs |-> {}]
    /\ cut = [r \in Recs |-> FALSE]
    /\ since = [r \in Recs |-> 0]
    /\ partial = [r \in Recs |-> FALSE]
    /\ outer = [r \in Recs |-> NoRec]
    /\ \E x \in Contexts : home = [r \in Recs |-> x]
    /\ cur = [x \in Contexts |-> NoRec]
    /\ ran = [r \in Recs |-> {}]

-----------------------------------------------------------------------------
(* Code reaches line l in context x.                                       *)

\* Mutation: nobody asks whether the recorder has ended.
Recording_Ended(x) == cur[x] \in Recs

Recording(x) == cur[x] \in Recs /\ stage[cur[x]] = "live"

\* The line counts as run by the recorder of the context, seen or not.
Reached(x, l) == ran' = [ran EXCEPT ![cur[x]] = @ \cup {l}]

\* The line is disabled: no callback.
LineUnseen(x, l) ==
    /\ l \in disabled
    /\ Recording(x)
    /\ Reached(x, l)
    /\ UNCHANGED <<monitor, stage, events, lines, cut, since, partial, outer, home, cur>>

\* Mutation: the budget is not looked at.
LineRecorded_NoBudget(x, l) ==
    /\ l \notin disabled
    /\ Recording(x)
    /\ events' = [events EXCEPT ![cur[x]] = @ + 1]
    /\ lines' = [lines EXCEPT ![cur[x]] = @ \cup {l}]
    /\ Reached(x, l)
    /\ UNCHANGED <<monitor, stage, cut, since, partial, outer, home, cur>>

LineRecorded(x, l) ==
    /\ l \notin disabled
    /\ Recording(x)
    /\ events[cur[x]] < Budget
    /\ events' = [events EXCEPT ![cur[x]] = @ + 1]
    /\ lines' = [lines EXCEPT ![cur[x]] = @ \cup {l}]
    /\ Reached(x, l)
    /\ UNCHANGED <<monitor, stage, cut, since, partial, outer, home, cur>>

\* Mutation: the epoch does not move, so the other live recorders are not told.
Disable_Silently(l) ==
    /\ disabled' = disabled \cup {l}
    /\ dirty' = TRUE
    /\ UNCHANGED epoch

Disable(l) ==
    /\ epoch < MaxEpoch
    /\ disabled' = disabled \cup {l}
    /\ dirty' = TRUE
    /\ epoch' = epoch + 1

\* The recorder is past its budget.
LineCut(x, l) ==
    /\ l \notin disabled
    /\ Recording(x)
    /\ events[cur[x]] >= Budget
    /\ events' = [events EXCEPT ![cur[x]] = @ + 1]
    /\ cut' = [cut EXCEPT ![cur[x]] = TRUE]
    /\ Disable(l)
    /\ Reached(x, l)
    /\ UNCHANGED <<stage, lines, since, partial, outer, home, cur>>

-----------------------------------------------------------------------------

\* A cut call left lines disabled: they are re-armed.
Rearm ==
    IF dirty
    THEN /\ epoch < MaxEpoch
         /\ dirty' = FALSE
         /\ disabled' = {}
         /\ epoch' = epoch + 1
    ELSE UNCHANGED monitor

\* Mutation: the new call is not told that lines are still disabled.
begin_NotRearmed(x, r) ==
    /\ stage[r] = "unused"
    /\ dirty' = FALSE
    /\ stage' = [stage EXCEPT ![r] = "live"]
    /\ since' = [since EXCEPT ![r] = epoch]
    /\ outer' = [outer EXCEPT ![r] = cur[x]]
    /\ home' = [home EXCEPT ![r] = x]
    /\ cur' = [cur EXCEPT ![x] = r]
    /\ UNCHANGED <<disabled, epoch, events, lines, cut, partial, ran>>

begin(x, r) ==
    /\ stage[r] = "unused"
    /\ Rearm
    /\ stage' = [stage EXCEPT ![r] = "live"]
    /\ since' = [since EXCEPT ![r] = epoch']
    /\ outer' = [outer EXCEPT ![r] = cur[x]]
    /\ home' = [home EXCEPT ![r] = x]
    /\ cur' = [cur EXCEPT ![x] = r]
    /\ UNCHANGED <<events, lines, cut, partial, ran>>

Partial(r) == cut[r] \/ since[r] # epoch

\* The door ends its recorder in the context that began it; nested requests
\* have ended by then.
end(x, r) ==
    /\ stage[r] = "live"
    /\ cur[x] = r
    /\ home[r] = x
    /\ stage' = [stage EXCEPT ![r] = "done"]
    /\ partial' = [partial EXCEPT ![r] = Partial(r)]
    /\ cur' = [cur EXCEPT ![x] = outer[r]]
    /\ UNCHANGED <<monitor, events, lines, cut, since, outer, home, ran>>

\* A task is created in a copy of the context; y is the copy.
Spawn(x, y) ==
    /\ x # y
    /\ \A r \in Recs : home[r] = y => stage[r] # "live"
    /\ cur' = [cur EXCEPT ![y] = cur[x]]
    /\ UNCHANGED <<monitor, stage, events, lines, cut, since, partial, outer, home, ran>>

-----------------------------------------------------------------------------

Next ==
    \/ \E x \in Contexts, l \in Lines : LineUnseen(x, l) \/ LineRecorded(x, l) \/ LineCut(x, l)
    \/ \E x \in Contexts, r \in Recs : begin(x, r) \/ end(x, r)
    \/ \E x, y \in Contexts : Spawn(x, y)

Spec == Init /\ [][Next]_vars

-----------------------------------------------------------------------------
(* Properties.                                                             *)

\* A summary that is not marked partial is the truth: it names every line that
\* ran for its request, the lines of tasks it started included, although
\* another request's cut can disable a line of the shared code at any time.
CompleteUnlessPartial ==
    \A r \in Recs : stage[r] = "done" /\ ~partial[r] => lines[r] = ran[r]

\* What a call costs is bounded: its record never holds more than Budget lines,
\* nested calls and tasks that share it included, and a recorder is marked cut
\* when it went beyond the budget and not otherwise, whoever disabled its lines.
BudgetKept ==
    \A r \in Recs : /\ Cardinality(lines[r]) <= Budget
                    /\ cut[r] <=> events[r] > Budget

\* Nothing stays disabled unnoticed: whatever a cut disabled, the next begin()
\* re-arms ("its locations are re-armed for the next call").
DisabledIsDirty == disabled # {} => dirty

\* The summary of a request is final when it is handed over: neither a task
\* that outlives the request nor an outer or a later request adds to it.
SummaryIsFinal ==
    [][\A r \in Recs : stage[r] = "done" =>
          lines'[r] = lines[r] /\ partial'[r] = partial[r] /\ stage'[r] = "done"]_vars
=============================================================================
