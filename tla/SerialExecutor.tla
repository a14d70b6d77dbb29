--------------------------- MODULE SerialExecutor ---------------------------
(***************************************************************************)
(* SerialExecutor (dsbox_scheduler): a strand.  post() queues a callback   *)
(* and, unless a drain task is already under way, hands a drain task to    *)
(* the base executor; the drain task runs the queue until it is empty.     *)
(*                                                                         *)
(* The mutex makes each critical section one action.  The base executor is *)
(* any executor that queues: it takes a drain task or, once closed,        *)
(* refuses it, and any of its threads may run a task it has taken.         *)
(***************************************************************************)
EXTENDS Naturals, Sequences, FiniteSets

CONSTANTS Posters,       \* threads that call post()
          Drainers,      \* threads of the base executor
          Callbacks,     \* callbacks to post, each posted at most once
          BaseMayClose,  \* whether the base executor may be shut down
          NoCallback     \* not a callback

\* Assumed of the constants.
SerialConstants ==
    /\ NoCallback \notin Callbacks
    /\ BaseMayClose \in BOOLEAN

VARIABLES queue,      \* SerialState::queue
          running,    \* SerialState::running
          baseOpen,   \* the base executor still takes tasks
          tasks,      \* drain tasks the base has taken and not started
          ppc,        \* where each poster is inside post()
          posting,    \* the callback each poster is posting
          dpc,        \* where each base thread is inside serialDrain()
          current,    \* the callback each base thread is running
          result,     \* what post() returned for each callback
          order,      \* history: callbacks in the order they were queued
          started     \* history: callbacks in the order they were started

vars == <<queue, running, baseOpen, tasks, ppc, posting, dpc, current,
          result, order, started>>

Elements(s) == {s[i] : i \in 1 .. Len(s)}

TypeOK ==
    /\ queue \in Seq(Callbacks)
    /\ running \in BOOLEAN
    /\ baseOpen \in BOOLEAN
    /\ tasks \in Nat
    /\ ppc \in [Posters -> {"idle", "handoff", "refused"}]
    /\ posting \in [Posters -> Callbacks \cup {NoCallback}]
    /\ dpc \in [Drainers -> {"idle", "drain", "invoke"}]
    /\ current \in [Drainers -> Callbacks \cup {NoCallback}]
    /\ \A d \in Drainers : current[d] = NoCallback <=> dpc[d] # "invoke"
    /\ result \in [Callbacks -> {"none", "true", "false"}]
    /\ order \in Seq(Callbacks)
    /\ started \in Seq(Callbacks)

Init ==
    /\ queue = <<>>
    /\ running = FALSE
    /\ baseOpen = TRUE
    /\ tasks = 0
    /\ ppc = [p \in Posters |-> "idle"]
    /\ posting = [p \in Posters |-> NoCallback]
    /\ dpc = [d \in Drainers |-> "idle"]
    /\ current = [d \in Drainers |-> NoCallback]
    /\ result = [c \in Callbacks |-> "none"]
    /\ order = <<>>
    /\ started = <<>>

-----------------------------------------------------------------------------
\* A callback nobody has posted yet.
Fresh(c) == c \notin Elements(order)

\* queue.push_back(callback).
PushFront(c) == queue' = <<c>> \o queue
PushBack(c)  == queue' = Append(queue, c)

\* queue.pop_front().
PopFront == queue' = Tail(queue)

\* running = false.
StayRunning == UNCHANGED running
StopRunning == running' = FALSE

\* What post() returns.
AcceptAnyway(c) == result' = [result EXCEPT ![c] = "true"]
Accepted(c)     == result' = [result EXCEPT ![c] = "true"]
Refused(c)      == result' = [result EXCEPT ![c] = "false"]

\* Nothing is under way, so this post() has to hand a drain task over.
AlwaysFirst  == TRUE
NobodyDrains == ~running

\* First critical section of post(), a drain task being under way already:
\* queue the callback and return true.
PostBehind(p, c) ==
    /\ ppc[p] = "idle" /\ Fresh(c) /\ running
    /\ PushBack(c)
    /\ order' = Append(order, c)
    /\ Accepted(c)
    /\ UNCHANGED <<running, baseOpen, tasks, ppc, posting, dpc, current, started>>

\* First critical section of post(), nothing under way: this poster becomes
\* responsible for handing a drain task to the base executor.
PostFirst(p, c) ==
    /\ ppc[p] = "idle" /\ Fresh(c) /\ NobodyDrains
    /\ PushBack(c)
    /\ order' = Append(order, c)
    /\ running' = TRUE
    /\ ppc' = [ppc EXCEPT ![p] = "handoff"]
    /\ posting' = [posting EXCEPT ![p] = c]
    /\ UNCHANGED <<baseOpen, tasks, dpc, current, result, started>>

\* base->post(drain task) is taken and post() returns true ...
HandOff(p) ==
    /\ ppc[p] = "handoff" /\ baseOpen
    /\ tasks' = tasks + 1
    /\ Accepted(posting[p])
    /\ ppc' = [ppc EXCEPT ![p] = "idle"]
    /\ posting' = [posting EXCEPT ![p] = NoCallback]
    /\ UNCHANGED <<queue, running, baseOpen, dpc, current, order, started>>

\* ... or refused,
HandOffRefused(p) ==
    /\ ppc[p] = "handoff" /\ ~baseOpen
    /\ ppc' = [ppc EXCEPT ![p] = "refused"]
    /\ UNCHANGED <<queue, running, baseOpen, tasks, posting, dpc, current,
                   result, order, started>>

\* and the last critical section of post() drops the whole queue and
\* returns false.
DropQueue(p) ==
    /\ ppc[p] = "refused"
    /\ queue' = <<>>
    /\ StopRunning
    /\ Refused(posting[p])
    /\ ppc' = [ppc EXCEPT ![p] = "idle"]
    /\ posting' = [posting EXCEPT ![p] = NoCallback]
    /\ UNCHANGED <<baseOpen, tasks, dpc, current, order, started>>

\* The base executor is shut down by its owner; tasks it has taken stay.
CloseBase ==
    /\ BaseMayClose /\ baseOpen
    /\ baseOpen' = FALSE
    /\ UNCHANGED <<queue, running, tasks, ppc, posting, dpc, current, result,
                   order, started>>

\* A thread of the base executor starts a drain task.
StartDrain(d) ==
    /\ dpc[d] = "idle" /\ tasks > 0
    /\ tasks' = tasks - 1
    /\ dpc' = [dpc EXCEPT ![d] = "drain"]
    /\ UNCHANGED <<queue, running, baseOpen, ppc, posting, current, result,
                   order, started>>

\* serialDrain(): take the front of the queue and run it,
DrainOne(d) ==
    /\ dpc[d] = "drain" /\ queue # <<>>
    /\ PopFront
    /\ current' = [current EXCEPT ![d] = Head(queue)]
    /\ started' = Append(started, Head(queue))
    /\ dpc' = [dpc EXCEPT ![d] = "invoke"]
    /\ UNCHANGED <<running, baseOpen, tasks, ppc, posting, result, order>>

\* return from the callback to the loop (an exception is caught), and
\* destroy it,
Release(d) == current' = [current EXCEPT ![d] = NoCallback]

Invoked(d) ==
    /\ dpc[d] = "invoke"
    /\ dpc' = [dpc EXCEPT ![d] = "drain"]
    /\ Release(d)
    /\ UNCHANGED <<queue, running, baseOpen, tasks, ppc, posting, result,
                   order, started>>

\* or, the queue being empty, clear `running` and leave.
DrainEmpty(d) ==
    /\ dpc[d] = "drain" /\ queue = <<>>
    /\ StopRunning
    /\ dpc' = [dpc EXCEPT ![d] = "idle"]
    /\ UNCHANGED <<queue, baseOpen, tasks, ppc, posting, current, result,
                   order, started>>

Post(p) ==
    \/ \E c \in Callbacks : PostBehind(p, c) \/ PostFirst(p, c)
    \/ HandOff(p) \/ HandOffRefused(p) \/ DropQueue(p)

Drain(d) == StartDrain(d) \/ DrainOne(d) \/ Invoked(d) \/ DrainEmpty(d)

Next ==
    \/ \E p \in Posters : Post(p)
    \/ \E d \in Drainers : Drain(d)
    \/ CloseBase

Spec == Init /\ [][Next]_vars

-----------------------------------------------------------------------------
Busy(d) == dpc[d] # "idle"

\* Exactly one party is responsible for the queue while `running` is set:
\* a poster handing a drain task over, a drain task waiting in the base, or
\* a base thread draining.  While it is clear there is none, and nothing is
\* left in the queue for nobody to run.  In particular, callbacks of
\* one strand never run concurrently, whatever the base is.
OneResponsible ==
    LET posters == {p \in Posters : ppc[p] # "idle"}
        busy    == {d \in Drainers : Busy(d)}
    IN  /\ Cardinality(posters) + tasks + Cardinality(busy) = (IF running THEN 1 ELSE 0)
        /\ queue # <<>> => running

\* Callbacks start in the order post() queued them: every started or queued
\* callback comes later in `order` than those started before it.
Position(c) == CHOOSE i \in 1 .. Len(order) : order[i] = c

FifoOrder ==
    LET line == started \o queue
    IN  \A i, j \in 1 .. Len(line) : i < j => Position(line[i]) < Position(line[j])

\* The only way to lose a callback whose post() returned true is a refused
\* hand-over: until some post() returns false, each one is queued or started.
AcceptedUnlessRefused ==
    (\A c \in Callbacks : result[c] # "false") =>
        \A c \in Callbacks : result[c] = "true" => c \in Elements(started \o queue)

-----------------------------------------------------------------------------
\* The strand as the client of IExecutor sees it.
StatusOf(c) ==
    IF \E d \in Drainers : current[d] = c THEN "running"
    ELSE IF result[c] = "false" THEN "refused"
    ELSE IF c \in Elements(started) THEN "done"
    ELSE IF result[c] = "true" THEN "taken"
    ELSE "new"

Contract == INSTANCE Executor WITH status <- [c \in Callbacks |-> StatusOf(c)]

\* The strand implements IExecutor: a callback runs at most once, and never
\* when its post() returned false.
ImplementsExecutor == Contract!Spec
=============================================================================
