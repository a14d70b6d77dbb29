------------------------------ MODULE IoModule ------------------------------
(***************************************************************************)
(* IOModule (dsbox_io): the bounded queue of write() and the worker that    *)
(* drains it, the claim of standard input, and the registry of connected    *)
(* subprocesses.                                                           *)
(*                                                                         *)
(* Writers, the module's owner and the callers of connect functions are     *)
(* different threads.  A Subprocess and its IpcChannel are one object here,  *)
(* with the states their modules give them: alive, closed, destroyed.       *)
(***************************************************************************)
EXTENDS Naturals, Sequences, FiniteSets

CONSTANTS Writers,     \* threads that call write() once
          MaxQueue,    \* options.maxQueueSize, 0 for no limit
          Callers,     \* threads that call a connect function or a reader
          OneAtATime   \* connect functions are not called concurrently

\* Assumed of the constants.
IoConstants == MaxQueue \in Nat /\ OneAtATime \in BOOLEAN /\ IsFiniteSet(Writers \cup Callers)

VARIABLES module,     \* the owner: new, up, stopping, down
          running,    \* m_impl->running
          queue,      \* writers whose text is queued
          worker,     \* none, waiting, delivering, gone
          held,       \* the text the worker delivers
          notified,   \* the worker was woken, or has not slept yet
          write,      \* where a call of write() is
          sink,       \* where its text went: nowhere, stdout, stderr
          claimed,    \* stdinClaimedBy
          childActive, childChannel,
          readers,    \* who reads standard input, and for what
          call,       \* what a caller does and where it is
          entries,    \* the registry: callers whose object is entered
          object      \* the subprocess of a caller: none, alive, destroyed

queueing == <<running, queue, worker, held, notified, write, sink>>
wire     == <<claimed, childActive, childChannel, readers>>
registry == <<entries, object>>
vars     == <<module, queueing, wire, call, registry>>

Nobody == "nobody"

Init ==
    /\ module = "new" /\ running = FALSE /\ queue = <<>> /\ worker = "none" /\ held = {}
    /\ notified = FALSE /\ write = [w \in Writers |-> "idle"]
    /\ sink = [w \in Writers |-> "nowhere"]
    /\ claimed = Nobody /\ childActive = FALSE /\ childChannel = {} /\ readers = {}
    /\ call = [c \in Callers |-> "idle"] /\ entries = {} /\ object = [c \in Callers |-> "none"]

-----------------------------------------------------------------------------
\* write(): to the error stream when standard output is the wire.
At(w, l) == write[w] = l
Goto(w, l) == write' = [write EXCEPT ![w] = l]
Deliver(w, s) == sink' = [sink EXCEPT ![w] = s]
WriteStart(w) ==
    /\ At(w, "idle")
    /\ IF childActive THEN Goto(w, "done") /\ Deliver(w, "stderr")
       ELSE Goto(w, "locked") /\ UNCHANGED sink
    /\ UNCHANGED <<module, running, queue, worker, held, notified, wire, call, registry>>

\* Under the mutex: wait for room, and queue; or deliver without the queue.
HasRoom == MaxQueue = 0 \/ Len(queue) < MaxQueue
WriteSleep(w) ==
    /\ At(w, "locked") /\ running /\ ~HasRoom
    /\ Goto(w, "asleep")
    /\ UNCHANGED <<module, running, queue, worker, held, notified, sink, wire, call, registry>>
WriteQueue(w) ==
    /\ At(w, "locked") /\ running /\ HasRoom
    /\ queue' = Append(queue, w) /\ notified' = TRUE
    /\ Goto(w, "done")
    /\ UNCHANGED <<module, running, worker, held, sink, wire, call, registry>>
WriteDirect(w) ==
    /\ At(w, "locked") /\ ~running
    /\ Goto(w, "done") /\ Deliver(w, "stdout")
    /\ UNCHANGED <<module, running, queue, worker, held, notified, wire, call, registry>>
Write(w) == WriteStart(w) \/ WriteSleep(w) \/ WriteQueue(w) \/ WriteDirect(w)

\* workerLoop(): it leaves only when nothing is queued.
Asleep == {w \in Writers : At(w, "asleep")}
Wake(S) == write' = [w \in Writers |-> IF w \in S THEN "locked" ELSE write[w]]
\* A mutated form: the worker leaves what is queued.
LeavesAtOnce == ~running
MayLeave == ~running /\ queue = <<>>
WorkerTake ==
    /\ worker = "waiting" /\ queue # <<>>
    /\ held' = {Head(queue)} /\ queue' = Tail(queue)
    /\ worker' = "delivering"
    /\ IF Asleep = {} THEN UNCHANGED write ELSE \E w \in Asleep : Wake({w})
    /\ UNCHANGED <<module, running, notified, sink, wire, call, registry>>
WorkerDeliver ==
    /\ worker = "delivering"
    /\ sink' = [w \in Writers |-> IF w \in held THEN "stdout" ELSE sink[w]]
    /\ held' = {} /\ worker' = "waiting"
    /\ UNCHANGED <<module, running, queue, notified, write, wire, call, registry>>
WorkerSleep ==
    /\ worker = "waiting" /\ queue = <<>> /\ running /\ notified
    /\ notified' = FALSE
    /\ UNCHANGED <<module, running, queue, worker, held, write, sink, wire, call, registry>>
WorkerLeave ==
    /\ worker = "waiting" /\ MayLeave /\ notified
    /\ worker' = "gone"
    /\ UNCHANGED <<module, running, queue, held, notified, write, sink, wire, call, registry>>
Worker == (notified /\ WorkerTake) \/ WorkerDeliver \/ WorkerSleep \/ WorkerLeave

-----------------------------------------------------------------------------
\* onInit() and onShutdown() of the module; the destructor does the same.
Start ==
    /\ module = "new"
    /\ module' = "up" /\ running' = TRUE /\ worker' = "waiting" /\ notified' = TRUE
    /\ UNCHANGED <<queue, held, write, sink, wire, call, registry>>
\* A mutated form: only the worker is woken.
WakeWorker == UNCHANGED write /\ notified' = TRUE
WakeAll == Wake(Asleep) /\ notified' = TRUE
StopWorker ==
    /\ module = "up"
    /\ module' = "stopping" /\ running' = FALSE
    /\ WakeAll
    /\ UNCHANGED <<queue, worker, held, sink, wire, call, registry>>
\* The worker is joined; then the channels are closed and the subprocesses go.
Shutdown ==
    /\ module = "stopping" /\ worker = "gone"
    /\ module' = "down" /\ worker' = "none"
    /\ entries' = {}
    /\ object' = [c \in Callers |-> IF c \in entries THEN "destroyed" ELSE object[c]]
    /\ UNCHANGED <<running, queue, held, notified, write, sink, wire, call>>

-----------------------------------------------------------------------------
\* claimStdin(): it throws when another purpose has it.
Connecting == {c \in Callers : call[c] \notin {"idle", "connected", "threw"}}
MayCall(c) == module \in {"up", "stopping"} /\ call[c] = "idle" /\ (OneAtATime => Connecting = {})
Becomes(c, l) == call' = [call EXCEPT ![c] = l]
Throw(c) ==
    /\ Becomes(c, "threw")
    /\ UNCHANGED <<module, queueing, wire, registry>>

\* enableStdin() and readStdinLine(): each reads for its own purpose.
ReadFor(c, purpose) ==
    /\ MayCall(c)
    /\ IF claimed \in {Nobody, purpose}
       THEN /\ claimed' = purpose /\ readers' = readers \cup {<<purpose, c>>}
            /\ Becomes(c, "connected")
            /\ UNCHANGED <<module, queueing, childActive, childChannel, registry>>
       ELSE Throw(c)
EnableStdin(c)   == ReadFor(c, "line")
ReadStdinLine(c) == ReadFor(c, "CLI line reader")

\* connectAsChild()
ChildCheck(c) ==
    /\ MayCall(c)
    /\ IF childChannel # {} THEN Throw(c)
       ELSE Becomes(c, "claiming") /\ UNCHANGED <<module, queueing, wire, registry>>
ChildClaim(c) ==
    /\ call[c] = "claiming"
    /\ IF claimed \in {Nobody, "child"}
       THEN /\ claimed' = "child" /\ Becomes(c, "wiring")
            /\ UNCHANGED <<module, queueing, childActive, childChannel, readers, registry>>
       ELSE Throw(c)
ChildWire(c) ==
    /\ call[c] = "wiring"
    /\ childChannel' = {c} /\ childActive' = TRUE /\ readers' = readers \cup {<<"child", c>>}
    /\ Becomes(c, "connected")
    /\ UNCHANGED <<module, queueing, claimed, registry>>

\* A mutated form: a name may be given away twice.
NeverInUse == FALSE
\* connectSubprocess() of one name: looked up under the lock, spawned without
\* it, entered under it; an entry that exists stays, and the new one is lost.
NameInUse == entries # {}
SubprocessCheck(c) ==
    /\ MayCall(c)
    /\ IF NameInUse THEN Throw(c)
       ELSE Becomes(c, "spawning") /\ UNCHANGED <<module, queueing, wire, registry>>
SubprocessSpawn(c) ==
    /\ call[c] = "spawning"
    /\ object' = [object EXCEPT ![c] = "alive"]
    /\ Becomes(c, "entering")
    /\ UNCHANGED <<module, queueing, wire, entries>>
SpawnFails(c) == call[c] = "spawning" /\ Throw(c)
SubprocessEnter(c) ==
    /\ call[c] = "entering"
    /\ IF NameInUse THEN object' = [object EXCEPT ![c] = "destroyed"] /\ UNCHANGED entries
       ELSE entries' = {c} /\ UNCHANGED object
    /\ Becomes(c, "connected")
    /\ UNCHANGED <<module, queueing, wire>>
\* disconnectSubprocess(): the entry is moved out and destroyed by its caller.
Disconnect ==
    /\ entries # {}
    /\ entries' = {}
    /\ object' = [c \in Callers |-> IF c \in entries THEN "destroyed" ELSE object[c]]
    /\ UNCHANGED <<module, queueing, wire, call>>

Connect(c) ==
    \/ ChildClaim(c) \/ ChildWire(c) \/ SubprocessSpawn(c) \/ SpawnFails(c) \/ SubprocessEnter(c)
Next ==
    \/ \E w \in Writers : Write(w)
    \/ Worker \/ Start \/ StopWorker \/ Shutdown \/ Disconnect
    \/ \E c \in Callers :
         \/ EnableStdin(c) \/ ReadStdinLine(c)
         \/ ChildCheck(c) \/ SubprocessCheck(c) \/ Connect(c)

\* Threads go on; nobody has to call anything, but what is started is stopped.
GoesOn == (\E w \in Writers : Write(w) /\ ~At(w, "idle")) \/ Worker \/ StopWorker \/ Shutdown
Fairness == WF_vars(GoesOn)
Spec == Init /\ [][Next]_vars /\ Fairness

-----------------------------------------------------------------------------
TypeOK ==
    /\ module \in {"new", "up", "stopping", "down"}
    /\ worker \in {"none", "waiting", "delivering", "gone"}
    /\ MaxQueue > 0 => Len(queue) <= MaxQueue
    /\ claimed \in {Nobody, "line", "CLI line reader", "child"}

\* Nothing a call of write() took is lost: it is queued, held or delivered, and
\* when the module is down everything has gone somewhere.
NoTextLost ==
    \A w \in Writers : At(w, "done") =>
        \/ sink[w] # "nowhere"
        \/ module # "down" /\ (w \in held \/ \E i \in DOMAIN queue : queue[i] = w)
\* Standard input is read for one purpose only.
OnePurpose == \A r \in readers : r[1] = claimed
\* Whoever was given a channel can use it until somebody takes the name away:
\* its process is the registered one, or was disconnected or shut down.
Connected(c) == call[c] = "connected" /\ object[c] = "alive"
Registered == \A c \in Callers : Connected(c) => entries = {c}

Inv == TypeOK /\ NoTextLost /\ OnePurpose /\ Registered

\* No writer waits forever for room, and the shutdown comes to its end.
Settled == Asleep = {} /\ module \in {"new", "down"}
EventuallySettled == <>[]Settled

\* io_module.hpp: connectAsChild() throws "if this has already been called once
\* (at most one child link per process)", and once it is active write() "no
\* longer touches stdout at all".
OneChildLink == Cardinality({r \in readers : r[1] = "child"}) <= 1
\* io_module.hpp: connectSubprocess() throws "if `name` is already in use": it
\* never returns a channel whose process is gone already.
NeverStillborn ==
    [][\A c \in Callers : call[c] = "entering" /\ call'[c] = "connected" => object'[c] = "alive"]_vars
WireClean == [][childActive => \A w \in Writers : sink'[w] = "stdout" => sink[w] = "stdout"]_vars
=============================================================================
