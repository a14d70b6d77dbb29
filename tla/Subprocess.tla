----------------------------- MODULE Subprocess -----------------------------
(***************************************************************************)
(* Subprocess (dsbox_process), on POSIX and on Windows: one child process,  *)
(* the threads that serve its three pipes, the thread that waits for its    *)
(* exit, and the owner who sets the callbacks after the constructor, writes *)
(* to its standard input and destroys the object at any time.               *)
(*                                                                         *)
(* External: the child, and the operating system: a read ends when the      *)
(* child is gone and the pipe is empty, so nobody else holds its ends, and  *)
(* a write to a child that is gone fails, so SIGPIPE is ignored.            *)
(***************************************************************************)
EXTENDS Naturals

CONSTANTS MaxChunks, \* bound: chunks written to the child
          MaxOutput  \* bound: chunks it has written that are not read

\* Assumed of the constants.
SubprocessConstants == {MaxChunks, MaxOutput} \subseteq Nat

VARIABLES owner,      \* the owner's thread: where it is
          child,      \* none, running, exited
          running, exited,                 \* m_impl->running and exited
          stdinQueue, closeRequested, stop, \* of the stdin writer
          stdinThread,                     \* none, waiting, writing, done
          chunk,                           \* what it is writing
          stdinOpen,  \* our end of its pipe
          sent,       \* chunks the child was given
          asked,      \* chunks the owner wrote before it closed standard input
          output,     \* pipe |-> chunks the child wrote that nobody read
          readers,    \* pipe |-> none, blocked, calling, ending, done: stdoutThread, stderrThread
          waiterThread, \* none, blocked, reaped, noting, calling, done
          callbacks,  \* those that are set: stdout, stderr, exit
          toldExit,   \* how often onExit was called
          waiter      \* a call of wait(): no, waiting, returned

Pipes == {"stdout", "stderr"}
process == <<child, running, exited>>
stdin   == <<stdinQueue, closeRequested, stop, stdinThread, chunk, stdinOpen, sent, asked>>
outputs == <<output, readers>>
exit    == <<waiterThread, toldExit, waiter>>
vars    == <<owner, process, stdin, outputs, callbacks, exit>>

Init ==
    /\ owner = "new" /\ child = "none" /\ running = TRUE /\ exited = FALSE
    /\ stdinQueue = 0 /\ closeRequested = FALSE /\ stop = FALSE
    /\ stdinThread = "none" /\ chunk = 0 /\ stdinOpen = FALSE /\ sent = 0 /\ asked = 0
    /\ output = [p \in Pipes |-> 0] /\ readers = [p \in Pipes |-> "none"]
    /\ waiterThread = "none" /\ callbacks = {} /\ toldExit = 0 /\ waiter = "no"

-----------------------------------------------------------------------------
\* The constructor: the child runs, and so do the threads, when it returns;
Spawn ==
    /\ owner = "new" /\ owner' = "ready"
    /\ child' = "running" /\ stdinOpen' = TRUE
    /\ stdinThread' = "waiting" /\ readers' = [p \in Pipes |-> "blocked"] /\ waiterThread' = "blocked"
    /\ UNCHANGED <<running, exited, stdinQueue, closeRequested, stop, chunk, sent, asked, output,
                   callbacks, toldExit, waiter>>
\* or it throws, and no thread was started.
SpawnFails ==
    /\ owner = "new" /\ owner' = "gone"
    /\ UNCHANGED <<process, stdin, outputs, callbacks, exit>>

\* The owner sets the callbacks while the child runs already.
SetCallback(name) ==
    /\ owner = "ready" /\ callbacks' = callbacks \cup {name}
    /\ UNCHANGED <<owner, process, stdin, outputs, exit>>

WriteStdin ==
    /\ owner = "ready" /\ sent + chunk + stdinQueue < MaxChunks
    /\ stdinQueue' = stdinQueue + 1
    /\ asked' = IF closeRequested THEN asked ELSE asked + 1
    /\ UNCHANGED <<owner, process, closeRequested, stop, stdinThread, chunk, stdinOpen, sent, outputs,
                   callbacks, exit>>
CloseStdin ==
    /\ owner = "ready" /\ closeRequested' = TRUE
    /\ UNCHANGED <<owner, process, stdinQueue, stop, stdinThread, chunk, stdinOpen, sent, asked, outputs,
                   callbacks, exit>>

\* wait(), which any thread may call while the object exists.
Wait ==
    /\ owner = "ready" /\ waiter = "no" /\ waiter' = "waiting"
    /\ UNCHANGED <<owner, process, stdin, outputs, callbacks, waiterThread, toldExit>>
WaitReturns ==
    /\ waiter = "waiting" /\ exited /\ waiter' = "returned"
    /\ UNCHANGED <<owner, process, stdin, outputs, callbacks, waiterThread, toldExit>>

\* A mutated form: the child is left to itself.
LeftAlone == child
Killed == IF running THEN "exited" ELSE child
\* The destructor: kill (a child that has exited, when `running` is still set), stop the writer, join every thread, close the pipes.
Destroy ==
    /\ owner = "ready" /\ waiter # "waiting"
    /\ owner' = "joining" /\ stop' = TRUE
    /\ child' = Killed
    /\ UNCHANGED <<running, exited, stdinQueue, closeRequested, stdinThread, chunk, stdinOpen, sent,
                   asked, outputs, callbacks, exit>>
Threads == {stdinThread, waiterThread} \cup {readers[p] : p \in Pipes}
\* A mutated form: the readers are not joined.
TwoJoined == {stdinThread, waiterThread} = {"done"}
Joined == Threads = {"done"}
Destroyed ==
    /\ owner = "joining" /\ Joined
    /\ owner' = "gone" /\ stdinOpen' = FALSE
    /\ UNCHANGED <<process, stdinQueue, closeRequested, stop, stdinThread, chunk, sent, asked, outputs,
                   callbacks, exit>>

-----------------------------------------------------------------------------
\* A mutated form: the end of the input overtakes what is queued.
MayCloseAtOnce == closeRequested
\* runStdinWriter(): what is queued goes first, then the end of the input.
MayClose == stdinQueue = 0 /\ closeRequested
StdinDone ==
    /\ stdinThread = "waiting" /\ stop
    /\ stdinThread' = "done"
    /\ UNCHANGED <<owner, process, stdinQueue, closeRequested, stop, chunk, stdinOpen, sent, asked, outputs,
                   callbacks, exit>>
StdinTake ==
    /\ stdinThread = "waiting" /\ ~stop /\ stdinQueue > 0
    /\ stdinThread' = "writing" /\ chunk' = stdinQueue /\ stdinQueue' = 0
    /\ UNCHANGED <<owner, process, closeRequested, stop, stdinOpen, sent, asked, outputs, callbacks, exit>>
StdinWritten ==
    /\ stdinThread = "writing" /\ child = "running"
    /\ sent' = sent + chunk /\ chunk' = 0 /\ stdinThread' = "waiting"
    /\ UNCHANGED <<owner, process, stdinQueue, closeRequested, stop, stdinOpen, asked, outputs, callbacks,
                   exit>>
StdinBroken ==
    /\ stdinThread = "writing" /\ child = "exited"
    /\ stdinThread' = "done"
    /\ UNCHANGED <<owner, process, stdinQueue, closeRequested, stop, chunk, stdinOpen, sent, asked, outputs,
                   callbacks, exit>>
StdinEnd ==
    /\ stdinThread = "waiting" /\ ~stop /\ MayClose
    /\ stdinThread' = "done" /\ stdinOpen' = FALSE
    /\ UNCHANGED <<owner, process, stdinQueue, closeRequested, stop, chunk, sent, asked, outputs, callbacks,
                   exit>>
StdinLoop == StdinDone \/ StdinTake \/ StdinWritten \/ StdinBroken \/ StdinEnd

\* runStdoutReader() and runStderrReader(): what nobody listens for is dropped; the one
\* of stderr calls back when a line is complete, and at the end for what is left of one.
Becomes(p, state) == readers' = [readers EXCEPT ![p] = state]
Read(p) ==
    /\ readers[p] = "blocked" /\ output[p] > 0
    /\ output' = [output EXCEPT ![p] = @ - 1]
    /\ \/ p \in callbacks /\ Becomes(p, "calling")
       \/ (p \notin callbacks \/ p = "stderr") /\ UNCHANGED readers
    /\ UNCHANGED <<owner, process, stdin, callbacks, exit>>
Called(p) ==
    /\ readers[p] \in {"calling", "ending"}
    /\ Becomes(p, IF readers[p] = "calling" THEN "blocked" ELSE "done")
    /\ UNCHANGED <<owner, process, stdin, output, callbacks, exit>>
ReadEnds(p) ==
    /\ readers[p] = "blocked" /\ output[p] = 0 /\ child = "exited"
    /\ \/ Becomes(p, "done")
       \/ p = "stderr" /\ p \in callbacks /\ Becomes(p, "ending")
    /\ UNCHANGED <<owner, process, stdin, output, callbacks, exit>>
ReadLoop == \E p \in Pipes : Read(p) \/ Called(p) \/ ReadEnds(p)

\* runWaiter(): the child is waited for, and its id is free from then on; then follow
\* `running`, `exited` for whoever is in wait(), and the callback.
Reap ==
    /\ waiterThread = "blocked" /\ child = "exited"
    /\ waiterThread' = "reaped"
    /\ UNCHANGED <<owner, process, stdin, outputs, callbacks, toldExit, waiter>>
NotRunning ==
    /\ waiterThread = "reaped"
    /\ running' = FALSE /\ waiterThread' = "noting"
    /\ UNCHANGED <<owner, child, exited, stdin, outputs, callbacks, toldExit, waiter>>
Note ==
    /\ waiterThread = "noting"
    /\ exited' = TRUE /\ waiterThread' = "calling"
    /\ UNCHANGED <<owner, child, running, stdin, outputs, callbacks, toldExit, waiter>>
TellExit ==
    /\ waiterThread = "calling"
    /\ toldExit' = IF "exit" \in callbacks THEN toldExit + 1 ELSE toldExit
    /\ waiterThread' = "done"
    /\ UNCHANGED <<owner, process, stdin, outputs, callbacks, waiter>>

\* The child: it writes, and it exits when it likes.
ChildWrites ==
    /\ child = "running"
    /\ \E p \in Pipes : output[p] < MaxOutput /\ output' = [output EXCEPT ![p] = @ + 1]
    /\ UNCHANGED <<owner, process, stdin, readers, callbacks, exit>>
ChildExits ==
    /\ child = "running" /\ child' = "exited"
    /\ UNCHANGED <<owner, running, exited, stdin, outputs, callbacks, exit>>

GoesOn == StdinLoop \/ ReadLoop \/ Reap \/ NotRunning \/ Note \/ TellExit \/ WaitReturns \/ Destroyed
Owner ==
    \/ Spawn \/ SpawnFails \/ WriteStdin \/ CloseStdin \/ Wait \/ Destroy
    \/ \E name \in Pipes \cup {"exit"} : SetCallback(name)
Next == Owner \/ GoesOn \/ ChildWrites \/ ChildExits

\* Threads go on; the child promises nothing, and the owner only what the
\* constructor's caller does.
Fairness == WF_vars(GoesOn)
Spec == Init /\ [][Next]_vars /\ Fairness

-----------------------------------------------------------------------------
TypeOK ==
    /\ owner \in {"new", "ready", "joining", "gone"}
    /\ child \in {"none", "running", "exited"}
    /\ sent \in Nat /\ stdinQueue \in Nat /\ output \in [Pipes -> 0 .. MaxOutput]

\* When the destructor has returned no thread is left that would call back into
\* what the owner destroys next, and the child is not left running.
NothingLeft ==
    owner = "gone" => Threads \subseteq {"none", "done"} /\ child # "running" /\ ~stdinOpen
\* The child sees the end of its input only after all that was written before
\* closeStdin(), as long as it reads at all.
InputComplete ==
    ~stdinOpen /\ owner = "ready" => sent >= asked
\* onExit is called once at most, and wait() returns only for an exit.
ExitOnce == toldExit <= 1 /\ (toldExit = 1 \/ waiter = "returned" => child = "exited" /\ exited)

Inv == TypeOK /\ NothingLeft /\ InputComplete /\ ExitOnce

\* The destructor returns whatever the child does, and so does wait() once the
\* child is gone; the exit is told when the callback was there in time.
Settled ==
    /\ owner # "joining"
    /\ child = "exited" => waiter # "waiting" /\ waiterThread = "done"
EventuallySettled == <>[]Settled

\* subprocess.hpp: wait() "Blocks until the process has exited (if it hasn't
\* already) and every reader/writer thread has been joined".
WaitJoins == waiter = "returned" => Threads = {"done"}
=============================================================================
