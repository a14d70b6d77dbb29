------------------------------ MODULE Processes ------------------------------
(***************************************************************************)
(* Processes, what they are told and how they wait: the channel between two*)
(* of them and its frames, a child process and its pipes, the module that  *)
(* connects them, the Android bridge that drives adb, the coroutines that  *)
(* wait, and what is written for others to read: settings, command lines.  *)
(* A behaviour is one of one component.                                    *)
(***************************************************************************)
EXTENDS Naturals, Sequences

CONSTANTS None,
          Requests, Timed, Incoming, User, Reader, MaxFrames,  \* the channel's
          MaxPayload, MaxPiece,                                \* the codecs'
          MaxChunks, MaxOutput,                                \* the subprocess's
          Writers, MaxQueue, Callers, OneAtATime,              \* IOModule's
          Sections, Keys, Values, MaxLines, MaxSets, Modes, SetsWhileSaving,
          MaxText,                                             \* the command lines'
          Devices, Refreshing, MaxPlugs, MaxStarts, MaxFailures,
          Logcats,                                        \* the logcats'
          Calls, MaxItems, Workers                             \* the commands' and coroutines'

VARIABLES kind,  \* the component whose behaviour this is
    closed, entries, held, caller, sent, shared, private, timer, onPrivate, frames,
    batch, reader, reply, closer, closing, drained, calls,
    codec, codecSent, codecWire, codecBuffer, codecGot, codecFailed,
    childOwner, child, childRunning, childExited, stdinQueue, closeRequested, stop,
    stdinThread, chunk, stdinOpen, childSent, asked, childOutput, childReaders,
    waiterThread, callbacks, toldExit, childWaiter,
    module, ioRunning, ioQueue, worker, ioHeld, notified, write, sink, claimed,
    childActive, childChannel, readers, ioCall, ioEntries, object,
    file, store, original, dirty, sets, saving,
    text,
    plugged, plugs, failures, starts, snapshot, told, unheard, refresh, adbActive,
    usingTimer, adbTimer, adbRunning, adbThread, adbOwner, stopping,
    mutex, entry, logcatBuffer, logcatProcess, logcatOutput, hooked, logcatReader,
    logcatWaiter, logcatCaller, logcatHeld, overlapped, logcatStarts, logcatOwner,
    cmdItems, cmdCall, maker, cmdAt, cmdTask, cmdResults, firstError, cmdQueue,
    cmdRefusing,
    co, future, coRefusing, awaited, coAt, resumes, answer, coClaimed, coResult, coTimer,
    hook, stops, refused, arrived, completed, coCall

ipcVars == <<closed, entries, held, caller, sent, shared, private, timer, onPrivate,
              frames, batch, reader, reply, closer, closing, drained, calls>>
codecVars == <<codec, codecSent, codecWire, codecBuffer, codecGot, codecFailed>>
childVars == <<childOwner, child, childRunning, childExited, stdinQueue, closeRequested,
                stop, stdinThread, chunk, stdinOpen, childSent, asked, childOutput,
                childReaders, waiterThread, callbacks, toldExit, childWaiter>>
ioVars == <<module, ioRunning, ioQueue, worker, ioHeld, notified, write, sink, claimed,
             childActive, childChannel, readers, ioCall, ioEntries, object>>
storeVars == <<file, store, original, dirty, sets, saving>>
wordsVars == <<text>>
devicesVars == <<plugged, plugs, failures, starts, snapshot, told, unheard, refresh,
                  adbActive, usingTimer, adbTimer, adbRunning, adbThread, adbOwner,
                  stopping>>
logcatVars == <<mutex, entry, logcatBuffer, logcatProcess, logcatOutput, hooked,
                 logcatReader, logcatWaiter, logcatCaller, logcatHeld, overlapped,
                 logcatStarts, logcatOwner>>
commandsVars == <<cmdItems, cmdCall, maker, cmdAt, cmdTask, cmdResults, firstError,
                   cmdQueue, cmdRefusing>>
coroutineVars == <<co, future, coRefusing, awaited, coAt, resumes, answer, coClaimed,
                    coResult, coTimer, hook, stops, refused, arrived, completed, coCall>>
vars == <<kind, ipcVars, codecVars, childVars, ioVars, storeVars, wordsVars, devicesVars,
            logcatVars, commandsVars, coroutineVars>>

Ipc == INSTANCE IpcChannel
Codecs == INSTANCE FrameCodecs WITH sent <- codecSent, wire <- codecWire, buffer <- codecBuffer, got <- codecGot,
          failed <- codecFailed
Child == INSTANCE Subprocess WITH running <- childRunning, exited <- childExited, sent <- childSent,
         waiter <- childWaiter, owner <- childOwner, output <- childOutput,
         readers <- childReaders
Io == INSTANCE IoModule WITH call <- ioCall, held <- ioHeld, running <- ioRunning, queue <- ioQueue,
      entries <- ioEntries
Store == INSTANCE ConfigStore
Words == INSTANCE CommandLines
Bridge == INSTANCE AdbDevices WITH Callers <- Refreshing, running <- adbRunning, thread <- adbThread,
          owner <- adbOwner, timer <- adbTimer, active <- adbActive
Logcat == INSTANCE AdbLogcat WITH Processes <- Logcats, MaxLines <- MaxOutput, owner <- logcatOwner,
          buffer <- logcatBuffer, process <- logcatProcess, output <- logcatOutput,
          held <- logcatHeld, reader <- logcatReader, waiter <- logcatWaiter,
          caller <- logcatCaller, starts <- logcatStarts
Commands == INSTANCE AdbCommands WITH items <- cmdItems, call <- cmdCall, at <- cmdAt, task <- cmdTask,
            results <- cmdResults, queue <- cmdQueue, refusing <- cmdRefusing
Coroutine == INSTANCE Coroutines WITH kind <- awaited, at <- coAt, timer <- coTimer, result <- coResult,
             call <- coCall, refusing <- coRefusing, claimed <- coClaimed

ASSUME ProcessesAssumption ==
    /\ Ipc!IpcConstants /\ Codecs!CodecConstants /\ Child!SubprocessConstants /\ Io!IoConstants
    /\ Store!ConfigConstants /\ Words!CommandLineConstants /\ Bridge!AdbConstants
    /\ Logcat!LogcatConstants /\ Commands!CommandConstants /\ Coroutine!CoroutineConstants

-----------------------------------------------------------------------------
\* One component moves; the others stay in an initial state.
Init ==
    /\ kind \in {"ipc", "codec", "child", "io", "store", "words", "devices", "logcat", "commands", "coroutine"}
    /\ Ipc!Init /\ (kind # "ipc" => shared = "none")
    /\ Codecs!Init /\ (kind # "codec" => codec = "text")
    /\ Child!Init
    /\ Io!Init
    /\ Store!Init /\ (kind # "store" => file = <<>>)
    /\ Words!Init
    /\ Bridge!Init
    /\ Logcat!Init
    /\ Commands!Init /\ (kind # "commands" => cmdItems = [c \in Calls |-> 0])
    /\ Coroutine!Init /\ (kind # "coroutine" => awaited = "hop")

Next ==
    /\ UNCHANGED kind
    /\ \/ kind = "ipc" /\ Ipc!Next
          /\ UNCHANGED <<codecVars, childVars, ioVars, storeVars, wordsVars,
                          devicesVars, logcatVars, commandsVars, coroutineVars>>
       \/ kind = "codec" /\ Codecs!Next
          /\ UNCHANGED <<ipcVars, childVars, ioVars, storeVars, wordsVars, devicesVars,
                          logcatVars, commandsVars, coroutineVars>>
       \/ kind = "child" /\ Child!Next
          /\ UNCHANGED <<ipcVars, codecVars, ioVars, storeVars, wordsVars, devicesVars,
                          logcatVars, commandsVars, coroutineVars>>
       \/ kind = "io" /\ Io!Next
          /\ UNCHANGED <<ipcVars, codecVars, childVars, storeVars, wordsVars,
                          devicesVars, logcatVars, commandsVars, coroutineVars>>
       \/ kind = "store" /\ Store!Next
          /\ UNCHANGED <<ipcVars, codecVars, childVars, ioVars, wordsVars, devicesVars,
                          logcatVars, commandsVars, coroutineVars>>
       \/ kind = "words" /\ Words!Next
          /\ UNCHANGED <<ipcVars, codecVars, childVars, ioVars, storeVars, devicesVars,
                          logcatVars, commandsVars, coroutineVars>>
       \/ kind = "devices" /\ Bridge!Next
          /\ UNCHANGED <<ipcVars, codecVars, childVars, ioVars, storeVars, wordsVars,
                          logcatVars, commandsVars, coroutineVars>>
       \/ kind = "logcat" /\ Logcat!Next
          /\ UNCHANGED <<ipcVars, codecVars, childVars, ioVars, storeVars, wordsVars,
                          devicesVars, commandsVars, coroutineVars>>
       \/ kind = "commands" /\ Commands!Next
          /\ UNCHANGED <<ipcVars, codecVars, childVars, ioVars, storeVars, wordsVars,
                          devicesVars, logcatVars, coroutineVars>>
       \/ kind = "coroutine" /\ Coroutine!Next
          /\ UNCHANGED <<ipcVars, codecVars, childVars, ioVars, storeVars, wordsVars,
                          devicesVars, logcatVars, commandsVars>>

\* What each component may rely on, as its own module says.
Fairness ==
    /\ WF_(Ipc!vars)(kind = "ipc" /\ Ipc!GoesOn)
    /\ WF_(Child!vars)(kind = "child" /\ Child!GoesOn)
    /\ WF_(Io!vars)(kind = "io" /\ Io!GoesOn)
    /\ \A c \in Bridge!Refreshers : WF_(Bridge!vars)(kind = "devices" /\ Bridge!RefreshStep(c))
    /\ WF_(Bridge!vars)(kind = "devices" /\ Bridge!Ticks)
    /\ WF_(Bridge!vars)(kind = "devices" /\ Bridge!WatchStopped)
    /\ WF_(Logcat!vars)(kind = "logcat" /\ Logcat!GoesOn)
    /\ WF_(Commands!vars)(kind = "commands" /\ Commands!GoesOn)
    /\ WF_(Coroutine!vars)(kind = "coroutine" /\ Coroutine!GoesOn)

Spec == Init /\ [][Next]_vars /\ Fairness

-----------------------------------------------------------------------------
\* Whoever waits for an answer gets it once (ipc_channel.cpp, scheduler.cpp): of the
\* reply, the timer and close() one calls onDone and leaves no timer behind; of the
\* timer, the stop token and stop() one resumes the coroutine, with the right answer.
AnsweredOnce ==
    /\ kind = "ipc" => Ipc!Inv /\ Ipc!NoStrayTimer
    /\ kind = "coroutine" => Coroutine!Inv

\* A child process and the module that connects it (subprocess_posix.cpp and
\* _win32.cpp, io_module.cpp): nothing is left running behind the owner's back, no
\* text is lost, and standard input and a name have one user.
ProcessesSafe == (kind = "child" => Child!Inv) /\ (kind = "io" => Io!Inv)

\* The Android bridge (adb_module.cpp, command_executor.cpp): events tell what the
\* snapshots tell, a logcat has one keeper, and no task outlives the call it is for.
BridgeSafe ==
    /\ kind = "devices" => Bridge!Inv
    /\ kind = "logcat" => Logcat!Inv
    /\ kind = "commands" => Commands!Inv

\* What is written is what is read (ini_document.cpp, persistent_config_store.cpp, the
\* frame codecs, subprocess_win32.cpp, tokenize.cpp): settings, frames, arguments.
TextsKept ==
    /\ kind = "store" => Store!Inv
    /\ kind = "codec" => Codecs!Inv
    /\ kind = "words" => Words!Inv

\* Requests are answered, tasks end, and close(), wait(), write(), stopLogcat(),
\* parallelForEach() and every destructor return; the bridge knows the devices.
ProcessesRest ==
    <>[](/\ kind = "ipc" => Ipc!Settled
         /\ kind = "child" => Child!Settled
         /\ kind = "io" => Io!Settled
         /\ kind = "devices" => Bridge!InStep
         /\ kind = "logcat" => Logcat!Settled
         /\ kind = "commands" => Commands!Returned
         /\ kind = "coroutine" => Coroutine!Settled)
=============================================================================
