# A verification development for betterAPI / DSBox

betterAPI is a set of native extensions for a game; almost all of its code is
**DSBox** (`src/extensionSources/dsbox`), a C++ runtime of small libraries:
modules with a life cycle, an event bus, executors and timers, IPC over pipes,
networking, processes, configuration, a command line, windows and a user
interface. Three small stand-alone extensions (BetterNetwork, BetterRender,
NoRender) stand beside it.

This directory holds TLA+ modules translated from that code, TLC
configurations that check them on small instances, and proofs that TLAPS
checks. Paths below are relative to `src/extensionSources/dsbox` unless they
start with `src/`.

    tlc -workers 2 -config Network.cfg Network.tla     # a run of PROJECT.json
    tlapm Executors_proofs.tla                         # proofs

## 1. Inventory

State, operations, who calls whom, what is hard, and what makes each part
correct. "M" names the modules that model a part; parts without one are not
modelled (section 5).

| Component | M | State | Operations | Hard |
|---|---|---|---|---|
| **Executors** `dsbox_scheduler/src/executors.cpp` | SerialExecutor, ThreadPool, LoopExecutor | queue, `started`/`stopping`, thread list and two condition variables (pool); queue, `stopRequested`, `closed` (loop); queue, `running` (strand) | `post`, `shutdown`, `waitIdle`; `run`, `runFor`, `poll`, `runOne`, `stop`, `restart`, `close` | notify after unlock, threads that fail to start, shutdown from inside a callback, a base executor that refuses |
| **Timers** `dsbox_scheduler/src/scheduler.cpp`, `timer_queue.hpp` | Scheduler | queue ordered by (time, id); per timer `active`, `running`, entry id; `stopping`, `stopped`, lazily created pool, timer thread | `after`/`at`/`every`, `cancel`, `cancelAndWait`, `runDue`, `post`, `stop` | four threads claim one timer; re-arming against cancelling; stopping from a callback; entries discarded, refused or cancelled |
| **Sleeps and coroutines** `coroutines.hpp`, `task.hpp`, `scheduler.cpp:399` | Coroutines | `claimed`, timer, stop callback; `arrived`, `completed` | `sleep`, `fromCallback`, `resumeOn`, `spawn` | exactly one resume among timer, stop token and `stop()`, also before `await_suspend` returns |
| **IpcChannel** `dsbox_ipc/src/ipc_channel.cpp` | IpcChannel | `m_closed`, pending table, private scheduler | `requestAsync`, `onBytesReceived`, timeouts, `close` | reply, timeout and close race for an entry; entry and timer are made in two steps |
| **Frame codecs** `dsbox_ipc/src/*_codec.cpp` | FrameCodecs | bytes not parsed yet | `feed`, `encode` | bytes cut anywhere |
| **ModuleManager** `dsbox_core/src/module_manager.cpp` | ModuleManager | modules with a state, `m_startOrder` | `registerModule`, `startAll`, `stopAll`, `unload`, `reload` | callbacks that throw, dependency order in every sequence of calls |
| Module loading, versions | | library handle | load, check version | external linker |
| **CommunicationManager** `dsbox_core/include/dsbox/communication_manager.hpp` | CommunicationManager | handlers and events by name, subscriber lists as snapshots, ids of subscriptions | register, unregister, `unregisterOwner`, `emit`, `publishHandledEvent`, handles | subscribers that leave during an emission, entries dropped and made anew, callbacks that call back in |
| **NetworkManager** `dsbox_net/src/network_manager.cpp`, `cancellation.hpp` | NetworkManager | interceptors, cancellation state, timer of a fetch | `fetch`, redirects, timeout, cancel | timeout against completion, callbacks run after the unlock, interceptors that come and go |
| **BodyPipe** `dsbox_net/src/body.cpp` | BodyPipe | chunks, `finished`, `failed`, `readerClosed` | `write`, `finish`, `fail`, `read`, `close` | bounded buffer between two threads that may both vanish |
| **URLs** `dsbox_net/src/url.cpp` | Url | | parse, resolve, print | dot segments, what a relative reference keeps, drive letters |
| **HTTP** `dsbox_net_http/` | HttpTransfer, Http1 | transfers, connection pool, threads; parser state | run, complete, abort, retry, shutdown; parse, decode | abort of a pooled connection, shutdown during connect; bytes cut anywhere |
| **Sockets** `dsbox_net_socket/` | TcpConnector | descriptor, `closed`; connectors by scheme | connect, read, write, close, register | close under a blocked reader, deadline in slices |
| **TLS** `dsbox_net_tls_openssl/` | TlsConnector | watchdog, cached context | connect, close, `refreshTrust` | the watchdog refers to the frame of `connect()` |
| **IO** `dsbox_io/src/io_module.cpp` | IoModule | stdin claim, subprocess table, bounded writer queue | `write`, `enableStdin`, `connectAsChild`, `connectSubprocess`, shutdown | check and insert in two sections, a full queue |
| **Subprocess** `dsbox_process/src/subprocess_*.cpp` | Subprocess | stdin queue, exit code, three threads | write, close stdin, `wait`, callbacks, destroy | three threads and an exit in any order |
| **Configuration** `dsbox_config/src/persistent_config_store.cpp`, `dsbox_ini/` | ConfigStore | defaults, overrides, `dirty` | `load`, `set`, serialize, `markSaved` | a write between serialize and mark; patching a text |
| **Command lines** `dsbox_cli/src/tokenize.cpp` and others | CommandLines | | quote, tokenize, extract | one party's quoting is another's parsing |
| **Android debug bridge** `dsbox_android_adb/` | AdbDevices, AdbLogcat, AdbCommands | snapshot of devices, watch, logcat processes, pool | refresh, start/stop watch and logcat, `parallelForEach` | overlapping refreshes, processes destroyed under a lock, tasks that use the caller's frame |
| **adb tool** `dsbox_adb_tool/src/gui_mode.cpp` | AdbTool | windows, their threads, task queues, panels, log | open, close, click, reap | answers that arrive when their view is gone |
| **Windows, rendering** `dsbox_sdl/`, `dsbox_vulkan/`, `dsbox_vulkan_gui/` | WindowModule, VulkanFrames, VulkanResources | command queue, hooks; fences, rings, swapchain; Vulkan objects | commands, frames, resize, attach, upload | hooks against frames, CPU against GPU, failures half-way |
| **User interface** `dsbox_ui/` | UiEvents, UiLayout, TextEditing, Widgets | tree, focus, capture, hover; cached layouts; text and cursor; selection | events, tick, edit, scroll | handlers that change the tree, caches, stale lines |
| Launcher, loader and runtime | CommandLines, ConfigStore | | start-up | |
| better_dsbox; BetterNetwork, BetterRender, NoRender (`src/extensionSources/`) | | a context pointer; use counts, handles | | stand-alone |

**Interactions.** `Scheduler` hands due timers to an `IExecutor`, by default
its own `ThreadPoolExecutor`. `SerialExecutor` runs on any executor.
Coroutines are resumed by the scheduler and on executors. `IpcChannel` arms
its timeouts on a `Scheduler` it shares or owns. `IOModule` starts a
`Subprocess` and feeds its output to an `IpcChannel` from a reader thread.
`NetworkManager` calls protocol handlers; the HTTP handler connects through
the connectors and fills a `BodyPipe`. The Android bridge runs subprocesses
and its watch on a scheduler; the adb tool is its user interface. The window
module calls render hooks, which draw through the Vulkan modules. Hosts
(launcher, mod runtime, adb tool) register modules and call `startAll()` and
`stopAll()`; the console calls `unload()` and `reload()` in between. Almost
everything is shared between threads under one mutex per object, with callbacks
run outside it: that is where the interesting behaviours are.

**What is hard to test** is listed, line by line, as "hazards" in
`PROJECT.json`, with the properties that would catch each.


## 2. What is modelled

Conventions. A VARIABLE is a member of the class it is named after, or says in
its comment what it stands for. One action is one critical section, one access
of an atomic, one call of another component or the run of a user callback, with
everything it changes; a thread between two such steps is at a named place
(`upc`, `wpc`, `stopPc`, `caller`, `closing` ...). Condition variables are wait
sets. History variables are marked "history"; no guard reads one. Each callback
is posted, and each timer scheduled, at most once: `Callbacks` and `Timers` are
their identities, so this bounds their number and not what happens to one. What
a component calls and does not contain (the operating system, a server, adb, a
GPU, the user) is external and free to do anything its interface allows, unless
the module says otherwise.

An operator that directly precedes another with a similar body and is said to be
a *mutated form* is a bug that a property is checked to detect ("mutants" in
`PROJECT.json`). No specification uses it.

**One run for several components.** `Executors`, `Network`, `Processes` and
`Interface` are sums: the variable `kind` never changes and names the component
whose behaviour this is; the variables of the others stay as they were. Their
initial states, steps and properties are those of the components, one
`INSTANCE` each (two components may share a variable that is idle in one of
them). So one run checks a layer of the system, but components of a sum do not
interact: where one relies on another, its module says what it assumes of it,
and the other's module checks that. Each component module states its own `Inv`
(a conjunction of named properties), its liveness property, its `Fairness`, and
what it needs of its constants.

### Executor (abstract)

The contract of `IExecutor` (`executor.hpp`), as one caller sees it: a callback
is taken or refused by `post()`; taken, it starts at most once and finishes;
refused, it never runs. The three executors implement it under a refinement
mapping (`StatusOf`, and `Contract == INSTANCE Executor WITH ...` in
`Executors`).

### SerialExecutor — `executors.cpp:319-391`

`post()` is `PostBehind` (a drain is under way) or `PostFirst`, followed by
`HandOff`, or by `HandOffRefused` and `DropQueue`, since the code hands over
outside the lock. `serialDrain()` is `StartDrain`, `DrainOne`, `Invoked` and
`DrainEmpty`. The base executor is external: it counts the drain tasks it has
taken and may be closed at any moment (`CloseBase`).

### ThreadPool — `executors.cpp:20-145`

`post()` in two steps, since it notifies after it unlocks; `PostThrows` is a
`std::thread` constructor that throws after some workers have started. Workers
sleep, take, run, and report idle. `shutdown()` may be called by clients and by
workers inside a callback, which do not join themselves, several times and at
once.

### LoopExecutor — `executors.cpp:158-305`

Each thread is in one of `run`, `runFor`, `poll` and `runOne`; `Deadline` lets
the time of a `runFor()` pass at any moment. `stop()` notifies after unlocking;
one `stop()` is between the two at a time.

### Scheduler — `scheduler.cpp`, `timer_queue.hpp`

Clients, workers inside a callback, the timer thread and a thread in `stop()` share
the queue, the flags and the executor. `Schedule`/`ScheduleEntry`,
`CancelFlag`/`CancelEntry`/`WaitDone` and `PostCheck`/`PostResolve`/`PostSubmit` are
calls in as many steps as they have critical sections or read an atomic. `PopDue`
and `RunDue` pop what is due; `Dispatch` hands over one entry at a time. A worker
goes through `Take`, `Enter`, `Claim`, `RearmRate`, `TaskDone`, `RearmDelay`,
`Leave`, as `runTimer()` does, and `stop()` through seven steps from `Stop` to
`StopJoinPool`. The executor is the scheduler's own pool, created when first needed,
or one passed in, which its owner may close. All the overloads that schedule differ
only in how they compute the first instant and are one action.

### Coroutines — `coroutines.hpp`, `task.hpp`, `scheduler.cpp:399-600`

One task, spawned on an executor, awaits one thing of three kinds: a sleep, a
callback that may be called twice, early and from any thread, or a hop to an
executor. `await_suspend()` is in as many steps as it has accesses of the
shared state (`at`), with the timer, the stop token and `Scheduler::stop()`
beside it, each of which may resume the coroutine while `await_suspend()` is
still running. A timer that is due is taken out of the queue (`Fire`) and handed
to the executor (`Dispatch`), which may refuse it: the run is then dropped, and
the sleep answers false. `ResumedOnce` is the claim that decides among them.

### IpcChannel — `ipc_channel.cpp`

Each request is made by a thread of its own: `Request`, `Insert`, `ArmTimeout`,
`StoreTimer`, `Send`. The reader receives batches of frames (`Receive`: replies
to requests sent, also several to one, and messages of the peer) and handles
them one by one. A timer that fires runs `Fire`, `Expire`, `Expired`. `close()`
runs in six steps, on a thread outside, on the reader inside a callback, or on
a timer's thread inside an `onDone`. Of the scheduler, this module keeps what
Scheduler.tla shows of it: a timer fires unless it is cancelled first, and
`stop()` discards what is armed (`Discard`); the private scheduler has an
inline executor, so its tasks run one at a time and `stop()` waits for the one
that is running, unless it is called from it.

### FrameCodecs — `length_prefixed_frame_codec.cpp`, `text_line_frame_codec.cpp`

A peer encodes frames; `feed()` is called with pieces cut anywhere. What comes
out is a prefix of what was sent, whatever the cut, and nothing stays in the
buffer that is a whole frame.

### ModuleManager — `module_manager.cpp`

A life-cycle call makes passes (`Passes`) over its modules (`order`, `todo`);
each step of a pass is one callback with its `setState`. `onInit` and `onStart`
may throw: `startAll()` then aborts or skips as its error handler says, and
`reload()` aborts. `Register` may happen at any point, since the mutex is free
during callbacks. The order of `resolveOrder()` is any order in which
dependencies come first (the code breaks ties by name); without one — a missing
or circular dependency — the call throws and does nothing. The destructor is a
`stopAll()`.

`unload()` and `reload()` take any module in any state, since the code looks at
none: `unload()` only asks that no dependent is up, `reload()` asks nothing. What
a module is called for is history: `owed` counts the onInits without an
onShutdown, `lost` those of them that nobody will make up for, because `unload()`
or `reload()` found the module initialized and no more. `early` are the modules
that `reload()` put up before something they depend on, `loose` those it put up
that are not in `m_startOrder`. The properties hold for every sequence of calls,
and name these two sets where the code makes an exception; `Modules_owed` shows
what is lost.

`startAll()` is called when nothing is up: a second one runs every `onInit`
again, as `dsbox_adb_tool/src/gui_mode.cpp:1507` warns.

### CommunicationManager — `communication_manager.hpp`

A thread is a stack of calls (`stack`), since callbacks run without any lock
and may call the manager again. A call that changes something is one critical
section of `m_mutex` (`RegisterHandler`, `Register`, `Unregister`,
`UnregisterOwner` ...), then one `notifyDebug()` per change (`ReportNext`),
then the release of what it removed (`ChangeDone`). An emission finds its entry
(`Emit`, `CallHandle`, `ReportNext`), copies the entry's list in a second
critical section (`Snapshot`), and calls the subscribers one by one (`Return`,
`Throw`). Entries have an identity of their own, so that an entry dropped with
its last subscriber and the one made by the next subscription under the same
name are different objects; a handle refers to one weakly, and an entry lives
while it is in a table or held by a call (`pins`). Events and handled events
have the same code twice and differ in what a throw does. `unregisterOwner()`
reports in the order of three hash maps, any order within each.

### The network stack (`Network`)

* **NetworkManager** (`network_manager.cpp`, `cancellation.hpp`): a fetch goes
  from place to place — forward the caller's token, arm the timeout, then per
  hop the interceptors and the handler — and meets `Fire`, `CancelCaller`,
  `ForwardCall` (a callback that was taken from the list before the unlock),
  interceptors that are added and removed, and a scheduler that is stopped.
  A redirect drops the credentials when it changes the origin.
* **HttpTransfer** (`http_protocol_handler.cpp`): a transfer has a caller, a run
  thread and a pump thread. `complete()` and `abort()` compete for its result;
  an abort copies what it needs under the mutex (`aby`, `aconn`) and closes the
  copy later. Connections go from the pool to a transfer and back; the server
  may be silent, close an idle connection, or cut a body. A request on a reused
  connection is repeated once if its method allows. `shutdown()` aborts what is
  registered, waits for it, and closes the pool.
* **BodyPipe** (`body.cpp`): reader and writer with one condition variable;
  `read()` and `write()` notify after they unlock. A chunk is its size and its
  place in the stream, so that an order of the bytes can be spoken of.
* **TcpConnector** (`tcp_connector.cpp`, `connector_registry.cpp`): addresses
  tried one after the other in slices, each of which looks at the token, then at
  the two deadlines, then polls; the socket released by the last of its users;
  the connector may leave the registry during a call.
* **TlsConnector** (`tls_connector.cpp`): the watchdog's action is at `Action`
  or `ActionDone` while `disarm()` waits for it; the context is rebuilt when
  `refreshTrust()` asked for it.
* **Url** (`url.cpp`): texts grow one character at a time, so that every text up
  to a bound is a state, and the property compares what the code computes with a
  reference definition: a removal of dot segments by an input buffer, a URL that
  is parsed again.
* **Http1** (`http1.hpp`): an input is cut anywhere and fed in pieces, and the
  parser must be where one fed with all of it would be. Inputs are any few
  characters after a status line, heads composed of up to three fields (the two
  that frame a body, with lengths that agree or not, in one field, in two or on a
  folded line; codings; another field) with either line end, any few characters of
  a chunked body, and bodies as the code encodes them. Of composed heads it is
  known what they say, and `determineFraming()` must say the same.

### Processes and what they are told (`Processes`)

* **Subprocess** (`subprocess_posix.cpp`, `subprocess_win32.cpp`): the stdin writer,
  the readers of both output pipes, the waiter and the owner, who sets the callbacks
  after the constructor has started the threads and may destroy the object at any
  time; a child is reaped (`Reap`) before `running` says so (`NotRunning`), as in
  the code. Assumed: SIGPIPE is ignored, so a write to a child that is gone fails,
  and no other child inherits our ends of the pipes, so that reads end with the
  child.
* **IoModule** (`io_module.cpp`): `write()` with its bounded queue and worker,
  claims of standard input, the link to a parent, named subprocesses. Connect
  functions look a name up, work without the lock, and enter the result
  (`ChildCheck`/`SubprocessCheck`, then `Connect`).
* **ConfigStore** (`ini_document.cpp`, `persistent_config_store.cpp`, the
  way the tools save): a file is a sequence of lines; load, set, both ways to
  serialize, and the save step by step — the file is emptied when it is opened,
  and complete only when it is closed, behind `markSaved()`.
* **CommandLines** (`subprocess_win32.cpp`, `tokenize.cpp`, `adb_shell.cpp`,
  `command_line.cpp`): what one side quotes, the other side's rules (written down
  as reference definitions) take apart again.
* **AdbDevices**, **AdbLogcat**, **AdbCommands** (`adb_module.cpp`,
  `command_executor.hpp`): refreshes that overlap, with a Context to tell or
  before there is one, and the watch on a timer or on a thread, from `onInit()`
  to the destructor; the logcat of one serial with its process, whose threads
  take the mutex it is reaped under; the tasks of `parallelForEach()`, which
  refer to the frame of the call, and any of which may make a call itself.

### What a user sees (`Interface`)

* **WindowModule** (`window_module.cpp`): callers post commands to a bounded
  queue and wait; the control thread swaps the queue, runs it, polls, and calls
  one hook per window; the shutdown runs what is left.
* **VulkanFrames** (`vulkan_module.cpp`, `vulkan_ui_window_driver.cpp`,
  `vulkan_ui_renderer.cpp`): one `onFrame()` from the fence to the present, with
  three rings (fences, command buffers, vertex buffers) that turn separately,
  the work the GPU has not finished, and a user who resizes the window. The device
  may refuse a new swapchain, one of its image views, or a submission; `failed`
  are the slots whose submission was refused, whose fence nobody will signal, and
  `Hung` is a frame or a closing window that waits for such a fence.
* **VulkanResources**: every function that creates something, call by call, each
  of which may fail; `live` is what exists and `held` what a member refers to.
  Every frame slot has a vertex buffer of its own.
* **UiEvents** (`window_ui_tree.cpp`, `container.cpp`, `dropdown.cpp`,
  `text_field.cpp`): an event
  goes along the path under the pointer, with capture, focus and hover. A click on
  a button, Enter on what is inside one, or the choice of a row in a dropdown calls
  the application, which may replace the panel the event passes through.
* **UiLayout** (`window_ui_tree.cpp`, `container.cpp`, `stack_layout.cpp`): the
  incremental relayout against one from nothing.
* **TextEditing** (`text_area.cpp`, `text_field.cpp`), **Widgets**
  (`list_view.cpp`, `dropdown.cpp`, `scroll_view.cpp`): keys, clicks and wheels
  that meet lines, rows and extents of the last tick.
* **AdbTool** (`gui_mode.cpp`): the supervisor, the render thread and task queue
  of every window, detached threads that bring answers, panels of other modules
  and the log. `patient` says whether the user waits for what was clicked, and
  `harm` names the first use of something destroyed, which ends the behaviour.
  A render thread runs one task per step, where `drainAndRun()` takes a batch:
  what comes between two tasks of a batch is allowed in addition.

## 3. Runs

| Run | Shows | States |
|---|---|---|
| `Executors` | A strand never runs two callbacks at once, keeps the order, and loses an accepted one only through a refused hand-over; pool and loop never sleep on a queued callback; a `shutdown()` that returns has drained and joined. All three implement `Executor`, and their calls return. | 164 k |
| `Sched_oneshot` | Exactly one of "it ran" and "cancel() returned true"; nothing runs after `cancelAndWait()`; `stop()` leaves nothing behind; same-instant timers keep their order. | 831 k |
| `Sched_armed` | One timer of any kind, any options, any call: it has exactly one run coming until cancelled; a cancelled one leaves the queue; `FixedRate` stays on its grid and skips what it missed; run or dropped, not both. | 1.8 M |
| `Sched_live` | Whoever waits on a timer with an `onDrop` is told; `stop()` and `cancelAndWait()` return. | 64 k |
| `Sched_dropped` | *violated*: see findings. | |
| `Modules` | For any sequence of calls, failures included: the state tells what a module is owed; what is started depends on started modules only, and initialization and shutdown nest, but for what `reload()` put up out of order; `stopAll()` leaves nothing else up; a skipped module takes only its dependents with it. | 5.9 M |
| `Modules_owed` | *violated*: see findings. | |
| `Comm` | Tables, lists and ids agree; an emission calls exactly who was subscribed when it began and still is, or came since; no list of a dropped entry comes back to life; a debug listener hears of every change once, whatever other listeners do. | 1.3 M |
| `Comm_handles` | *violated*: see findings. | |
| `Network` | One result per fetch and per transfer, whoever completes, cancels or shuts it down; a connection has one user and none leaks; a cut body is not presented as complete; the pipe keeps every byte and wakes both ends; a timed-out handshake writes only to frames that exist; credentials stay with their origin; URLs and HTTP heads are read the same however they are cut or written, and both ends agree where a body ends. Everything cancelled or shut down comes to rest. | 572 k |
| `Processes` | One `onDone` per request and one resume per suspension, which tells why; a destroyed subprocess leaves no thread; no text written is lost; one user of standard input and of a name; device events add up to the snapshots; one keeper per logcat process; no task outlives its `parallelForEach()`; settings, frames and arguments are read as they were written. Calls and destructors return, but for the deadlock of AdbLogcat below. | 598 k |
| `Interface` | A cleared hook is never called again; nothing the GPU uses is recorded, rewritten or destroyed, and only a refused submission leaves a fence that nobody signals; every failure path keeps handles exact; hover, press, focus and text input are told of their end; the incremental layout is the full one; cursor and selection stay inside; the tool's answers never reach a view that is gone. Callers are answered, and frames return but behind such a fence. | 494 k |

**Findings.**

* `Sched_dropped` (documentation): `stop()` drains the queue and reports the
  drops later; a `cancel()` in between returns true and `onDrop` is invoked all
  the same, which `timer_queue.hpp:26` excludes.
* `Modules_owed` (code): `unload()` and `reload()` call `onShutdown` only for a
  module that is Stopped (`module_manager.cpp:514`, `548`). One left
  Initialized by a `reload()` whose `onStart` threw, or by an aborted
  `startAll()`, is forgotten without it or initialized a second time, although
  `module_manager.cpp:430` says it is owed.
* `Comm_handles` (documentation): a handle to a handler is weak, but any call
  under way keeps the handler alive after `unregisterHandler()` has returned,
  and meanwhile new calls get in through other cached handles. The header
  (574-582, 868) says a module that unregisters can rely on nobody being able
  to.

**Behaviours met while modelling that no run is spent on.** A name in code style
with no file is a definition at the end of the module: a property the code does
not have in general, stated so that it can be tried; a switch is a CONSTANT whose other
value shows it.

Executors, IPC, modules, events:

* ModuleManager: `reload()` looks neither at the state of the module nor at its
  dependencies (`module_manager.cpp:529-559`). Of one that was only loaded it runs
  `onInit` and `onStart` although nothing it depends on may be up (`early`);
  `module.hpp:36-37` says those "must be initialized/started before this one". It
  does not enter the module in `m_startOrder` either (`loose`), so a `stopAll()`
  that has an order leaves it up (446-471); `module_manager.hpp:152-154` says it
  is "over every module currently at or beyond Started".
* Coroutines: a sleep whose time is over answers false when the executor refuses
  the run of its timer (`scheduler.cpp:174-182`, 547-551), without any stop;
  `scheduler.hpp:197-199` knows only the token and the scheduler (`refused`).
* `ThreadPoolExecutor::post()` sets `started` before it creates the threads
  (`executors.cpp:99-106`). If the first constructor throws, later posts are
  taken and nobody runs them. The action `PostThrows` is in the model, and
  `CallsReturn` has to except `waitIdle()` after it.
* A timeout armed on a shared scheduler *before* it is stopped is discarded
  (`ipc_channel.cpp:228` replaces only one already stopped), so `Settled` of
  IpcChannel excepts that request; `ipc_channel.hpp:66-68` says a timeout is
  never silently lost.
* An `EventHandle` whose entry was dropped while an emission holds it is still
  valid but reaches nobody, also if the name has new subscribers under a new
  entry; `communication_manager.hpp:636-641` says that while valid it always
  delivers to the current ones. `SnapshotExact` makes its second promise only
  for emissions by name.
* A listener of a debug topic may hear of a change made just before it
  subscribed, since the topic is looked up after the unlock.
* Coroutines: `HookAlone` — a sleep resumed before its stop callback is made
  (`scheduler.cpp:565-573`) has `await_resume()` reset the same object
  (`scheduler.cpp:585`) at the same time.
* FrameCodecs: `PayloadKept` — the text codec drops a carriage return that ends
  a payload.

Network:

* HttpTransfer: `RecycledLeftAlone` — an abort that has copied the connection
  closes it after it was given back to the pool
  (`http_protocol_handler.cpp:250-252`). The next transfer then fails, or
  repeats its request.
* NetworkManager: `TimeoutKept` — a timeout armed on a shared scheduler is lost
  when that is stopped; `EveryInterceptorRuns` — one that is removed makes the
  chain skip the next for a request between the two, as the chain goes by index.
* Url: `RoundTrips` — a URL without a host loses its user and port when it is
  printed (`url.cpp:346`, against `url.hpp:54-56`).

Processes:

* Subprocess: `WaitJoins` — `wait()` returns when the exit is known and does not
  join the readers, as `subprocess.hpp:107` says it does. Between `waitpid()` and
  `running.store(false)` (`subprocess_posix.cpp:251-255`) the destructor kills a
  process id that was reaped already and may be another's (130-131).
* IoModule with `OneAtATime = FALSE`: `NeverStillborn`, `WireClean`,
  `OneChildLink` — connect functions called at the same time for one name.
* ConfigStore: `PatchRestores` — a new key of a section that is not the last of
  the text is appended at its end and read as one of the last section
  (`persistent_config_store.cpp:36-38` says behind the lines of its own);
  `PatchLoads` — if that section has the key already, the next `load()` throws.
  With `SetsWhileSaving` a value set between `serializeOverrides()` and
  `markSaved()` is never written (`persistent_config_store.cpp:232`). A program
  that ends while it saves leaves an empty file, or the beginning of one.
* AdbDevices: two refreshes that overlap may tell "removed" before "added"
  (`adb_module.hpp:73-76`); only the sum is right. AdbLogcat: `Stuck` can be reached
  — `startLogcat()` reaps a process that exited with `logcatMutex` held
  (`adb_module.cpp:634`), which joins its reader, while that waits for the mutex to
  deliver the last lines (`adb_module.cpp:382`). From then on nothing that takes the
  mutex returns; `EventuallySettled` is asked of every other behaviour.
  `OwnLinesAlways`: calls that overlap mix the lines of two processes
  (`adb_module.hpp:113-114`). AdbCommands: with `Workers = 1` a nested call waits
  for itself (`command_executor.hpp:60-62`).

Interface:

* WindowModule: with `OnControl` a subscriber that calls `closeWindow()` waits for
  its own thread (`NeverOwnCall`, `window_module.hpp:251`); with `LateCalls` a call
  made during the shutdown may stay unanswered (`window_module.cpp:612-614`).
* VulkanFrames: `NoStaleFramebuffer` — the cache of framebuffers is found by the
  handle of an image view (`vulkan_ui_renderer.cpp:1106-1116`), which a driver
  may give out again after a resize, as more `HandleSets` show. `Hung` — a
  submission that is refused (`vulkan_module.cpp:1107-1113`) is not noticed
  (`vulkan_ui_window_driver.cpp:155`), although its fence was reset in the belief
  that the "caller's submit will re-signal it" (`vulkan_module.cpp:1074`): the
  next frame of that slot (1045), of that image (1071), a resize (1004) or the
  end of the window waits for ever. An image view that is refused leaves
  `imagesInFlight` as it was (679-690).
  VulkanResources: `NoDrawFromNothing` — a vertex buffer whose growth failed
  (`vulkan_ui_renderer.cpp:758-814`) is drawn from (1196-1203).
* UiEvents: `TextInputForTheLiving` — text input stays on when the focused field is
  replaced. A dropdown whose callback replaces its panel uses itself after that
  (`dropdown.cpp:250-255`). TextEditing: with `TickBetween = FALSE` a click after a
  deletion looks at stale lines, and the cursor, an offset into the text
  (`text_area.hpp:128`), is behind its end (`CursorInText`); a word is cut although
  it would fit on a line of its own (`OnlyLongWordsCut`, `text_area.cpp:110-115`).
* AdbTool: for a user who does not wait, `harm` takes its other values. An answer
  reaches the widgets of a panel that was left (`left`: the generation is compared
  only with the panel that asked, `gui_mode.cpp:783-792`; `unguarded`: the calls
  that compare none), or a window that was destroyed (`window`); a line of logcat
  reaches the host after `runGui()` returned (`host`; `Line`'s guard leaves that out
  of a patient user's behaviours). The supervisor joins a render thread that waits
  for the `windowsMutex` it holds (`gui_mode.cpp:1482`, 1629, 1295), so `Settled` is
  asked of a patient user only. The first panel is built before the window is in the
  table its factory looks it up in (`gui_mode.cpp:1425-1427`) and stays empty; a
  panel that is registered while a window is being opened is missed, which
  `RegisterPanel`'s guard leaves out.

**Bounds.** Two threads of each kind and two or three callbacks, timers,
requests or modules: the races here are between two parties for one object,
plus a third that intervenes, and a strand, a pool or a loop needs three
callbacks to have one running, one at the front and one behind it (the loop has
two callbacks and two pumps, as `restart()` multiplies its states).

* Scheduler: `MaxTime` on the clock (3, with a period of 2, so a run can be on
  time, late by less than a period and late by more), `MaxTimers` on the timers
  in one behaviour, `MaxReady` on the executor's queue when a *client* posts, so
  timers are never refused by the bound. `MaxRestarts` is on `restart()`.
* CommunicationManager: two threads, one of which makes calls from inside
  callbacks (`MaxDepth`), `MaxIds` subscriptions (2: a listener and one who
  leaves, two in one list, or one that leaves and one that makes the entry
  anew) and `MaxEntries` entries (2: two events, an event and a handler, or a
  handler registered again); one thread nests three deep, so that a listener
  called from a change made by a callback changes the manager again; module and
  anonymous owners are symmetric.
* ModuleManager: `MaxOwed` onInits without an onShutdown (2: one that is lost and
  one that is owed; 3 in `Modules_owed`); its four shapes over three modules are a
  chain, two on one, one on two, and a cycle of two, with a third that is free.
* Network: two transfers (one that may be cancelled, one with a body that may be
  repeated), two connections and one place in the pool, so that a connection
  goes from one transfer to the other and is refused by a full pool; a pipe of
  two bytes and five written, so it is full twice; one fetch with two
  interceptors, two origins and one redirect, so that it leaves its origin and
  meets the limit; two TLS calls that share watchdog and context, two versions
  of the trust; two addresses. URLs have five characters behind the scheme (seven
  if they begin with `//[`) and paths six, which holds `/../a/`, an authority with
  user and port, an IPv6 address with a port, a query before a fragment. A head is
  four characters of any kind after its status line, or up to three fields, of
  which the parser takes two (`MaxFields`) in sixteen characters (`MaxHead`): heads
  that are complete, too long, and of too many fields are all among them. A chunked
  body has four characters of any kind, or two chunks as the code encodes them.
* Processes: two requests, one with a timeout, and two frames, enough for a
  doubled reply and for a reply behind a message whose handler closes the
  channel; two frames with payloads of two, cut in pieces of up to six; a queue
  of one with three writers, so one waits while one is refused or drops;
  two device plugs, so one can leave and come back; one failed run of adb; two
  logcat processes; two calls of up to two items and two workers, so a task that
  makes the second call leaves one worker for its tasks; two chunks to a child and
  one unread in each of its pipes. A file has three lines with two sections and
  one key, and takes two sets. Texts of five characters hold a quoted argument
  that ends in two backslashes.
* Interface: two callers and a queue of one; two frames in flight, two images, sizes
  0 (minimized) to 2; one surface that is attached, recreated and detached any
  number of times, one refusal of the device (`MaxFailures`), two frame slots, a
  texture besides the white one and a single descriptor set, so the second upload
  finds the pool exhausted; two panels, so that one event can meet the elements of
  the panel before; two window sizes, elements of 3 pixels, half of what there is or
  nothing, so a window is too small and too large, and two changes between two
  ticks, so two elements are marked; five characters wrapped to widths 1 to 3; three
  items in a list and two visible; two windows of the tool, four clicks of a patient
  user or three of a hasty one, one line of logcat, one panel of another module.

**Switches.** A BOOLEAN constant restricts what is assumed of a caller, where
the code asks for it or gives no guarantee otherwise: `OneAtATime` (connect
functions are not called concurrently), `SetsWhileSaving`, `OnControl`,
`LateCalls`, `TickBetween`. The runs take the careful value, so they do not cover
what the other allows; the list above says what that shows.
`BaseMayClose`, `SpawnMayFail` and `AutoHandle` are options the code
has and are on.

`CHECK_DEADLOCK FALSE` stands in the runs where everybody may be finished: each
callback or timer posted, each text as long as it gets, nobody calling anything
any more. `Modules` checks deadlock.

**Fairness.** Weak fairness of every step of a thread that is inside an
operation, since the scheduler of the system runs it; of user callbacks
returning; of the clock. Never of a call: nobody must post, cancel, stop, close
or answer. In `Sched_live` the return of a timer's callback is strongly fair:
callbacks can make calls, each of which disables it for a moment, and the
assumption is that they make finitely many. In the sums each condition is that
of the component, for its kind. Where the steps of several threads cannot be
repeated for ever, one condition for their disjunction is enough. What is
external owes nothing but this: a handler answers once its token is cancelled; a
read or a handshake returns once its connection is closed, and a read of a child
once that has gone; adb ends; render hooks return; the GPU completes what was
submitted.

## 4. Proofs

Seven modules hold theorems: about executors, timers, modules and events, the
network stack, the processes with the Android bridge, and windows, rendering and the
adb tool. Each is for all values of the constants - any number of threads, timers,
callbacks, modules, names, requests, connections, devices, windows, frames in flight
and textures, any depth of nested calls, any bounds - from the assumptions the
component states about its constants. Every one is a property a run checks, or the
inductive invariant behind some of them; TLC checked the invariants on the runs'
instances before they were proved.

| Module | Theorem | States |
|---|---|---|
| `Scheduler_proofs` | `TypeCorrect` | `[]TypeOK` |
| | `Invariance` | `[]IInv` |
| | `OneShotRunsOrIsCancelled`, `NothingRunsAfterWait`, `StopLeavesNothing` | `[]OneShotOnce`, `[]QuietAfterWait`, `[]StopQuiesces` |
| | `ArmInvariance` | `[]ArmInv` |
| | `OneRunComing`, `NoRunLost`, `CancelEmptiesQueue`, `RunOrDropOnce` | `[]NeverArmedTwice`, `[]NeverForgotten`, `[]CancelledLeavesQueue`, `[]RanOrDropped` |
| | `OrderOfScheduling`, `PoolDrained` | `[]FiresInOrder`, `[]DrainedAfterStop` |
| `Executors_proofs` | `ExecInvariant` | `[]ExecInv` |
| | `StrandResponsibility`, `StrandOrder`, `WakeUps` | `[]OneResponsible`, `[]AcceptedInOrder`, `[]NoLostWakeup` |
| | `Implementation` | `ImplementsExecutor`: the refinement of `Executor` |
| `ModuleManager_proofs` | `ModulesInvariant` | `[]IInv` |
| | `ShutdownBooks`, `DependenciesFirst`, `DependenciesLast`, `StopAllComplete`, `SkipsOnlyDependents` | `[]Inv` and the four other properties of the run |
| `CommunicationManager_proofs` | `BooksInvariant` | `[]IInv` |
| | `Subscriptions`, `ExactSnapshots` | `[]Inv`, `SnapshotExact` (an action property) |
| | `ReportsInvariant` | `[]RInv` |
| | `AllReported` | `[]DebugReported` |
| `Network_proofs` | `ExchangesSafeAlways` | `[]ExchangesSafe`: `Inv` of HttpTransfer and of BodyPipe |
| | `ConnectionsSafeAlways` | `[]ConnectionsSafe`: of TlsConnector and of TcpConnector |
| | `RequestsSafeAlways` | `[]RequestsSafe`: of NetworkManager |
| `Processes_proofs` | `AnsweredOnceAlways` | `[]AnsweredOnce`: `Inv` of IpcChannel and of Coroutines |
| | `ProcessesSafeAlways` | `[]ProcessesSafe`: of Subprocess and of IoModule |
| | `BridgeSafeAlways` | `[]BridgeSafe`: of AdbDevices, AdbLogcat and AdbCommands |
| `Interface_proofs` | `WindowsSafeAlways` | `[]WindowsSafe`: `Inv` of WindowModule, VulkanFrames and VulkanResources |
| | `ToolSafeAlways` | `[]ToolSafe`: of AdbTool |

The assumptions on constants include that the sets of threads, callbacks, timers and
modules are finite, where numbers of them are compared; a process has finitely many
of each. A connection has a user (`TcpConstants`), there is a first version of the
trusted certificates (`TlsConstants`), a pool of descriptor sets is not empty
(`ResourceConstants`), and what stands for "nobody" is none of the parties
(`NoCall`, `None`, the holder `Module` of AdbLogcat) and no name of a harm
(`ToolConstants`).

**Why strengthenings are needed, and which.**

*Timers, claims.* `OneShotOnce` counts runs and successful cancels, but a thread
may have won the claim and not yet returned: the claim lives in its program
counter. `PlaceInv` says where a won claim can be (a `cancel` that has not
reached the queue), that the timer of such a call is inactive, and that a worker
from `Enter` to `Leave` is counted in `running`. `ClaimInv` then says that a
one-shot is active with nothing counted, or claimed by exactly one canceller, or
counted once. `QuietAfterWait` needs the same: `Finished` reads `running`, and
only `PlaceInv` connects that with what a worker is doing. `StopInv` gives, for
each place in `stop()`, what has been shut down by then; its heart is that
`executor()` never creates a pool after `StopExecutor` has sealed it.

*Timers, runs to come.* `NeverArmedTwice` is about a number; it is proved from
`Solo`: of the five places a run can come from - the queue, the drain of
`stop()`, a dispatching thread's batch, the executor, a worker - one at most is
not empty, and that one has one element. Every step moves a run from one place to the
next (`MovedSolo`), so the proof never counts, and `PendingCount` turns the five
places into the number once. That needs each timer's entry to have an id of its
own (`EntryInv`), nobody else to be in `schedule()` for it (`CallInv`), and
batches of two dispatching threads to be disjoint (`BatchInv`).

*Executors.* For the strand, `ResponsibleInv` names the one party that answers
for a set `running`: a task in the base, the thread that is handing over, or the
thread that drains. `OrderInv` follows the line of what was started and what is
queued; `AnswerInv` relates it to what `post()` has returned. For pool and loop,
a wake-up is a number of notifies that are still under way, so `PoolWakeInv` and
`LoopWakeInv` say that there are as many, or as many workers awake, as there are
callbacks queued beside a sleeper; `ThreadsInv` says who joins whom. The
refinement maps each step of a component to one step of `Executor` or none: the
status of a callback changes only in the steps that take, start, finish or drop
it.

*Modules.* `IInv` has one part per call that is under way (`StartInv`, `StopInv`,
`OneInv`): which modules of the order have had their turn, and what that makes of
their state. `OrderInv` keeps the recorded order a topological one through
`unload()`, which takes single modules out of it, and says that whoever is owed an
`onShutdown` is in it or `loose`. `reload()` of any module is `Reloading`: from its
`onInit` on it is `early`, or everything it depends on is started (`Ready`), and
stays so because nobody else's call is under way. That a skipped module takes only
dependents along is an induction over how `skipTransitively()` grows its set; the
model has the least closed set, and the proof uses only that it is closed and least.

*Events, the books.* An emission that has found its entry may see that entry
dropped, and one of the same name made anew, before it copies the list. It must
not miss anybody then, and does not since a dropped entry has no subscribers
left; `FoundOne` says of such a call that whoever is subscribed under its name
since before it began is in the list it holds. This is stable because an entry
never changes its name (`Names`), names lead to different entries and ids are
given once (`TableInv`). `Within` (what `removeOwner()` keeps of a list) and
`FlattenSeq` (the reports of `unregisterOwner()`) are recursive functions; what
they return is proved by induction over the length, with `LeastNat`, since a
set of naturals without a least element is empty.

*Events, the reports.* `DebugReported` says that a listener has heard when
everything is over. `RInv` says who is still going to tell him: a change that has
his topic to report, an emission that has found the entry of the topic after he had
subscribed, or one that is inside a listener with him behind it in its list
(`Will`). It is told once since no two calls tell of one change (`Distinct`): each
report is of a change that had not been made when any other report was written
(`Past`), because entries and ids are never given twice. A listener that has left
may still be in a list that was copied, so `RInv` speaks of listeners whose
subscription has been forgotten, too, and two lists under way may share a listener
only if they are of one topic. A summary of `unregisterOwner()` is not of one
change, and is owed to nobody.

*Network.* A sum's invariant is that of the component it is about, and a step of
the sum is a step of that component (`NtStep`, `PcStep`); each component has an
inductive invariant of its own (`HtInv`, `BpInv`, `MgInv`, `TlInv`, `TcInv`).

- HTTP. Which connection a transfer uses is not a variable of the code but
  follows from where its threads are; `HtPlace` says so, and `HtOwn` that what
  is used is used once, is not idle, and that an open connection is one or the
  other. `HtOnce` adds the result that is still owed: an `abort()` that has taken the
  callback (`adone`) calls it only later, and until then a completed transfer
  has none. A body
  may be cut by three parties - the server, an `abort()` of this transfer, and
  one of an earlier user of the connection that closes its copy late - and
  `HtBody` has, for each place of the thread that copies, who has closed the
  connection if it is closed: the body has failed, its transfer was completed
  with something else (`Doomed`), or the connection is a `stray` one. Without
  that `BodyHonest` is not inductive: between the close and the read that meets
  it nothing in the body itself tells.
- The pipe. `PipeExact` - the chunks join, from what was read to what was
  written - is inductive with the place of the front (`BpFront`); a reader or
  writer that sleeps although it could go on has a notifier before it
  (`NoneSleepsOn`), since every step that makes its condition true is by a thread
  that goes on to notify.
- The manager. `InOrder` compares the interceptors that a hop has run with the
  order of their addition; while the chain changes under the hop's index, what
  is preserved is that all that has run was added before all that is still ahead
  (`MgRan`), whatever `removeInterceptor()` takes out.
- TLS. `FrameAlive` needs where `connect()` is while its action is armed or runs
  (`TlFrame`); `OutcomeTrue` who may have closed the transport of a handshake that is
  still to succeed (`TlClosed`). `TrustRefreshed` needs that a refresh that
  was asked for is built or flagged (`TlTrust`).
- TCP. `SocketsAccounted` is nearly inductive; `Honest` needs that a timeout
  remembered between two addresses was one (`TcTimes`).

*Processes.* The components' invariants are `IpcInv`, `CoInv`, `SuInv`, `IoInv`,
`DvInv`, `LcInv` and `CmInv`. For the channel and for coroutines they name the one
party that has an answer still to give (`IpcParties`: the call that inserts, the
table, the reader, `close()`; `CoSleeps` and `CoCalls`: the timer, the stop
callback, one of the callers), and that the others have lost. `SuThreads` and
`SuWaiter` tie the threads of a child to its owner; `SuInput` follows what was asked
for before `closeStdin()` from the queue through the writer's hands to the child.
The books of the devices (`DvTold`) are an equation between what was told, what each
refresh has still to tell, and the snapshot: it is kept by every step as refreshes
overlap, and only at rest does it say that the events add up. `LcKept` gives each
living logcat process one keeper, the table or a call that has taken it out or not
put it in yet. `CmQueue` and `CmPosted` are why a task that is still queued belongs
to a call that waits for it.

*Windows and rendering.* The invariants are `WmInv`, `VfInv`, `VrInv` and `TwInv`,
of a window's thread, its frames, the objects behind them, and the adb tool.

- WindowModule. That a hook is out of the table when its caller destroys it is
  due to the command that took it out, so the proof follows commands: one that
  somebody waits for is the only one of a caller who waits (`WmMeant`, `WmOnce`),
  and while a hook may be cleared it is in the table of that window or of none
  (`WmSetting`, `WmClearing`). A closing is told once since the call that has
  closed a window is the only one that will tell (`WmTelling`, `WmTeller`).
- VulkanFrames. `RecordsFree` compares three rings that turn at different times:
  fences with `present()`, command buffers with it, vertex buffers only when
  something was drawn. `VfRing` says that what the GPU has is in the order of the
  slots, counted back from the one in turn (a refused submission leaves a gap);
  `VfVertex` that a vertex buffer is never further back than its frame, since it
  turns no faster. As a slot is recorded only when its fence was waited for, all
  `FramesInFlight` places back from it are free, for any number of them. `VfFence`
  gives each frame its image; `VfBuffers` keeps the cache's extent that of the
  swapchain while the GPU may still use a framebuffer.
- VulkanResources. `HandlesExact` is inductive; its partners say what exists
  together: everything of the renderer needs a device (`VrKnown`, `VrDevice`), a
  chain of surface, swapchain and views is built from the left and destroyed from the
  right (`VrChains`), a texture is there as a whole (`VrTextures`). The sets are
  the number of textures (`VrSets`), for which a step may add or take one only.
- AdbTool. That a patient user meets nothing destroyed takes what is queued and
  under way for each window (`PatientAt`): a click is the first task of its queue or
  none (`FirstClicked`); every task and every call is for the mounted panel and,
  where nothing guards it, for its present view (`TasksFit`, `CallsFit`); behind a
  switch or a selection there are only lines and panels to be told of
  (`SwitchesAlone`), behind a row or Back nothing that no generation guards
  (`ViewsGuarded`); a window that is closed or builds a panel has nothing under way
  (`Waits`). None of it holds for another user, for whom only the promise of the
  generation is kept; that one needs no invariant, since the task that touches is
  the task that compares. `TwShown` is `InStep` for windows at work: what a window
  does not show yet, one of its tasks will make it show.

Each invariance proof has one step per action and under it the conjuncts the
action touches; actions that change the same things share a lemma
(`NewsInOrder` for the five changes, `TurnInOrder` for the calls).

**Only model-checked.** All liveness properties (`CallsReturn`, `Settled`,
`NetworkRests`, `ProcessesRest`, `InterfaceRests`), which are out of TLAPS's
reach, as is what a recursive definition computes for every input (`TextsExact`,
`TextsKept`: parsers, codecs, quoting; and `ScreenExact`: the layout, the
wrapping of lines). `RateOnGrid`, whose arithmetic of remainders by a variable
period the provers do not do. And the three
properties that are *violated*, which have counterexamples and no proofs.

## 5. Not modelled

* Timers: the condition variable of the timer thread (its wake-up is `PopDue`
  under weak fairness); `InlineExecutor` as the default executor; the
  self-detach of a timer thread that destroys its own scheduler
  (`scheduler.cpp:258`); `runDue()` called from a callback; the weak reference
  from handle to scheduler; two callbacks that `cancelAndWait()` each other,
  which `scheduler.hpp:87` forbids. A second `stop()` returns at once and
  changes nothing, so it has no action. `SchedulerModule` only creates and
  stops a scheduler.
* Executors: exceptions of a callback, which are caught and only logged; a base
  executor whose `post()` throws.
* Coroutines: tasks that await tasks, which resume each other on one thread.
* IPC: a `WriteFn` that fails, the handler table, the lifetime of the channel;
  whether a reply was a success or an error; headers of frames in full.
* Modules: `onStop` and `onShutdown` that throw (`stopAll()` is `noexcept`, so
  it would end the process); callbacks that call `unload()` or `reload()`
  themselves; life-cycle calls on two threads at once, which
  `module_manager.hpp:74-76` excludes. The loading of libraries is calls of the
  dynamic linker, a version requirement a comparison of numbers, and the
  configuration of modules a list of files read at start-up.
* CommunicationManager: the destructors of removed callbacks, which run after
  the unlock and may call back in as any callback may; the calls that list what
  is registered; the destruction of the manager itself, which excludes calls.
* Network: bodies in memory and in files; chunked bodies inside a transfer,
  which behave as bodies of known length (their format is in Http1); the
  name resolver; certificates and the providers of trust; the file handler but
  for its paths.
* Processes: types of
  configuration values; reading lines from the console; the handlers behind CLI
  commands, called one at a time; each call of the Android packages and devices,
  which runs adb once and takes its output apart.
* Interface: painting, fonts, icons, padding, the second axis of a layout; the
  UI module, whose forwarding of window events to its trees keeps no state but
  the tables of both; SDL, the driver and the GPU but for what they may answer.
* better_dsbox (one global pointer to the context), BetterNetwork, BetterRender
  and NoRender (a few native functions each, called by Lua on one thread), the
  start-up code of launcher, loader and runtime around ModuleManager.

## 6. Plan

1. Done: every part of the system with concurrency or state of its own, in the
   order of what the others rest on: executors and timers with the first
   theorems, channel, modules, events, then the network stack, processes,
   configuration, the Android bridge, windows and the user interface.
2. Done: proofs about executors, timers, modules and events, then about the
   network stack, the processes, windows,
   rendering and the adb tool (section 4).
3. Composition of CommunicationManager with ModuleManager: the handlers of a
   module are gone when it is unloaded, if its `onShutdown` removes its owner.
