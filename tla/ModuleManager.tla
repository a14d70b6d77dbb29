--------------------------- MODULE ModuleManager ---------------------------
(***************************************************************************)
(* ModuleManager (dsbox_core): registration of modules and the calls that  *)
(* drive their life cycle.  startAll() runs onInit over all modules, then  *)
(* onStart over all of them, dependencies first; stopAll() runs onStop and *)
(* onShutdown the other way round; unload() and reload() do it for one.    *)
(*                                                                         *)
(* One action is one callback with the state change that records it, or    *)
(* the bookkeeping between two passes.  The mutex is free while a callback *)
(* runs, so other threads may register modules at any point.  Life-cycle   *)
(* calls come one at a time, as module_manager.hpp asks, and startAll()    *)
(* only when nothing is up (a second one would run every onInit again).    *)
(***************************************************************************)
EXTENDS Naturals, FiniteSets, SequencesExt

CONSTANTS Modules,    \* names of modules
          Graphs,     \* the dependency functions considered
          MaxOwed     \* bound of the exploration: how often onInit runs
                      \* for a module without an onShutdown

ASSUME ModuleAssumption ==
    /\ IsFiniteSet(Modules)
    /\ Graphs \subseteq [Modules -> SUBSET Modules]
    /\ MaxOwed \in Nat

VARIABLES deps,        \* IModule::dependencies()
          state,       \* Entry::state; "absent" without an entry
          startOrder,  \* m_startOrder
          call,        \* the life-cycle call under way
          pass,        \* the callbacks it is running
          order,       \* its local copy of the order
          todo,        \* the rest of the pass
          skipped,     \* initAndStart(): `skipped`
          threw,       \* history: modules that made it skip
          owed,        \* history: onInits without an onShutdown yet
          lost,        \* history: of these, those nobody will make up for
          loose,       \* history: up by reload(), not in m_startOrder
          early        \* history: up by reload(), before what they depend on

lvars == <<call, pass, order, todo, skipped, threw>>
ups   == <<lost, loose, early>>
vars  == <<deps, state, startOrder, lvars, owed, ups>>

Known == {m \in Modules : state[m] # "absent"}
Up    == {"Initialized", "Started"}

TypeOK ==
    /\ deps \in Graphs
    /\ state \in [Modules -> {"absent", "Registered", "Initialized", "Started",
                              "Stopped", "ShutDown"}]
    /\ startOrder \in Seq(Modules) /\ order \in Seq(Modules) /\ todo \in Seq(Modules)
    /\ call \in {"none", "startAll", "stopAll", "unload", "reload"}
    /\ pass \in {"init", "start", "stop", "shutdown", "erase"}
    /\ skipped \subseteq Modules /\ threw \subseteq skipped
    /\ owed \in [Modules -> Nat] /\ lost \in [Modules -> Nat]
    /\ loose \subseteq Modules /\ early \subseteq Modules

Init ==
    /\ deps \in Graphs
    /\ state = [m \in Modules |-> "absent"]
    /\ startOrder = <<>>
    /\ call = "none" /\ pass = "init"
    /\ order = <<>> /\ todo = <<>>
    /\ skipped = {} /\ threw = {}
    /\ owed = [m \in Modules |-> 0] /\ lost = owed
    /\ loose = {} /\ early = {}

-----------------------------------------------------------------------------
\* registerModule() or loadDynamic(), on any thread.
Register(m) ==
    /\ state[m] = "absent"
    /\ state' = [state EXCEPT ![m] = "Registered"]
    /\ UNCHANGED <<deps, startOrder, lvars, owed, ups>>

\* Orders of S; those in which every module comes after what it depends on.
Orders(S) == SetToSeqs(S)

Resolved(S) ==
    {o \in Orders(S) : \A i \in DOMAIN o : deps[o[i]] \subseteq {o[j] : j \in 1 .. (i - 1)}}

\* skipTransitively(): m, and whatever depends on a skipped module.
TakesAlong(T) == \A k \in Known : deps[k] \cap T # {} => k \in T

DependentsOf(S) ==
    {k \in S \cup Known :
        \A T \in SUBSET (S \cup Known) : S \subseteq T /\ TakesAlong(T) => k \in T}

Everybody(m) == skipped \cup Known
Skip(m)      == DependentsOf(skipped \cup {m})

-----------------------------------------------------------------------------
(* The calls.  Each makes its passes over its modules, backwards when it    *)
(* takes them down.                                                        *)

Passes ==
    [startAll |-> <<"init", "start">>,
     stopAll  |-> <<"stop", "shutdown">>,
     unload   |-> <<"stop", "shutdown", "erase">>,
     reload   |-> <<"stop", "shutdown", "init", "start">>]

StopsBackwards(p, o) == IF p = "stop" THEN Reverse(o) ELSE o
Along(p, o)          == IF p \in {"stop", "shutdown"} THEN Reverse(o) ELSE o

StartPass(p, o) == pass' = p /\ todo' = Along(p, o)

Begin(c, o) == call' = c /\ order' = o /\ StartPass(Passes[c][1], o)

\* resolveOrder() throws without an order; else it is recorded before any
\* callback runs.
StartAll ==
    /\ call = "none"
    /\ \A m \in Modules : state[m] \in {"absent", "Registered", "ShutDown"} /\ owed[m] < MaxOwed
    /\ \E o \in Resolved(Known) : startOrder' = o /\ Begin("startAll", o)
    /\ skipped' = {} /\ threw' = {}
    /\ UNCHANGED <<deps, state, owed, ups>>

\* Without a recorded order everything is stopped in order of the names.
StopOrders == IF startOrder = <<>> THEN Orders(Known) ELSE {startOrder}

StopAll ==
    /\ call = "none"
    /\ \E o \in StopOrders : Begin("stopAll", o)
    /\ UNCHANGED <<deps, state, startOrder, skipped, threw, owed, ups>>

\* assertNoDependents()
Unasserted(m)   == TRUE
NoDependents(m) == \A n \in Modules \ {m} : state[n] \in Up => m \notin deps[n]

Unload(m) ==
    /\ call = "none" /\ m \in Known /\ NoDependents(m)
    /\ Begin("unload", <<m>>)
    /\ UNCHANGED <<deps, state, startOrder, skipped, threw, owed, ups>>

\* In any state, wherever m stands and whatever is up.
Reload(m) ==
    /\ call = "none" /\ m \in Known /\ NoDependents(m)
    /\ owed[m] < MaxOwed
    /\ Begin("reload", <<m>>)
    /\ UNCHANGED <<deps, state, startOrder, skipped, threw, owed, ups>>

-----------------------------------------------------------------------------
(* The callbacks.                                                          *)

Bulk == call \in {"startAll", "stopAll"}

At(p, m) == call # "none" /\ pass = p /\ todo # <<>> /\ m = Head(todo)

Pass(m) ==
    /\ todo' = Tail(todo)
    /\ UNCHANGED <<deps, state, startOrder, call, pass, order, skipped, threw, owed, ups>>

Becomes(m, s) ==
    /\ state' = [state EXCEPT ![m] = s]
    /\ todo' = Tail(todo)
    /\ UNCHANGED <<deps, startOrder, call, pass, order, skipped, threw>>

\* The callback throws.  startAll() asks its errorHandler, which lets it
\* skip the module or abort; reload() passes the exception on.
Leave == call' = "none" /\ order' = <<>> /\ pass' = "init" /\ todo' = <<>>

Abort == Leave /\ UNCHANGED <<deps, state, startOrder, skipped, threw, owed, ups>>

SkipIt(m) ==
    /\ Bulk
    /\ skipped' = Skip(m) /\ threw' = threw \cup {m}
    /\ todo' = Tail(todo)
    /\ UNCHANGED <<deps, startOrder, call, pass, order, ups>>

\* onInit returns: one that ran before and was only initialized is forgotten.
PutUp(m) ==
    /\ owed' = [owed EXCEPT ![m] = @ + 1]
    /\ lost' = IF state[m] = "Initialized" THEN [lost EXCEPT ![m] = @ + 1] ELSE lost
    /\ loose' = IF m \in Range(startOrder) THEN loose \ {m} ELSE loose \cup {m}
    /\ early' = IF call = "reload" /\ \E d \in deps[m] : state[d] # "Started"
                  THEN early \cup {m} ELSE early \ {m}

OnInit(m) ==
    /\ At("init", m)
    /\ IF Bulk /\ m \in skipped
         THEN Pass(m)
         ELSE \/ Becomes(m, "Initialized") /\ PutUp(m)
              \/ Abort
              \/ SkipIt(m) /\ UNCHANGED <<state, owed>>

\* A module that fails here is shut down before it is skipped.
LeaveFailed(m) == UNCHANGED owed
ShutFailed(m)  == owed' = [owed EXCEPT ![m] = @ - 1]

OnStart(m) ==
    /\ At("start", m)
    /\ IF Bulk /\ (m \in skipped \/ state[m] # "Initialized")
         THEN Pass(m)
         ELSE \/ Becomes(m, "Started") /\ UNCHANGED <<owed, ups>>
              \/ Abort
              \/ /\ SkipIt(m)
                 /\ state' = [state EXCEPT ![m] = "ShutDown"]
                 /\ ShutFailed(m)

OnStop(m) ==
    /\ At("stop", m)
    /\ IF state[m] = "Started"
         THEN Becomes(m, "Stopped") /\ UNCHANGED <<owed, ups>>
         ELSE Pass(m)

\* unload() and reload() do not look for a module that is only initialized.
StoppedOnly == {"Stopped"}
Owing       == IF Bulk THEN {"Stopped", "Initialized"} ELSE {"Stopped"}

OnShutdown(m) ==
    /\ At("shutdown", m)
    /\ IF state[m] \in Owing
         THEN /\ Becomes(m, "ShutDown")
              /\ owed' = [owed EXCEPT ![m] = @ - 1] /\ UNCHANGED lost
              /\ loose' = loose \ {m} /\ early' = early \ {m}
         ELSE Pass(m)

\* unload(): forget the module.
Forget(m) ==
    LET at == {i \in DOMAIN startOrder : startOrder[i] = m}
    IN  IF at = {} THEN startOrder ELSE RemoveAt(startOrder, CHOOSE i \in at : TRUE)

Erase(m) ==
    /\ At("erase", m)
    /\ state' = [state EXCEPT ![m] = "absent"]
    /\ startOrder' = Forget(m)
    /\ lost' = IF state[m] = "Initialized" THEN [lost EXCEPT ![m] = @ + 1] ELSE lost
    /\ loose' = loose \ {m} /\ early' = early \ {m}
    /\ Leave
    /\ UNCHANGED <<deps, skipped, threw, owed>>

NextPass ==
    /\ call # "none" /\ todo = <<>>
    /\ \E i \in 1 .. (Len(Passes[call]) - 1) :
          /\ pass = Passes[call][i]
          /\ StartPass(Passes[call][i + 1], order)
    /\ UNCHANGED <<deps, state, startOrder, call, order, skipped, threw, owed, ups>>

Return ==
    /\ call # "none" /\ todo = <<>>
    /\ pass = Last(Passes[call])
    /\ startOrder' = IF call = "stopAll" THEN <<>> ELSE startOrder
    /\ Leave
    /\ UNCHANGED <<deps, state, skipped, threw, owed, ups>>

-----------------------------------------------------------------------------
Callback(m) == OnInit(m) \/ OnStart(m) \/ OnStop(m) \/ OnShutdown(m) \/ Erase(m)

Next ==
    \/ StartAll \/ StopAll
    \/ \E m \in Modules : Register(m) \/ Unload(m) \/ Reload(m) \/ Callback(m)
    \/ NextPass \/ Return

Spec == Init /\ [][Next]_vars

-----------------------------------------------------------------------------
\* The recorded state tells what a module is owed: an onShutdown from its
\* onInit on, once, and nothing when it has gone.  What unload() and reload()
\* lose is exactly the onShutdown of a module that is only initialized.
MustShutDown(m) == state[m] \in {"Initialized", "Started", "Stopped"}

Inv ==
    /\ TypeOK
    /\ \A m \in Modules : owed[m] = lost[m] + (IF MustShutDown(m) THEN 1 ELSE 0)

\* module.hpp: a module is started only while everything it depends on is, so
\* that onStart, onStop and the time between may call it.  reload(), which
\* looks at neither dependencies nor m_startOrder, is the only way round: a
\* module it put up before what it depends on, or that stopAll() does not know.
DependenciesStarted ==
    \A m \in Modules \ (early \cup loose) :
        state[m] = "Started" => \A d \in deps[m] : state[d] = "Started"

\* module.hpp: a module is initialized after what it depends on and shut down
\* before it, except when that failed to start and was skipped, and except for
\* what reload() put up out of order.
DependenciesOutlive ==
    \A m \in Modules \ (early \cup loose) :
        owed[m] > lost[m] => \A d \in deps[m] : owed[d] > lost[d] \/ d \in skipped

\* stopAll() leaves nothing up, also after a startAll() or reload() that threw,
\* but what reload() put up without a place in the order that is recorded.
StopAllStopsAll ==
    [][call = "stopAll" /\ call' = "none" =>
          \A m \in Modules : owed'[m] = lost'[m] \/ (m \in loose' /\ startOrder # <<>>)]_vars

\* A module that is skipped takes nothing with it but what depends on it: of
\* the rest, all are started when startAll() returns.
SkipIsolates ==
    [][Return /\ call = "startAll" =>
          \A i \in DOMAIN order :
              \/ state[order[i]] = "Started"
              \/ order[i] \in threw
              \/ \E d \in deps[order[i]] : state[d] # "Started"]_vars

\* module_manager.cpp:430: onInit having succeeded means onShutdown is owed,
\* so no onInit follows without it and no module goes without it.
ShutdownOwed ==
    \A m \in Modules : owed[m] <= IF state[m] = "absent" THEN 0 ELSE 1
=============================================================================
