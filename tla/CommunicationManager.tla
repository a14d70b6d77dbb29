------------------------ MODULE CommunicationManager ------------------------
(***************************************************************************)
(* CommunicationManager (dsbox_core): handlers, at most one per name and   *)
(* signature, and events and handled events with any number of             *)
(* subscribers.  Subscriber lists are immutable snapshots, so emissions    *)
(* run without a lock, and callbacks call back into the manager.           *)
(*                                                                         *)
(* One action is one critical section of m_mutex or of an entry's mutex,   *)
(* or the return of a callback.  A thread is a stack of calls: the calls   *)
(* a callback makes stand above the emission it is called from.  Entries   *)
(* are objects with an identity: handles refer to them weakly, and a call  *)
(* that is under way keeps the ones it uses alive.                         *)
(***************************************************************************)
EXTENDS Naturals, Sequences, FiniteSets, SequencesExt

CONSTANTS Threads,
          Events,      \* names (with payload type) of events
          Handled,     \* the ones that are handled events
          Handlers,    \* names (with signature) of handlers
          Owners,      \* modules, and Anonymous
          Nobody,      \* the owner of what is not registered
          MayThrow,    \* whether callbacks may throw
          MaxIds,      \* bound on the subscriptions made in one behaviour
          MaxEntries,  \* bound on the entries created in one behaviour
          MaxDepth     \* bound on the calls each thread nests in callbacks

\* The names of the manager's own events, comm.debug.*.
Topics == {"handler_registered", "handler_unregistered", "event_subscribed",
           "event_unsubscribed", "handled_event_subscribed",
           "handled_event_unsubscribed", "owner_unregistered"}

ASSUME CommunicationAssumption ==
    /\ Handled \subseteq Events \ Topics
    /\ Events \cap Handlers = {}
    /\ "none" \notin Events \cup Handlers
    /\ MayThrow \in BOOLEAN
    /\ MaxIds \in Nat /\ MaxEntries \in Nat /\ MaxDepth \in [Threads -> Nat]
    /\ Nobody \notin Owners

VARIABLES table,       \* m_handlers, m_events, m_handledEvents
          list,        \* the current subscriber list of each event entry
          nextEntry,   \* the identity the next entry gets
          nextId,      \* m_nextSubscriptionId
          subKey,      \* m_subscriptionKeys, m_handledEventSubscriptionKeys
          subOwner,    \* the owner recorded in each subscription
          entryOwner,  \* the owner recorded in each handler entry
          handle,      \* a handle somebody has cached
          stack,       \* the calls each thread is inside, innermost last
          owed,        \* history: <<listener, subject>> of changes made while
                       \* the listener of a debug topic was subscribed
          heard,       \* history: the ones it was told of
          again,       \* history: the ones it was told of twice
          cut          \* history: <<topic, subject>> a listener threw on

names == <<table, list, nextEntry, nextId, subKey, subOwner, entryOwner>>
hvars == <<owed, heard, again, cut>>
vars  == <<names, handle, stack, hvars>>

Keys    == Events \cup Handlers
Ids     == 1 .. MaxIds
Entries == 1 .. MaxEntries
None    == 0         \* no entry
NoKey   == "none"

\* One call: a change, which goes on to report itself, an emission, or the
\* invocation of a handler.
Frame(op, step, key, pins) ==
    [op |-> op, step |-> step, key |-> key, pins |-> pins, todo |-> <<>>,
     about |-> 0, born |-> 0, reports |-> <<>>]

\* An emission that has found its entry; `born` is when it began.
Emission(op, key, entry) ==
    [Frame(op, "found", key, {entry}) EXCEPT !.born = nextId]

TypeOK ==
    /\ table \in [Keys -> {None} \cup Entries]
    /\ list \in [Entries -> Seq(Ids)]
    /\ nextEntry \in 1 .. MaxEntries + 1 /\ nextId \in 1 .. MaxIds + 1
    /\ subKey \in [Ids -> Events \cup {NoKey}]
    /\ subOwner \in [Ids -> Owners \cup {Nobody}]
    /\ entryOwner \in [Entries -> Owners \cup {Nobody}]
    /\ handle \in [key : Keys \cup {NoKey}, entry : {None} \cup Entries]
    /\ \A t \in Threads : \A i \in DOMAIN stack[t] :
          /\ stack[t][i].op \in {"change", "emit", "handle", "debug", "call"}
          /\ stack[t][i].step \in {"report", "found", "inside"}
          /\ stack[t][i].op = "change" <=> stack[t][i].step = "report"
          /\ stack[t][i].pins \subseteq Entries
          /\ stack[t][i].todo \in Seq(Ids)
          /\ i < Len(stack[t]) => stack[t][i].step \in {"report", "inside"}

Init ==
    /\ table = [k \in Keys |-> None]
    /\ list = [e \in Entries |-> <<>>]
    /\ nextEntry = 1 /\ nextId = 1
    /\ subKey = [i \in Ids |-> NoKey]
    /\ subOwner = [i \in Ids |-> Nobody]
    /\ entryOwner = [e \in Entries |-> Nobody]
    /\ handle = [key |-> NoKey, entry |-> None]
    /\ stack = [t \in Threads |-> <<>>]
    /\ owed = {} /\ heard = {} /\ again = {} /\ cut = {}

-----------------------------------------------------------------------------
(* Calls.                                                                  *)

Inside(t) == stack[t] # <<>>
Top(t)    == Last(stack[t])

Push(t, f)     == stack' = [stack EXCEPT ![t] = Append(@, f)]
Becomes(t, fs) == stack' = [stack EXCEPT ![t] = Front(@) \o fs]
Pop(t)         == Becomes(t, <<>>)

\* A thread outside the manager, or inside a callback, may call it.
MayCall(t) == Len(stack[t]) < MaxDepth[t] /\ (Inside(t) => Top(t).step = "inside")

At(t, step) == Inside(t) /\ Top(t).step = step

\* Whom a debug event of a topic reaches now.
Listeners(topic) ==
    IF topic \in Events /\ table[topic] # None THEN ToSet(list[table[topic]]) ELSE {}

Report(topic, about) == [topic |-> topic, about |-> about]

\* Changes of debug topics themselves are not reported.
Reported(k, r) == IF k \in Topics THEN <<>> ELSE <<r>>

\* What is reported of a change.
OnlyLast(reports)  == IF reports = <<>> THEN <<>> ELSE <<Last(reports)>>
Announced(reports) == reports

\* A change that holds nothing and has nothing to report is over.
Change(pins, reports) ==
    IF pins = {} /\ reports = <<>> THEN <<>>
    ELSE <<[Frame("change", "report", NoKey, pins) EXCEPT !.reports = reports]>>

\* The critical section of a change is over: it holds the entries it removed
\* (or the handler it registered), and reports to the listeners.  The summary
\* of an unregisterOwner(), about 0, is not of one change and nobody is owed it.
Changed(t, pins, reports) ==
    /\ stack' = [stack EXCEPT ![t] = @ \o Change(pins, Announced(reports))]
    /\ owed' = owed \cup UNION {{<<l, r.about>> : l \in Listeners(r.topic)} :
                                    r \in {x \in ToSet(reports) : x.about # 0}}
    /\ UNCHANGED <<handle, heard, again, cut>>

-----------------------------------------------------------------------------
(* Registration.                                                           *)

Subscribed(k)   == IF k \in Handled THEN "handled_event_subscribed" ELSE "event_subscribed"
Unsubscribed(k) == IF k \in Handled THEN "handled_event_unsubscribed" ELSE "event_unsubscribed"

\* registerHandler(); a second one for the same name and signature throws.
RegisterHandler(t, k, o) ==
    /\ MayCall(t) /\ table[k] = None /\ nextEntry <= MaxEntries
    /\ table' = [table EXCEPT ![k] = nextEntry]
    /\ entryOwner' = [entryOwner EXCEPT ![nextEntry] = o]
    /\ nextEntry' = nextEntry + 1
    /\ Changed(t, {nextEntry}, <<Report("handler_registered", nextEntry)>>)
    /\ UNCHANGED <<list, nextId, subKey, subOwner>>

Disown(entries) ==
    entryOwner' = [e \in Entries |-> IF e \in entries THEN Nobody ELSE entryOwner[e]]

\* unregisterHandler().
UnregisterHandler(t, k) ==
    /\ MayCall(t) /\ table[k] # None
    /\ table' = [table EXCEPT ![k] = None]
    /\ Changed(t, {table[k]}, <<Report("handler_unregistered", table[k])>>)
    /\ Disown({table[k]})
    /\ UNCHANGED <<list, nextEntry, nextId, subKey, subOwner>>

\* registerEvent() and registerHandledEvent(); a new subscriber comes last.
Register(t, k, o) ==
    LET e == IF table[k] = None THEN nextEntry ELSE table[k] IN
    /\ MayCall(t) /\ nextId <= MaxIds /\ e <= MaxEntries
    /\ table' = [table EXCEPT ![k] = e]
    /\ list' = [list EXCEPT ![e] = Append(@, nextId)]
    /\ nextEntry' = IF e = nextEntry THEN nextEntry + 1 ELSE nextEntry
    /\ subKey' = [subKey EXCEPT ![nextId] = k]
    /\ subOwner' = [subOwner EXCEPT ![nextId] = o]
    /\ nextId' = nextId + 1
    /\ Changed(t, {}, Reported(k, Report(Subscribed(k), nextId)))
    /\ UNCHANGED entryOwner

\* The members of a list that are in S, in its order.
Within(s, S) ==
    LET kept[n \in 0 .. Len(s)] ==
            IF n = 0 THEN <<>>
            ELSE IF s[n] \in S THEN Append(kept[n - 1], s[n]) ELSE kept[n - 1]
    IN  kept[Len(s)]

\* An entry is dropped when its last subscriber leaves.
Keep(ids, k)    == FALSE
Touched(ids, k) == \E i \in ids : subKey[i] = k
Emptied(ids, k) == Touched(ids, k) /\ ToSet(list[table[k]]) \subseteq ids

\* Take subscriptions out of the lists,
LeaveIn(ids) == UNCHANGED list
TakeOut(ids) == list' = [e \in Entries |-> Within(list[e], Ids \ ids)]

\* and out of the tables of ids.
Forget(ids) ==
    /\ subKey' = [i \in Ids |-> IF i \in ids THEN NoKey ELSE subKey[i]]
    /\ subOwner' = [i \in Ids |-> IF i \in ids THEN Nobody ELSE subOwner[i]]

\* unregisterEvent(), unregisterHandledEvent() and ScopedSubscription::reset();
\* an id that is not subscribed changes nothing.
Unregister(t, id) ==
    LET k == subKey[id] IN
    /\ MayCall(t) /\ k # NoKey
    /\ TakeOut({id}) /\ Forget({id})
    /\ table' = IF Emptied({id}, k) THEN [table EXCEPT ![k] = None] ELSE table
    /\ Changed(t, IF Emptied({id}, k) THEN {table[k]} ELSE {},
               Reported(k, Report(Unsubscribed(k), id)))
    /\ UNCHANGED <<nextEntry, nextId, entryOwner>>

\* The reports unregisterOwner() makes about one endpoint.
OwnerReports(k, ids) ==
    IF k \in Handlers THEN <<Report("handler_unregistered", table[k])>>
    ELSE IF k \in Topics THEN <<>>
    ELSE LET removed == Within(list[table[k]], ids)
         IN  [n \in DOMAIN removed |-> Report(Unsubscribed(k), removed[n])]

\* unregisterOwner(): handlers, events, handled events, each in the arbitrary
\* order of its hash map, then a summary.
UnregisterOwner(t, o) ==
    LET ids    == {i \in Ids : subKey[i] # NoKey /\ subOwner[i] = o}
        mine   == {k \in Handlers : table[k] # None /\ entryOwner[table[k]] = o}
        gone   == mine \cup {k \in Events : Emptied(ids, k)}
        reports(keys) == FlattenSeq([n \in DOMAIN keys |-> OwnerReports(keys[n], ids)])
    IN  /\ MayCall(t) /\ (ids # {} \/ mine # {})
        /\ TakeOut(ids) /\ Forget(ids)
        /\ table' = [k \in Keys |-> IF k \in gone THEN None ELSE table[k]]
        /\ \E h \in SetToSeqs(mine),
              p \in SetToSeqs({k \in Events \ Handled : Touched(ids, k)}),
              q \in SetToSeqs({k \in Handled : Touched(ids, k)}) :
                 Changed(t, {table[k] : k \in gone},
                         reports(h \o p \o q) \o <<Report("owner_unregistered", 0)>>)
        /\ Disown({table[k] : k \in mine})
        /\ UNCHANGED <<nextEntry, nextId>>

-----------------------------------------------------------------------------
(* Emission.                                                               *)

\* notifyDebug(): find the topic of the next report.
ReportNext(t) ==
    /\ At(t, "report") /\ Top(t).reports # <<>>
    /\ LET r     == Head(Top(t).reports)
           rest  == Change(Top(t).pins, Tail(Top(t).reports))
           debug == Emission("debug", r.topic, table[r.topic])
       IN  Becomes(t, rest \o (IF Listeners(r.topic) = {} THEN <<>>
                                ELSE <<[debug EXCEPT !.about = r.about]>>))
    /\ UNCHANGED <<names, handle, hvars>>

\* What a change holds is released, and it returns.
ChangeDone(t) ==
    /\ At(t, "report") /\ Top(t).reports = <<>>
    /\ Pop(t)
    /\ UNCHANGED <<names, handle, hvars>>

\* emit() and publishHandledEvent(): find the entry,
Emit(t, k) ==
    /\ MayCall(t) /\ table[k] # None
    /\ Push(t, Emission("emit", k, table[k]))
    /\ UNCHANGED <<names, handle, hvars>>

\* An emission goes on with the subscribers still to be called: it is inside
\* the first of them, or over.
GoOn(t, f, todo) ==
    LET told == {<<Head(todo), f.about>>} IN
    IF todo = <<>> THEN Pop(t) /\ UNCHANGED <<heard, again>>
    ELSE /\ Becomes(t, <<[f EXCEPT !.step = "inside", !.todo = todo, !.born = 0]>>)
         /\ IF f.op = "debug" /\ f.about # 0
            THEN heard' = heard \cup told /\ again' = again \cup (heard \cap told)
            ELSE UNCHANGED <<heard, again>>

\* copy its list and call the first subscriber,
Snapshot(t) ==
    /\ At(t, "found")
    /\ \E e \in Top(t).pins : GoOn(t, Top(t), list[e])
    /\ UNCHANGED <<names, handle, owed, cut>>

\* and, as it returns (for a handled event, or throws, which becomes its
\* answer), the next one.  The call of a handler is over.
Return(t) ==
    /\ At(t, "inside")
    /\ GoOn(t, Top(t), IF Top(t).op = "call" THEN <<>> ELSE Tail(Top(t).todo))
    /\ UNCHANGED <<names, handle, owed, cut>>

\* A callback that throws ends the emission, or the call of the handler: an
\* emit() lets the exception through, notifyDebug() swallows it.
Throw(t) ==
    /\ MayThrow /\ At(t, "inside") /\ Top(t).key \notin Handled
    /\ Pop(t)
    /\ cut' = IF Top(t).op = "debug" THEN cut \cup {<<Top(t).key, Top(t).about>>} ELSE cut
    /\ UNCHANGED <<names, handle, owed, heard, again>>

-----------------------------------------------------------------------------
(* Handles.                                                                *)

\* getHandler(), getEvent(), getHandledEvent().
GetHandle(t, k) ==
    /\ MayCall(t) /\ table[k] # None
    /\ handle' = [key |-> k, entry |-> table[k]]
    /\ UNCHANGED <<names, stack, hvars>>

\* An entry lives while it is registered or a call holds it.
Alive(e) ==
    \/ \E k \in Keys : table[k] = e
    \/ \E t \in Threads : \E i \in DOMAIN stack[t] : e \in stack[t][i].pins

\* operator(): a handle whose entry is gone throws; else call the handler, or
\* emit to the current list of the entry.
CallHandle(t) ==
    /\ MayCall(t) /\ handle.entry # None /\ Alive(handle.entry)
    /\ Push(t, IF handle.key \in Handlers
               THEN Frame("call", "inside", handle.key, {handle.entry})
               ELSE Emission("handle", handle.key, handle.entry))
    /\ UNCHANGED <<names, handle, hvars>>

Step(t) ==
    \/ \E k \in Handlers : (\E o \in Owners : RegisterHandler(t, k, o)) \/ UnregisterHandler(t, k)
    \/ \E k \in Events, o \in Owners : Register(t, k, o)
    \/ \E id \in Ids : Unregister(t, id)
    \/ \E o \in Owners : UnregisterOwner(t, o)
    \/ ReportNext(t) \/ ChangeDone(t)
    \/ \E k \in Events : Emit(t, k)
    \/ Snapshot(t) \/ Return(t) \/ Throw(t)
    \/ \E k \in Keys : GetHandle(t, k)
    \/ CallHandle(t)

Next == \E t \in Threads : Step(t)

Spec == Init /\ [][Next]_vars

-----------------------------------------------------------------------------
Live(k) == {i \in Ids : subKey[i] = k}

\* A subscription is known by its id exactly if it is in the list of the entry
\* its name leads to now; an entry in the table has subscribers, one that was
\* dropped never has any again, so an emission or a handle that still holds
\* it reaches nobody; and lists are in the order of subscription.
Inv ==
    /\ TypeOK
    /\ \A k \in Events :
          /\ table[k] = None => Live(k) = {}
          /\ table[k] # None => Live(k) = ToSet(list[table[k]]) /\ Live(k) # {}
    /\ \A e \in Entries : (\A k \in Events : table[k] # e) => list[e] = <<>>
    /\ \A e \in Entries : \A i, j \in DOMAIN list[e] : i < j => list[e][i] < list[e][j]

\* communication_manager.hpp: no emission that begins after a subscription was
\* removed picks it up, and one made before the emission began, and not
\* removed, is never missed, although the entry found may be dropped and made
\* anew before its list is copied.
SnapshotExact ==
    [][\A t \in Threads : At(t, "found") /\ stack'[t] # stack[t] =>
          LET f     == Top(t)
              taken == IF Len(stack'[t]) < Len(stack[t]) THEN {}
                       ELSE ToSet(Last(stack'[t]).todo)
          IN  /\ taken \subseteq Live(f.key)
              /\ f.op # "handle" => {i \in Live(f.key) : i < f.born} \subseteq taken]_vars

\* A listener of a debug topic hears of no change twice, and once nobody is
\* inside the manager it has heard of every change made since it subscribed,
\* but those on which another listener threw.
DebugReported ==
    /\ again = {}
    /\ (\A t \in Threads : ~Inside(t)) =>
          \A p \in owed : subKey[p[1]] # NoKey /\ <<subKey[p[1]], p[2]>> \notin cut
                              => p \in heard

\* No name leads to the entry, and no change that may be its removal is
\* still under way.
Unregistered(e) ==
    /\ \A k \in Keys : table[k] # e
    /\ \A t \in Threads : \A i \in DOMAIN stack[t] :
          stack[t][i].op = "change" => e \notin stack[t][i].pins

\* communication_manager.hpp: once unregisterHandler() or unregisterOwner()
\* has returned, no new call reaches the handler through a handle.
NoCallAfterUnregister ==
    [][\A t \in Threads : Len(stack'[t]) > Len(stack[t]) /\ Last(stack'[t]).op = "call" =>
          ~Unregistered(handle.entry)]_vars
=============================================================================
