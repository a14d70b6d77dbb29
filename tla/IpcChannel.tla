----------------------------- MODULE IpcChannel -----------------------------
(***************************************************************************)
(* IpcChannel (dsbox_ipc): requests over a byte pipe.  requestAsync()      *)
(* enters the caller's onDone in the pending table, arms a timer and sends *)
(* the request; a reply read from the pipe, the timer and close() compete  *)
(* for the entry, and whoever removes it calls onDone.                     *)
(*                                                                         *)
(* One action is one critical section of PendingTable::mutex, one access   *)
(* of m_closed, one call of the scheduler, or the run of a callback.  The  *)
(* timers are those of Scheduler.tla by what it shows of them: a timer     *)
(* fires unless cancel() or stop() comes first, and stop() discards it.    *)
(* They run on the scheduler of IpcChannelOptions or, if there is none or  *)
(* it has stopped, on the channel's private one, whose tasks run one after *)
(* the other on its own thread.                                            *)
(***************************************************************************)
EXTENDS Naturals, Sequences, FiniteSets

CONSTANTS Requests,    \* the requests made, each by a thread of its own
          Timed,       \* those with a timeout
          Incoming,    \* a request or notification of the peer
          User,        \* a thread outside the channel that may close it
          Reader,      \* the thread calling onBytesReceived()
          MaxFrames    \* bound on the frames the peer sends

\* Assumed of the constants.
IpcConstants ==
    /\ Timed \subseteq Requests
    /\ Incoming \notin Requests
    /\ {User, Reader} \cap Requests = {} /\ User # Reader
    /\ MaxFrames \in Nat

VARIABLES closed,    \* m_closed
          entries,   \* PendingTable::entries
          held,      \* entries that hold their timer
          caller,    \* where each requestAsync() is
          sent,      \* requests written to the pipe
          shared,    \* IpcChannelOptions::scheduler
          private,   \* m_privateScheduler
          timer,     \* the timer of each request
          onPrivate, \* requests whose timer is on the private scheduler
          frames,    \* frames the peer has sent
          batch,     \* frames parsed and not handled yet
          reader,    \* what the reader is doing
          reply,     \* the request whose reply it is handling
          closer,    \* the thread in close()
          closing,   \* where it is
          drained,   \* the entries it took
          calls      \* history: invocations of each onDone

rvars == <<caller, sent>>
tvars == <<timer, onPrivate>>
ivars == <<frames, batch, reader, reply>>
cvars == <<closer, closing, drained>>
vars == <<closed, entries, held, shared, private, rvars, tvars, ivars, cvars, calls>>

Frames == Requests \cup {Incoming}

TypeOK ==
    /\ closed \in BOOLEAN
    /\ entries \subseteq Requests /\ held \subseteq entries \cup drained
    /\ caller \in [Requests -> {"new", "insert", "arm", "store", "send", "returned"}]
    /\ sent \subseteq Requests
    /\ shared \in {"none", "up", "stopped"}
    /\ private \in {"none", "up", "stopped"}
    /\ timer \in [Requests -> {"none", "armed", "firing", "callback", "over",
                               "cancelled", "discarded"}]
    /\ onPrivate \subseteq Requests
    /\ frames \in 0 .. MaxFrames
    /\ batch \in Seq(Frames)
    /\ reader \in {"idle", "frame", "cancel", "call", "callback"}
    /\ reply \in Frames
    /\ closer \in Requests \cup {User, Reader}
    /\ closing \in {"no", "swap", "cancel", "stop", "join", "fail", "done"}
    /\ drained \subseteq Requests
    /\ calls \in [Requests -> Nat]

Init ==
    /\ closed = FALSE
    /\ entries = {} /\ held = {}
    /\ caller = [r \in Requests |-> "new"]
    /\ sent = {}
    /\ shared \in {"none", "up"}
    /\ private = "none"
    /\ timer = [r \in Requests |-> "none"]
    /\ onPrivate = {}
    /\ frames = 0
    /\ batch = <<>>
    /\ reader = "idle" /\ reply = Incoming
    /\ closer = User /\ closing = "no"
    /\ drained = {}
    /\ calls = [r \in Requests |-> 0]

-----------------------------------------------------------------------------
(* The pending table and the timers.                                       *)

Call(r) == calls' = [calls EXCEPT ![r] = @ + 1]

CallerAt(r, l) == caller' = [caller EXCEPT ![r] = l]

TimerAt(r, l) == timer' = [timer EXCEPT ![r] = l]

\* A mutated form: the entry is only looked at.
Peek(r) == UNCHANGED <<entries, held>>
\* Whoever finds an entry removes it.
Remove(r) == entries' = entries \ {r} /\ held' = held \ {r}

\* TimerHandle::cancel() on a set of timers.
Cancel(T) ==
    timer' = [r \in Requests |->
                 IF r \in T /\ timer[r] = "armed" THEN "cancelled" ELSE timer[r]]

-----------------------------------------------------------------------------
(* requestAsync().                                                         *)

\* A channel already closed fails the request at once.
Request(r) ==
    /\ caller[r] = "new"
    /\ \/ closed /\ Call(r) /\ CallerAt(r, "returned")
       \/ ~closed /\ CallerAt(r, "insert") /\ UNCHANGED calls
    /\ UNCHANGED <<closed, entries, held, sent, shared, private, tvars, ivars, cvars>>

\* A mutated form: it is not looked at again.
NotRechecked == FALSE
\* `closed` as it is looked at again under the table's lock.
ClosedMeanwhile == closed

\* Enter it in the table, unless the channel was closed meanwhile.
Insert(r) ==
    /\ caller[r] = "insert"
    /\ \/ /\ ClosedMeanwhile
          /\ Call(r) /\ CallerAt(r, "returned")
          /\ UNCHANGED entries
       \/ /\ ~ClosedMeanwhile
          /\ entries' = entries \cup {r}
          /\ CallerAt(r, IF r \in Timed THEN "arm" ELSE "send")
          /\ UNCHANGED calls
    /\ UNCHANGED <<closed, held, sent, shared, private, tvars, ivars, cvars>>

\* armTimeout(): on the shared scheduler, else on the private one, which is
\* created if need be; that one may have been stopped by close().
ArmTimeout(r) ==
    /\ caller[r] = "arm"
    /\ CallerAt(r, "store")
    /\ \/ shared = "up" /\ TimerAt(r, "armed") /\ UNCHANGED <<private, onPrivate>>
       \/ /\ shared # "up" /\ private # "stopped"
          /\ private' = "up"
          /\ TimerAt(r, "armed") /\ onPrivate' = onPrivate \cup {r}
       \/ shared # "up" /\ private = "stopped" /\ UNCHANGED <<private, tvars>>
    /\ UNCHANGED <<closed, entries, held, sent, shared, ivars, cvars, calls>>

\* A mutated form: the timer is left behind.
LeaveTimer(r) == UNCHANGED tvars
\* Put the timer into the entry; if that is gone, cancel the timer.
DropTimer(r) == Cancel({r}) /\ UNCHANGED onPrivate

StoreTimer(r) ==
    /\ caller[r] = "store"
    /\ CallerAt(r, "send")
    /\ \/ r \in entries /\ held' = held \cup {r} /\ UNCHANGED tvars
       \/ r \notin entries /\ DropTimer(r) /\ UNCHANGED held
    /\ UNCHANGED <<closed, entries, sent, shared, private, ivars, cvars, calls>>

Send(r) ==
    /\ caller[r] = "send"
    /\ sent' = sent \cup {r}
    /\ CallerAt(r, "returned")
    /\ UNCHANGED <<closed, entries, held, shared, private, tvars, ivars, cvars, calls>>

-----------------------------------------------------------------------------
(* The timers' tasks: expire().                                            *)

Busy(r) == timer[r] \in {"firing", "callback"}

Fire(r) ==
    /\ timer[r] = "armed"
    /\ r \in onPrivate => \A q \in onPrivate : ~Busy(q)
    /\ TimerAt(r, "firing")
    /\ UNCHANGED <<closed, entries, held, shared, private, rvars, onPrivate,
                   ivars, cvars, calls>>

\* Fail the request, unless somebody else has taken its entry.
Expire(r) ==
    /\ timer[r] = "firing"
    /\ \/ r \notin entries /\ TimerAt(r, "over") /\ UNCHANGED <<entries, held, calls>>
       \/ r \in entries /\ Remove(r) /\ TimerAt(r, "callback") /\ Call(r)
    /\ UNCHANGED <<closed, shared, private, rvars, onPrivate, ivars, cvars>>

\* onDone returns; it may have called close().
InClose(x) == closer = x /\ closing \notin {"no", "done"}

Expired(r) ==
    /\ timer[r] = "callback" /\ ~InClose(r)
    /\ TimerAt(r, "over")
    /\ UNCHANGED <<closed, entries, held, shared, private, rvars, onPrivate,
                   ivars, cvars, calls>>

\* The owner of the shared scheduler stops it: what was armed is discarded.
Discard(T) ==
    timer' = [r \in Requests |->
                 IF r \in T /\ timer[r] = "armed" THEN "discarded" ELSE timer[r]]

StopShared ==
    /\ shared = "up"
    /\ shared' = "stopped"
    /\ Discard(Requests \ onPrivate)
    /\ UNCHANGED <<closed, entries, held, private, rvars, onPrivate, ivars, cvars, calls>>

-----------------------------------------------------------------------------
(* The reader: onBytesReceived() and handleFrame().                        *)

\* Bytes arrive and parse into some frames: replies to requests sent, also
\* more than one, and requests or notifications of the peer.
Receive ==
    /\ reader = "idle" /\ ~closed
    /\ \E f \in UNION {[1 .. n -> sent \cup {Incoming}] : n \in 1 .. (MaxFrames - frames)} :
          /\ batch' = f
          /\ frames' = frames + Len(f)
    /\ reader' = "frame"
    /\ UNCHANGED <<closed, entries, held, shared, private, rvars, tvars, reply,
                   cvars, calls>>

\* A reply takes the entry of its request; a late or doubled one is dropped.
TakeReply ==
    /\ reader = "frame" /\ batch # <<>> /\ Head(batch) \in Requests
    /\ batch' = Tail(batch)
    /\ \/ /\ Head(batch) \in entries
          /\ reply' = Head(batch)
          /\ Remove(Head(batch))
          /\ reader' = IF Head(batch) \in held THEN "cancel" ELSE "call"
       \/ /\ Head(batch) \notin entries
          /\ UNCHANGED <<entries, held, reply, reader>>
    /\ UNCHANGED <<closed, shared, private, rvars, tvars, frames, cvars, calls>>

CancelTimer ==
    /\ reader = "cancel"
    /\ Cancel({reply})
    /\ reader' = "call"
    /\ UNCHANGED <<closed, entries, held, shared, private, rvars, onPrivate,
                   frames, batch, reply, cvars, calls>>

CallOnDone ==
    /\ reader = "call"
    /\ Call(reply)
    /\ reader' = "callback"
    /\ UNCHANGED <<closed, entries, held, shared, private, rvars, tvars, frames,
                   batch, reply, cvars>>

\* The handler of a request or notification of the peer is called.
Serve ==
    /\ reader = "frame" /\ batch # <<>> /\ Head(batch) = Incoming
    /\ batch' = Tail(batch)
    /\ reader' = "callback"
    /\ UNCHANGED <<closed, entries, held, shared, private, rvars, tvars, frames,
                   reply, cvars, calls>>

\* onDone or the handler returns, and the next frame is handled.
Handled ==
    /\ reader = "callback" /\ ~InClose(Reader)
    /\ reader' = "frame"
    /\ UNCHANGED <<closed, entries, held, shared, private, rvars, tvars, frames,
                   batch, reply, cvars, calls>>

BatchDone ==
    /\ reader = "frame" /\ batch = <<>>
    /\ reader' = "idle"
    /\ UNCHANGED <<closed, entries, held, shared, private, rvars, tvars, frames,
                   batch, reply, cvars, calls>>

-----------------------------------------------------------------------------
(* close(): by a thread outside, by a handler, or by an onDone.            *)

Close(x) ==
    /\ ~closed
    /\ x = Reader => reader = "callback"
    /\ x \in Requests => timer[x] = "callback"
    /\ closed' = TRUE
    /\ closer' = x /\ closing' = "swap"
    /\ UNCHANGED <<entries, held, shared, private, rvars, tvars, ivars, drained, calls>>

\* Take all the entries,
CloseSwap ==
    /\ closing = "swap"
    /\ drained' = entries
    /\ entries' = {}
    /\ closing' = "cancel"
    /\ UNCHANGED <<closed, held, shared, private, rvars, tvars, ivars, closer, calls>>

\* cancel the timers they held,
CloseCancel ==
    /\ closing = "cancel"
    /\ Cancel(held) /\ held' = {}
    /\ closing' = "stop"
    /\ UNCHANGED <<closed, entries, shared, private, rvars, onPrivate, ivars,
                   closer, drained, calls>>

\* stop the private scheduler, if there is one,
CloseStop ==
    /\ closing = "stop"
    /\ \/ private = "up" /\ private' = "stopped" /\ Discard(onPrivate) /\ closing' = "join"
       \/ private # "up" /\ closing' = "fail" /\ UNCHANGED <<private, timer>>
    /\ UNCHANGED <<closed, entries, held, shared, rvars, onPrivate, ivars, closer,
                   drained, calls>>

\* A mutated form: the thread waits for itself.
Anybody == onPrivate
\* wait for the private timer thread, unless this is it,
Awaited == onPrivate \ {closer}

CloseJoin ==
    /\ closing = "join"
    /\ \A r \in Awaited : ~Busy(r)
    /\ closing' = "fail"
    /\ UNCHANGED <<closed, entries, held, shared, private, rvars, tvars, ivars,
                   closer, drained, calls>>

\* and fail them.
CloseFail ==
    /\ closing = "fail"
    /\ \/ /\ \E r \in drained : Call(r) /\ drained' = drained \ {r}
          /\ UNCHANGED closing
       \/ drained = {} /\ closing' = "done" /\ UNCHANGED <<drained, calls>>
    /\ UNCHANGED <<closed, entries, held, shared, private, rvars, tvars, ivars, closer>>

-----------------------------------------------------------------------------
Caller(r) == Insert(r) \/ ArmTimeout(r) \/ StoreTimer(r) \/ Send(r)
TimerTask(r) == Fire(r) \/ Expire(r) \/ Expired(r)
Read == TakeReply \/ CancelTimer \/ CallOnDone \/ Serve \/ Handled \/ BatchDone
CloseStep == CloseSwap \/ CloseCancel \/ CloseStop \/ CloseJoin \/ CloseFail

Next ==
    \/ \E r \in Requests : Request(r) \/ Caller(r) \/ TimerTask(r)
    \/ StopShared
    \/ Receive \/ Read
    \/ \E x \in Requests \cup {User, Reader} : Close(x)
    \/ CloseStep

\* Threads inside the channel go on, time passes, callbacks return; the peer
\* need not answer and nobody need close.  None of these steps is taken for ever.
GoesOn == (\E r \in Requests : Caller(r) \/ TimerTask(r)) \/ Read \/ CloseStep
Fairness == WF_vars(GoesOn)

Spec == Init /\ [][Next]_vars /\ Fairness

-----------------------------------------------------------------------------
Begun(r) == caller[r] # "new"

\* Of a request under way, exactly one party has onDone to call, or it has
\* been called, once: the thread in requestAsync(), the table, the reader,
\* and close() (a timer's task takes it and calls it).
Inv ==
    /\ TypeOK
    /\ \A r \in Requests :
          Cardinality({h \in {"caller", "table", "reader", "closer"} :
              \/ h = "caller" /\ caller[r] = "insert"
              \/ h = "table"  /\ r \in entries
              \/ h = "reader" /\ reader \in {"cancel", "call"} /\ reply = r
              \/ h = "closer" /\ r \in drained}) + calls[r]
          = IF Begun(r) THEN 1 ELSE 0

\* Once a request is answered and nobody is handling it any more, its timer
\* is not left behind to fire.
NoStrayTimer ==
    \A r \in Requests :
        calls[r] > 0 /\ timer[r] = "armed" => caller[r] \in {"arm", "store"}

\* onDone is called in the end: if the request has a timeout (unless the
\* shared scheduler it runs on was stopped), and if the channel is closed;
\* and close() returns, whichever thread calls it.
Answered(r) == calls[r] = 1 \/ (timer[r] = "discarded" /\ ~closed)
Settled ==
    /\ \A r \in Requests : Begun(r) /\ (r \in Timed \/ closed) => Answered(r)
    /\ closed => closing = "done"
EventuallySettled == <>[]Settled
=============================================================================
