--------------------------- MODULE NetworkManager ---------------------------
(***************************************************************************)
(* NetworkManager::fetch() (dsbox_net): the timeout and the cancellation of *)
(* a request, the chain of interceptors, the protocol handler, redirects.  *)
(*                                                                         *)
(* A fetch is at one place at a time, whichever thread carries it; beside  *)
(* it run the owner of the caller's token, the timers, those who add and   *)
(* remove interceptors and whoever gives and stops the shared scheduler.   *)
(* Handlers and interceptors are external and keep their contracts: a      *)
(* handler answers once, also because its token is cancelled; an           *)
(* interceptor passes the request on or answers, once, and gives it no     *)
(* credentials of its own.  Credentials are stripped, as the options say   *)
(* unless they are changed.                                                *)
(***************************************************************************)
EXTENDS Naturals, Sequences, FiniteSets

CONSTANTS Fetches,       \* calls of fetch()
          Interceptors,  \* interceptors that may be added
          Origins,       \* scheme, host and port of a URL
          Home,          \* the origin a fetch starts at
          MaxRedirects   \* NetOptions::maxRedirects, not negative

\* Assumed of the constants.
NetworkConstants ==
    Home \in Origins /\ MaxRedirects \in Nat

VARIABLES served,    \* whether a handler is registered for the scheme
          chain,     \* m_interceptors
          ids,       \* interceptors added so far, oldest first
          shared,    \* the scheduler of useScheduler(): none, running, stopped
          timed,     \* whether the request has a timeout
          caller,    \* the caller's token: open or cancelled
          source,    \* the manager's own: open, Cancelled or Timeout
          forward,   \* the subscription to the caller's token: no, set, called
          timer,     \* none, armed on "shared" or "private", fired, cancelled, lost
          pc,        \* where the fetch is
          index,     \* its place in the chain
          hops,      \* hopsRemaining
          origin,    \* where this hop goes
          creds,     \* whether the caller's Authorization is still there
          ran,       \* history: interceptors run in this hop
          stayed,    \* history: interceptors registered throughout this hop
          results    \* history: what `done` was called with

registry == <<served, chain, ids, shared>>
signals  == <<timed, caller, source, forward, timer>>
hop      == <<index, hops, origin, creds, ran, stayed>>
vars     == <<registry, signals, pc, hop, results>>

Elements(s) == {s[i] : i \in 1 .. Len(s)}

Init ==
    /\ served = TRUE /\ chain = <<>> /\ ids = <<>>
    /\ shared = "none"
    /\ timed \in [Fetches -> BOOLEAN]
    /\ caller = [f \in Fetches |-> "open"] /\ source = [f \in Fetches |-> "open"]
    /\ forward = [f \in Fetches |-> "no"] /\ timer = [f \in Fetches |-> "none"]
    /\ pc = [f \in Fetches |-> "new"] /\ index = [f \in Fetches |-> 0]
    /\ hops = [f \in Fetches |-> MaxRedirects]
    /\ origin = [f \in Fetches |-> Home] /\ creds = [f \in Fetches |-> TRUE]
    /\ ran = [f \in Fetches |-> <<>>] /\ stayed = [f \in Fetches |-> {}]
    /\ results = [f \in Fetches |-> <<>>]

-----------------------------------------------------------------------------
Goto(f, l) == pc' = [pc EXCEPT ![f] = l]

\* The token the hops of a fetch carry.
Cancelled(f) == IF timed[f] THEN source[f] # "open" ELSE caller[f] # "open"

\* CancellationSource::cancel(): the first reason stays.
Signal(f, reason) == source' = [source EXCEPT ![f] = IF @ = "open" THEN reason ELSE @]

\* A mutated form: a token that was cancelled before is not looked at.
ForwardLater(f) ==
    /\ pc[f] = "new" /\ timed[f]
    /\ forward' = [forward EXCEPT ![f] = "set"]
    /\ Goto(f, "arm")
    /\ UNCHANGED <<registry, timed, caller, source, timer, hop, results>>
\* fetch() with a timeout: callerToken.onCancel(), which forwards at once when
\* the caller has cancelled already.
Forward(f) ==
    /\ pc[f] = "new" /\ timed[f]
    /\ IF caller[f] = "open"
       THEN forward' = [forward EXCEPT ![f] = "set"] /\ UNCHANGED source
       ELSE Signal(f, "Cancelled") /\ UNCHANGED forward
    /\ Goto(f, "arm")
    /\ UNCHANGED <<registry, timed, caller, timer, hop, results>>

\* The timer, on the shared scheduler unless there is none or it is stopped.
Arm(f) ==
    /\ pc[f] = "arm"
    /\ timer' = [timer EXCEPT ![f] = IF shared = "running" THEN "shared" ELSE "private"]
    /\ Goto(f, "hop")
    /\ UNCHANGED <<registry, timed, caller, source, forward, hop, results>>

Untimed(f) ==
    /\ pc[f] = "new" /\ ~timed[f]
    /\ Goto(f, "hop")
    /\ UNCHANGED <<registry, signals, hop, results>>

\* A mutated form: the timer is left armed.
ReleaseForward(f) == UNCHANGED timer
\* `done`: the timer is cancelled first, which one that has fired, or is lost, cannot
\* be.
Release(f) == timer' = [timer EXCEPT ![f] = IF @ \in {"shared", "private"} THEN "cancelled" ELSE @]
Done(f, r) ==
    /\ results' = [results EXCEPT ![f] = Append(@, r)]
    /\ Release(f)
    /\ Goto(f, "done")
    /\ UNCHANGED <<registry, timed, caller, source, forward, hop>>
\* The subscription goes when the last copy of the callback does.
Unsubscribe(f) ==
    /\ pc[f] = "done" /\ forward[f] = "set"
    /\ forward' = [forward EXCEPT ![f] = "no"]
    /\ UNCHANGED <<registry, timed, caller, source, timer, pc, hop, results>>

\* fetchHop(), which takes no URL without a scheme.
HopCancelled(f) == pc[f] = "hop" /\ Cancelled(f) /\ Done(f, "cancelled")
NoScheme(f) == pc[f] = "hop" /\ ~Cancelled(f) /\ Done(f, "invalid")
Hop(f) ==
    /\ pc[f] = "hop" /\ ~Cancelled(f)
    /\ index' = [index EXCEPT ![f] = 0]
    /\ ran' = [ran EXCEPT ![f] = <<>>]
    /\ stayed' = [stayed EXCEPT ![f] = Elements(chain)]
    /\ Goto(f, "chain")
    /\ UNCHANGED <<registry, signals, hops, origin, creds, results>>

\* A mutated form: the index is not advanced past the interceptor.
StayThere(f) == UNCHANGED index
\* runInterceptorChain(): the interceptor at the index, looked up again at
\* every step ...
StepOn(f) == index' = [index EXCEPT ![f] = @ + 1]
Intercept(f) ==
    /\ pc[f] = "chain" /\ index[f] < Len(chain)
    /\ ran' = [ran EXCEPT ![f] = Append(@, chain[index[f] + 1])]
    /\ StepOn(f)
    /\ Goto(f, "intercepted")
    /\ UNCHANGED <<registry, signals, hops, origin, creds, stayed, results>>

InterceptNext(f) ==
    /\ pc[f] = "intercepted"
    /\ Goto(f, "chain")
    /\ UNCHANGED <<registry, signals, hop, results>>
InterceptAnswer(f) == pc[f] = "intercepted" /\ Done(f, "response")

\* ... and at its end the handler, pinned for the time of the call.
NoHandler(f) == pc[f] = "chain" /\ index[f] >= Len(chain) /\ ~served /\ Done(f, "unsupported")
Handle(f) ==
    /\ pc[f] = "chain" /\ index[f] >= Len(chain) /\ served
    /\ Goto(f, "handler")
    /\ UNCHANGED <<registry, signals, hop, results>>

\* The handler's answer: a result, or a redirect that starts the next hop.
Answer(f)   == pc[f] = "handler" /\ Done(f, "response")
Aborted(f)  == pc[f] = "handler" /\ Cancelled(f) /\ Done(f, "cancelled")
TooMany(f)  == pc[f] = "handler" /\ hops[f] = 0 /\ Done(f, "redirects")
\* A mutated form: only what the first redirect crosses is looked at.
KeepCredsHome(f, o) == creds[f] /\ (o = origin[f] \/ origin[f] # Home \/ hops[f] = MaxRedirects)
KeepCreds(f, o) == creds[f] /\ o = origin[f]
Redirect(f) ==
    /\ pc[f] = "handler" /\ hops[f] > 0
    /\ \E o \in Origins :
         /\ origin' = [origin EXCEPT ![f] = o]
         /\ creds' = [creds EXCEPT ![f] = KeepCreds(f, o)]
    /\ hops' = [hops EXCEPT ![f] = @ - 1]
    /\ Goto(f, "hop")
    /\ UNCHANGED <<registry, signals, index, ran, stayed, results>>

-----------------------------------------------------------------------------
\* The caller's CancellationSource::cancel(): callbacks are taken out under
\* the lock and called after it; one whose Subscription has been reset is
\* called none the less.
CancelCaller(f) ==
    /\ caller[f] = "open"
    /\ caller' = [caller EXCEPT ![f] = "cancelled"]
    /\ forward' = [forward EXCEPT ![f] = IF @ = "set" THEN "called" ELSE @]
    /\ UNCHANGED <<registry, timed, source, timer, pc, hop, results>>
ForwardCall(f) ==
    /\ forward[f] = "called"
    /\ Signal(f, "Cancelled")
    /\ forward' = [forward EXCEPT ![f] = "no"]
    /\ UNCHANGED <<registry, timed, caller, timer, pc, hop, results>>

Fire(f) ==
    /\ timer[f] \in {"shared", "private"}
    /\ timer' = [timer EXCEPT ![f] = "fired"]
    /\ Signal(f, "Timeout")
    /\ UNCHANGED <<registry, timed, caller, forward, pc, hop, results>>

\* useScheduler(), before there is one or when the last one has been stopped.
UseScheduler ==
    /\ shared # "running" /\ shared' = "running"
    /\ UNCHANGED <<served, chain, ids, signals, pc, hop, results>>
\* The owner of the shared scheduler stops it: its timers are dropped.
StopShared ==
    /\ shared = "running"
    /\ shared' = "stopped"
    /\ timer' = [f \in Fetches |-> IF timer[f] = "shared" THEN "lost" ELSE timer[f]]
    /\ UNCHANGED <<served, chain, ids, timed, caller, source, forward, pc, hop, results>>

\* addInterceptor(), removeInterceptor(); each addition has an id of its own.
AddInterceptor(i) ==
    /\ i \notin Elements(ids)
    /\ chain' = Append(chain, i) /\ ids' = Append(ids, i)
    /\ UNCHANGED <<served, shared, signals, pc, hop, results>>
RemoveInterceptor(i) ==
    /\ \E n \in 1 .. Len(chain) :
         chain[n] = i /\ chain' = SubSeq(chain, 1, n - 1) \o SubSeq(chain, n + 1, Len(chain))
    /\ stayed' = [f \in Fetches |-> stayed[f] \ {i}]
    /\ UNCHANGED <<served, ids, shared, signals, pc, index, hops, origin, creds, ran, results>>

\* registerHandler() and unregisterHandler(), as often as they like.
Register   == ~served /\ served' = TRUE
Unregister == served /\ served' = FALSE
Serve == (Register \/ Unregister) /\ UNCHANGED <<chain, ids, shared, signals, pc, hop, results>>

\* What the manager itself does for a fetch, and the handler at the end.
GoesOn(f) ==
    \/ Forward(f) \/ Arm(f) \/ Untimed(f) \/ HopCancelled(f) \/ NoScheme(f) \/ Hop(f)
    \/ Intercept(f) \/ NoHandler(f) \/ Handle(f)
Others(f) ==
    \/ InterceptNext(f) \/ InterceptAnswer(f)
    \/ Answer(f) \/ Aborted(f) \/ TooMany(f) \/ Redirect(f)

Next ==
    \/ \E f \in Fetches : GoesOn(f) \/ Others(f) \/ CancelCaller(f) \/ ForwardCall(f) \/ Fire(f)
                          \/ Unsubscribe(f)
    \/ \E i \in Interceptors : AddInterceptor(i) \/ RemoveInterceptor(i)
    \/ UseScheduler \/ StopShared \/ Serve

\* A fetch under way goes on, interceptors pass requests on or answer them, a
\* handler whose token is cancelled aborts, callbacks are called and timers fire.
\* None of these steps can be repeated for ever.
Obliged(f) ==
    \/ pc[f] # "new" /\ GoesOn(f)
    \/ InterceptNext(f) \/ InterceptAnswer(f) \/ Aborted(f) \/ ForwardCall(f) \/ Fire(f)
Fairness == WF_vars(\E f \in Fetches : Obliged(f))

Spec == Init /\ [][Next]_vars /\ Fairness

-----------------------------------------------------------------------------
TypeOK ==
    /\ chain \in Seq(Interceptors)
    /\ shared \in {"none", "running", "stopped"}
    /\ hops \in [Fetches -> 0 .. MaxRedirects]

\* `done` is called once, and by then no timer is left that would cancel anything.
OneResult ==
    \A f \in Fetches :
        /\ Len(results[f]) <= 1
        /\ pc[f] = "done" <=> results[f] # <<>>
        /\ pc[f] = "done" => timer[f] \notin {"shared", "private"}

\* Whatever is added and removed meanwhile, a hop runs interceptors in the
\* order they were added and none twice.
Place(s, i) == CHOOSE n \in 1 .. Len(s) : s[n] = i
Position(i) == Place(ids, i)
InOrder ==
    \A f \in Fetches : \A m, n \in 1 .. Len(ran[f]) :
        m < n => Position(ran[f][m]) < Position(ran[f][n])

\* The caller's credentials reach no origin but the one he addressed.
CredentialsStay == \A f \in Fetches : pc[f] = "handler" /\ creds[f] => origin[f] = Home

Inv == TypeOK /\ OneResult /\ InOrder /\ CredentialsStay

\* A fetch that is cancelled ends, and one with a timeout ends in any case,
\* unless its timer has been lost with the shared scheduler.
MustEnd(f) ==
    /\ pc[f] # "new"
    /\ Cancelled(f) \/ caller[f] = "cancelled" \/ (timed[f] /\ timer[f] # "lost")
Ended(f) == pc[f] = "done"
EventuallyEnds == \A f \in Fetches : <>[](MustEnd(f) => Ended(f))

\* The timeout of a fetch under way is never lost.
TimeoutKept == \A f \in Fetches : pc[f] # "done" => timer[f] # "lost"

\* An interceptor that is registered throughout a hop is run in it.
EveryInterceptorRuns ==
    \A f \in Fetches : pc[f] = "handler" => stayed[f] \subseteq Elements(ran[f])
=============================================================================
