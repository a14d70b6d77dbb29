---------------------------- MODULE TcpConnector ----------------------------
(***************************************************************************)
(* TcpConnector and ConnectorRegistry (dsbox_net_socket).                   *)
(*                                                                         *)
(* connect() tries the addresses of a host one after the other, waiting for *)
(* each in short slices so that a cancel or a deadline is noticed.  The     *)
(* connection it returns is used by several threads: close() only shuts the *)
(* socket down, and the descriptor is released with the last reference.     *)
(* The connector comes from the registry, from which its owner may remove   *)
(* it at any time.  Resolving a name and the sockets are external.          *)
(***************************************************************************)
EXTENDS Naturals, FiniteSets

CONSTANTS Addresses,  \* bound: how many addresses the name has
          Users       \* threads that use the connection

\* Assumed of the constants.
TcpConstants == Addresses \in Nat /\ IsFiniteSet(Users) /\ Users # {}

VARIABLES pc,         \* where connect() is
          entry,      \* the registry's entry: absent, ours, other
          connector,  \* the IConnector: it lives while something refers to it
          at,         \* the address being tried
          token,      \* open, or cancelled
          overall,    \* the deadline of connect() has passed
          slot,       \* the deadline of this attempt has passed
          lastWasTimeout,
          result,     \* what connect() returned or threw
          open,       \* descriptors that are open
          shut,       \* the connection was shut down
          refs,       \* users that still hold the connection
          inCall      \* what a user is blocked in: nothing, recv, send

call     == <<pc, at, overall, slot, lastWasTimeout, result>>
sockets  == <<open, shut, refs, inCall>>
registry == <<entry, connector>>
vars     == <<call, sockets, registry, token>>

Init ==
    /\ pc = "get" /\ entry = "absent" /\ connector = "none" /\ at = 0
    /\ token = "open" /\ overall = FALSE /\ slot = FALSE /\ lastWasTimeout = FALSE
    /\ result = "none" /\ open = 0 /\ shut = FALSE /\ refs = {}
    /\ inCall = [u \in Users |-> "nothing"]

-----------------------------------------------------------------------------
\* ConnectorRegistry: the removed connector is destroyed outside the lock, when
\* nobody else has a reference to it.
Set ==
    /\ entry \in {"absent", "ours"}
    /\ \/ entry = "absent" /\ connector = "none"
          /\ entry' = "ours" /\ connector' = "alive"
       \/ entry' = "other" /\ connector' = (IF pc \in {"get", "done"} THEN "gone" ELSE connector)
    /\ UNCHANGED <<call, sockets, token>>
\* A mutated form: the registry destroys what it removes.
RemoveNow ==
    /\ entry = "ours"
    /\ entry' = "absent" /\ connector' = "gone"
    /\ UNCHANGED <<call, sockets, token>>
Remove ==
    /\ entry = "ours"
    /\ entry' = "absent"
    /\ connector' = IF pc \in {"get", "done"} THEN "gone" ELSE connector
    /\ UNCHANGED <<call, sockets, token>>

\* get() and the start of connect(), with the reference it returned.
Get ==
    /\ pc = "get" /\ entry = "ours"
    /\ pc' = "start"
    /\ UNCHANGED <<at, overall, slot, lastWasTimeout, result, sockets, registry, token>>

\* The caller drops its reference when connect() is over.
Return(r) ==
    /\ result' = r /\ pc' = "done"
    /\ connector' = IF entry = "ours" THEN connector ELSE "gone"
    /\ UNCHANGED entry

CancelledFirst ==
    /\ pc \in {"start", "next"} /\ token = "cancelled"
    /\ Return("cancelled")
    /\ UNCHANGED <<at, overall, slot, lastWasTimeout, sockets, token>>
Resolve ==
    /\ pc = "start" /\ token = "open"
    /\ pc' = "next"
    /\ UNCHANGED <<at, overall, slot, lastWasTimeout, result, sockets, registry, token>>
Unresolved ==
    /\ pc = "start" /\ token = "open"
    /\ Return("dns")
    /\ UNCHANGED <<at, overall, slot, lastWasTimeout, sockets, token>>

\* The next address, unless the time is over.
Attempt ==
    /\ pc = "next" /\ token = "open" /\ at < Addresses /\ ~overall
    /\ at' = at + 1 /\ slot' = FALSE
    /\ open' = open + 1
    /\ pc' = "waiting"
    /\ UNCHANGED <<overall, lastWasTimeout, result, shut, refs, inCall, registry, token>>
NoSocket ==
    /\ pc = "next" /\ token = "open" /\ at < Addresses /\ ~overall
    /\ at' = at + 1 /\ lastWasTimeout' = FALSE
    /\ UNCHANGED <<pc, overall, slot, result, sockets, registry, token>>
GiveUp ==
    /\ pc = "next" /\ token = "open"
    /\ at = Addresses \/ overall
    /\ lastWasTimeout' = (lastWasTimeout \/ (at < Addresses /\ overall))
    /\ Return(IF lastWasTimeout' THEN "timeout" ELSE "connect")
    /\ UNCHANGED <<at, overall, slot, sockets, token>>

\* A mutated form: an attempt that ended without a connection keeps its socket.
KeepSocket == UNCHANGED open
\* attemptConnect() is over without a connection: the socket is closed.
CloseSocket == open' = open - 1
GoOn(timedOut) ==
    /\ CloseSocket
    /\ lastWasTimeout' = timedOut /\ pc' = "next"
    /\ UNCHANGED <<at, overall, slot, result, shut, refs, inCall, registry, token>>
Refused  == pc = "waiting" /\ GoOn(FALSE)
\* A mutated form: no attempt has a deadline of its own, nor has connect().
WaitOn == pc = "checked" /\ token = "cancelled" /\ slot /\ GoOn(TRUE)
\* A round of the wait looks at the token, then at the clock, and polls a slice.
Turn(from, to) ==
    /\ pc = from /\ pc' = to
    /\ UNCHANGED <<at, overall, slot, lastWasTimeout, result, sockets, registry, token>>
NotCancelled == token = "open" /\ Turn("waiting", "checked")
TimedOut == pc = "checked" /\ (slot \/ overall) /\ GoOn(TRUE)
Poll == ~slot /\ ~overall /\ Turn("checked", "waiting")
AttemptCancelled ==
    /\ pc = "waiting" /\ token = "cancelled"
    /\ CloseSocket
    /\ Return("cancelled")
    /\ UNCHANGED <<at, overall, slot, lastWasTimeout, shut, refs, inCall, token>>
Connected ==
    /\ pc = "waiting"
    /\ Return("ok")
    /\ refs' = Users
    /\ UNCHANGED <<at, overall, slot, lastWasTimeout, open, shut, inCall, token>>

-----------------------------------------------------------------------------
\* TcpConnection: a user reads, writes or closes, and lets go.
Block(u, c) ==
    /\ u \in refs /\ inCall[u] = "nothing" /\ ~shut
    /\ inCall' = [inCall EXCEPT ![u] = c]
    /\ UNCHANGED <<call, open, shut, refs, registry, token>>
Unblock(u) ==
    /\ inCall[u] # "nothing"
    /\ inCall' = [inCall EXCEPT ![u] = "nothing"]
    /\ UNCHANGED <<call, open, shut, refs, registry, token>>
Close(u) ==
    /\ u \in refs /\ inCall[u] = "nothing"
    /\ shut' = TRUE
    /\ UNCHANGED <<call, open, refs, inCall, registry, token>>
\* A mutated form: whoever lets go releases the descriptor.
ReleasedByAny(u) == u \in refs
\* The last reference releases the descriptor.
Released(u) == refs = {u}
LetGo(u) ==
    /\ u \in refs /\ inCall[u] = "nothing"
    /\ refs' = refs \ {u}
    /\ IF Released(u) THEN open' = open - 1 /\ shut' = TRUE ELSE UNCHANGED <<open, shut>>
    /\ UNCHANGED <<call, inCall, registry, token>>

Cancel == token' = "cancelled" /\ UNCHANGED <<call, sockets, registry>>
Tick ==
    /\ \/ overall' = TRUE /\ UNCHANGED slot
       \/ pc \in {"waiting", "checked"} /\ slot' = TRUE /\ UNCHANGED overall
    /\ UNCHANGED <<pc, at, lastWasTimeout, result, sockets, registry, token>>

Connecting ==
    \/ CancelledFirst \/ Resolve \/ Unresolved \/ Attempt \/ NoSocket \/ GiveUp
    \/ NotCancelled \/ TimedOut \/ Poll \/ AttemptCancelled
Next ==
    \/ Set \/ Remove \/ Get \/ Connecting \/ Refused \/ Connected \/ Cancel \/ Tick
    \/ \E u \in Users : Block(u, "recv") \/ Block(u, "send") \/ Unblock(u) \/ Close(u) \/ LetGo(u)

\* A host may never answer; time passes, and a shut socket wakes who is blocked.
Fairness ==
    /\ WF_vars(Connecting) /\ WF_vars(pc # "get" /\ Tick)
    /\ WF_vars(\E u \in Users : shut /\ Unblock(u))

Spec == Init /\ [][Next]_vars /\ Fairness

-----------------------------------------------------------------------------
TypeOK ==
    /\ pc \in {"get", "start", "next", "waiting", "checked", "done"} /\ at \in 0 .. Addresses
    /\ result \in {"none", "ok", "cancelled", "timeout", "connect", "dns"}
    /\ connector \in {"none", "alive", "gone"}

\* No path of connect() leaves a descriptor behind, and none is released twice.
SocketsAccounted == open = (IF pc \in {"waiting", "checked"} \/ refs # {} THEN 1 ELSE 0)
\* Nobody is blocked in a call on a descriptor that was released: its number may
\* belong to another file by then.
DescriptorHeld == \A u \in Users : inCall[u] # "nothing" => open > 0
\* connect() runs in a connector that exists, and none is left when the registry
\* and the calls have let go of it.
ConnectorHeld ==
    /\ pc \notin {"get", "done"} => connector = "alive"
    /\ connector = "alive" => entry = "ours" \/ pc \notin {"get", "done"}
\* What connect() throws is what happened.
Honest ==
    /\ result = "timeout" => overall \/ slot
    /\ result = "cancelled" => token = "cancelled"

Inv == TypeOK /\ SocketsAccounted /\ DescriptorHeld /\ ConnectorHeld /\ Honest

\* connect() returns although the host never answers, and close() wakes whoever
\* is blocked.
Returned == pc \in {"get", "done"} /\ \A u \in Users : shut => inCall[u] = "nothing"
EventuallyReturned == <>[]Returned
=============================================================================
