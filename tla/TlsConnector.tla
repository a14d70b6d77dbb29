---------------------------- MODULE TlsConnector ----------------------------
(***************************************************************************)
(* TlsConnector (dsbox_net_tls_openssl): a handshake over a connection of   *)
(* another connector, ended by a watchdog thread when its time is over and *)
(* by the request's token when it is cancelled; and the session afterwards. *)
(*                                                                         *)
(* The watchdog's action refers to variables of the connect() that armed   *)
(* it, so disarm() must wait for an action that is running.  The SSL_CTX is *)
(* cached and built again when it is old or refreshTrust() asked for it.   *)
(* OpenSSL is external: a handshake succeeds, fails, or blocks until the   *)
(* transport is closed.                                                    *)
(***************************************************************************)
EXTENDS Naturals

CONSTANTS Calls,     \* calls of connect()
          NoCall,    \* not a call
          MaxTrust   \* bound: versions of the trusted certificates

\* Assumed of the constants.
TlsConstants == NoCall \notin Calls /\ MaxTrust \in Nat \ {0}

VARIABLES pc,         \* where connect() is
          transport,  \* the connection below: none, open, closed
          token,      \* open, or cancelled
          sub,        \* the subscription to it: no, set, called
          expired,    \* connect()'s local variable of that name
          result,     \* what connect() returned or threw
          session,    \* what read() of the connection says: none, up, end, error
          armed,      \* calls whose action the watchdog has
          runningId,  \* Watchdog::m_runningId, as the call it belongs to
          trust,      \* the version of the trusted certificates
          cached,     \* the version the cached context was built from, 0 for none
          refresh,    \* refreshRequested
          asked,      \* history: the version when refreshTrust() last returned
          outdated    \* history: a connect() used less than it was asked for

calls    == <<pc, transport, token, sub, expired, result>>
watchdog == <<armed, runningId>>
contexts == <<trust, cached, refresh, asked, outdated>>
vars     == <<calls, session, watchdog, contexts>>

Init ==
    /\ pc = [c \in Calls |-> "new"] /\ transport = [c \in Calls |-> "none"]
    /\ token = [c \in Calls |-> "open"] /\ sub = [c \in Calls |-> "no"]
    /\ expired = [c \in Calls |-> FALSE] /\ result = [c \in Calls |-> "none"]
    /\ session = [c \in Calls |-> "none"]
    /\ armed = {} /\ runningId = NoCall
    /\ trust = 1 /\ cached = 0 /\ refresh = FALSE /\ asked = 0
    /\ outdated = FALSE

-----------------------------------------------------------------------------
Goto(c, l) == pc' = [pc EXCEPT ![c] = l]
CloseTransport(c) == transport' = [transport EXCEPT ![c] = "closed"]

\* transport->connect() of the connector below, which may throw.
Connect(c) ==
    /\ pc[c] = "new"
    /\ \/ transport' = [transport EXCEPT ![c] = "open"] /\ Goto(c, "context")
          /\ UNCHANGED result
       \/ result' = [result EXCEPT ![c] = "transport"] /\ Goto(c, "done")
          /\ UNCHANGED transport
    /\ UNCHANGED <<token, sub, expired, session, watchdog, contexts>>

\* A mutated form: a request to refresh is not looked at.
NeverBuilt == cached = 0
\* currentContext(): the cached one while it is fresh; the interval after which
\* it is built again may be over at any time.
Stale == cached = 0 \/ refresh
BuildContext ==
    /\ cached' = trust /\ refresh' = FALSE
    /\ UNCHANGED outdated
KeepContext ==
    /\ ~Stale
    /\ outdated' = (outdated \/ cached < asked)
    /\ UNCHANGED <<cached, refresh>>
Context(c) ==
    /\ pc[c] = "context"
    /\ BuildContext \/ KeepContext
    /\ Goto(c, "arm")
    /\ UNCHANGED <<transport, token, sub, expired, result, session, watchdog, trust, asked>>

\* OpenSSL refuses to build one.
ContextFails(c) ==
    /\ pc[c] = "context"
    /\ result' = [result EXCEPT ![c] = "tls"]
    /\ CloseTransport(c)
    /\ Goto(c, "done")
    /\ UNCHANGED <<token, sub, expired, session, watchdog, contexts>>

Arm(c) ==
    /\ pc[c] = "arm"
    /\ armed' = armed \cup {c}
    /\ Goto(c, "subscribe")
    /\ UNCHANGED <<transport, token, sub, expired, result, session, runningId, contexts>>

\* cancel.onCancel(): runs at once when the token is cancelled already.
Subscribe(c) ==
    /\ pc[c] = "subscribe"
    /\ IF token[c] = "open"
       THEN sub' = [sub EXCEPT ![c] = "set"] /\ UNCHANGED transport
       ELSE CloseTransport(c) /\ UNCHANGED sub
    /\ Goto(c, "handshake")
    /\ UNCHANGED <<token, expired, result, session, watchdog, contexts>>

\* SSL_connect() returns, or fails: the peer, a certificate nobody trusts, or
\* the transport closed under it.
Established(c) ==
    /\ pc[c] = "handshake" /\ transport[c] = "open"
    /\ Goto(c, "disarm")
    /\ UNCHANGED <<transport, token, sub, expired, result, session, watchdog, contexts>>
Refused(c) ==
    /\ pc[c] = "handshake"
    /\ Goto(c, "failed")
    /\ UNCHANGED <<transport, token, sub, expired, result, session, watchdog, contexts>>

\* A mutated form: disarm() does not wait for an action that runs.
DisarmedAtOnce(c) == TRUE
\* disarm(): nobody runs the action any more when it returns.
Disarmed(c) == runningId # c
Disarm(c) ==
    /\ pc[c] = "disarm"
    /\ armed' = armed \ {c}
    /\ Goto(c, "disarming")
    /\ UNCHANGED <<transport, token, sub, expired, result, session, runningId, contexts>>
\* A mutated form: a timeout in the last moment of the handshake is not noticed.
JudgeUp(c) ==
    /\ pc[c] = "disarming" /\ Disarmed(c)
    /\ Goto(c, "up")
    /\ UNCHANGED <<transport, token, sub, expired, result, session, watchdog, contexts>>
Judge(c) ==
    /\ pc[c] = "disarming" /\ Disarmed(c)
    /\ Goto(c, IF expired[c] THEN "failed" ELSE "up")
    /\ UNCHANGED <<transport, token, sub, expired, result, session, watchdog, contexts>>

\* The reason, found out afterwards; then the subscription goes, then disarm().
Reason(c) ==
    IF token[c] = "cancelled" THEN "cancelled"
    ELSE IF expired[c] THEN "timeout" ELSE "tls"
Fail(c) ==
    /\ pc[c] = "failed"
    /\ result' = [result EXCEPT ![c] = Reason(c)]
    /\ sub' = [sub EXCEPT ![c] = IF @ = "set" THEN "no" ELSE @]
    /\ armed' = armed \ {c}
    /\ Goto(c, "unwinding")
    /\ UNCHANGED <<transport, token, expired, session, runningId, contexts>>
Unwind(c) ==
    /\ pc[c] = "unwinding" /\ Disarmed(c)
    /\ CloseTransport(c)
    /\ Goto(c, "done")
    /\ UNCHANGED <<token, sub, expired, result, session, watchdog, contexts>>

Return(c) ==
    /\ pc[c] = "up"
    /\ result' = [result EXCEPT ![c] = "ok"]
    /\ session' = [session EXCEPT ![c] = "up"]
    /\ sub' = [sub EXCEPT ![c] = IF @ = "set" THEN "no" ELSE @]
    /\ Goto(c, "done")
    /\ UNCHANGED <<transport, token, expired, watchdog, contexts>>

-----------------------------------------------------------------------------
\* The watchdog: an entry whose time has come is taken out and run unlocked.
Expire(c) ==
    /\ runningId = NoCall /\ c \in armed
    /\ armed' = armed \ {c} /\ runningId' = c
    /\ UNCHANGED <<calls, session, contexts>>
\* A mutated form: the timeout is only flagged.
ActionFlags ==
    /\ runningId # NoCall /\ ~expired[runningId]
    /\ expired' = [expired EXCEPT ![runningId] = TRUE]
    /\ UNCHANGED <<pc, transport, token, sub, result, session, watchdog, contexts>>
Action ==
    /\ runningId # NoCall /\ ~expired[runningId]
    /\ expired' = [expired EXCEPT ![runningId] = TRUE]
    /\ CloseTransport(runningId)
    /\ UNCHANGED <<pc, token, sub, result, session, watchdog, contexts>>
ActionDone ==
    /\ runningId # NoCall /\ expired[runningId]
    /\ runningId' = NoCall
    /\ UNCHANGED <<calls, session, armed, contexts>>

\* The token's owner; the callback runs after the lock, even if the
\* subscription is reset meanwhile.
Cancel(c) ==
    /\ token[c] = "open"
    /\ token' = [token EXCEPT ![c] = "cancelled"]
    /\ sub' = [sub EXCEPT ![c] = IF @ = "set" THEN "called" ELSE @]
    /\ UNCHANGED <<pc, transport, expired, result, session, watchdog, contexts>>
CancelCall(c) ==
    /\ sub[c] = "called"
    /\ sub' = [sub EXCEPT ![c] = "no"]
    /\ CloseTransport(c)
    /\ UNCHANGED <<pc, token, expired, result, session, watchdog, contexts>>

\* TlsConnection::read(): close_notify is the end, and so is our own close(); an
\* end of the transport without it is an error.
ReadSays(c, e) ==
    /\ session[c] = "up"
    /\ session' = [session EXCEPT ![c] = e]
    /\ UNCHANGED <<pc, token, sub, expired, result, watchdog, contexts>>
PeerEnds(c) == transport[c] = "open" /\ ReadSays(c, "end") /\ UNCHANGED transport
Cut(c)      == ReadSays(c, "error") /\ CloseTransport(c)
Close(c)    == ReadSays(c, "end") /\ CloseTransport(c)

\* Trust providers come and go; the owner of the connector calls refreshTrust().
Provide      == trust < MaxTrust /\ trust' = trust + 1 /\ UNCHANGED <<refresh, asked>>
RefreshTrust == refresh' = TRUE /\ asked' = trust /\ UNCHANGED trust
Trust == (Provide \/ RefreshTrust) /\ UNCHANGED <<cached, outdated, calls, session, watchdog>>

Connecting(c) ==
    \/ Connect(c) \/ Context(c) \/ ContextFails(c) \/ Arm(c) \/ Subscribe(c) \/ Established(c) \/ Refused(c)
    \/ Disarm(c) \/ Judge(c) \/ Fail(c) \/ Unwind(c) \/ Return(c)
Next ==
    \/ \E c \in Calls :
         \/ Connecting(c) \/ Expire(c) \/ Cancel(c) \/ CancelCall(c)
         \/ PeerEnds(c) \/ Cut(c) \/ Close(c)
    \/ Action \/ ActionDone \/ Trust

\* connect() goes on, but a handshake returns for sure only once its transport
\* is closed; the watchdog runs what is due and callbacks are called.
GoesOn(c) ==
    \/ pc[c] \notin {"new", "handshake"} /\ Connecting(c)
    \/ transport[c] = "closed" /\ Refused(c)
\* None of these steps can be repeated for ever.
Obliged ==
    \/ \E c \in Calls : GoesOn(c) \/ Expire(c) \/ CancelCall(c)
    \/ Action \/ ActionDone
Fairness == WF_vars(Obliged)

Spec == Init /\ [][Next]_vars /\ Fairness

-----------------------------------------------------------------------------
TypeOK ==
    /\ transport \in [Calls -> {"none", "open", "closed"}]
    /\ runningId \in Calls \cup {NoCall} /\ armed \subseteq Calls
    /\ cached \in 0 .. MaxTrust

\* The watchdog's action runs, or is due to run, only while connect() is there:
\* it writes to connect()'s variables.
FrameAlive == \A c \in Calls : c = runningId \/ c \in armed => pc[c] \notin {"new", "done"}

\* A connection that is returned has not been closed by its timeout, and what
\* connect() throws is the reason it ended for.
OutcomeTrue ==
    \A c \in Calls :
        /\ result[c] = "ok" => ~expired[c]
        /\ session[c] = "up" /\ transport[c] = "closed" => token[c] = "cancelled"
        /\ result[c] = "timeout" => expired[c]

\* After refreshTrust() no connection relies on older certificates.
TrustRefreshed == ~outdated

Inv == TypeOK /\ FrameAlive /\ OutcomeTrue /\ TrustRefreshed

\* Every connect() returns, however silent the server.
Returned == \A c \in Calls : pc[c] \in {"new", "done"}
EventuallyReturned == <>[]Returned
=============================================================================
