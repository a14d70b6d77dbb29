---------------------------- MODULE HttpTransfer ----------------------------
(***************************************************************************)
(* The HTTP/1.1 handler (dsbox_net_http): transfers, the threads that carry *)
(* them, the pool of idle connections and shutdown().                      *)
(*                                                                         *)
(* A transfer is started by its caller, exchanged by a run thread and, when *)
(* the response has a body, streamed by a pump thread; complete() and       *)
(* abort() compete for its one result.  abort() is run by the thread that   *)
(* cancels the request's token, by the caller who finds it cancelled, or by *)
(* shutdown(): each copies what it needs under the transfer's mutex and     *)
(* works on the copies.  The server is free to answer, to be silent and to  *)
(* close a connection at any time.  All requests go to one host; chunked    *)
(* bodies behave as bodies of known length.                                *)
(***************************************************************************)
EXTENDS Naturals, Sequences, FiniteSets

CONSTANTS Transfers,    \* requests
          Idempotent,   \* those whose method may be repeated
          MayCancel,    \* bound: those whose token may be cancelled
          Bodied,       \* bound: those whose response may have a body
          Conns,        \* connections that may be opened
          None,         \* no connection
          MaxPerHost,   \* HttpOptions::maxIdleConnectionsPerHost
          MaxParts      \* bound: parts of a body that follow the head

\* Assumed of the constants.
HttpConstants ==
    /\ Idempotent \cup MayCancel \cup Bodied \subseteq Transfers /\ None \notin Conns
    /\ MaxPerHost \in Nat /\ MaxParts \in Nat

VARIABLES conn,       \* our side of each connection: unused, open or closed
          pool,       \* idle connections, the most recently used last
          stopping,   \* ThreadSet::m_stopping
          sdown,      \* where shutdown() is
          live,       \* transfers shutdown() has still to abort
          active,     \* Impl::active
          token,      \* whether the request's token is cancelled
          sub,        \* whether the transfer is subscribed to its token
          calling,    \* whether cancel() has still to call the callback it took
          pc,         \* the caller inside start(), then the run thread
          loc,        \* the run thread's `connection`, then the pump's
          reused,     \* whether it came from the pool
          attempt,    \* 0, or 1 when the request is tried again
          framing,    \* what the response said of its body
          left,       \* parts of the body the server has still to send
          reusable,   \* whether the connection is fit for the pool afterwards
          pump,       \* the pump thread
          pipe,       \* the body pipe: none, open, finished, failed
          readerGone, \* whether the reader has closed it
          completed,  \* Transfer::m_completed
          aborted,    \* Transfer::m_aborted
          held,       \* Transfer::m_connection
          writer,     \* whether Transfer::m_writer is set
          abort,      \* where a thread is inside abort()
          aby,        \* who that is
          aconn,      \* the connection abort() copied
          adone,      \* whether abort() took the callback
          results,    \* history: what the callback was given
          cut,        \* history: the body ended because we closed the connection
          stray       \* history: connections closed by an earlier user's abort()

sockets  == <<conn, pool>>
request  == <<token, sub, calling>>
exchange == <<loc, reused, attempt, framing, left, reusable>>
body     == <<pump, pipe, readerGone, cut>>
aborting == <<abort, aby, aconn, adone>>
outcome  == <<completed, aborted, held, writer, results>>
down     == <<stopping, sdown, live, active>>
vars == <<sockets, down, request, pc, exchange, body, outcome, aborting, stray>>

Elements(s) == {s[i] : i \in 1 .. Len(s)}

Init ==
    /\ conn = [c \in Conns |-> "unused"]
    /\ pool = <<>>
    /\ stopping = FALSE /\ sdown = "no" /\ live = {} /\ active = {}
    /\ token = [t \in Transfers |-> "open"]
    /\ sub = [t \in Transfers |-> FALSE] /\ calling = [t \in Transfers |-> FALSE]
    /\ pc = [t \in Transfers |-> "new"]
    /\ loc = [t \in Transfers |-> None] /\ reused = [t \in Transfers |-> FALSE]
    /\ attempt = [t \in Transfers |-> 0] /\ framing = [t \in Transfers |-> "none"]
    /\ left = [t \in Transfers |-> 0] /\ reusable = [t \in Transfers |-> FALSE]
    /\ pump = [t \in Transfers |-> "off"] /\ pipe = [t \in Transfers |-> "none"]
    /\ readerGone = [t \in Transfers |-> FALSE]
    /\ cut = [t \in Transfers |-> FALSE]
    /\ completed = [t \in Transfers |-> FALSE] /\ aborted = [t \in Transfers |-> FALSE]
    /\ held = [t \in Transfers |-> None] /\ writer = [t \in Transfers |-> FALSE]
    /\ results = [t \in Transfers |-> <<>>]
    /\ abort = [t \in Transfers |-> "idle"] /\ aby = [t \in Transfers |-> "nobody"]
    /\ aconn = [t \in Transfers |-> None] /\ adone = [t \in Transfers |-> FALSE]
    /\ stray = {}

-----------------------------------------------------------------------------
\* Somebody keeps the transfer alive: its caller, one of its threads or a
\* callback of its token.
Alive(t) ==
    \/ pc[t] \notin {"new", "off"} \/ pump[t] # "off" \/ abort[t] # "idle"

\* The connections a set of discarded ones leaves open.
Shut(cs)  == conn' = [c \in Conns |-> IF c \in cs THEN "closed" ELSE conn[c]]
Goto(t, l) == pc' = [pc EXCEPT ![t] = l]

\* A mutated form: whoever comes delivers.
DeliverTwice(t, r) ==
    /\ completed' = [completed EXCEPT ![t] = TRUE]
    /\ results' = [results EXCEPT ![t] = Append(@, r)]
\* complete(): the first to come delivers.
Deliver(t, r) ==
    /\ completed' = [completed EXCEPT ![t] = TRUE]
    /\ results' = [results EXCEPT ![t] = IF completed[t] THEN @ ELSE Append(@, r)]

\* closeConnection(), then unwatch().
CloseHeld(t) ==
    /\ Shut({held[t]} \cap Conns)
    /\ held' = [held EXCEPT ![t] = None]
Unwatch(t) == sub' = [sub EXCEPT ![t] = FALSE]

\* Transfer::abort(), first critical section.  A second call returns at once.
Claimed(t) == aborted[t]
\* A mutated form: the body is not failed before the connection is closed.
AbortQuietly(t, who) ==
    IF Claimed(t)
    THEN UNCHANGED <<aborting, completed, aborted>>
    ELSE /\ aborted' = [aborted EXCEPT ![t] = TRUE]
         /\ completed' = [completed EXCEPT ![t] = TRUE]
         /\ aby' = [aby EXCEPT ![t] = who]
         /\ aconn' = [aconn EXCEPT ![t] = held[t]]
         /\ adone' = [adone EXCEPT ![t] = ~completed[t]]
         /\ abort' = [abort EXCEPT ![t] = "close"]
AbortBegin(t, who) ==
    IF Claimed(t)
    THEN UNCHANGED <<aborting, completed, aborted>>
    ELSE /\ aborted' = [aborted EXCEPT ![t] = TRUE]
         /\ completed' = [completed EXCEPT ![t] = TRUE]
         /\ aby' = [aby EXCEPT ![t] = who]
         /\ aconn' = [aconn EXCEPT ![t] = held[t]]
         /\ adone' = [adone EXCEPT ![t] = ~completed[t]]
         /\ abort' = [abort EXCEPT ![t] =
               IF completed[t] /\ writer[t] THEN "fail" ELSE "close"]

\* ... fails the body first ...
AbortFail(t) ==
    /\ abort[t] = "fail"
    /\ pipe' = [pipe EXCEPT ![t] = IF @ = "open" THEN "failed" ELSE @]
    /\ abort' = [abort EXCEPT ![t] = "close"]
    /\ UNCHANGED <<sockets, down, request, pc, exchange, pump, readerGone, cut,
                   outcome, aby, aconn, adone, stray>>

\* Whose a connection is: that of the transfer that holds it, or is about to.
Uses(t, c)     == held[t] = c \/ (pc[t] = "set" /\ loc[t] = c)
HandedOn(t, c) ==
    /\ c \in Conns
    /\ c \in Elements(pool) \/ \E u \in Transfers \ {t} : Uses(u, c)

\* ... then closes the connection, and calls the callback it took.
AbortClose(t) ==
    /\ abort[t] = "close"
    /\ Shut({aconn[t]} \cap Conns)
    /\ stray' = IF HandedOn(t, aconn[t]) THEN stray \cup {aconn[t]} ELSE stray
    /\ results' = [results EXCEPT ![t] = IF adone[t] THEN Append(@, "error") ELSE @]
    /\ abort' = [abort EXCEPT ![t] = "idle"]
    /\ aby' = [aby EXCEPT ![t] = "nobody"]
    /\ aconn' = [aconn EXCEPT ![t] = None]
    /\ adone' = [adone EXCEPT ![t] = FALSE]
    /\ UNCHANGED <<pool, down, request, pc, exchange, body, completed, aborted,
                   held, writer>>

Aborting(t) == AbortFail(t) \/ AbortClose(t)

-----------------------------------------------------------------------------
\* The caller: registerActive(), token.onCancel() -- which runs the callback
\* inline when the token is cancelled already --, spawn().
Start(t) ==
    /\ pc[t] = "new"
    /\ active' = {u \in active : Alive(u)} \cup {t}
    /\ IF token[t] = "cancelled"
       THEN AbortBegin(t, "caller") /\ Goto(t, "inline") /\ UNCHANGED sub
       ELSE /\ sub' = [sub EXCEPT ![t] = TRUE] /\ Goto(t, "spawn")
            /\ UNCHANGED <<aborting, completed, aborted>>
    /\ UNCHANGED <<sockets, stopping, sdown, live, token, calling, exchange, body, held,
                   writer, results, stray>>

InlineDone(t) ==
    /\ pc[t] = "inline" /\ aby[t] # "caller"
    /\ Goto(t, "spawn")
    /\ UNCHANGED <<sockets, down, request, exchange, body, outcome, aborting, stray>>

\* An aborted transfer needs no thread; a handler that shuts down has none.
Spawn(t) ==
    /\ pc[t] = "spawn"
    /\ Goto(t, IF aborted[t] THEN "leave" ELSE IF stopping THEN "refuse" ELSE "top")
    /\ UNCHANGED <<sockets, down, request, exchange, body, outcome, aborting, stray>>

\* fail(), if there is no thread, and unwatch().
Leave(t) ==
    /\ pc[t] \in {"refuse", "leave"}
    /\ IF pc[t] = "refuse" THEN Deliver(t, "error") ELSE UNCHANGED <<completed, results>>
    /\ Unwatch(t)
    /\ Goto(t, "off")
    /\ UNCHANGED <<sockets, down, token, calling, exchange, body, aborted, held, writer,
                   aborting, stray>>

\* The token's owner cancels it: the callback is taken out under the token's
\* lock and called after it.
Cancel(t) ==
    /\ t \in MayCancel /\ token[t] = "open"
    /\ token' = [token EXCEPT ![t] = "cancelled"]
    /\ calling' = [calling EXCEPT ![t] = sub[t]]
    /\ sub' = [sub EXCEPT ![t] = FALSE]
    /\ UNCHANGED <<sockets, down, pc, exchange, body, outcome, aborting, stray>>

CancelCall(t) ==
    /\ calling[t]
    /\ calling' = [calling EXCEPT ![t] = FALSE]
    /\ IF Alive(t) THEN AbortBegin(t, "canceller")
                   ELSE UNCHANGED <<aborting, completed, aborted>>
    /\ UNCHANGED <<sockets, down, token, sub, pc, exchange, body, held, writer,
                   results, stray>>

-----------------------------------------------------------------------------
\* execute(), top of the loop: an idle connection or, when there is none that
\* has not expired, a new one.
Top(t) ==
    /\ pc[t] = "top" /\ aborted[t]
    /\ Goto(t, "fail")
    /\ UNCHANGED <<sockets, down, request, exchange, body, outcome, aborting, stray>>

Take(t) ==
    /\ pc[t] = "top" /\ ~aborted[t] /\ pool # <<>>
    /\ loc' = [loc EXCEPT ![t] = pool[Len(pool)]]
    /\ reused' = [reused EXCEPT ![t] = TRUE]
    /\ pool' = SubSeq(pool, 1, Len(pool) - 1)
    /\ Goto(t, "set")
    /\ UNCHANGED <<conn, down, request, attempt, framing, left, reusable, body,
                   outcome, aborting, stray>>

TakeNone(t) ==
    /\ pc[t] = "top" /\ ~aborted[t]
    /\ Shut(Elements(pool)) /\ pool' = <<>>
    /\ reused' = [reused EXCEPT ![t] = FALSE]
    /\ Goto(t, "connect")
    /\ UNCHANGED <<down, request, loc, attempt, framing, left, reusable, body,
                   outcome, aborting, stray>>

Unopened == {c \in Conns : conn[c] = "unused"}

\* connect() returns a connection, or throws: refused, timed out, cancelled.
Connect(t) ==
    /\ pc[t] = "connect"
    /\ \/ /\ Unopened # {}
          /\ LET c == CHOOSE c \in Unopened : TRUE
             IN  conn' = [conn EXCEPT ![c] = "open"] /\ loc' = [loc EXCEPT ![t] = c]
          /\ Goto(t, "set")
       \/ Goto(t, "fail") /\ UNCHANGED <<conn, loc>>
    /\ UNCHANGED <<pool, down, request, reused, attempt, framing, left, reusable,
                   body, outcome, aborting, stray>>

\* A mutated form: an abort that came before the connection is not made up for.
LeaveOpen(t) == UNCHANGED conn
\* setConnection(): closed at once when the transfer was aborted meanwhile.
CloseIfAborted(t) == Shut(IF aborted[t] THEN {loc[t]} ELSE {})
SetConnection(t) ==
    /\ pc[t] = "set"
    /\ held' = [held EXCEPT ![t] = loc[t]]
    /\ CloseIfAborted(t)
    /\ Goto(t, "exchange")
    /\ UNCHANGED <<pool, down, request, exchange, body, completed, aborted, writer,
                   results, aborting, stray>>

\* Our side is open; whether the server's is, only its answer tells.
Works(c) == conn[c] = "open"

\* sendRequest() and readResponseHead() throw: the connection is gone, or what
\* came is not HTTP.  A dead idle connection is worth a second attempt.
MayRetry(t, saw) ==
    reused[t] /\ attempt[t] = 0 /\ ~saw /\ t \in Idempotent /\ ~aborted[t]
ExchangeFails(t) ==
    /\ pc[t] = "exchange"
    /\ \E saw \in BOOLEAN :
         IF MayRetry(t, saw)
         THEN /\ CloseHeld(t)
              /\ attempt' = [attempt EXCEPT ![t] = 1]
              /\ Goto(t, "top")
         ELSE Goto(t, "fail") /\ UNCHANGED <<conn, held, attempt>>
    /\ UNCHANGED <<pool, down, request, loc, reused, framing, left, reusable, body,
                   completed, aborted, writer, results, aborting, stray>>

\* A response without a body, or a redirect, whose connection is drained (or
\* not fit to be kept).
RespondBodyless(t) ==
    /\ pc[t] = "exchange" /\ Works(loc[t])
    /\ \E r \in BOOLEAN : reusable' = [reusable EXCEPT ![t] = r]
    /\ Goto(t, "settle")
    /\ UNCHANGED <<sockets, down, request, loc, reused, attempt, framing, left, body,
                   outcome, aborting, stray>>

\* recycle(), or closeConnection(); the result is delivered after it.
Put(p, c)       == IF MaxPerHost = 0 THEN <<>>
                   ELSE Append(SubSeq(p, (IF Len(p) < MaxPerHost THEN 1
                                          ELSE Len(p) - MaxPerHost + 2), Len(p)), c)
\* A mutated form: the transfer is not detached from what it hands back.
RecycleHeld(t) ==
    /\ \E k \in 0 .. Len(pool) :
         LET kept == Put(SubSeq(pool, k + 1, Len(pool)), loc[t])
         IN  /\ pool' = kept
             /\ Shut((Elements(pool) \cup {loc[t]}) \ Elements(kept))
    /\ UNCHANGED held
Recycle(t) ==
    /\ held' = [held EXCEPT ![t] = None]
    /\ \E k \in 0 .. Len(pool) :
         LET kept == Put(SubSeq(pool, k + 1, Len(pool)), loc[t])
         IN  /\ pool' = kept
             /\ Shut((Elements(pool) \cup {loc[t]}) \ Elements(kept))

Settle(t) ==
    /\ pc[t] = "settle"
    /\ IF reusable[t] THEN Recycle(t) ELSE CloseHeld(t) /\ UNCHANGED pool
    /\ Goto(t, "complete")
    /\ UNCHANGED <<down, request, exchange, body, completed, aborted, writer,
                   results, aborting, stray>>

\* complete(), then what run() does last: closeConnection() and unwatch().
Finish(t, r) ==
    /\ Deliver(t, r)
    /\ CloseHeld(t) /\ Unwatch(t)
    /\ Goto(t, "off")
    /\ UNCHANGED <<pool, down, token, calling, exchange, body, aborted, writer,
                   aborting, stray>>
CompleteBodyless(t) == pc[t] = "complete" /\ Finish(t, "response")
Fail(t)             == pc[t] = "fail" /\ Finish(t, "error")

\* A response with a body: the pump starts before the result is delivered,
\* unless the handler shuts down.  (A length and "Connection: close" together
\* do to the pool what a body that breaks does.)
RespondBody(t) ==
    /\ t \in Bodied /\ pc[t] = "exchange" /\ Works(loc[t])
    /\ \E f \in {"length", "close"}, n \in 0 .. MaxParts :
         /\ framing' = [framing EXCEPT ![t] = f]
         /\ left' = [left EXCEPT ![t] = n]
         /\ reusable' = [reusable EXCEPT ![t] = f # "close"]
    /\ IF stopping
       THEN Goto(t, "fail") /\ UNCHANGED <<pump, pipe>>
       ELSE /\ pump' = [pump EXCEPT ![t] = "copy"]
            /\ pipe' = [pipe EXCEPT ![t] = "open"]
            /\ Goto(t, "deliver")
    /\ UNCHANGED <<sockets, down, request, loc, reused, attempt, readerGone, cut,
                   outcome, aborting, stray>>

\* complete() with the writer; a response nobody takes closes its reader.
DeliverBody(t) ==
    /\ pc[t] = "deliver"
    /\ Deliver(t, "body")
    /\ writer' = [writer EXCEPT ![t] = ~completed[t]]
    /\ readerGone' = [readerGone EXCEPT ![t] = completed[t]]
    /\ Goto(t, "off")
    /\ UNCHANGED <<sockets, down, request, exchange, pump, pipe, cut, aborted, held,
                   aborting, stray>>

-----------------------------------------------------------------------------
\* copyBody(): a part of the body goes from the connection to the pipe, when
\* there is room; a reader that is gone ends it.
PumpPart(t) ==
    /\ pump[t] = "copy" /\ left[t] > 0 /\ Works(loc[t])
    /\ \/ /\ pipe[t] = "open" /\ ~readerGone[t]
          /\ left' = [left EXCEPT ![t] = @ - 1]
          /\ UNCHANGED <<pump, reusable>>
       \/ /\ pipe[t] # "open" \/ readerGone[t]
          /\ pump' = [pump EXCEPT ![t] = "settle"]
          /\ reusable' = [reusable EXCEPT ![t] = FALSE]
          /\ UNCHANGED left
    /\ UNCHANGED <<sockets, down, request, pc, loc, reused, attempt, framing, pipe,
                   readerGone, cut, outcome, aborting, stray>>

\* read() returns 0: the end of a body that is framed by it, a broken body
\* otherwise.  (Whether the server or ourselves closed the connection, read()
\* does not tell.)
Ended(t) == IF framing[t] = "close" THEN "finished" ELSE "failed"
PumpBreaks(t) ==
    /\ pump[t] = "copy" /\ (left[t] > 0 \/ framing[t] = "close")
    /\ pipe' = [pipe EXCEPT ![t] = IF @ = "open" THEN Ended(t) ELSE @]
    /\ cut' = [cut EXCEPT ![t] = conn[loc[t]] = "closed" /\ pipe[t] = "open"]
    /\ reusable' = [reusable EXCEPT ![t] = FALSE]
    /\ pump' = [pump EXCEPT ![t] = "settle"]
    /\ UNCHANGED <<sockets, down, request, pc, loc, reused, attempt, framing, left,
                   readerGone, outcome, aborting, stray>>

PumpWhole(t) ==
    /\ pump[t] = "copy" /\ left[t] = 0 /\ framing[t] = "length"
    /\ pipe' = [pipe EXCEPT ![t] = IF @ = "open" THEN "finished" ELSE @]
    /\ pump' = [pump EXCEPT ![t] = "settle"]
    /\ UNCHANGED <<sockets, down, request, pc, exchange, readerGone, cut,
                   outcome, aborting, stray>>

\* pump(): the connection goes back to the pool if it is clean and nobody has
\* aborted the transfer -- up to now.
Keep(t) == reusable[t] /\ ~aborted[t]
PumpSettle(t) ==
    /\ pump[t] = "settle"
    /\ IF Keep(t)
       THEN pump' = [pump EXCEPT ![t] = "recycle"] /\ UNCHANGED <<conn, held, sub>>
       ELSE pump' = [pump EXCEPT ![t] = "off"] /\ CloseHeld(t) /\ Unwatch(t)
    /\ UNCHANGED <<pool, down, token, calling, pc, exchange, pipe,
                   readerGone, cut, completed, aborted, writer, results, aborting, stray>>

PumpRecycle(t) ==
    /\ pump[t] = "recycle"
    /\ Recycle(t) /\ Unwatch(t)
    /\ pump' = [pump EXCEPT ![t] = "off"]
    /\ UNCHANGED <<down, token, calling, pc, exchange, pipe, readerGone,
                   cut, completed, aborted, writer, results, aborting, stray>>

\* The reader of the body closes it.  (How it takes the parts is BodyPipe's.)
CloseReader(t) ==
    /\ results[t] = <<"body">> /\ ~readerGone[t]
    /\ readerGone' = [readerGone EXCEPT ![t] = TRUE]
    /\ UNCHANGED <<sockets, down, request, pc, exchange, pump, pipe, cut, outcome,
                   aborting, stray>>

-----------------------------------------------------------------------------
\* shutdown(): no new threads; abort whoever is registered, one after the
\* other; join the threads; close what is idle.
ShutdownBegin ==
    /\ sdown = "no"
    /\ stopping' = TRUE /\ sdown' = "collect"
    /\ UNCHANGED <<sockets, live, active, request, pc, exchange, body, outcome, aborting,
                   stray>>

Collected == {t \in active : Alive(t)}
ShutdownCollect ==
    /\ sdown = "collect"
    /\ live' = Collected /\ active' = {} /\ sdown' = "abort"
    /\ UNCHANGED <<sockets, stopping, request, pc, exchange, body, outcome, aborting,
                   stray>>

ShutdownAbort ==
    /\ sdown = "abort" /\ \A t \in Transfers : aby[t] # "shutdown"
    /\ IF live = {}
       THEN sdown' = "join" /\ UNCHANGED <<live, aborting, completed, aborted>>
       ELSE \E t \in live :
              AbortBegin(t, "shutdown") /\ live' = live \ {t} /\ UNCHANGED sdown
    /\ UNCHANGED <<sockets, stopping, active, request, pc, exchange, body, held, writer,
                   results, stray>>

ThreadsGone ==
    \A t \in Transfers :
        /\ pump[t] = "off"
        /\ pc[t] \in {"new", "inline", "spawn", "refuse", "leave", "off"}
ShutdownJoin ==
    /\ sdown = "join" /\ ThreadsGone
    /\ Shut(Elements(pool)) /\ pool' = <<>> /\ sdown' = "done"
    /\ UNCHANGED <<stopping, live, active, request, pc, exchange, body, outcome,
                   aborting, stray>>

Shutdown == ShutdownBegin \/ ShutdownCollect \/ ShutdownAbort \/ ShutdownJoin

-----------------------------------------------------------------------------
Caller(t) ==
    Start(t) \/ InlineDone(t) \/ Spawn(t) \/ Leave(t)
Run(t) ==
    \/ Top(t) \/ Take(t) \/ TakeNone(t) \/ Connect(t) \/ SetConnection(t)
    \/ ExchangeFails(t) \/ RespondBodyless(t) \/ RespondBody(t)
    \/ Settle(t) \/ CompleteBodyless(t) \/ DeliverBody(t) \/ Fail(t)
Pump(t) ==
    \/ PumpPart(t) \/ PumpBreaks(t) \/ PumpWhole(t)
    \/ PumpSettle(t) \/ PumpRecycle(t)

Next ==
    \/ \E t \in Transfers :
         Caller(t) \/ Run(t) \/ Pump(t) \/ CloseReader(t) \/ Aborting(t) \/ Cancel(t)
           \/ CancelCall(t)
    \/ Shutdown

\* Threads go on, a connect() returns or times out and a read() of a dead
\* connection returns; no server has to answer, no reader has to read, nobody
\* has to cancel or shut down.
ClosedByUs(t) == \E c \in Conns : loc[t] = c /\ conn[c] = "closed"
RunGoesOn(t) ==
    \/ Top(t) \/ Take(t) \/ TakeNone(t) \/ Connect(t) \/ SetConnection(t)
    \/ Settle(t) \/ CompleteBodyless(t) \/ DeliverBody(t) \/ Fail(t)
    \/ ClosedByUs(t) /\ ExchangeFails(t)
PumpGoesOn(t) ==
    \/ PumpWhole(t) \/ PumpSettle(t) \/ PumpRecycle(t)
    \/ ClosedByUs(t) /\ PumpBreaks(t)
CallerGoesOn(t) == pc[t] # "new" /\ Caller(t)
ShutdownGoesOn  == sdown # "no" /\ Shutdown

\* None of these steps can be repeated for ever, so one weak fairness condition
\* for all of them is enough.
GoesOn ==
    \/ \E t \in Transfers :
         \/ CallerGoesOn(t) \/ RunGoesOn(t) \/ PumpGoesOn(t)
         \/ Aborting(t) \/ CancelCall(t)
    \/ ShutdownGoesOn

Fairness == WF_vars(GoesOn)
Spec == Init /\ [][Next]_vars /\ Fairness

-----------------------------------------------------------------------------
TypeOK ==
    /\ conn \in [Conns -> {"unused", "open", "closed"}]
    /\ pool \in Seq(Conns)
    /\ Len(pool) <= MaxPerHost
    /\ held \in [Transfers -> Conns \cup {None}]
    /\ pipe \in [Transfers -> {"none", "open", "finished", "failed"}]

\* A connection is idle once, or in the hands of one transfer: two requests
\* are never written to one connection at a time.
OneUser ==
    \A c \in Conns :
        Cardinality({i \in 1 .. Len(pool) : pool[i] = c})
          + Cardinality({t \in Transfers : Uses(t, c)}) <= 1

\* No connection is lost track of while it is open, and shutdown() leaves none.
NoneLeaks ==
    \A c \in Conns : conn[c] = "open" =>
        /\ c \in Elements(pool) \/ \E t \in Transfers : Uses(t, c)
        /\ sdown # "done"

\* The callback is called once, whoever wins.
AtRest(t) == ~Alive(t) /\ ~calling[t]
OneResult ==
    \A t \in Transfers :
        /\ Len(results[t]) <= 1
        /\ AtRest(t) /\ pc[t] = "off" => Len(results[t]) = 1

\* A body is not presented as complete when it was cut short -- unless by the
\* late abort of a transfer that had the connection before.
BodyHonest ==
    \A t \in Transfers :
        results[t] = <<"body">> /\ pipe[t] = "finished" =>
            /\ framing[t] = "length" => left[t] = 0
            /\ cut[t] => loc[t] \in stray

Inv == TypeOK /\ OneUser /\ NoneLeaks /\ OneResult /\ BodyHonest

\* A connection handed back to the pool is left alone by the transfer that did.
RecycledLeftAlone == stray = {}

\* Once cancelled, or shut down, everything comes to rest: the callback has
\* been called, the threads are gone and shutdown() returns.
Settled ==
    /\ sdown \in {"no", "done"}
    /\ \A t \in Transfers :
         token[t] = "cancelled" \/ sdown # "no" => pc[t] = "new" \/ AtRest(t)
EventuallySettled == <>[]Settled
=============================================================================
