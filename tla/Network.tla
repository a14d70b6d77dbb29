------------------------------- MODULE Network -------------------------------
(***************************************************************************)
(* The network stack: the HTTP handler and its connections, the pipe of a   *)
(* body, the NetworkManager, the TLS and TCP connectors, the registry of    *)
(* connectors, and what is read and written: URLs, paths, response heads    *)
(* and chunked bodies.  A behaviour is one of one component.                *)
(***************************************************************************)
EXTENDS Naturals, Sequences, Functions

CONSTANTS Transfers, Idempotent, MayCancel, Bodied, Conns, None, MaxPerHost, MaxParts,
          PipeSize, MaxChunk, MaxBytes,
          Fetches, Interceptors, Origins, Home, MaxRedirects,
          Calls, NoCall, MaxTrust,
          Addresses, Users,
          MaxText, MaxPath, MaxLiteral,
          MaxHead, MaxFields, MaxLine, MaxInput, MaxPiece

VARIABLES kind,  \* the component whose behaviour this is
    conn, pool, stopping, sdown, live, active, token, sub, calling, pc, loc, reused,
    attempt, framing, left, reusable, pump, pipe, readerGone, completed, aborted, held,
    writer, abort, aby, aconn, adone, results, cut, stray,
    pipeChunks, frontOffset, bufferedBytes, pipeFinished, pipeFailed, pipeReaderClosed,
    pipeRpc, pipeWpc, pipeWriting, pipeWritten, pipeGot, pipeEof,
    served, chain, fetchIds, shared, timed, caller, fetchSource, forward, fetchTimer,
    fetchPc, fetchIndex, hops, fetchOrigin, creds, fetchRan, stayed, fetchResults,
    tlsPc, transport, tlsToken, tlsSub, tlsExpired, tlsResult, session, armed, runningId,
    trust, cached, refresh, asked, outdated,
    tcpPc, entry, connector, tcpAt, tcpToken, overall, slot, lastWasTimeout, tcpResult,
    tcpOpen, shut, tcpRefs, inCall,
    text,
    input, pos, head, chunks, taken

httpVars == <<conn, pool, stopping, sdown, live, active, token, sub, calling, pc, loc,
               reused, attempt, framing, left, reusable, pump, pipe, readerGone,
               completed, aborted, held, writer, abort, aby, aconn, adone, results, cut,
               stray>>
pipeVars == <<pipeChunks, frontOffset, bufferedBytes, pipeFinished, pipeFailed,
               pipeReaderClosed, pipeRpc, pipeWpc, pipeWriting, pipeWritten, pipeGot,
               pipeEof>>
managerVars == <<served, chain, fetchIds, shared, timed, caller, fetchSource, forward,
                  fetchTimer, fetchPc, fetchIndex, hops, fetchOrigin, creds, fetchRan,
                  stayed, fetchResults>>
tlsVars == <<tlsPc, transport, tlsToken, tlsSub, tlsExpired, tlsResult, session, armed,
              runningId, trust, cached, refresh, asked, outdated>>
tcpVars == <<tcpPc, entry, connector, tcpAt, tcpToken, overall, slot, lastWasTimeout,
              tcpResult, tcpOpen, shut, tcpRefs, inCall>>
urlVars == <<text>>
http1Vars == <<input, pos, head, chunks, taken>>
vars == <<kind, httpVars, pipeVars, managerVars, tlsVars, tcpVars, urlVars, http1Vars>>

Http == INSTANCE HttpTransfer
Pipe == INSTANCE BodyPipe WITH finished <- pipeFinished, failed <- pipeFailed, readerClosed <- pipeReaderClosed,
        written <- pipeWritten, got <- pipeGot, eof <- pipeEof, writing <- pipeWriting,
        chunks <- pipeChunks, rpc <- pipeRpc, wpc <- pipeWpc
Manager == INSTANCE NetworkManager WITH pc <- fetchPc, results <- fetchResults, timer <- fetchTimer,
           index <- fetchIndex, ids <- fetchIds, ran <- fetchRan, origin <- fetchOrigin,
           source <- fetchSource
Tls == INSTANCE TlsConnector WITH pc <- tlsPc, token <- tlsToken, sub <- tlsSub, result <- tlsResult,
       expired <- tlsExpired
Tcp == INSTANCE TcpConnector WITH pc <- tcpPc, token <- tcpToken, result <- tcpResult, at <- tcpAt, open <- tcpOpen,
       refs <- tcpRefs
Url == INSTANCE Url
H1 == INSTANCE Http1

ASSUME NetworkAssumption ==
    /\ Http!HttpConstants /\ Pipe!PipeConstants /\ Manager!NetworkConstants /\ Tls!TlsConstants
    /\ Tcp!TcpConstants /\ Url!UrlConstants /\ H1!Http1Constants

-----------------------------------------------------------------------------
\* One component moves; the others stay in an initial state.
Init ==
    /\ kind \in {"http", "pipe", "manager", "tls", "tcp", "url", "http1"}
    /\ Http!Init
    /\ Pipe!Init
    /\ Manager!Init /\ (kind # "manager" => TRUE \notin Range(timed))
    /\ Tls!Init
    /\ Tcp!Init
    /\ Url!Init
    /\ H1!Init /\ (kind # "http1" => input = H1!NoInput)

Next ==
    /\ UNCHANGED kind
    /\ \/ kind = "http" /\ Http!Next
          /\ UNCHANGED <<pipeVars, managerVars, tlsVars, tcpVars, urlVars, http1Vars>>
       \/ kind = "pipe" /\ Pipe!Next
          /\ UNCHANGED <<httpVars, managerVars, tlsVars, tcpVars, urlVars, http1Vars>>
       \/ kind = "manager" /\ Manager!Next
          /\ UNCHANGED <<httpVars, pipeVars, tlsVars, tcpVars, urlVars, http1Vars>>
       \/ kind = "tls" /\ Tls!Next
          /\ UNCHANGED <<httpVars, pipeVars, managerVars, tcpVars, urlVars, http1Vars>>
       \/ kind = "tcp" /\ Tcp!Next
          /\ UNCHANGED <<httpVars, pipeVars, managerVars, tlsVars, urlVars, http1Vars>>
       \/ kind = "url" /\ Url!Next
          /\ UNCHANGED <<httpVars, pipeVars, managerVars, tlsVars, tcpVars, http1Vars>>
       \/ kind = "http1" /\ H1!Next
          /\ UNCHANGED <<httpVars, pipeVars, managerVars, tlsVars, tcpVars, urlVars>>

\* What each component may rely on, as its own module says.
Fairness ==
    Http!Fairness /\ Pipe!Fairness /\ Manager!Fairness /\ Tls!Fairness /\ Tcp!Fairness

Spec == Init /\ [][Next]_vars /\ Fairness

-----------------------------------------------------------------------------
\* HTTP (http_protocol_handler.cpp, body.cpp): whoever completes, cancels or shuts
\* a transfer down, its callback is called once, its connection is used by nobody
\* else and never lost, and a body that was cut is not presented as complete.
ExchangesSafe == (kind = "http" => Http!Inv) /\ (kind = "pipe" => Pipe!Inv)

\* TLS and TCP (tls_connector.cpp, tcp_connector.cpp, connector_registry.cpp): no
\* descriptor is left behind or used after its release, no connection is returned
\* that its own timeout has closed, and none relies on trust that was refreshed.
ConnectionsSafe == (kind = "tls" => Tls!Inv) /\ (kind = "tcp" => Tcp!Inv)

\* NetworkManager: one result for each fetch, interceptors in their order, and
\* credentials that reach nobody they were not meant for.
RequestsSafe == kind = "manager" => Manager!Inv

\* URLs, paths and HTTP/1.1: what is read does not depend on how it was cut or
\* written; both ends agree on where it ends.
TextsExact == (kind = "url" => Url!Inv) /\ (kind = "http1" => H1!Inv)

\* Whoever is cancelled, shut down, timed out or closed comes to rest: no call and
\* no thread of the network stack waits for ever.
NetworkRests ==
    <>[](/\ Http!Settled /\ Pipe!Returns /\ Tls!Returned /\ Tcp!Returned
         /\ \A f \in Fetches : Manager!MustEnd(f) => Manager!Ended(f))
=============================================================================
