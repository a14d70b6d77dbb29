--------------------------- MODULE Network_proofs ----------------------------
(***************************************************************************)
(* A request has one result and a connection one user, a body that was cut  *)
(* is not presented as complete, descriptors and trust are accounted for:   *)
(* the invariants of Network for every number of requests, connections,     *)
(* parts, interceptors, calls and addresses.  Each component has an         *)
(* inductive invariant of its own; a step of Network is a step of the       *)
(* component it is about, or of none.                                      *)
(***************************************************************************)
EXTENDS Network, FiniteSetTheorems, SequenceTheorems, TLAPS

-----------------------------------------------------------------------------
\* The HTTP/1.1 handler.

Early  == {"new", "inline", "spawn", "refuse", "leave", "top", "connect", "set", "complete"}
Steps  == Early \cup {"exchange", "settle", "fail", "deliver", "off"}
HtFacts ==
    /\ Http!TypeOK
    /\ stopping \in BOOLEAN /\ sdown \in {"no", "collect", "abort", "join", "done"}
    /\ pc \in [Transfers -> Steps] /\ loc \in [Transfers -> Conns \cup {None}]
    /\ framing \in [Transfers -> {"none", "length", "close"}] /\ left \in [Transfers -> Nat]
    /\ reusable \in [Transfers -> BOOLEAN] /\ cut \in [Transfers -> BOOLEAN]
    /\ pump \in [Transfers -> {"off", "copy", "settle", "recycle"}]
    /\ completed \in [Transfers -> BOOLEAN] /\ aborted \in [Transfers -> BOOLEAN]
    /\ writer \in [Transfers -> BOOLEAN] /\ adone \in [Transfers -> BOOLEAN]
    /\ abort \in [Transfers -> {"idle", "fail", "close"}]
    /\ aconn \in [Transfers -> Conns \cup {None}]
    /\ results \in [Transfers -> Seq({"error", "response", "body"})]
    /\ live \subseteq Transfers /\ active \subseteq Transfers /\ stray \subseteq Conns

\* Which connection a transfer holds, by where its threads are.
HtPlace ==
    \A t \in Transfers :
        /\ pc[t] \in Early => held[t] = None
        /\ pc[t] \in {"set", "exchange", "settle"} => loc[t] \in Conns
        /\ pc[t] \in {"exchange", "settle"} => held[t] = loc[t]
        /\ pump[t] # "off" => held[t] = loc[t] /\ loc[t] \in Conns /\ pc[t] \in {"deliver", "off"}
        /\ pump[t] = "off" /\ pc[t] \in {"deliver", "off"} => held[t] = None

\* A connection is idle once or used by one transfer, was opened, and is not lost
\* while it is open.
HtOwn ==
    /\ \A i, j \in 1 .. Len(pool) : pool[i] = pool[j] => i = j
    /\ \A i \in 1 .. Len(pool) : conn[pool[i]] # "unused"
    /\ \A c \in Conns, t \in Transfers : Http!Uses(t, c) =>
         /\ conn[c] # "unused"
         /\ \A i \in 1 .. Len(pool) : pool[i] # c
         /\ \A u \in Transfers : Http!Uses(u, c) => u = t
    /\ \A c \in Conns : conn[c] = "open" => c \in Http!Elements(pool) \/ \E t \in Transfers : Http!Uses(t, c)

\* A handler that has shut down starts nothing.
HtDown ==
    /\ sdown # "no" => stopping
    /\ sdown = "done" => Http!ThreadsGone /\ pool = <<>>

\* A transfer that is completed has its result, or a thread inside abort() has still
\* to give it.
HtOnce ==
    \A t \in Transfers :
        /\ Len(results[t]) = IF completed[t] /\ ~adone[t] THEN 1 ELSE 0
        /\ adone[t] => completed[t] /\ abort[t] # "idle"
        /\ aborted[t] => completed[t]
        /\ abort[t] # "idle" => aborted[t]
        /\ pc[t] = "off" => completed[t]
        /\ pc[t] = "leave" => aborted[t]

\* It was completed, and not with a body.
Doomed(t) == completed[t] /\ results[t] # <<"body">>

\* Nobody closes the connection of a body but a late abort() of another transfer, or
\* its own after it has failed the body or taken the callback.
BodyOf(t) ==
    /\ pc[t] \notin {"deliver", "off"} => pipe[t] = "none" /\ ~cut[t]
    /\ pc[t] = "deliver" => pipe[t] # "none"
    /\ results[t] = <<"body">> => writer[t]
    /\ writer[t] => pipe[t] # "none" /\ pc[t] = "off"
    /\ abort[t] = "fail" => writer[t]
    /\ abort[t] = "close" => Doomed(t) \/ pipe[t] \in {"failed", "finished"}
    /\ pump[t] = "copy" => pipe[t] \in {"open", "failed"} /\ ~cut[t]
    /\ pump[t] = "copy" /\ conn[loc[t]] = "closed" =>
         loc[t] \in stray \/ pipe[t] = "failed" \/ Doomed(t)
    /\ cut[t] /\ pipe[t] = "finished" => loc[t] \in stray \/ Doomed(t)
    /\ pipe[t] = "finished" /\ framing[t] = "length" => left[t] = 0
HtBody == \A t \in Transfers : BodyOf(t)

HtInv == HtFacts /\ HtPlace /\ HtOwn /\ HtDown /\ HtOnce /\ HtBody

\* Closing connections, and letting go of those that are closed, harms nobody.
LEMMA HtShrink ==
  ASSUME HtOwn, pool' = pool,
         \A c \in Conns : (conn'[c] = "open" => conn[c] = "open") /\ (conn[c] # "unused" => conn'[c] # "unused"),
         pool \in Seq(Conns),
         \A t \in Transfers, c \in Conns : Http!Uses(t, c)' => Http!Uses(t, c),
         \A t \in Transfers, c \in Conns : Http!Uses(t, c) /\ ~Http!Uses(t, c)' => conn'[c] # "open"
  PROVE  HtOwn'
<1>1. \A i \in 1 .. Len(pool) : pool[i] \in Conns
  OBVIOUS
<1>2. \A i \in 1 .. Len(pool) : conn'[pool[i]] # "unused"
  BY <1>1 DEF HtOwn
<1>3. \A c \in Conns, t \in Transfers : Http!Uses(t, c)' =>
         /\ conn'[c] # "unused"
         /\ \A i \in 1 .. Len(pool) : pool[i] # c
         /\ \A u \in Transfers : Http!Uses(u, c)' => u = t
  BY DEF HtOwn
<1>4. ASSUME NEW c \in Conns, conn'[c] = "open"
      PROVE  c \in Http!Elements(pool) \/ \E t \in Transfers : Http!Uses(t, c)'
  <2>1. c \in Http!Elements(pool) \/ \E t \in Transfers : Http!Uses(t, c)
    BY <1>4 DEF HtOwn
  <2> QED
    BY <1>4, <2>1
<1> QED
  BY <1>2, <1>3, <1>4 DEF HtOwn, Http!Elements

\* Before its first step, the HTTP/1.1 handler (http_protocol_handler.cpp) satisfies the invariant.
LEMMA HtInit == Http!HttpConstants /\ Http!Init => HtInv
<1> SUFFICES ASSUME Http!HttpConstants, Http!Init PROVE HtInv
  OBVIOUS
<1> USE DEF Http!Init
<1>1. HtFacts
  <2>1. Http!TypeOK
    <3>1. pool = <<>> /\ MaxPerHost \in Nat
      BY DEF Http!HttpConstants
    <3>2. pool \in Seq(Conns) /\ Len(pool) <= MaxPerHost
      BY <3>1
    <3> QED
      BY <3>2 DEF Http!TypeOK
  <2>2. results \in [Transfers -> Seq({"error", "response", "body"})]
    OBVIOUS
  <2>3. pc \in [Transfers -> Steps] /\ left \in [Transfers -> Nat]
    BY DEF Steps, Early
  <2> QED
    BY <2>1, <2>2, <2>3 DEF HtFacts
<1>2. HtPlace
  BY DEF HtPlace, Early, Http!HttpConstants
<1>3. HtOwn
  BY DEF HtOwn, Http!Uses, Http!Elements, Http!HttpConstants
<1>4. HtDown
  BY DEF HtDown, Http!ThreadsGone
<1>5. HtOnce
  BY DEF HtOnce
<1>6. HtBody
  BY DEF HtBody, Doomed, BodyOf
<1> QED
  BY <1>1, <1>2, <1>3, <1>4, <1>5, <1>6 DEF HtInv


\* What closing a set of connections does to each.
LEMMA HtShut ==
  ASSUME HtFacts, NEW cs, Http!Shut(cs)
  PROVE  /\ conn' \in [Conns -> {"unused", "open", "closed"}]
         /\ \A c \in Conns : conn'[c] = IF c \in cs THEN "closed" ELSE conn[c]
  BY DEF HtFacts, Http!TypeOK, Http!Shut

\* What complete() does.
LEMMA HtDeliver ==
  ASSUME HtFacts, HtOnce, NEW t \in Transfers, NEW r \in {"error", "response", "body"}, Http!Deliver(t, r)
  PROVE  /\ completed' \in [Transfers -> BOOLEAN]
         /\ results' \in [Transfers -> Seq({"error", "response", "body"})]
         /\ completed'[t]
         /\ completed[t] => results'[t] = results[t]
         /\ ~completed[t] => results[t] = <<>> /\ results'[t] = <<r>> /\ Len(results'[t]) = 1
         /\ \A u \in Transfers : u # t => completed'[u] = completed[u] /\ results'[u] = results[u]
<1>1. results[t] \in Seq({"error", "response", "body"}) /\ Append(results[t], r) \in Seq({"error", "response", "body"})
  BY DEF HtFacts
<1>2. ~completed[t] => results[t] = <<>>
  BY <1>1 DEF HtOnce
<1>3. /\ results'[t] = IF completed[t] THEN results[t] ELSE Append(results[t], r)
      /\ results' \in [Transfers -> Seq({"error", "response", "body"})]
      /\ \A u \in Transfers : u # t => results'[u] = results[u]
  BY <1>1 DEF HtFacts, Http!Deliver
<1>4. completed' \in [Transfers -> BOOLEAN] /\ completed'[t] /\ \A u \in Transfers : u # t => completed'[u] = completed[u]
  BY DEF HtFacts, Http!Deliver
<1>5. Append(<<>>, r) = <<r>> /\ Len(<<r>>) = 1
  OBVIOUS
<1> QED
  BY <1>2, <1>3, <1>4, <1>5

\* What the first critical section of abort() does.
LEMMA HtBegin ==
  ASSUME HtFacts, NEW t \in Transfers, NEW who, Http!AbortBegin(t, who)
  PROVE  /\ completed' \in [Transfers -> BOOLEAN] /\ aborted' \in [Transfers -> BOOLEAN]
         /\ adone' \in [Transfers -> BOOLEAN] /\ aconn' \in [Transfers -> Conns \cup {None}]
         /\ abort' \in [Transfers -> {"idle", "fail", "close"}]
         /\ \A u \in Transfers : u # t \/ aborted[t] =>
              /\ completed'[u] = completed[u] /\ aborted'[u] = aborted[u] /\ adone'[u] = adone[u]
              /\ aconn'[u] = aconn[u] /\ abort'[u] = abort[u]
         /\ ~aborted[t] =>
              /\ completed'[t] /\ aborted'[t] /\ (adone'[t] <=> ~completed[t]) /\ aconn'[t] = held[t]
              /\ abort'[t] = IF completed[t] /\ writer[t] THEN "fail" ELSE "close"
<1>1. CASE aborted[t]
  <2>1. UNCHANGED <<Http!aborting, completed, aborted>>
    BY <1>1 DEF Http!AbortBegin, Http!Claimed
  <2> QED
    BY <1>1, <2>1 DEF HtFacts, Http!aborting
<1>2. CASE ~aborted[t]
  <2>1. /\ aborted' = [aborted EXCEPT ![t] = TRUE] /\ completed' = [completed EXCEPT ![t] = TRUE]
        /\ aconn' = [aconn EXCEPT ![t] = held[t]] /\ adone' = [adone EXCEPT ![t] = ~completed[t]]
        /\ abort' = [abort EXCEPT ![t] = IF completed[t] /\ writer[t] THEN "fail" ELSE "close"]
    BY <1>2 DEF Http!AbortBegin, Http!Claimed
  <2>2. completed' \in [Transfers -> BOOLEAN] /\ aborted' \in [Transfers -> BOOLEAN]
    BY <2>1 DEF HtFacts
  <2>3. adone' \in [Transfers -> BOOLEAN] /\ \A u \in Transfers : adone'[u] = IF u = t THEN ~completed[t] ELSE adone[u]
    <3>1. (~completed[t]) \in BOOLEAN
      OBVIOUS
    <3> QED
      BY <2>1, <3>1 DEF HtFacts
  <2>4. aconn' \in [Transfers -> Conns \cup {None}]
    BY <2>1 DEF HtFacts, Http!TypeOK
  <2>5. abort' \in [Transfers -> {"idle", "fail", "close"}]
    BY <2>1 DEF HtFacts
  <2>6. \A u \in Transfers : u # t =>
          /\ completed'[u] = completed[u] /\ aborted'[u] = aborted[u] /\ adone'[u] = adone[u]
          /\ aconn'[u] = aconn[u] /\ abort'[u] = abort[u]
    BY <2>1, <2>3 DEF HtFacts
  <2>7. /\ completed'[t] /\ aborted'[t] /\ aconn'[t] = held[t]
        /\ abort'[t] = IF completed[t] /\ writer[t] THEN "fail" ELSE "close"
    BY <2>1 DEF HtFacts
  <2> QED
    BY <1>2, <2>2, <2>3, <2>4, <2>5, <2>6, <2>7
<1> QED
  BY <1>1, <1>2

\* Whom the callback was promised to keeps it: the first critical section of abort().
LEMMA HtOnceBegin ==
  ASSUME HtFacts, HtOnce, NEW t \in Transfers, NEW who, Http!AbortBegin(t, who), results' = results,
         \A u \in Transfers : pc'[u] = pc[u] \/ pc'[u] \notin {"off", "leave"}
  PROVE  HtOnce'
<1> SUFFICES ASSUME NEW u \in Transfers
             PROVE  /\ Len(results'[u]) = IF completed'[u] /\ ~adone'[u] THEN 1 ELSE 0
                    /\ adone'[u] => completed'[u] /\ abort'[u] # "idle"
                    /\ aborted'[u] => completed'[u]
                    /\ abort'[u] # "idle" => aborted'[u]
                    /\ pc'[u] = "off" => completed'[u]
                    /\ pc'[u] = "leave" => aborted'[u]
  BY DEF HtOnce
<1>1. CASE u # t \/ aborted[t]
  <2>1. /\ completed'[u] = completed[u] /\ aborted'[u] = aborted[u] /\ adone'[u] = adone[u]
        /\ abort'[u] = abort[u]
    BY <1>1, HtBegin
  <2> QED
    BY <2>1 DEF HtOnce
<1>2. CASE u = t /\ ~aborted[t]
  <2>1. completed'[t] /\ aborted'[t] /\ (adone'[t] <=> ~completed[t]) /\ abort'[t] # "idle"
    BY <1>2, HtBegin
  <2>2. ~adone[t]
    BY <1>2 DEF HtOnce
  <2> QED
    BY <1>2, <2>1, <2>2 DEF HtOnce
<1> QED
  BY <1>1, <1>2

\* ... and complete().
LEMMA HtOnceDeliver ==
  ASSUME HtFacts, HtOnce, NEW t \in Transfers, NEW r \in {"error", "response", "body"}, Http!Deliver(t, r),
         aborted' = aborted, abort' = abort, adone' = adone,
         \A u \in Transfers : pc'[u] = pc[u] \/ (u = t /\ pc'[u] = "off")
  PROVE  HtOnce'
<1> SUFFICES ASSUME NEW u \in Transfers
             PROVE  /\ Len(results'[u]) = IF completed'[u] /\ ~adone'[u] THEN 1 ELSE 0
                    /\ adone'[u] => completed'[u] /\ abort'[u] # "idle"
                    /\ aborted'[u] => completed'[u]
                    /\ abort'[u] # "idle" => aborted'[u]
                    /\ pc'[u] = "off" => completed'[u]
                    /\ pc'[u] = "leave" => aborted'[u]
  BY DEF HtOnce
<1>1. CASE u # t
  <2>1. completed'[u] = completed[u] /\ results'[u] = results[u]
    BY <1>1, HtDeliver
  <2> QED
    BY <1>1, <2>1 DEF HtOnce
<1>2. CASE u = t /\ completed[t]
  <2>1. completed'[t] /\ results'[t] = results[t]
    BY <1>2, HtDeliver
  <2> QED
    BY <1>2, <2>1 DEF HtOnce
<1>3. CASE u = t /\ ~completed[t]
  <2>1. completed'[t] /\ Len(results'[t]) = 1
    BY <1>3, HtDeliver
  <2> QED
    BY <1>3, <2>1 DEF HtOnce
<1> QED
  BY <1>1, <1>2, <1>3

\* The connection of a body that is streamed is nobody else's.
LEMMA HtApart ==
  ASSUME HtFacts, HtPlace, HtOwn, NEW u \in Transfers, pump[u] # "off"
  PROVE  /\ loc[u] \in Conns /\ held[u] = loc[u] /\ pc[u] \in {"deliver", "off"}
         /\ conn[loc[u]] # "unused" /\ loc[u] \notin Http!Elements(pool)
         /\ Http!Uses(u, loc[u])
         /\ \A t \in Transfers : t # u => held[t] # loc[u] /\ (pc[t] = "set" => loc[t] # loc[u])
<1>1. loc[u] \in Conns /\ held[u] = loc[u] /\ pc[u] \in {"deliver", "off"}
  BY DEF HtPlace
<1>2. Http!Uses(u, loc[u])
  BY <1>1 DEF Http!Uses
<1>3. conn[loc[u]] # "unused" /\ loc[u] \notin Http!Elements(pool)
  BY <1>1, <1>2 DEF HtOwn, Http!Elements
<1>4. \A t \in Transfers : Http!Uses(t, loc[u]) => t = u
  BY <1>1, <1>2 DEF HtOwn
<1> QED
  BY <1>1, <1>2, <1>3, <1>4 DEF Http!Uses

\* A step that leaves the body of a transfer and its connection alone keeps it honest.
LEMMA HtBodyKept ==
  ASSUME NEW u \in Transfers, BodyOf(u),
         pump[u] = "copy" => pc[u] \in {"deliver", "off"},
         pipe'[u] = pipe[u], cut'[u] = cut[u], writer'[u] = writer[u], pump'[u] = "copy" => pump[u] = "copy",
         framing'[u] = framing[u], left'[u] = left[u], stray \subseteq stray',
         completed[u] => completed'[u],
         results'[u] = <<"body">> => results[u] = <<"body">>,
         loc'[u] = loc[u] \/ pc[u] \notin {"deliver", "off"},
         pc'[u] = pc[u] \/ (pc[u] \notin {"deliver", "off"} /\ pc'[u] # "deliver"),
         abort'[u] = "fail" => abort[u] = "fail" \/ writer[u],
         abort'[u] = "close" => abort[u] = "close" \/ (completed'[u] /\ results'[u] # <<"body">>),
         pump[u] = "copy" /\ conn'[loc[u]] = "closed" =>
           conn[loc[u]] = "closed" \/ loc[u] \in stray' \/ pipe[u] = "failed" \/ Doomed(u)
  PROVE  BodyOf(u)'
<1>1. Doomed(u) => Doomed(u)'
  BY DEF Doomed
<1>2. pc'[u] \notin {"deliver", "off"} => pipe'[u] = "none" /\ ~cut'[u]
  BY DEF BodyOf
<1>3. pc'[u] = "deliver" => pipe'[u] # "none"
  BY DEF BodyOf
<1>4. results'[u] = <<"body">> => writer'[u]
  BY DEF BodyOf
<1>5. (writer'[u] => pipe'[u] # "none" /\ pc'[u] = "off") /\ (abort'[u] = "fail" => writer'[u])
  BY DEF BodyOf
<1>6. abort'[u] = "close" => Doomed(u)' \/ pipe'[u] \in {"failed", "finished"}
  BY <1>1 DEF BodyOf, Doomed
<1>7. pump'[u] = "copy" => pipe'[u] \in {"open", "failed"} /\ ~cut'[u]
  BY DEF BodyOf
<1>8. pump'[u] = "copy" /\ conn'[loc'[u]] = "closed" => loc'[u] \in stray' \/ pipe'[u] = "failed" \/ Doomed(u)'
  BY <1>1 DEF BodyOf
<1>9. cut'[u] /\ pipe'[u] = "finished" => loc'[u] \in stray' \/ Doomed(u)'
  BY <1>1 DEF BodyOf
<1>10. pipe'[u] = "finished" /\ framing'[u] = "length" => left'[u] = 0
  BY DEF BodyOf
<1> QED
  BY <1>2, <1>3, <1>4, <1>5, <1>6, <1>7, <1>8, <1>9, <1>10 DEF BodyOf

\* Closing all that is idle harms nobody.
LEMMA HtDrained ==
  ASSUME HtFacts, HtOwn, pool' = <<>>, Http!Shut(Http!Elements(pool)),
         \A t \in Transfers, c \in Conns : Http!Uses(t, c)' <=> Http!Uses(t, c)
  PROVE  HtOwn'
<1>1. \A c \in Conns : conn'[c] = IF c \in Http!Elements(pool) THEN "closed" ELSE conn[c]
  BY HtShut
<1>2. Len(<<>>) = 0 /\ 1 .. Len(<<>>) = {}
  OBVIOUS
<1>3. \A c \in Conns, t \in Transfers : Http!Uses(t, c)' => conn'[c] # "unused" /\ \A u \in Transfers : Http!Uses(u, c)' => u = t
  BY <1>1 DEF HtOwn
<1>4. \A c \in Conns : conn'[c] = "open" => \E t \in Transfers : Http!Uses(t, c)'
  BY <1>1 DEF HtOwn
<1> QED
  BY <1>2, <1>3, <1>4 DEF HtOwn

\* The pool after recycle(): the newest of what was there, and the connection.
LEMMA HtPut ==
  ASSUME Http!HttpConstants, NEW s \in Seq(Conns), Len(s) <= MaxPerHost, NEW k \in 0 .. Len(s), NEW c \in Conns
  PROVE  LET q == Http!Put(SubSeq(s, k + 1, Len(s)), c) IN
         /\ q \in Seq(Conns) /\ Len(q) <= MaxPerHost
         /\ \E e \in Nat : \A i \in 1 .. Len(q) :
              IF i = Len(q) THEN q[i] = c ELSE i + e \in 1 .. Len(s) /\ q[i] = s[i + e]
<1> DEFINE p == SubSeq(s, k + 1, Len(s))
<1>1. MaxPerHost \in Nat /\ k \in Nat /\ Len(s) \in Nat /\ k <= Len(s)
  BY DEF Http!HttpConstants
<1>2. p \in Seq(Conns) /\ Len(p) = Len(s) - k /\ \A i \in 1 .. Len(s) - k : p[i] = s[i + k]
  BY <1>1
<1> HIDE DEF p
<1>3. CASE MaxPerHost = 0
  <2>1. Http!Put(p, c) = <<>>
    BY <1>3 DEF Http!Put
  <2>2. <<>> \in Seq(Conns) /\ Len(<<>>) = 0 /\ 1 .. 0 = {}
    OBVIOUS
  <2> QED
    BY <1>3, <2>1, <2>2 DEF p
<1>4. CASE MaxPerHost > 0
  <2> DEFINE b == IF Len(p) < MaxPerHost THEN 1 ELSE Len(p) - MaxPerHost + 2
             r == SubSeq(p, b, Len(p))
  <2>1. Len(p) \in Nat /\ Len(p) <= MaxPerHost
    BY <1>1, <1>2
  <2>2. b \in Nat /\ b >= 1 /\ b <= Len(p) + 1 /\ Len(p) + 1 - b < MaxPerHost
    <3> DEFINE l == Len(p)
    <3>1. l \in Nat /\ l <= MaxPerHost /\ MaxPerHost \in Nat /\ MaxPerHost > 0
      BY <1>1, <1>4, <2>1
    <3>2. b = IF l < MaxPerHost THEN 1 ELSE l - MaxPerHost + 2
      BY DEF b
    <3> HIDE DEF l, b
    <3>3. b \in Nat /\ b >= 1 /\ b <= l + 1 /\ l + 1 - b < MaxPerHost
      BY <3>1, <3>2
    <3> QED
      BY <3>3 DEF l
  <2>3. Http!Put(p, c) = Append(r, c)
    <3>1. MaxPerHost # 0
      BY <1>1, <1>4
    <3> QED
      BY <3>1 DEF Http!Put, r, b
  <2> HIDE DEF b
  <2>4. r \in Seq(Conns) /\ Len(r) = Len(p) + 1 - b /\ \A i \in 1 .. Len(p) + 1 - b : r[i] = p[i + b - 1]
    <3>1. b \in 1 .. Len(p) + 1 /\ Len(p) \in 0 .. Len(p)
      BY <2>1, <2>2
    <3> QED
      BY <1>2, <2>1, <2>2, <3>1
  <2> HIDE DEF r
  <2>5. /\ Append(r, c) \in Seq(Conns) /\ Len(Append(r, c)) = Len(r) + 1
        /\ Append(r, c)[Len(r) + 1] = c /\ \A i \in 1 .. Len(r) : Append(r, c)[i] = r[i]
    BY <2>4, AppendProperties
  <2>6. Len(r) \in Nat /\ Len(r) + 1 <= MaxPerHost
    BY <1>1, <2>1, <2>2, <2>4
  <2>7. PICK e \in Nat : e = k + b - 1
    BY <1>1, <2>2
  <2>8. ASSUME NEW i \in 1 .. Len(r) + 1, i # Len(r) + 1
        PROVE  i + e \in 1 .. Len(s) /\ Append(r, c)[i] = s[i + e]
    <3>1. i \in 1 .. Len(r) /\ i \in Nat /\ i + b - 1 \in 1 .. Len(s) - k
      BY <1>1, <1>2, <2>1, <2>2, <2>4, <2>6, <2>8
    <3>2. (i + b - 1) + k = i + e /\ i + e \in 1 .. Len(s)
      BY <1>1, <2>2, <2>7, <3>1
    <3>3. Append(r, c)[i] = p[i + b - 1]
      BY <2>4, <2>5, <3>1
    <3>4. p[i + b - 1] = s[(i + b - 1) + k]
      BY <1>2, <3>1
    <3> QED
      BY <3>2, <3>3, <3>4
  <2>9. Http!Put(p, c) \in Seq(Conns) /\ Len(Http!Put(p, c)) <= MaxPerHost
    BY <2>3, <2>5, <2>6
  <2>10. \A i \in 1 .. Len(Http!Put(p, c)) :
            IF i = Len(Http!Put(p, c)) THEN Http!Put(p, c)[i] = c ELSE i + e \in 1 .. Len(s) /\ Http!Put(p, c)[i] = s[i + e]
    BY <2>3, <2>5, <2>8
  <2> QED
    BY <2>9, <2>10 DEF p
<1> QED
  BY <1>1, <1>3, <1>4

\* recycle() keeps what is idle apart from what is used, and loses nothing that is open.
LEMMA HtRecycle ==
  ASSUME Http!HttpConstants, HtFacts, HtOwn, NEW t \in Transfers, held[t] = loc[t], loc[t] \in Conns, Http!Recycle(t),
         \A u \in Transfers : u # t => \A x \in Conns : Http!Uses(u, x)' <=> Http!Uses(u, x),
         \A x \in Conns : ~Http!Uses(t, x)'
  PROVE  /\ HtOwn' /\ pool' \in Seq(Conns) /\ Len(pool') <= MaxPerHost
         /\ conn' \in [Conns -> {"unused", "open", "closed"}]
         /\ \A u \in Transfers : u # t => \A x \in Conns : Http!Uses(u, x) => conn'[x] = conn[x]
<1>1. PICK k \in 0 .. Len(pool) :
         /\ pool' = Http!Put(SubSeq(pool, k + 1, Len(pool)), loc[t])
         /\ Http!Shut((Http!Elements(pool) \cup {loc[t]}) \ Http!Elements(pool'))
  BY DEF Http!Recycle
<1>2. pool \in Seq(Conns) /\ Len(pool) <= MaxPerHost
  BY DEF HtFacts, Http!TypeOK
<1>3. /\ pool' \in Seq(Conns) /\ Len(pool') <= MaxPerHost
      /\ \E e \in Nat : \A i \in 1 .. Len(pool') :
           IF i = Len(pool') THEN pool'[i] = loc[t] ELSE i + e \in 1 .. Len(pool) /\ pool'[i] = pool[i + e]
  BY <1>1, <1>2, HtPut
<1>4. PICK e \in Nat : \A i \in 1 .. Len(pool') :
           IF i = Len(pool') THEN pool'[i] = loc[t] ELSE i + e \in 1 .. Len(pool) /\ pool'[i] = pool[i + e]
  BY <1>3
<1>5. /\ conn' \in [Conns -> {"unused", "open", "closed"}]
      /\ \A x \in Conns : conn'[x] = IF x \in (Http!Elements(pool) \cup {loc[t]}) \ Http!Elements(pool') THEN "closed" ELSE conn[x]
  BY <1>1, HtShut
<1>6. Http!Uses(t, loc[t]) /\ \A x \in Conns : Http!Uses(t, x) => x = loc[t]
  BY DEF Http!Uses
<1>7. \A i \in 1 .. Len(pool) : pool[i] # loc[t] /\ conn[pool[i]] # "unused"
  BY <1>6 DEF HtOwn
<1>8. conn[loc[t]] # "unused"
  BY <1>6 DEF HtOwn
<1>9. \A u \in Transfers : u # t => \A x \in Conns : Http!Uses(u, x) => x # loc[t] /\ \A i \in 1 .. Len(pool) : pool[i] # x
  BY <1>6 DEF HtOwn
<1>10. ASSUME NEW i \in 1 .. Len(pool'), NEW j \in 1 .. Len(pool'), pool'[i] = pool'[j] PROVE i = j
  <2>1. i \in Nat /\ j \in Nat
    OBVIOUS
  <2>2. CASE i # Len(pool') /\ j # Len(pool')
    <3>1. i + e = j + e
      BY <1>4, <1>10, <2>2 DEF HtOwn
    <3> QED
      BY <2>1, <3>1
  <2>3. CASE i = Len(pool') \/ j = Len(pool')
    BY <1>4, <1>7, <1>10, <2>3
  <2> QED
    BY <2>2, <2>3
<1>11. \A x \in Conns : conn[x] # "unused" => conn'[x] # "unused"
  BY <1>5
<1>12. \A i \in 1 .. Len(pool') : pool'[i] \in Conns /\ conn[pool'[i]] # "unused"
  BY <1>3, <1>4, <1>7, <1>8
<1>13. ASSUME NEW x \in Conns, NEW u \in Transfers, Http!Uses(u, x)'
       PROVE  /\ conn'[x] # "unused" /\ conn'[x] = conn[x]
              /\ \A i \in 1 .. Len(pool') : pool'[i] # x
              /\ \A w \in Transfers : Http!Uses(w, x)' => w = u
  <2>1. u # t /\ Http!Uses(u, x)
    BY <1>13
  <2>2. x # loc[t] /\ \A i \in 1 .. Len(pool) : pool[i] # x
    BY <1>9, <2>1
  <2>3. \A i \in 1 .. Len(pool') : pool'[i] # x
    BY <1>4, <2>2
  <2>4. x \notin Http!Elements(pool) \cup {loc[t]}
    BY <2>2 DEF Http!Elements
  <2>5. conn'[x] = conn[x] /\ conn[x] # "unused"
    BY <1>5, <2>1, <2>4 DEF HtOwn
  <2>6. \A w \in Transfers : Http!Uses(w, x)' => w = u
    BY <2>1 DEF HtOwn
  <2> QED
    BY <2>3, <2>5, <2>6
<1>14. ASSUME NEW x \in Conns, conn'[x] = "open"
       PROVE  x \in Http!Elements(pool') \/ \E u \in Transfers : Http!Uses(u, x)'
  <2>1. conn[x] = "open" /\ x \notin (Http!Elements(pool) \cup {loc[t]}) \ Http!Elements(pool')
    BY <1>5, <1>14
  <2>2. CASE x \in Http!Elements(pool')
    BY <2>2
  <2>3. CASE x \notin Http!Elements(pool')
    <3>1. x \notin Http!Elements(pool) /\ x # loc[t]
      BY <2>1, <2>3
    <3>2. PICK u \in Transfers : Http!Uses(u, x)
      BY <2>1, <3>1 DEF HtOwn
    <3> QED
      BY <1>6, <3>1, <3>2
  <2> QED
    BY <2>2, <2>3
<1>15. \A i, j \in 1 .. Len(pool') : pool'[i] = pool'[j] => i = j
  BY <1>10
<1>16. HtOwn'
  BY <1>11, <1>12, <1>13, <1>14, <1>15 DEF HtOwn, Http!Elements
<1>17. \A u \in Transfers : u # t => \A x \in Conns : Http!Uses(u, x) => conn'[x] = conn[x]
  BY <1>13
<1> QED
  BY <1>3, <1>5, <1>16, <1>17

\* Each step of the HTTP/1.1 handler (http_protocol_handler.cpp) preserves the invariant, part by part.
LEMMA HtStep == Http!HttpConstants /\ HtInv /\ [Http!Next]_(Http!vars) => HtInv'
<1> SUFFICES ASSUME Http!HttpConstants, HtInv, [Http!Next]_(Http!vars) PROVE HtInv'
  OBVIOUS
<1> USE DEF Http!sockets, Http!request, Http!exchange, Http!body, Http!aborting, Http!outcome, Http!down, Http!Goto
<1>0. HtFacts /\ HtPlace /\ HtOwn /\ HtDown /\ HtOnce /\ HtBody
  BY DEF HtInv
<1>1. ASSUME NEW t \in Transfers, Http!Start(t) PROVE HtInv'
  <2>1. HtFacts'
    <3>1. UNCHANGED <<conn, pool, stopping, sdown, live, loc, framing, left, reusable, pump, pipe, held, writer, results, cut, stray>>
      BY <1>1 DEF Http!Start, Http!AbortBegin, Http!Claimed
    <3>2. active' \subseteq Transfers
      BY <1>0, <1>1 DEF HtFacts, Http!Start
    <3>3. /\ completed' \in [Transfers -> BOOLEAN]
          /\ aborted' \in [Transfers -> BOOLEAN]
          /\ adone' \in [Transfers -> BOOLEAN]
          /\ aconn' \in [Transfers -> Conns \cup {None}]
          /\ abort' \in [Transfers -> {"idle", "fail", "close"}]
      <4>1. CASE Http!AbortBegin(t, "caller")
        BY <1>0, <4>1, HtBegin
      <4>2. CASE UNCHANGED <<Http!aborting, completed, aborted>>
        BY <1>0, <4>2 DEF HtFacts
      <4> QED
        BY <1>1, <4>1, <4>2 DEF Http!Start
    <3>4. pc' \in [Transfers -> Steps]
      <4>1. (\E x \in {"inline", "spawn"} : pc' = [pc EXCEPT ![t] = x])
        BY <1>1 DEF Http!Start
      <4> QED
        BY <1>0, <4>1 DEF HtFacts, Http!TypeOK, Steps, Early
    <3> QED
      BY <1>0, <3>1, <3>2, <3>3, <3>4 DEF HtFacts, Http!TypeOK
  <2>2. HtPlace'
    BY <1>0, <1>1 DEF HtPlace, HtFacts, Http!TypeOK, Early, Http!HttpConstants, Http!Uses, Http!Elements, Http!ThreadsGone, Doomed, BodyOf, Http!Start, Http!AbortBegin, Http!Claimed
  <2>3. HtOwn'
    <3>1. \A u \in Transfers, c \in Conns : Http!Uses(u, c)' <=> Http!Uses(u, c)
      BY <1>0, <1>1 DEF Http!Uses, HtPlace, HtFacts, Early, Http!HttpConstants, Http!Start, Http!AbortBegin, Http!Claimed
    <3>2. UNCHANGED <<conn, pool>>
      BY <1>1 DEF Http!Start, Http!AbortBegin, Http!Claimed
    <3>3. pool \in Seq(Conns)
      BY <1>0 DEF HtFacts, Http!TypeOK
    <3> QED
      BY <1>0, <3>1, <3>2, <3>3, HtShrink
  <2>4. HtDown'
    <3>1. UNCHANGED <<stopping, sdown, pump, pool>> /\ pc[t] = "new"
          /\ \A u \in Transfers : pc'[u] = pc[u] \/ pc'[u] \in {"inline", "spawn"}
      BY <1>0, <1>1 DEF HtFacts, Http!Start
    <3> QED
      BY <1>0, <3>1 DEF HtDown, Http!ThreadsGone
  <2>5. HtOnce'
    <3>1. CASE Http!AbortBegin(t, "caller")
      <4>1. results' = results /\ \A u \in Transfers : pc'[u] = pc[u] \/ pc'[u] \notin {"off", "leave"}
        BY <1>0, <1>1, <3>1 DEF HtFacts, Http!Start
      <4> QED
        BY <1>0, <3>1, <4>1, HtOnceBegin
    <3>2. CASE UNCHANGED <<Http!aborting, completed, aborted>>
      BY <1>0, <1>1, <3>2 DEF HtOnce, HtFacts, Http!Start
    <3> QED
      BY <1>1, <3>1, <3>2 DEF Http!Start
  <2>6. HtBody'
    BY <1>0, <1>1 DEF HtBody, HtFacts, Http!TypeOK, BodyOf, Doomed, HtPlace, HtOnce, Http!Uses, Http!Elements, Http!ThreadsGone, Http!Start, Http!AbortBegin, Http!Claimed
  <2> QED
    BY <2>1, <2>2, <2>3, <2>4, <2>5, <2>6 DEF HtInv
<1>2. ASSUME NEW t \in Transfers, Http!InlineDone(t) PROVE HtInv'
  <2>1. HtFacts'
    BY <1>0, <1>2 DEF HtFacts, Http!TypeOK, Early, Steps, Http!Uses, Http!Elements, Http!ThreadsGone, Doomed, BodyOf, Http!InlineDone
  <2>2. HtPlace'
    BY <1>0, <1>2 DEF HtPlace, HtFacts, Http!TypeOK, Early, Http!HttpConstants, Http!Uses, Http!Elements, Http!ThreadsGone, Doomed, BodyOf, Http!InlineDone
  <2>3. HtOwn'
    <3>1. \A u \in Transfers, c \in Conns : Http!Uses(u, c)' <=> Http!Uses(u, c)
      BY <1>0, <1>2 DEF Http!Uses, HtPlace, HtFacts, Early, Http!HttpConstants, Http!InlineDone
    <3>2. UNCHANGED <<conn, pool>>
      BY <1>2 DEF Http!InlineDone
    <3>3. pool \in Seq(Conns)
      BY <1>0 DEF HtFacts, Http!TypeOK
    <3> QED
      BY <1>0, <3>1, <3>2, <3>3, HtShrink
  <2>4. HtDown'
    BY <1>0, <1>2 DEF HtDown, HtFacts, Http!TypeOK, Http!ThreadsGone, Steps, Early, HtPlace, Http!Uses, Http!Elements, Doomed, BodyOf, Http!InlineDone
  <2>5. HtOnce'
    BY <1>0, <1>2 DEF HtOnce, HtFacts, Http!TypeOK, HtPlace, Http!Uses, Http!Elements, Http!ThreadsGone, Doomed, BodyOf, Http!InlineDone
  <2>6. HtBody'
    BY <1>0, <1>2 DEF HtBody, HtFacts, Http!TypeOK, BodyOf, Doomed, HtPlace, HtOnce, Http!Uses, Http!Elements, Http!ThreadsGone, Http!InlineDone
  <2> QED
    BY <2>1, <2>2, <2>3, <2>4, <2>5, <2>6 DEF HtInv
<1>3. ASSUME NEW t \in Transfers, Http!Spawn(t) PROVE HtInv'
  <2>1. HtFacts'
    BY <1>0, <1>3 DEF HtFacts, Http!TypeOK, Early, Steps, Http!Uses, Http!Elements, Http!ThreadsGone, Doomed, BodyOf, Http!Spawn
  <2>2. HtPlace'
    BY <1>0, <1>3 DEF HtPlace, HtFacts, Http!TypeOK, Early, Http!HttpConstants, Http!Uses, Http!Elements, Http!ThreadsGone, Doomed, BodyOf, Http!Spawn
  <2>3. HtOwn'
    <3>1. \A u \in Transfers, c \in Conns : Http!Uses(u, c)' <=> Http!Uses(u, c)
      BY <1>0, <1>3 DEF Http!Uses, HtPlace, HtFacts, Early, Http!HttpConstants, Http!Spawn
    <3>2. UNCHANGED <<conn, pool>>
      BY <1>3 DEF Http!Spawn
    <3>3. pool \in Seq(Conns)
      BY <1>0 DEF HtFacts, Http!TypeOK
    <3> QED
      BY <1>0, <3>1, <3>2, <3>3, HtShrink
  <2>4. HtDown'
    BY <1>0, <1>3 DEF HtDown, HtFacts, Http!TypeOK, Http!ThreadsGone, Steps, Early, HtPlace, Http!Uses, Http!Elements, Doomed, BodyOf, Http!Spawn
  <2>5. HtOnce'
    BY <1>0, <1>3 DEF HtOnce, HtFacts, Http!TypeOK, HtPlace, Http!Uses, Http!Elements, Http!ThreadsGone, Doomed, BodyOf, Http!Spawn
  <2>6. HtBody'
    BY <1>0, <1>3 DEF HtBody, HtFacts, Http!TypeOK, BodyOf, Doomed, HtPlace, HtOnce, Http!Uses, Http!Elements, Http!ThreadsGone, Http!Spawn
  <2> QED
    BY <2>1, <2>2, <2>3, <2>4, <2>5, <2>6 DEF HtInv
<1>4. ASSUME NEW t \in Transfers, Http!Leave(t) PROVE HtInv'
  <2>1. HtFacts'
    <3>1. UNCHANGED <<conn, pool, stopping, sdown, live, active, loc, framing, left, reusable, pump, pipe, aborted, held, writer, abort, aconn, adone, cut, stray>>
      BY <1>4 DEF Http!Leave, Http!Deliver, Http!Unwatch
    <3>2. /\ completed' \in [Transfers -> BOOLEAN]
          /\ results' \in [Transfers -> Seq({"error", "response", "body"})]
      <4>1. CASE Http!Deliver(t, "error")
        BY <1>0, <1>4, <4>1, HtDeliver
      <4>2. CASE UNCHANGED <<completed, results>>
        BY <1>0, <4>2 DEF HtFacts
      <4> QED
        BY <1>4, <4>1, <4>2 DEF Http!Leave
    <3>3. pc' \in [Transfers -> Steps]
      BY <1>0, <1>4 DEF HtFacts, Steps, Early, Http!Leave
    <3> QED
      BY <1>0, <3>1, <3>2, <3>3 DEF HtFacts, Http!TypeOK
  <2>2. HtPlace'
    BY <1>0, <1>4 DEF HtPlace, HtFacts, Http!TypeOK, Early, Http!HttpConstants, Http!Uses, Http!Elements, Http!ThreadsGone, Doomed, BodyOf, Http!Leave, Http!Deliver, Http!Unwatch
  <2>3. HtOwn'
    <3>1. \A u \in Transfers, c \in Conns : Http!Uses(u, c)' <=> Http!Uses(u, c)
      BY <1>0, <1>4 DEF Http!Uses, HtPlace, HtFacts, Early, Http!HttpConstants, Http!Leave, Http!Deliver, Http!Unwatch
    <3>2. UNCHANGED <<conn, pool>>
      BY <1>4 DEF Http!Leave, Http!Deliver, Http!Unwatch
    <3>3. pool \in Seq(Conns)
      BY <1>0 DEF HtFacts, Http!TypeOK
    <3> QED
      BY <1>0, <3>1, <3>2, <3>3, HtShrink
  <2>4. HtDown'
    BY <1>0, <1>4 DEF HtDown, HtFacts, Http!TypeOK, Http!ThreadsGone, Steps, Early, HtPlace, Http!Uses, Http!Elements, Doomed, BodyOf, Http!Leave, Http!Deliver, Http!Unwatch
  <2>5. HtOnce'
    <3>1. CASE Http!Deliver(t, "error")
      <4>1. aborted' = aborted /\ abort' = abort /\ adone' = adone
        BY <1>4 DEF Http!Leave
      <4>2. \A u \in Transfers : pc'[u] = pc[u] \/ (u = t /\ pc'[u] = "off")
        BY <1>0, <1>4 DEF HtFacts, Http!Leave
      <4> QED
        BY <1>0, <3>1, <4>1, <4>2, HtOnceDeliver
    <3>2. CASE pc[t] = "leave" /\ UNCHANGED <<completed, results>>
      <4>1. UNCHANGED <<completed, results, aborted, abort, adone>>
        BY <1>4, <3>2 DEF Http!Leave
      <4>2. \A u \in Transfers : pc'[u] = pc[u] \/ (u = t /\ pc'[u] = "off")
        BY <1>0, <1>4 DEF HtFacts, Http!Leave
      <4> QED
        BY <1>0, <3>2, <4>1, <4>2 DEF HtOnce
    <3> QED
      BY <1>4, <3>1, <3>2 DEF Http!Leave
  <2>6. HtBody'
    <3> SUFFICES ASSUME NEW u \in Transfers PROVE BodyOf(u)'
      BY DEF HtBody
    <3>1. BodyOf(u)
      BY <1>0 DEF HtBody
    <3>2. pump[u] # "off" =>
            /\ loc[u] \in Conns /\ held[u] = loc[u] /\ pc[u] \in {"deliver", "off"}
            /\ conn[loc[u]] # "unused" /\ loc[u] \notin Http!Elements(pool) /\ Http!Uses(u, loc[u])
            /\ \A w \in Transfers : w # u => held[w] # loc[u] /\ (pc[w] = "set" => loc[w] # loc[u])
      BY <1>0, HtApart
    <3>3. /\ pipe'[u] = pipe[u] /\ cut'[u] = cut[u] /\ writer'[u] = writer[u]
          /\ framing'[u] = framing[u] /\ left'[u] = left[u] /\ stray \subseteq stray'
      BY <1>4 DEF Http!Leave, Http!Deliver, Http!Unwatch
    <3>4. pump'[u] = "copy" => pump[u] = "copy"
      BY <1>0, <1>4 DEF HtFacts, Http!Leave, Http!Deliver, Http!Unwatch
    <3>5. (completed[u] => completed'[u]) /\ (results'[u] = <<"body">> => results[u] = <<"body">>)
      <4>1. CASE Http!Deliver(t, "error")
        <5>1. <<"error">> # <<"body">>
          OBVIOUS
        <5>2. /\ completed'[t]
              /\ completed[t] => results'[t] = results[t]
              /\ ~completed[t] => results'[t] = <<"error">>
              /\ \A w \in Transfers : w # t => completed'[w] = completed[w] /\ results'[w] = results[w]
          BY <1>0, <4>1, HtDeliver
        <5> QED
          BY <5>1, <5>2
      <4>2. CASE UNCHANGED <<completed, results>>
        BY <4>2
      <4> QED
        BY <1>4, <4>1, <4>2 DEF Http!Leave
    <3>6. /\ loc'[u] = loc[u] \/ pc[u] \notin {"deliver", "off"}
          /\ pc'[u] = pc[u] \/ (pc[u] \notin {"deliver", "off"} /\ pc'[u] # "deliver")
      BY <1>0, <1>4 DEF HtFacts, Http!Leave, Http!Deliver, Http!Unwatch
    <3>7. /\ abort'[u] = "fail" => abort[u] = "fail" \/ writer[u]
          /\ abort'[u] = "close" => abort[u] = "close" \/ (completed'[u] /\ results'[u] # <<"body">>)
      BY <1>4 DEF Http!Leave, Http!Deliver, Http!Unwatch
    <3>8. pump[u] = "copy" /\ conn'[loc[u]] = "closed" =>
            conn[loc[u]] = "closed" \/ loc[u] \in stray' \/ pipe[u] = "failed" \/ Doomed(u)
      BY <1>4 DEF Http!Leave, Http!Deliver, Http!Unwatch
    <3> QED
      BY <3>1, <3>2, <3>3, <3>4, <3>5, <3>6, <3>7, <3>8, HtBodyKept
  <2> QED
    BY <2>1, <2>2, <2>3, <2>4, <2>5, <2>6 DEF HtInv
<1>5. ASSUME NEW t \in Transfers, Http!Top(t) PROVE HtInv'
  <2>1. HtFacts'
    BY <1>0, <1>5 DEF HtFacts, Http!TypeOK, Early, Steps, Http!Uses, Http!Elements, Http!ThreadsGone, Doomed, BodyOf, Http!Top
  <2>2. HtPlace'
    BY <1>0, <1>5 DEF HtPlace, HtFacts, Http!TypeOK, Early, Http!HttpConstants, Http!Uses, Http!Elements, Http!ThreadsGone, Doomed, BodyOf, Http!Top
  <2>3. HtOwn'
    <3>1. \A u \in Transfers, c \in Conns : Http!Uses(u, c)' <=> Http!Uses(u, c)
      BY <1>0, <1>5 DEF Http!Uses, HtPlace, HtFacts, Early, Http!HttpConstants, Http!Top
    <3>2. UNCHANGED <<conn, pool>>
      BY <1>5 DEF Http!Top
    <3>3. pool \in Seq(Conns)
      BY <1>0 DEF HtFacts, Http!TypeOK
    <3> QED
      BY <1>0, <3>1, <3>2, <3>3, HtShrink
  <2>4. HtDown'
    BY <1>0, <1>5 DEF HtDown, HtFacts, Http!TypeOK, Http!ThreadsGone, Steps, Early, HtPlace, Http!Uses, Http!Elements, Doomed, BodyOf, Http!Top
  <2>5. HtOnce'
    BY <1>0, <1>5 DEF HtOnce, HtFacts, Http!TypeOK, HtPlace, Http!Uses, Http!Elements, Http!ThreadsGone, Doomed, BodyOf, Http!Top
  <2>6. HtBody'
    BY <1>0, <1>5 DEF HtBody, HtFacts, Http!TypeOK, BodyOf, Doomed, HtPlace, HtOnce, Http!Uses, Http!Elements, Http!ThreadsGone, Http!Top
  <2> QED
    BY <2>1, <2>2, <2>3, <2>4, <2>5, <2>6 DEF HtInv
<1>6. ASSUME NEW t \in Transfers, Http!Take(t) PROVE HtInv'
  <2>1. HtFacts'
    <3>1. UNCHANGED <<conn, stopping, sdown, live, active, framing, left, reusable, pump, pipe, completed, aborted, held, writer, abort, aconn, adone, results, cut, stray>>
      BY <1>6 DEF Http!Take
    <3>2. loc' \in [Transfers -> Conns \cup {None}]
      <4>1. pool[Len(pool)] \in Conns
        BY <1>0, <1>6 DEF HtFacts, Http!TypeOK, Http!Take
      <4> QED
        BY <1>0, <1>6, <4>1 DEF HtFacts, Http!Take
    <3>3. pool' \in Seq(Conns) /\ Len(pool') <= MaxPerHost
      <4>1. pool \in Seq(Conns) /\ Len(pool) \in Nat /\ Len(pool) <= MaxPerHost /\ MaxPerHost \in Nat
        BY <1>0 DEF HtFacts, Http!TypeOK, Http!HttpConstants
      <4>2. Len(pool) # 0 /\ pool' = SubSeq(pool, 1, Len(pool) - 1)
        BY <1>6, <4>1 DEF Http!Take
      <4>3. PICK l \in Nat : Len(pool) = l + 1
        <5>1. Len(pool) - 1 \in Nat /\ Len(pool) = (Len(pool) - 1) + 1
          BY <4>1, <4>2
        <5> QED
          BY <5>1
      <4>4. pool' = SubSeq(pool, 1, l)
        BY <4>2, <4>3
      <4>5. pool' \in Seq(Conns) /\ Len(pool') = l
        BY <4>1, <4>3, <4>4
      <4>6. l <= MaxPerHost
        BY <4>1, <4>3
      <4> QED
        BY <4>5, <4>6
    <3>4. pc' \in [Transfers -> Steps]
      <4>1. (\E x \in {"set"} : pc' = [pc EXCEPT ![t] = x])
        BY <1>6 DEF Http!Take
      <4> QED
        BY <1>0, <4>1 DEF HtFacts, Http!TypeOK, Steps, Early
    <3> QED
      BY <1>0, <3>1, <3>2, <3>3, <3>4 DEF HtFacts, Http!TypeOK
  <2>2. HtPlace'
    BY <1>0, <1>6 DEF HtPlace, HtFacts, Http!TypeOK, Early, Http!HttpConstants, Http!Uses, Http!Elements, Http!ThreadsGone, Doomed, BodyOf, Http!Take
  <2>3. HtOwn'
    <3>1. PICK l \in Nat : l = Len(pool) - 1
      <4>1. pool \in Seq(Conns) /\ Len(pool) \in Nat
        BY <1>0 DEF HtFacts, Http!TypeOK
      <4>2. Len(pool) # 0
        BY <1>6, <4>1 DEF Http!Take
      <4>3. Len(pool) - 1 \in Nat
        BY <4>1, <4>2
      <4> QED
        BY <4>3
    <3>2. Len(pool) = l + 1 /\ pool \in Seq(Conns) /\ \A i \in 1 .. l + 1 : pool[i] \in Conns
      BY <1>0, <3>1 DEF HtFacts, Http!TypeOK
    <3>3. pool' = SubSeq(pool, 1, l)
      BY <1>6, <3>1 DEF Http!Take
    <3>4. Len(pool') = l /\ \A i \in 1 .. l : pool'[i] = pool[i] /\ i \in 1 .. l + 1 /\ i # l + 1
      BY <3>1, <3>2, <3>3
    <3>5. l + 1 \in 1 .. l + 1 /\ \A i \in 1 .. l + 1 : i = l + 1 \/ i \in 1 .. l
      BY <3>1
    <3>6. PICK x \in Conns : x = pool[l + 1]
      BY <3>2, <3>5
    <3>7. UNCHANGED <<conn, held>> /\ pc[t] = "top" /\ loc'[t] = x /\ pc'[t] = "set"
          /\ \A u \in Transfers : u # t => loc'[u] = loc[u] /\ pc'[u] = pc[u]
      BY <1>0, <1>6, <3>2, <3>6 DEF HtFacts, Http!Take
    <3>8. held[t] = None
      BY <1>0, <3>7 DEF HtPlace, Early
    <3>9. \A c \in Conns : Http!Uses(t, c)' <=> c = x
      BY <3>7, <3>8 DEF Http!Uses, Http!HttpConstants
    <3>10. \A u \in Transfers : u # t => \A c \in Conns : Http!Uses(u, c)' <=> Http!Uses(u, c)
      BY <3>7 DEF Http!Uses
    <3>11. \A c \in Conns : ~Http!Uses(t, c)
      BY <3>7, <3>8 DEF Http!Uses, Http!HttpConstants
    <3>12. conn[x] # "unused" /\ \A u \in Transfers : ~Http!Uses(u, x)
      BY <1>0, <3>2, <3>5, <3>6 DEF HtOwn
    <3>13. \A i \in 1 .. l : pool'[i] # x
      BY <1>0, <3>2, <3>4, <3>5, <3>6 DEF HtOwn
    <3>14. \A i, j \in 1 .. Len(pool') : pool'[i] = pool'[j] => i = j
      BY <1>0, <3>2, <3>4 DEF HtOwn
    <3>15. \A i \in 1 .. Len(pool') : conn'[pool'[i]] # "unused"
      BY <1>0, <3>2, <3>4, <3>7 DEF HtOwn
    <3>16. ASSUME NEW c \in Conns, NEW u \in Transfers, Http!Uses(u, c)'
           PROVE  /\ conn'[c] # "unused" /\ \A i \in 1 .. Len(pool') : pool'[i] # c
                  /\ \A w \in Transfers : Http!Uses(w, c)' => w = u
      <4>1. CASE u = t
        BY <3>4, <3>7, <3>9, <3>10, <3>12, <3>13, <3>16, <4>1
      <4>2. CASE u # t
        <5>1. Http!Uses(u, c) /\ c # x
          BY <3>10, <3>12, <3>16, <4>2
        <5>2. conn[c] # "unused" /\ (\A i \in 1 .. l + 1 : pool[i] # c) /\ \A w \in Transfers : Http!Uses(w, c) => w = u
          BY <1>0, <3>2, <5>1 DEF HtOwn
        <5> QED
          BY <3>4, <3>7, <3>9, <3>10, <5>1, <5>2
      <4> QED
        BY <4>1, <4>2
    <3>17. ASSUME NEW c \in Conns, conn'[c] = "open"
           PROVE  c \in Http!Elements(pool') \/ \E u \in Transfers : Http!Uses(u, c)'
      <4>1. c \in Http!Elements(pool) \/ \E u \in Transfers : Http!Uses(u, c)
        BY <1>0, <3>7, <3>17 DEF HtOwn
      <4>2. CASE c \in Http!Elements(pool)
        <5>1. PICK i \in 1 .. l + 1 : c = pool[i]
          BY <3>2, <4>2 DEF Http!Elements
        <5>2. CASE i = l + 1
          BY <3>6, <3>9, <5>1, <5>2
        <5>3. CASE i # l + 1
          <6>1. i \in 1 .. Len(pool') /\ pool'[i] = c
            BY <3>4, <3>5, <5>1, <5>3
          <6> QED
            BY <6>1 DEF Http!Elements
        <5> QED
          BY <5>2, <5>3
      <4>3. CASE \E u \in Transfers : Http!Uses(u, c)
        BY <3>10, <3>11, <4>3
      <4> QED
        BY <4>1, <4>2, <4>3
    <3> QED
      BY <3>14, <3>15, <3>16, <3>17 DEF HtOwn
  <2>4. HtDown'
    BY <1>0, <1>6 DEF HtDown, HtFacts, Http!TypeOK, Http!ThreadsGone, Steps, Early, HtPlace, Http!Uses, Http!Elements, Doomed, BodyOf, Http!Take
  <2>5. HtOnce'
    BY <1>0, <1>6 DEF HtOnce, HtFacts, Http!TypeOK, HtPlace, Http!Uses, Http!Elements, Http!ThreadsGone, Doomed, BodyOf, Http!Take
  <2>6. HtBody'
    BY <1>0, <1>6 DEF HtBody, HtFacts, Http!TypeOK, BodyOf, Doomed, HtPlace, HtOnce, Http!Uses, Http!Elements, Http!ThreadsGone, Http!Take
  <2> QED
    BY <2>1, <2>2, <2>3, <2>4, <2>5, <2>6 DEF HtInv
<1>7. ASSUME NEW t \in Transfers, Http!TakeNone(t) PROVE HtInv'
  <2>1. HtFacts'
    <3>1. UNCHANGED <<stopping, sdown, live, active, loc, framing, left, reusable, pump, pipe, completed, aborted, held, writer, abort, aconn, adone, results, cut, stray>>
      BY <1>7 DEF Http!TakeNone, Http!Shut
    <3>2. conn' \in [Conns -> {"unused", "open", "closed"}]
      BY <1>0, <1>7, HtShut DEF Http!TakeNone
    <3>3. pool' \in Seq(Conns) /\ Len(pool') <= MaxPerHost
      <4>1. pool' = <<>> /\ MaxPerHost \in Nat
        BY <1>7 DEF Http!HttpConstants, Http!TakeNone
      <4> QED
        BY <4>1
    <3>4. pc' \in [Transfers -> Steps]
      BY <1>0, <1>7 DEF HtFacts, Http!TypeOK, Steps, Early, Http!TakeNone, Http!Shut
    <3> QED
      BY <1>0, <3>1, <3>2, <3>3, <3>4 DEF HtFacts, Http!TypeOK
  <2>2. HtPlace'
    BY <1>0, <1>7 DEF HtPlace, HtFacts, Http!TypeOK, Early, Http!HttpConstants, Http!Uses, Http!Elements, Http!ThreadsGone, Doomed, BodyOf, Http!TakeNone, Http!Shut
  <2>3. HtOwn'
    <3>1. \A u \in Transfers, c \in Conns : Http!Uses(u, c)' <=> Http!Uses(u, c)
      BY <1>0, <1>7 DEF HtFacts, Http!Uses, Http!TakeNone
    <3> QED
      BY <1>0, <1>7, <3>1, HtDrained DEF Http!TakeNone
  <2>4. HtDown'
    BY <1>0, <1>7 DEF HtDown, HtFacts, Http!TypeOK, Http!ThreadsGone, Steps, Early, HtPlace, Http!Uses, Http!Elements, Doomed, BodyOf, Http!TakeNone, Http!Shut
  <2>5. HtOnce'
    BY <1>0, <1>7 DEF HtOnce, HtFacts, Http!TypeOK, HtPlace, Http!Uses, Http!Elements, Http!ThreadsGone, Doomed, BodyOf, Http!TakeNone, Http!Shut
  <2>6. HtBody'
    <3> SUFFICES ASSUME NEW u \in Transfers PROVE BodyOf(u)'
      BY DEF HtBody
    <3>1. BodyOf(u)
      BY <1>0 DEF HtBody
    <3>2. pump[u] # "off" =>
            /\ loc[u] \in Conns /\ held[u] = loc[u] /\ pc[u] \in {"deliver", "off"}
            /\ conn[loc[u]] # "unused" /\ loc[u] \notin Http!Elements(pool) /\ Http!Uses(u, loc[u])
            /\ \A w \in Transfers : w # u => held[w] # loc[u] /\ (pc[w] = "set" => loc[w] # loc[u])
      BY <1>0, HtApart
    <3>3. /\ pipe'[u] = pipe[u] /\ cut'[u] = cut[u] /\ writer'[u] = writer[u]
          /\ framing'[u] = framing[u] /\ left'[u] = left[u] /\ stray \subseteq stray'
      BY <1>7 DEF Http!TakeNone, Http!Shut
    <3>4. pump'[u] = "copy" => pump[u] = "copy"
      BY <1>0, <1>7 DEF HtFacts, Http!TakeNone, Http!Shut
    <3>5. (completed[u] => completed'[u]) /\ (results'[u] = <<"body">> => results[u] = <<"body">>)
      BY <1>7 DEF Http!TakeNone, Http!Shut
    <3>6. /\ loc'[u] = loc[u] \/ pc[u] \notin {"deliver", "off"}
          /\ pc'[u] = pc[u] \/ (pc[u] \notin {"deliver", "off"} /\ pc'[u] # "deliver")
      BY <1>0, <1>7 DEF HtFacts, Http!TakeNone, Http!Shut
    <3>7. /\ abort'[u] = "fail" => abort[u] = "fail" \/ writer[u]
          /\ abort'[u] = "close" => abort[u] = "close" \/ (completed'[u] /\ results'[u] # <<"body">>)
      BY <1>7 DEF Http!TakeNone, Http!Shut
    <3>8. pump[u] = "copy" /\ conn'[loc[u]] = "closed" =>
            conn[loc[u]] = "closed" \/ loc[u] \in stray' \/ pipe[u] = "failed" \/ Doomed(u)
      <4>1. \A c \in Conns : conn'[c] = IF c \in Http!Elements(pool) THEN "closed" ELSE conn[c]
        BY <1>0, <1>7, HtShut DEF Http!TakeNone
      <4> QED
        BY <3>2, <4>1
    <3> QED
      BY <3>1, <3>2, <3>3, <3>4, <3>5, <3>6, <3>7, <3>8, HtBodyKept
  <2> QED
    BY <2>1, <2>2, <2>3, <2>4, <2>5, <2>6 DEF HtInv
<1>8. ASSUME NEW t \in Transfers, Http!Connect(t) PROVE HtInv'
  <2>1. HtFacts'
    <3>1. UNCHANGED <<pool, stopping, sdown, live, active, framing, left, reusable, pump, pipe, completed, aborted, held, writer, abort, aconn, adone, results, cut, stray>>
      BY <1>8 DEF Http!Connect, Http!Unopened
    <3>2. /\ conn' \in [Conns -> {"unused", "open", "closed"}]
          /\ loc' \in [Transfers -> Conns \cup {None}]
      <4>1. CASE Http!Unopened # {} /\ conn' = [conn EXCEPT ![CHOOSE c \in Http!Unopened : TRUE] = "open"] /\ loc' = [loc EXCEPT ![t] = CHOOSE c \in Http!Unopened : TRUE]
        <5>1. PICK x \in Http!Unopened : x = CHOOSE c \in Http!Unopened : TRUE
          BY <4>1
        <5>2. x \in Conns /\ conn' = [conn EXCEPT ![x] = "open"] /\ loc' = [loc EXCEPT ![t] = x]
          BY <4>1, <5>1 DEF Http!Unopened
        <5> QED
          BY <1>0, <5>2 DEF HtFacts, Http!TypeOK
      <4>2. CASE UNCHANGED <<conn, loc>>
        BY <1>0, <4>2 DEF HtFacts, Http!TypeOK
      <4> QED
        BY <1>8, <4>1, <4>2 DEF Http!Connect
    <3>3. pc' \in [Transfers -> Steps]
      <4>1. (\E x \in {"set", "fail"} : pc' = [pc EXCEPT ![t] = x])
        BY <1>8 DEF Http!Connect
      <4> QED
        BY <1>0, <4>1 DEF HtFacts, Http!TypeOK, Steps, Early
    <3> QED
      BY <1>0, <3>1, <3>2, <3>3 DEF HtFacts, Http!TypeOK
  <2>2. HtPlace'
    BY <1>0, <1>8 DEF HtPlace, HtFacts, Http!TypeOK, Early, Http!HttpConstants, Http!Uses, Http!Elements, Http!ThreadsGone, Doomed, BodyOf, Http!Connect, Http!Unopened
  <2>3. HtOwn'
    <3>1. UNCHANGED <<pool, held>> /\ pc[t] = "connect" /\ held[t] = None
      BY <1>0, <1>8 DEF HtPlace, Early, Http!Connect
    <3>2. CASE UNCHANGED <<conn, loc>> /\ pc' = [pc EXCEPT ![t] = "fail"]
      <4>1. \A u \in Transfers, c \in Conns : Http!Uses(u, c)' <=> Http!Uses(u, c)
        BY <1>0, <3>1, <3>2 DEF HtFacts, Http!Uses
      <4>2. pool \in Seq(Conns)
        BY <1>0 DEF HtFacts, Http!TypeOK
      <4> QED
        BY <1>0, <3>1, <3>2, <4>1, <4>2, HtShrink
    <3>3. CASE /\ Http!Unopened # {} /\ pc' = [pc EXCEPT ![t] = "set"]
               /\ conn' = [conn EXCEPT ![CHOOSE c \in Http!Unopened : TRUE] = "open"]
               /\ loc' = [loc EXCEPT ![t] = CHOOSE c \in Http!Unopened : TRUE]
      <4>1. PICK x \in Http!Unopened : x = CHOOSE c \in Http!Unopened : TRUE
        BY <3>3
      <4>2. x \in Conns /\ conn[x] = "unused"
        BY <4>1 DEF Http!Unopened
      <4>3. /\ conn'[x] = "open" /\ \A c \in Conns : c # x => conn'[c] = conn[c]
            /\ loc'[t] = x /\ pc'[t] = "set"
            /\ \A u \in Transfers : u # t => loc'[u] = loc[u] /\ pc'[u] = pc[u]
        BY <1>0, <3>3, <4>1, <4>2 DEF HtFacts, Http!TypeOK
      <4>4. \A c \in Conns : Http!Uses(t, c)' <=> c = x
        BY <3>1, <4>3 DEF Http!Uses, Http!HttpConstants
      <4>5. \A u \in Transfers : u # t => \A c \in Conns : Http!Uses(u, c)' <=> Http!Uses(u, c)
        BY <3>1, <4>3 DEF Http!Uses
      <4>6. \A c \in Conns : ~Http!Uses(t, c)
        BY <3>1 DEF Http!Uses, Http!HttpConstants
      <4>7. (\A u \in Transfers : ~Http!Uses(u, x)) /\ \A i \in 1 .. Len(pool) : pool[i] # x
        BY <1>0, <4>2 DEF HtOwn
      <4>8. \A i \in 1 .. Len(pool) : pool[i] \in Conns
        BY <1>0 DEF HtFacts, Http!TypeOK
      <4>9. \A i \in 1 .. Len(pool) : conn'[pool[i]] # "unused"
        BY <1>0, <4>3, <4>8 DEF HtOwn
      <4>10. ASSUME NEW c \in Conns, NEW u \in Transfers, Http!Uses(u, c)'
             PROVE  /\ conn'[c] # "unused" /\ \A i \in 1 .. Len(pool) : pool[i] # c
                    /\ \A w \in Transfers : Http!Uses(w, c)' => w = u
        <5>1. CASE c = x
          BY <4>3, <4>4, <4>5, <4>7, <4>10, <5>1
        <5>2. CASE c # x
          <6>1. u # t /\ Http!Uses(u, c)
            BY <4>4, <4>5, <4>10, <5>2
          <6> QED
            BY <1>0, <4>3, <4>4, <4>5, <5>2, <6>1 DEF HtOwn
        <5> QED
          BY <5>1, <5>2
      <4>11. ASSUME NEW c \in Conns, conn'[c] = "open"
             PROVE  c \in Http!Elements(pool) \/ \E u \in Transfers : Http!Uses(u, c)'
        BY <1>0, <4>3, <4>4, <4>5, <4>6, <4>11 DEF HtOwn
      <4> QED
        BY <1>0, <3>1, <4>9, <4>10, <4>11 DEF HtOwn, Http!Elements
    <3> QED
      BY <1>8, <3>2, <3>3 DEF Http!Connect
  <2>4. HtDown'
    BY <1>0, <1>8 DEF HtDown, HtFacts, Http!TypeOK, Http!ThreadsGone, Steps, Early, HtPlace, Http!Uses, Http!Elements, Doomed, BodyOf, Http!Connect, Http!Unopened
  <2>5. HtOnce'
    BY <1>0, <1>8 DEF HtOnce, HtFacts, Http!TypeOK, HtPlace, Http!Uses, Http!Elements, Http!ThreadsGone, Doomed, BodyOf, Http!Connect, Http!Unopened
  <2>6. HtBody'
    <3> SUFFICES ASSUME NEW u \in Transfers PROVE BodyOf(u)'
      BY DEF HtBody
    <3>1. BodyOf(u)
      BY <1>0 DEF HtBody
    <3>2. pump[u] # "off" =>
            /\ loc[u] \in Conns /\ held[u] = loc[u] /\ pc[u] \in {"deliver", "off"}
            /\ conn[loc[u]] # "unused" /\ loc[u] \notin Http!Elements(pool) /\ Http!Uses(u, loc[u])
            /\ \A w \in Transfers : w # u => held[w] # loc[u] /\ (pc[w] = "set" => loc[w] # loc[u])
      BY <1>0, HtApart
    <3>3. /\ pipe'[u] = pipe[u] /\ cut'[u] = cut[u] /\ writer'[u] = writer[u]
          /\ framing'[u] = framing[u] /\ left'[u] = left[u] /\ stray \subseteq stray'
      BY <1>8 DEF Http!Connect, Http!Unopened
    <3>4. pump'[u] = "copy" => pump[u] = "copy"
      BY <1>0, <1>8 DEF HtFacts, Http!Connect, Http!Unopened
    <3>5. (completed[u] => completed'[u]) /\ (results'[u] = <<"body">> => results[u] = <<"body">>)
      BY <1>8 DEF Http!Connect, Http!Unopened
    <3>6. /\ loc'[u] = loc[u] \/ pc[u] \notin {"deliver", "off"}
          /\ pc'[u] = pc[u] \/ (pc[u] \notin {"deliver", "off"} /\ pc'[u] # "deliver")
      BY <1>0, <1>8 DEF HtFacts, Http!Connect, Http!Unopened
    <3>7. /\ abort'[u] = "fail" => abort[u] = "fail" \/ writer[u]
          /\ abort'[u] = "close" => abort[u] = "close" \/ (completed'[u] /\ results'[u] # <<"body">>)
      BY <1>8 DEF Http!Connect, Http!Unopened
    <3>8. pump[u] = "copy" /\ conn'[loc[u]] = "closed" =>
            conn[loc[u]] = "closed" \/ loc[u] \in stray' \/ pipe[u] = "failed" \/ Doomed(u)
      <4>1. CASE Http!Unopened # {} /\ conn' = [conn EXCEPT ![CHOOSE c \in Http!Unopened : TRUE] = "open"]
        BY <1>0, <3>2, <4>1 DEF HtFacts, Http!TypeOK
      <4>2. CASE UNCHANGED conn
        BY <4>2
      <4> QED
        BY <1>8, <4>1, <4>2 DEF Http!Connect
    <3> QED
      BY <3>1, <3>2, <3>3, <3>4, <3>5, <3>6, <3>7, <3>8, HtBodyKept
  <2> QED
    BY <2>1, <2>2, <2>3, <2>4, <2>5, <2>6 DEF HtInv
<1>9. ASSUME NEW t \in Transfers, Http!SetConnection(t) PROVE HtInv'
  <2>1. HtFacts'
    BY <1>0, <1>9 DEF HtFacts, Http!TypeOK, Early, Steps, Http!Uses, Http!Elements, Http!ThreadsGone, Doomed, BodyOf, Http!SetConnection, Http!CloseIfAborted, Http!Shut
  <2>2. HtPlace'
    BY <1>0, <1>9 DEF HtPlace, HtFacts, Http!TypeOK, Early, Http!HttpConstants, Http!Uses, Http!Elements, Http!ThreadsGone, Doomed, BodyOf, Http!SetConnection, Http!CloseIfAborted, Http!Shut
  <2>3. HtOwn'
    <3>1. \A u \in Transfers, c \in Conns : Http!Uses(u, c)' => Http!Uses(u, c)
      BY <1>0, <1>9 DEF Http!Uses, HtPlace, HtFacts, Http!TypeOK, Early, Http!HttpConstants, Http!SetConnection, Http!CloseIfAborted, Http!Shut
    <3>2. /\ pool' = pool /\ pool \in Seq(Conns)
          /\ \A c \in Conns : (conn'[c] = "open" => conn[c] = "open") /\ (conn[c] # "unused" => conn'[c] # "unused")
      BY <1>0, <1>9 DEF HtFacts, Http!TypeOK, Http!SetConnection, Http!CloseIfAborted, Http!Shut
    <3>3. \A u \in Transfers, c \in Conns : Http!Uses(u, c) /\ ~Http!Uses(u, c)' => conn'[c] # "open"
      BY <1>0, <1>9 DEF Http!Uses, HtPlace, HtFacts, Http!TypeOK, Early, Http!HttpConstants, Http!SetConnection, Http!CloseIfAborted, Http!Shut
    <3> QED
      BY <1>0, <3>1, <3>2, <3>3, HtShrink
  <2>4. HtDown'
    BY <1>0, <1>9 DEF HtDown, HtFacts, Http!TypeOK, Http!ThreadsGone, Steps, Early, HtPlace, Http!Uses, Http!Elements, Doomed, BodyOf, Http!SetConnection, Http!CloseIfAborted, Http!Shut
  <2>5. HtOnce'
    BY <1>0, <1>9 DEF HtOnce, HtFacts, Http!TypeOK, HtPlace, Http!Uses, Http!Elements, Http!ThreadsGone, Doomed, BodyOf, Http!SetConnection, Http!CloseIfAborted, Http!Shut
  <2>6. HtBody'
    <3> SUFFICES ASSUME NEW u \in Transfers PROVE BodyOf(u)'
      BY DEF HtBody
    <3>1. BodyOf(u)
      BY <1>0 DEF HtBody
    <3>2. pump[u] # "off" =>
            /\ loc[u] \in Conns /\ held[u] = loc[u] /\ pc[u] \in {"deliver", "off"}
            /\ conn[loc[u]] # "unused" /\ loc[u] \notin Http!Elements(pool) /\ Http!Uses(u, loc[u])
            /\ \A w \in Transfers : w # u => held[w] # loc[u] /\ (pc[w] = "set" => loc[w] # loc[u])
      BY <1>0, HtApart
    <3>3. /\ pipe'[u] = pipe[u] /\ cut'[u] = cut[u] /\ writer'[u] = writer[u]
          /\ framing'[u] = framing[u] /\ left'[u] = left[u] /\ stray \subseteq stray'
      BY <1>9 DEF Http!SetConnection, Http!CloseIfAborted, Http!Shut
    <3>4. pump'[u] = "copy" => pump[u] = "copy"
      BY <1>0, <1>9 DEF HtFacts, Http!SetConnection, Http!CloseIfAborted, Http!Shut
    <3>5. (completed[u] => completed'[u]) /\ (results'[u] = <<"body">> => results[u] = <<"body">>)
      BY <1>9 DEF Http!SetConnection, Http!CloseIfAborted, Http!Shut
    <3>6. /\ loc'[u] = loc[u] \/ pc[u] \notin {"deliver", "off"}
          /\ pc'[u] = pc[u] \/ (pc[u] \notin {"deliver", "off"} /\ pc'[u] # "deliver")
      BY <1>0, <1>9 DEF HtFacts, Http!SetConnection, Http!CloseIfAborted, Http!Shut
    <3>7. /\ abort'[u] = "fail" => abort[u] = "fail" \/ writer[u]
          /\ abort'[u] = "close" => abort[u] = "close" \/ (completed'[u] /\ results'[u] # <<"body">>)
      BY <1>9 DEF Http!SetConnection, Http!CloseIfAborted, Http!Shut
    <3>8. pump[u] = "copy" /\ conn'[loc[u]] = "closed" =>
            conn[loc[u]] = "closed" \/ loc[u] \in stray' \/ pipe[u] = "failed" \/ Doomed(u)
      <4>1. \A c \in Conns : conn'[c] = IF c \in (IF aborted[t] THEN {loc[t]} ELSE {}) THEN "closed" ELSE conn[c]
        BY <1>0, <1>9, HtShut DEF Http!SetConnection, Http!CloseIfAborted
      <4>2. pc[t] = "set"
        BY <1>9 DEF Http!SetConnection
      <4> QED
        BY <3>2, <4>1, <4>2
    <3> QED
      BY <3>1, <3>2, <3>3, <3>4, <3>5, <3>6, <3>7, <3>8, HtBodyKept
  <2> QED
    BY <2>1, <2>2, <2>3, <2>4, <2>5, <2>6 DEF HtInv
<1>10. ASSUME NEW t \in Transfers, Http!ExchangeFails(t) PROVE HtInv'
  <2>1. HtFacts'
    <3>1. UNCHANGED <<pool, stopping, sdown, live, active, loc, framing, left, reusable, pump, pipe, completed, aborted, writer, abort, aconn, adone, results, cut, stray>>
      BY <1>10 DEF Http!ExchangeFails, Http!MayRetry, Http!CloseHeld, Http!Shut
    <3>2. conn' \in [Conns -> {"unused", "open", "closed"}]
      <4>1. CASE Http!CloseHeld(t)
        BY <1>0, <4>1, HtShut DEF Http!CloseHeld
      <4>2. CASE UNCHANGED conn
        BY <1>0, <4>2 DEF HtFacts, Http!TypeOK
      <4> QED
        BY <1>10, <4>1, <4>2 DEF Http!ExchangeFails
    <3>3. held' \in [Transfers -> Conns \cup {None}]
      BY <1>0, <1>10 DEF HtFacts, Http!TypeOK, Http!ExchangeFails, Http!CloseHeld
    <3>4. pc' \in [Transfers -> Steps]
      <4>1. (\E x \in {"top", "fail"} : pc' = [pc EXCEPT ![t] = x])
        BY <1>10 DEF Http!ExchangeFails
      <4> QED
        BY <1>0, <4>1 DEF HtFacts, Http!TypeOK, Steps, Early
    <3> QED
      BY <1>0, <3>1, <3>2, <3>3, <3>4 DEF HtFacts, Http!TypeOK
  <2>2. HtPlace'
    <3>1. UNCHANGED <<loc, pump>> /\ pc[t] = "exchange" /\ pump[t] = "off"
      BY <1>0, <1>10 DEF HtPlace, Http!ExchangeFails
    <3>2. CASE pc' = [pc EXCEPT ![t] = "top"] /\ held' = [held EXCEPT ![t] = None]
      BY <1>0, <3>1, <3>2 DEF HtFacts, Http!TypeOK, HtPlace, Early
    <3>3. CASE pc' = [pc EXCEPT ![t] = "fail"] /\ UNCHANGED held
      BY <1>0, <3>1, <3>3 DEF HtFacts, Http!TypeOK, HtPlace, Early
    <3> QED
      BY <1>10, <3>2, <3>3 DEF Http!ExchangeFails, Http!CloseHeld
  <2>3. HtOwn'
    <3>1. \A u \in Transfers, c \in Conns : Http!Uses(u, c)' => Http!Uses(u, c)
      BY <1>0, <1>10 DEF Http!Uses, HtPlace, HtFacts, Http!TypeOK, Early, Http!HttpConstants, Http!ExchangeFails, Http!MayRetry, Http!CloseHeld, Http!Shut
    <3>2. /\ pool' = pool /\ pool \in Seq(Conns)
          /\ \A c \in Conns : (conn'[c] = "open" => conn[c] = "open") /\ (conn[c] # "unused" => conn'[c] # "unused")
      BY <1>0, <1>10 DEF HtFacts, Http!TypeOK, Http!ExchangeFails, Http!MayRetry, Http!CloseHeld, Http!Shut
    <3>3. \A u \in Transfers, c \in Conns : Http!Uses(u, c) /\ ~Http!Uses(u, c)' => conn'[c] # "open"
      BY <1>0, <1>10 DEF Http!Uses, HtPlace, HtFacts, Http!TypeOK, Early, Http!HttpConstants, Http!ExchangeFails, Http!MayRetry, Http!CloseHeld, Http!Shut
    <3> QED
      BY <1>0, <3>1, <3>2, <3>3, HtShrink
  <2>4. HtDown'
    BY <1>0, <1>10 DEF HtDown, HtFacts, Http!TypeOK, Http!ThreadsGone, Steps, Early, HtPlace, Http!Uses, Http!Elements, Doomed, BodyOf, Http!ExchangeFails, Http!MayRetry, Http!CloseHeld, Http!Shut
  <2>5. HtOnce'
    BY <1>0, <1>10 DEF HtOnce, HtFacts, Http!TypeOK, HtPlace, Http!Uses, Http!Elements, Http!ThreadsGone, Doomed, BodyOf, Http!ExchangeFails, Http!MayRetry, Http!CloseHeld, Http!Shut
  <2>6. HtBody'
    <3> SUFFICES ASSUME NEW u \in Transfers PROVE BodyOf(u)'
      BY DEF HtBody
    <3>1. BodyOf(u)
      BY <1>0 DEF HtBody
    <3>2. pump[u] # "off" =>
            /\ loc[u] \in Conns /\ held[u] = loc[u] /\ pc[u] \in {"deliver", "off"}
            /\ conn[loc[u]] # "unused" /\ loc[u] \notin Http!Elements(pool) /\ Http!Uses(u, loc[u])
            /\ \A w \in Transfers : w # u => held[w] # loc[u] /\ (pc[w] = "set" => loc[w] # loc[u])
      BY <1>0, HtApart
    <3>3. /\ pipe'[u] = pipe[u] /\ cut'[u] = cut[u] /\ writer'[u] = writer[u]
          /\ framing'[u] = framing[u] /\ left'[u] = left[u] /\ stray \subseteq stray'
      BY <1>10 DEF Http!ExchangeFails, Http!MayRetry, Http!CloseHeld, Http!Shut
    <3>4. pump'[u] = "copy" => pump[u] = "copy"
      BY <1>0, <1>10 DEF HtFacts, Http!ExchangeFails, Http!MayRetry, Http!CloseHeld, Http!Shut
    <3>5. (completed[u] => completed'[u]) /\ (results'[u] = <<"body">> => results[u] = <<"body">>)
      BY <1>10 DEF Http!ExchangeFails, Http!MayRetry, Http!CloseHeld, Http!Shut
    <3>6. /\ loc'[u] = loc[u] \/ pc[u] \notin {"deliver", "off"}
          /\ pc'[u] = pc[u] \/ (pc[u] \notin {"deliver", "off"} /\ pc'[u] # "deliver")
      BY <1>0, <1>10 DEF HtFacts, Http!ExchangeFails, Http!MayRetry, Http!CloseHeld, Http!Shut
    <3>7. /\ abort'[u] = "fail" => abort[u] = "fail" \/ writer[u]
          /\ abort'[u] = "close" => abort[u] = "close" \/ (completed'[u] /\ results'[u] # <<"body">>)
      BY <1>10 DEF Http!ExchangeFails, Http!MayRetry, Http!CloseHeld, Http!Shut
    <3>8. pump[u] = "copy" /\ conn'[loc[u]] = "closed" =>
            conn[loc[u]] = "closed" \/ loc[u] \in stray' \/ pipe[u] = "failed" \/ Doomed(u)
      <4>1. CASE Http!CloseHeld(t)
        <5>1. pump[t] # "copy"
          BY <1>0, <1>10 DEF HtPlace, Http!ExchangeFails
        <5>2. \A c \in Conns : conn'[c] = IF c \in {held[t]} \cap Conns THEN "closed" ELSE conn[c]
          BY <1>0, <4>1, HtShut DEF Http!CloseHeld
        <5> QED
          BY <3>2, <5>1, <5>2
      <4>2. CASE UNCHANGED conn
        BY <4>2
      <4> QED
        BY <1>10, <4>1, <4>2 DEF Http!ExchangeFails
    <3> QED
      BY <3>1, <3>2, <3>3, <3>4, <3>5, <3>6, <3>7, <3>8, HtBodyKept
  <2> QED
    BY <2>1, <2>2, <2>3, <2>4, <2>5, <2>6 DEF HtInv
<1>11. ASSUME NEW t \in Transfers, Http!RespondBodyless(t) PROVE HtInv'
  <2>1. HtFacts'
    BY <1>0, <1>11 DEF HtFacts, Http!TypeOK, Early, Steps, Http!Uses, Http!Elements, Http!ThreadsGone, Doomed, BodyOf, Http!RespondBodyless, Http!Works
  <2>2. HtPlace'
    BY <1>0, <1>11 DEF HtPlace, HtFacts, Http!TypeOK, Early, Http!HttpConstants, Http!Uses, Http!Elements, Http!ThreadsGone, Doomed, BodyOf, Http!RespondBodyless, Http!Works
  <2>3. HtOwn'
    <3>1. \A u \in Transfers, c \in Conns : Http!Uses(u, c)' <=> Http!Uses(u, c)
      BY <1>0, <1>11 DEF Http!Uses, HtPlace, HtFacts, Early, Http!HttpConstants, Http!RespondBodyless, Http!Works
    <3>2. UNCHANGED <<conn, pool>>
      BY <1>11 DEF Http!RespondBodyless, Http!Works
    <3>3. pool \in Seq(Conns)
      BY <1>0 DEF HtFacts, Http!TypeOK
    <3> QED
      BY <1>0, <3>1, <3>2, <3>3, HtShrink
  <2>4. HtDown'
    BY <1>0, <1>11 DEF HtDown, HtFacts, Http!TypeOK, Http!ThreadsGone, Steps, Early, HtPlace, Http!Uses, Http!Elements, Doomed, BodyOf, Http!RespondBodyless, Http!Works
  <2>5. HtOnce'
    BY <1>0, <1>11 DEF HtOnce, HtFacts, Http!TypeOK, HtPlace, Http!Uses, Http!Elements, Http!ThreadsGone, Doomed, BodyOf, Http!RespondBodyless, Http!Works
  <2>6. HtBody'
    BY <1>0, <1>11 DEF HtBody, HtFacts, Http!TypeOK, BodyOf, Doomed, HtPlace, HtOnce, Http!Uses, Http!Elements, Http!ThreadsGone, Http!RespondBodyless, Http!Works
  <2> QED
    BY <2>1, <2>2, <2>3, <2>4, <2>5, <2>6 DEF HtInv
<1>12. ASSUME NEW t \in Transfers, Http!RespondBody(t) PROVE HtInv'
  <2>1. HtFacts'
    <3>1. UNCHANGED <<conn, pool, stopping, sdown, live, active, loc, completed, aborted, held, writer, abort, aconn, adone, results, cut, stray>>
      BY <1>12 DEF Http!RespondBody, Http!Works
    <3>2. framing' \in [Transfers -> {"none", "length", "close"}]
      <4>1. (\E x \in {"length", "close"} : framing' = [framing EXCEPT ![t] = x])
        BY <1>12 DEF Http!RespondBody
      <4> QED
        BY <1>0, <4>1 DEF HtFacts, Http!TypeOK, Steps, Early
    <3>3. left' \in [Transfers -> Nat]
      <4>1. PICK n \in 0 .. MaxParts : left' = [left EXCEPT ![t] = n]
        BY <1>12 DEF Http!RespondBody
      <4>2. n \in Nat
        BY DEF Http!HttpConstants
      <4> QED
        BY <1>0, <4>1, <4>2 DEF HtFacts
    <3>4. reusable' \in [Transfers -> BOOLEAN]
      <4>1. PICK f \in {"length", "close"} : reusable' = [reusable EXCEPT ![t] = f # "close"]
        BY <1>12 DEF Http!RespondBody
      <4>2. (f # "close") \in BOOLEAN
        OBVIOUS
      <4> QED
        BY <1>0, <4>1, <4>2 DEF HtFacts
    <3>5. pump' \in [Transfers -> {"off", "copy", "settle", "recycle"}]
      <4>1. (\E x \in {"copy"} : pump' = [pump EXCEPT ![t] = x]) \/ pump' = pump
        BY <1>12 DEF Http!RespondBody
      <4> QED
        BY <1>0, <4>1 DEF HtFacts, Http!TypeOK, Steps, Early
    <3>6. pipe' \in [Transfers -> {"none", "open", "finished", "failed"}]
      <4>1. (\E x \in {"open"} : pipe' = [pipe EXCEPT ![t] = x]) \/ pipe' = pipe
        BY <1>12 DEF Http!RespondBody
      <4> QED
        BY <1>0, <4>1 DEF HtFacts, Http!TypeOK, Steps, Early
    <3>7. pc' \in [Transfers -> Steps]
      <4>1. (\E x \in {"fail", "deliver"} : pc' = [pc EXCEPT ![t] = x])
        BY <1>12 DEF Http!RespondBody
      <4> QED
        BY <1>0, <4>1 DEF HtFacts, Http!TypeOK, Steps, Early
    <3> QED
      BY <1>0, <3>1, <3>2, <3>3, <3>4, <3>5, <3>6, <3>7 DEF HtFacts, Http!TypeOK
  <2>2. HtPlace'
    BY <1>0, <1>12 DEF HtPlace, HtFacts, Http!TypeOK, Early, Http!HttpConstants, Http!Uses, Http!Elements, Http!ThreadsGone, Doomed, BodyOf, Http!RespondBody, Http!Works
  <2>3. HtOwn'
    <3>1. \A u \in Transfers, c \in Conns : Http!Uses(u, c)' <=> Http!Uses(u, c)
      BY <1>0, <1>12 DEF Http!Uses, HtPlace, HtFacts, Early, Http!HttpConstants, Http!RespondBody, Http!Works
    <3>2. UNCHANGED <<conn, pool>>
      BY <1>12 DEF Http!RespondBody, Http!Works
    <3>3. pool \in Seq(Conns)
      BY <1>0 DEF HtFacts, Http!TypeOK
    <3> QED
      BY <1>0, <3>1, <3>2, <3>3, HtShrink
  <2>4. HtDown'
    BY <1>0, <1>12 DEF HtDown, HtFacts, Http!TypeOK, Http!ThreadsGone, Steps, Early, HtPlace, Http!Uses, Http!Elements, Doomed, BodyOf, Http!RespondBody, Http!Works
  <2>5. HtOnce'
    BY <1>0, <1>12 DEF HtOnce, HtFacts, Http!TypeOK, HtPlace, Http!Uses, Http!Elements, Http!ThreadsGone, Doomed, BodyOf, Http!RespondBody, Http!Works
  <2>6. HtBody'
    <3> SUFFICES ASSUME NEW u \in Transfers PROVE BodyOf(u)'
      BY DEF HtBody
    <3>1. BodyOf(u)
      BY <1>0 DEF HtBody
    <3>2. CASE u # t
      <4>1. /\ UNCHANGED <<conn, loc, stray>>
            /\ pipe'[u] = pipe[u] /\ cut'[u] = cut[u] /\ writer'[u] = writer[u] /\ pump'[u] = pump[u]
            /\ framing'[u] = framing[u] /\ left'[u] = left[u] /\ pc'[u] = pc[u]
            /\ completed'[u] = completed[u] /\ results'[u] = results[u] /\ abort'[u] = abort[u]
        BY <1>0, <1>12, <3>2 DEF HtFacts, Http!TypeOK, Http!RespondBody, Http!Works
      <4> QED
        BY <3>1, <4>1 DEF BodyOf, Doomed
    <3>3. CASE u = t
      <4>1. pc[t] = "exchange" /\ conn[loc[t]] = "open" /\ UNCHANGED <<conn, loc, stray, cut, writer, completed, results, abort>>
        BY <1>12 DEF Http!RespondBody, Http!Works
      <4>2. pipe[t] = "none" /\ ~cut[t] /\ ~writer[t] /\ results[t] # <<"body">> /\ abort[t] # "fail"
            /\ (abort[t] = "close" => Doomed(t))
        BY <3>1, <3>3, <4>1 DEF BodyOf
      <4>3. pump[t] = "off"
        BY <1>0, <4>1 DEF HtPlace, HtFacts
      <4>4. CASE stopping
        <5>1. pc'[t] = "fail" /\ UNCHANGED <<pump, pipe>>
          BY <1>0, <1>12, <4>4 DEF HtFacts, Http!RespondBody
        <5> QED
          BY <3>3, <4>1, <4>2, <4>3, <5>1 DEF BodyOf, Doomed
      <4>5. CASE ~stopping
        <5>1. pc'[t] = "deliver" /\ pump'[t] = "copy" /\ pipe'[t] = "open"
          BY <1>0, <1>12, <4>5 DEF HtFacts, Http!TypeOK, Http!RespondBody
        <5> QED
          BY <3>3, <4>1, <4>2, <4>3, <5>1 DEF BodyOf, Doomed
      <4> QED
        BY <4>4, <4>5
    <3> QED
      BY <3>2, <3>3
  <2> QED
    BY <2>1, <2>2, <2>3, <2>4, <2>5, <2>6 DEF HtInv
<1>13. ASSUME NEW t \in Transfers, Http!Settle(t) PROVE HtInv'
  <2>0. ASSUME Http!Recycle(t)
        PROVE  /\ HtOwn' /\ pool' \in Seq(Conns) /\ Len(pool') <= MaxPerHost
               /\ conn' \in [Conns -> {"unused", "open", "closed"}]
               /\ \A u \in Transfers : u # t => \A x \in Conns : Http!Uses(u, x) => conn'[x] = conn[x]
    <3>1. held[t] = loc[t] /\ loc[t] \in Conns
      BY <1>0, <1>13 DEF HtPlace, Http!Settle
    <3>2. \A u \in Transfers : u # t => \A x \in Conns : Http!Uses(u, x)' <=> Http!Uses(u, x)
      BY <1>0, <1>13, <2>0 DEF HtFacts, Http!TypeOK, Http!Uses, Http!Settle, Http!Recycle
    <3>3. \A x \in Conns : ~Http!Uses(t, x)'
      BY <1>0, <1>13, <2>0 DEF HtFacts, Http!TypeOK, HtPlace, Http!Uses, Http!Settle, Http!Recycle, Http!HttpConstants
    <3> QED
      BY <1>0, <2>0, <3>1, <3>2, <3>3, HtRecycle
  <2>1. HtFacts'
    <3>1. UNCHANGED <<stopping, sdown, live, active, loc, framing, left, reusable, pump, pipe, completed, aborted, writer, abort, aconn, adone, results, cut, stray>>
      BY <1>13 DEF Http!Settle, Http!Recycle, Http!CloseHeld, Http!Shut
    <3>2. /\ conn' \in [Conns -> {"unused", "open", "closed"}]
          /\ pool' \in Seq(Conns) /\ Len(pool') <= MaxPerHost
      <4>1. CASE Http!Recycle(t)
        BY <1>0, <2>0, <4>1
      <4>2. CASE Http!CloseHeld(t) /\ UNCHANGED pool
        BY <1>0, <4>2, HtShut DEF Http!CloseHeld, HtFacts, Http!TypeOK
      <4> QED
        BY <1>13, <4>1, <4>2 DEF Http!Settle
    <3>3. held' \in [Transfers -> Conns \cup {None}]
      BY <1>0, <1>13 DEF HtFacts, Http!TypeOK, Http!Settle, Http!Recycle, Http!CloseHeld
    <3>4. pc' \in [Transfers -> Steps]
      BY <1>0, <1>13 DEF HtFacts, Steps, Early, Http!Settle
    <3> QED
      BY <1>0, <3>1, <3>2, <3>3, <3>4 DEF HtFacts, Http!TypeOK
  <2>2. HtPlace'
    BY <1>0, <1>13, <2>0 DEF HtPlace, HtFacts, Http!TypeOK, Early, Http!HttpConstants, Http!Uses, Http!Elements, Http!ThreadsGone, Doomed, BodyOf, Http!Settle, Http!Recycle, Http!CloseHeld, Http!Shut
  <2>3. HtOwn'
    <3>1. CASE Http!Recycle(t)
      BY <2>0, <3>1
    <3>2. CASE Http!CloseHeld(t) /\ UNCHANGED pool
      <4>1. \A u \in Transfers, c \in Conns : Http!Uses(u, c)' => Http!Uses(u, c)
        BY <1>0, <1>13, <3>2 DEF Http!Uses, HtPlace, HtFacts, Http!TypeOK, Early, Http!HttpConstants, Http!Settle, Http!CloseHeld, Http!Shut
      <4>2. /\ pool' = pool /\ pool \in Seq(Conns)
            /\ \A c \in Conns : (conn'[c] = "open" => conn[c] = "open") /\ (conn[c] # "unused" => conn'[c] # "unused")
        BY <1>0, <1>13, <3>2 DEF HtFacts, Http!TypeOK, Http!Settle, Http!CloseHeld, Http!Shut
      <4>3. \A u \in Transfers, c \in Conns : Http!Uses(u, c) /\ ~Http!Uses(u, c)' => conn'[c] # "open"
        BY <1>0, <1>13, <3>2 DEF Http!Uses, HtPlace, HtFacts, Http!TypeOK, Early, Http!HttpConstants, Http!Settle, Http!CloseHeld, Http!Shut
      <4> QED
        BY <1>0, <4>1, <4>2, <4>3, HtShrink
    <3> QED
      BY <1>13, <3>1, <3>2 DEF Http!Settle
  <2>4. HtDown'
    BY <1>0, <1>13, <2>0 DEF HtDown, HtFacts, Http!TypeOK, Http!ThreadsGone, Steps, Early, HtPlace, Http!Uses, Http!Elements, Doomed, BodyOf, Http!Settle, Http!Recycle, Http!CloseHeld, Http!Shut
  <2>5. HtOnce'
    BY <1>0, <1>13, <2>0 DEF HtOnce, HtFacts, Http!TypeOK, HtPlace, Http!Uses, Http!Elements, Http!ThreadsGone, Doomed, BodyOf, Http!Settle, Http!Recycle, Http!CloseHeld, Http!Shut
  <2>6. HtBody'
    <3> SUFFICES ASSUME NEW u \in Transfers PROVE BodyOf(u)'
      BY DEF HtBody
    <3>1. BodyOf(u)
      BY <1>0 DEF HtBody
    <3>2. pump[u] # "off" =>
            /\ loc[u] \in Conns /\ held[u] = loc[u] /\ pc[u] \in {"deliver", "off"}
            /\ conn[loc[u]] # "unused" /\ loc[u] \notin Http!Elements(pool) /\ Http!Uses(u, loc[u])
            /\ \A w \in Transfers : w # u => held[w] # loc[u] /\ (pc[w] = "set" => loc[w] # loc[u])
      BY <1>0, HtApart
    <3>3. /\ pipe'[u] = pipe[u] /\ cut'[u] = cut[u] /\ writer'[u] = writer[u]
          /\ framing'[u] = framing[u] /\ left'[u] = left[u] /\ stray \subseteq stray'
      BY <1>13 DEF Http!Settle, Http!Recycle, Http!CloseHeld, Http!Shut
    <3>4. pump'[u] = "copy" => pump[u] = "copy"
      BY <1>0, <1>13 DEF HtFacts, Http!Settle, Http!Recycle, Http!CloseHeld, Http!Shut
    <3>5. (completed[u] => completed'[u]) /\ (results'[u] = <<"body">> => results[u] = <<"body">>)
      BY <1>13 DEF Http!Settle, Http!Recycle, Http!CloseHeld, Http!Shut
    <3>6. /\ loc'[u] = loc[u] \/ pc[u] \notin {"deliver", "off"}
          /\ pc'[u] = pc[u] \/ (pc[u] \notin {"deliver", "off"} /\ pc'[u] # "deliver")
      BY <1>0, <1>13 DEF HtFacts, Http!Settle, Http!Recycle, Http!CloseHeld, Http!Shut
    <3>7. /\ abort'[u] = "fail" => abort[u] = "fail" \/ writer[u]
          /\ abort'[u] = "close" => abort[u] = "close" \/ (completed'[u] /\ results'[u] # <<"body">>)
      BY <1>13 DEF Http!Settle, Http!Recycle, Http!CloseHeld, Http!Shut
    <3>8. pump[u] = "copy" /\ conn'[loc[u]] = "closed" =>
            conn[loc[u]] = "closed" \/ loc[u] \in stray' \/ pipe[u] = "failed" \/ Doomed(u)
      <4>1. CASE Http!Recycle(t)
        <5>1. pump[t] # "copy"
          BY <1>0, <1>13 DEF HtPlace, Http!Settle
        <5>2. \A w \in Transfers : w # t => \A x \in Conns : Http!Uses(w, x) => conn'[x] = conn[x]
          BY <2>0, <4>1
        <5> QED
          BY <3>2, <5>1, <5>2
      <4>3. CASE Http!CloseHeld(t)
        <5>1. pump[t] # "copy"
          BY <1>0, <1>13 DEF HtPlace, Http!Settle
        <5>2. \A c \in Conns : conn'[c] = IF c \in {held[t]} \cap Conns THEN "closed" ELSE conn[c]
          BY <1>0, <4>3, HtShut DEF Http!CloseHeld
        <5> QED
          BY <3>2, <5>1, <5>2
      <4>2. CASE UNCHANGED conn
        BY <4>2
      <4> QED
        BY <1>13, <4>1, <4>2, <4>3 DEF Http!Settle
    <3> QED
      BY <3>1, <3>2, <3>3, <3>4, <3>5, <3>6, <3>7, <3>8, HtBodyKept
  <2> QED
    BY <2>1, <2>2, <2>3, <2>4, <2>5, <2>6 DEF HtInv
<1>14. ASSUME NEW t \in Transfers, Http!CompleteBodyless(t) PROVE HtInv'
  <2>1. HtFacts'
    BY <1>0, <1>14 DEF HtFacts, Http!TypeOK, Early, Steps, Http!Uses, Http!Elements, Http!ThreadsGone, Doomed, BodyOf, Http!CompleteBodyless, Http!Finish, Http!Deliver, Http!CloseHeld, Http!Shut, Http!Unwatch
  <2>2. HtPlace'
    BY <1>0, <1>14 DEF HtPlace, HtFacts, Http!TypeOK, Early, Http!HttpConstants, Http!Uses, Http!Elements, Http!ThreadsGone, Doomed, BodyOf, Http!CompleteBodyless, Http!Finish, Http!Deliver, Http!CloseHeld, Http!Shut, Http!Unwatch
  <2>3. HtOwn'
    <3>1. \A u \in Transfers, c \in Conns : Http!Uses(u, c)' => Http!Uses(u, c)
      BY <1>0, <1>14 DEF Http!Uses, HtPlace, HtFacts, Http!TypeOK, Early, Http!HttpConstants, Http!CompleteBodyless, Http!Finish, Http!Deliver, Http!CloseHeld, Http!Shut, Http!Unwatch
    <3>2. /\ pool' = pool /\ pool \in Seq(Conns)
          /\ \A c \in Conns : (conn'[c] = "open" => conn[c] = "open") /\ (conn[c] # "unused" => conn'[c] # "unused")
      BY <1>0, <1>14 DEF HtFacts, Http!TypeOK, Http!CompleteBodyless, Http!Finish, Http!Deliver, Http!CloseHeld, Http!Shut, Http!Unwatch
    <3>3. \A u \in Transfers, c \in Conns : Http!Uses(u, c) /\ ~Http!Uses(u, c)' => conn'[c] # "open"
      BY <1>0, <1>14 DEF Http!Uses, HtPlace, HtFacts, Http!TypeOK, Early, Http!HttpConstants, Http!CompleteBodyless, Http!Finish, Http!Deliver, Http!CloseHeld, Http!Shut, Http!Unwatch
    <3> QED
      BY <1>0, <3>1, <3>2, <3>3, HtShrink
  <2>4. HtDown'
    BY <1>0, <1>14 DEF HtDown, HtFacts, Http!TypeOK, Http!ThreadsGone, Steps, Early, HtPlace, Http!Uses, Http!Elements, Doomed, BodyOf, Http!CompleteBodyless, Http!Finish, Http!Deliver, Http!CloseHeld, Http!Shut, Http!Unwatch
  <2>5. HtOnce'
    <3>1. Http!Deliver(t, "response") /\ aborted' = aborted /\ abort' = abort /\ adone' = adone
      BY <1>14 DEF Http!CompleteBodyless, Http!Finish
    <3>2. \A u \in Transfers : pc'[u] = pc[u] \/ (u = t /\ pc'[u] = "off")
      BY <1>0, <1>14 DEF HtFacts, Http!CompleteBodyless, Http!Finish
    <3> QED
      BY <1>0, <3>1, <3>2, HtOnceDeliver
  <2>6. HtBody'
    <3> SUFFICES ASSUME NEW u \in Transfers PROVE BodyOf(u)'
      BY DEF HtBody
    <3>1. BodyOf(u)
      BY <1>0 DEF HtBody
    <3>2. pump[u] # "off" =>
            /\ loc[u] \in Conns /\ held[u] = loc[u] /\ pc[u] \in {"deliver", "off"}
            /\ conn[loc[u]] # "unused" /\ loc[u] \notin Http!Elements(pool) /\ Http!Uses(u, loc[u])
            /\ \A w \in Transfers : w # u => held[w] # loc[u] /\ (pc[w] = "set" => loc[w] # loc[u])
      BY <1>0, HtApart
    <3>3. /\ pipe'[u] = pipe[u] /\ cut'[u] = cut[u] /\ writer'[u] = writer[u]
          /\ framing'[u] = framing[u] /\ left'[u] = left[u] /\ stray \subseteq stray'
      BY <1>14 DEF Http!CompleteBodyless, Http!Finish, Http!Deliver, Http!CloseHeld, Http!Shut, Http!Unwatch
    <3>4. pump'[u] = "copy" => pump[u] = "copy"
      BY <1>0, <1>14 DEF HtFacts, Http!CompleteBodyless, Http!Finish, Http!Deliver, Http!CloseHeld, Http!Shut, Http!Unwatch
    <3>5. (completed[u] => completed'[u]) /\ (results'[u] = <<"body">> => results[u] = <<"body">>)
      <4>1. CASE Http!Deliver(t, "response")
        <5>1. <<"response">> # <<"body">>
          OBVIOUS
        <5>2. /\ completed'[t]
              /\ completed[t] => results'[t] = results[t]
              /\ ~completed[t] => results'[t] = <<"response">>
              /\ \A w \in Transfers : w # t => completed'[w] = completed[w] /\ results'[w] = results[w]
          BY <1>0, <4>1, HtDeliver
        <5> QED
          BY <5>1, <5>2
      <4>2. CASE UNCHANGED <<completed, results>>
        BY <4>2
      <4> QED
        BY <1>14, <4>1, <4>2 DEF Http!CompleteBodyless, Http!Finish
    <3>6. /\ loc'[u] = loc[u] \/ pc[u] \notin {"deliver", "off"}
          /\ pc'[u] = pc[u] \/ (pc[u] \notin {"deliver", "off"} /\ pc'[u] # "deliver")
      BY <1>0, <1>14 DEF HtFacts, Http!CompleteBodyless, Http!Finish, Http!Deliver, Http!CloseHeld, Http!Shut, Http!Unwatch
    <3>7. /\ abort'[u] = "fail" => abort[u] = "fail" \/ writer[u]
          /\ abort'[u] = "close" => abort[u] = "close" \/ (completed'[u] /\ results'[u] # <<"body">>)
      BY <1>14 DEF Http!CompleteBodyless, Http!Finish, Http!Deliver, Http!CloseHeld, Http!Shut, Http!Unwatch
    <3>8. pump[u] = "copy" /\ conn'[loc[u]] = "closed" =>
            conn[loc[u]] = "closed" \/ loc[u] \in stray' \/ pipe[u] = "failed" \/ Doomed(u)
      <4>1. CASE Http!CloseHeld(t)
        <5>1. pump[t] # "copy"
          BY <1>0, <1>14 DEF HtPlace, Http!CompleteBodyless
        <5>2. \A c \in Conns : conn'[c] = IF c \in {held[t]} \cap Conns THEN "closed" ELSE conn[c]
          BY <1>0, <4>1, HtShut DEF Http!CloseHeld
        <5> QED
          BY <3>2, <5>1, <5>2
      <4>2. CASE UNCHANGED conn
        BY <4>2
      <4> QED
        BY <1>14, <4>1, <4>2 DEF Http!CompleteBodyless, Http!Finish
    <3> QED
      BY <3>1, <3>2, <3>3, <3>4, <3>5, <3>6, <3>7, <3>8, HtBodyKept
  <2> QED
    BY <2>1, <2>2, <2>3, <2>4, <2>5, <2>6 DEF HtInv
<1>15. ASSUME NEW t \in Transfers, Http!DeliverBody(t) PROVE HtInv'
  <2>1. HtFacts'
    BY <1>0, <1>15 DEF HtFacts, Http!TypeOK, Early, Steps, Http!Uses, Http!Elements, Http!ThreadsGone, Doomed, BodyOf, Http!DeliverBody, Http!Deliver
  <2>2. HtPlace'
    BY <1>0, <1>15 DEF HtPlace, HtFacts, Http!TypeOK, Early, Http!HttpConstants, Http!Uses, Http!Elements, Http!ThreadsGone, Doomed, BodyOf, Http!DeliverBody, Http!Deliver
  <2>3. HtOwn'
    <3>1. \A u \in Transfers, c \in Conns : Http!Uses(u, c)' <=> Http!Uses(u, c)
      BY <1>0, <1>15 DEF Http!Uses, HtPlace, HtFacts, Early, Http!HttpConstants, Http!DeliverBody, Http!Deliver
    <3>2. UNCHANGED <<conn, pool>>
      BY <1>15 DEF Http!DeliverBody, Http!Deliver
    <3>3. pool \in Seq(Conns)
      BY <1>0 DEF HtFacts, Http!TypeOK
    <3> QED
      BY <1>0, <3>1, <3>2, <3>3, HtShrink
  <2>4. HtDown'
    BY <1>0, <1>15 DEF HtDown, HtFacts, Http!TypeOK, Http!ThreadsGone, Steps, Early, HtPlace, Http!Uses, Http!Elements, Doomed, BodyOf, Http!DeliverBody, Http!Deliver
  <2>5. HtOnce'
    <3>1. Http!Deliver(t, "body") /\ aborted' = aborted /\ abort' = abort /\ adone' = adone
      BY <1>15 DEF Http!DeliverBody
    <3>2. \A u \in Transfers : pc'[u] = pc[u] \/ (u = t /\ pc'[u] = "off")
      BY <1>0, <1>15 DEF HtFacts, Http!DeliverBody
    <3> QED
      BY <1>0, <3>1, <3>2, HtOnceDeliver
  <2>6. HtBody'
    <3> SUFFICES ASSUME NEW u \in Transfers PROVE BodyOf(u)'
      BY DEF HtBody
    <3>1. BodyOf(u)
      BY <1>0 DEF HtBody
    <3>2. CASE u # t
      <4>1. /\ UNCHANGED <<conn, loc, stray>>
            /\ pipe'[u] = pipe[u] /\ cut'[u] = cut[u] /\ writer'[u] = writer[u] /\ pump'[u] = pump[u]
            /\ framing'[u] = framing[u] /\ left'[u] = left[u] /\ pc'[u] = pc[u]
            /\ completed'[u] = completed[u] /\ results'[u] = results[u] /\ abort'[u] = abort[u]
        BY <1>0, <1>15, <3>2 DEF HtFacts, Http!TypeOK, Http!DeliverBody, Http!Deliver
      <4> QED
        BY <3>1, <4>1 DEF BodyOf, Doomed
    <3>3. CASE u = t
      <4>1. pc[t] = "deliver" /\ pc'[t] = "off" /\ UNCHANGED <<conn, loc, stray, cut, pump, pipe, framing, left, abort>>
            /\ (writer'[t] <=> ~completed[t])
        BY <1>0, <1>15 DEF HtFacts, Http!DeliverBody
      <4>2. pipe[t] # "none" /\ ~writer[t] /\ results[t] # <<"body">> /\ abort[t] # "fail"
        BY <3>1, <3>3, <4>1 DEF BodyOf
      <4>3. completed'[t] /\ (completed[t] => results'[t] = results[t]) /\ (abort[t] # "idle" => completed[t])
        BY <1>0, <1>15, HtDeliver DEF Http!DeliverBody, HtOnce
      <4>4. CASE completed[t]
        BY <3>1, <3>3, <4>1, <4>2, <4>3, <4>4 DEF BodyOf, Doomed
      <4>5. CASE ~completed[t]
        <5>1. abort[t] = "idle" /\ ~Doomed(t)
          BY <1>0, <4>3, <4>5 DEF HtFacts, Doomed
        <5> QED
          BY <3>1, <3>3, <4>1, <4>2, <4>3, <4>5, <5>1 DEF BodyOf
      <4> QED
        BY <4>4, <4>5
    <3> QED
      BY <3>2, <3>3
  <2> QED
    BY <2>1, <2>2, <2>3, <2>4, <2>5, <2>6 DEF HtInv
<1>16. ASSUME NEW t \in Transfers, Http!Fail(t) PROVE HtInv'
  <2>1. HtFacts'
    BY <1>0, <1>16 DEF HtFacts, Http!TypeOK, Early, Steps, Http!Uses, Http!Elements, Http!ThreadsGone, Doomed, BodyOf, Http!Fail, Http!Finish, Http!Deliver, Http!CloseHeld, Http!Shut, Http!Unwatch
  <2>2. HtPlace'
    BY <1>0, <1>16 DEF HtPlace, HtFacts, Http!TypeOK, Early, Http!HttpConstants, Http!Uses, Http!Elements, Http!ThreadsGone, Doomed, BodyOf, Http!Fail, Http!Finish, Http!Deliver, Http!CloseHeld, Http!Shut, Http!Unwatch
  <2>3. HtOwn'
    <3>1. \A u \in Transfers, c \in Conns : Http!Uses(u, c)' => Http!Uses(u, c)
      BY <1>0, <1>16 DEF Http!Uses, HtPlace, HtFacts, Http!TypeOK, Early, Http!HttpConstants, Http!Fail, Http!Finish, Http!Deliver, Http!CloseHeld, Http!Shut, Http!Unwatch
    <3>2. /\ pool' = pool /\ pool \in Seq(Conns)
          /\ \A c \in Conns : (conn'[c] = "open" => conn[c] = "open") /\ (conn[c] # "unused" => conn'[c] # "unused")
      BY <1>0, <1>16 DEF HtFacts, Http!TypeOK, Http!Fail, Http!Finish, Http!Deliver, Http!CloseHeld, Http!Shut, Http!Unwatch
    <3>3. \A u \in Transfers, c \in Conns : Http!Uses(u, c) /\ ~Http!Uses(u, c)' => conn'[c] # "open"
      BY <1>0, <1>16 DEF Http!Uses, HtPlace, HtFacts, Http!TypeOK, Early, Http!HttpConstants, Http!Fail, Http!Finish, Http!Deliver, Http!CloseHeld, Http!Shut, Http!Unwatch
    <3> QED
      BY <1>0, <3>1, <3>2, <3>3, HtShrink
  <2>4. HtDown'
    BY <1>0, <1>16 DEF HtDown, HtFacts, Http!TypeOK, Http!ThreadsGone, Steps, Early, HtPlace, Http!Uses, Http!Elements, Doomed, BodyOf, Http!Fail, Http!Finish, Http!Deliver, Http!CloseHeld, Http!Shut, Http!Unwatch
  <2>5. HtOnce'
    <3>1. Http!Deliver(t, "error") /\ aborted' = aborted /\ abort' = abort /\ adone' = adone
      BY <1>16 DEF Http!Fail, Http!Finish
    <3>2. \A u \in Transfers : pc'[u] = pc[u] \/ (u = t /\ pc'[u] = "off")
      BY <1>0, <1>16 DEF HtFacts, Http!Fail, Http!Finish
    <3> QED
      BY <1>0, <3>1, <3>2, HtOnceDeliver
  <2>6. HtBody'
    <3> SUFFICES ASSUME NEW u \in Transfers PROVE BodyOf(u)'
      BY DEF HtBody
    <3>1. BodyOf(u)
      BY <1>0 DEF HtBody
    <3>2. pump[u] # "off" =>
            /\ loc[u] \in Conns /\ held[u] = loc[u] /\ pc[u] \in {"deliver", "off"}
            /\ conn[loc[u]] # "unused" /\ loc[u] \notin Http!Elements(pool) /\ Http!Uses(u, loc[u])
            /\ \A w \in Transfers : w # u => held[w] # loc[u] /\ (pc[w] = "set" => loc[w] # loc[u])
      BY <1>0, HtApart
    <3>3. /\ pipe'[u] = pipe[u] /\ cut'[u] = cut[u] /\ writer'[u] = writer[u]
          /\ framing'[u] = framing[u] /\ left'[u] = left[u] /\ stray \subseteq stray'
      BY <1>16 DEF Http!Fail, Http!Finish, Http!Deliver, Http!CloseHeld, Http!Shut, Http!Unwatch
    <3>4. pump'[u] = "copy" => pump[u] = "copy"
      BY <1>0, <1>16 DEF HtFacts, Http!Fail, Http!Finish, Http!Deliver, Http!CloseHeld, Http!Shut, Http!Unwatch
    <3>5. (completed[u] => completed'[u]) /\ (results'[u] = <<"body">> => results[u] = <<"body">>)
      <4>1. CASE Http!Deliver(t, "error")
        <5>1. <<"error">> # <<"body">>
          OBVIOUS
        <5>2. /\ completed'[t]
              /\ completed[t] => results'[t] = results[t]
              /\ ~completed[t] => results'[t] = <<"error">>
              /\ \A w \in Transfers : w # t => completed'[w] = completed[w] /\ results'[w] = results[w]
          BY <1>0, <4>1, HtDeliver
        <5> QED
          BY <5>1, <5>2
      <4>2. CASE UNCHANGED <<completed, results>>
        BY <4>2
      <4> QED
        BY <1>16, <4>1, <4>2 DEF Http!Fail, Http!Finish
    <3>6. /\ loc'[u] = loc[u] \/ pc[u] \notin {"deliver", "off"}
          /\ pc'[u] = pc[u] \/ (pc[u] \notin {"deliver", "off"} /\ pc'[u] # "deliver")
      BY <1>0, <1>16 DEF HtFacts, Http!Fail, Http!Finish, Http!Deliver, Http!CloseHeld, Http!Shut, Http!Unwatch
    <3>7. /\ abort'[u] = "fail" => abort[u] = "fail" \/ writer[u]
          /\ abort'[u] = "close" => abort[u] = "close" \/ (completed'[u] /\ results'[u] # <<"body">>)
      BY <1>16 DEF Http!Fail, Http!Finish, Http!Deliver, Http!CloseHeld, Http!Shut, Http!Unwatch
    <3>8. pump[u] = "copy" /\ conn'[loc[u]] = "closed" =>
            conn[loc[u]] = "closed" \/ loc[u] \in stray' \/ pipe[u] = "failed" \/ Doomed(u)
      <4>1. CASE Http!CloseHeld(t)
        <5>1. pump[t] # "copy"
          BY <1>0, <1>16 DEF HtPlace, Http!Fail
        <5>2. \A c \in Conns : conn'[c] = IF c \in {held[t]} \cap Conns THEN "closed" ELSE conn[c]
          BY <1>0, <4>1, HtShut DEF Http!CloseHeld
        <5> QED
          BY <3>2, <5>1, <5>2
      <4>2. CASE UNCHANGED conn
        BY <4>2
      <4> QED
        BY <1>16, <4>1, <4>2 DEF Http!Fail, Http!Finish
    <3> QED
      BY <3>1, <3>2, <3>3, <3>4, <3>5, <3>6, <3>7, <3>8, HtBodyKept
  <2> QED
    BY <2>1, <2>2, <2>3, <2>4, <2>5, <2>6 DEF HtInv
<1>17. ASSUME NEW t \in Transfers, Http!PumpPart(t) PROVE HtInv'
  <2>1. HtFacts'
    <3>1. UNCHANGED <<conn, pool, stopping, sdown, live, active, pc, loc, framing, pipe, completed, aborted, held, writer, abort, aconn, adone, results, cut, stray>>
      BY <1>17 DEF Http!PumpPart, Http!Works
    <3>2. left' \in [Transfers -> Nat]
      <4>1. CASE left' = [left EXCEPT ![t] = @ - 1]
        <5>1. left[t] \in Nat /\ left[t] > 0
          BY <1>0, <1>17 DEF HtFacts, Http!PumpPart
        <5>2. left[t] - 1 \in Nat
          BY <5>1
        <5> QED
          BY <1>0, <4>1, <5>2 DEF HtFacts
      <4>2. CASE UNCHANGED left
        BY <1>0, <4>2 DEF HtFacts
      <4> QED
        BY <1>17, <4>1, <4>2 DEF Http!PumpPart
    <3>3. pump' \in [Transfers -> {"off", "copy", "settle", "recycle"}]
      <4>1. (\E x \in {"settle"} : pump' = [pump EXCEPT ![t] = x]) \/ pump' = pump
        BY <1>17 DEF Http!PumpPart
      <4> QED
        BY <1>0, <4>1 DEF HtFacts, Http!TypeOK, Steps, Early
    <3>4. reusable' \in [Transfers -> BOOLEAN]
      <4>1. (\E x \in BOOLEAN : reusable' = [reusable EXCEPT ![t] = x]) \/ reusable' = reusable
        BY <1>17 DEF Http!PumpPart
      <4> QED
        BY <1>0, <4>1 DEF HtFacts, Http!TypeOK, Steps, Early
    <3> QED
      BY <1>0, <3>1, <3>2, <3>3, <3>4 DEF HtFacts, Http!TypeOK
  <2>2. HtPlace'
    BY <1>0, <1>17 DEF HtPlace, HtFacts, Http!TypeOK, Early, Http!HttpConstants, Http!Uses, Http!Elements, Http!ThreadsGone, Doomed, BodyOf, Http!PumpPart, Http!Works
  <2>3. HtOwn'
    <3>1. \A u \in Transfers, c \in Conns : Http!Uses(u, c)' <=> Http!Uses(u, c)
      BY <1>0, <1>17 DEF Http!Uses, HtPlace, HtFacts, Early, Http!HttpConstants, Http!PumpPart, Http!Works
    <3>2. UNCHANGED <<conn, pool>>
      BY <1>17 DEF Http!PumpPart, Http!Works
    <3>3. pool \in Seq(Conns)
      BY <1>0 DEF HtFacts, Http!TypeOK
    <3> QED
      BY <1>0, <3>1, <3>2, <3>3, HtShrink
  <2>4. HtDown'
    BY <1>0, <1>17 DEF HtDown, HtFacts, Http!TypeOK, Http!ThreadsGone, Steps, Early, HtPlace, Http!Uses, Http!Elements, Doomed, BodyOf, Http!PumpPart, Http!Works
  <2>5. HtOnce'
    BY <1>0, <1>17 DEF HtOnce, HtFacts, Http!TypeOK, HtPlace, Http!Uses, Http!Elements, Http!ThreadsGone, Doomed, BodyOf, Http!PumpPart, Http!Works
  <2>6. HtBody'
    <3> SUFFICES ASSUME NEW u \in Transfers PROVE BodyOf(u)'
      BY DEF HtBody
    <3>1. BodyOf(u)
      BY <1>0 DEF HtBody
    <3>2. CASE u # t
      <4>1. /\ UNCHANGED <<conn, loc, stray>>
            /\ pipe'[u] = pipe[u] /\ cut'[u] = cut[u] /\ writer'[u] = writer[u] /\ pump'[u] = pump[u]
            /\ framing'[u] = framing[u] /\ left'[u] = left[u] /\ pc'[u] = pc[u]
            /\ completed'[u] = completed[u] /\ results'[u] = results[u] /\ abort'[u] = abort[u]
        BY <1>0, <1>17, <3>2 DEF HtFacts, Http!TypeOK, Http!PumpPart, Http!Works
      <4> QED
        BY <3>1, <4>1 DEF BodyOf, Doomed
    <3>3. CASE u = t
      <4>1. /\ pump[t] = "copy" /\ UNCHANGED <<conn, loc, stray, cut, pc, pipe, framing, completed, results, abort, writer>>
            /\ (pump'[t] = pump[t] \/ pump'[t] = "settle")
        BY <1>0, <1>17 DEF HtFacts, Http!PumpPart
      <4> QED
        BY <3>1, <3>3, <4>1 DEF BodyOf, Doomed
    <3> QED
      BY <3>2, <3>3
  <2> QED
    BY <2>1, <2>2, <2>3, <2>4, <2>5, <2>6 DEF HtInv
<1>18. ASSUME NEW t \in Transfers, Http!PumpBreaks(t) PROVE HtInv'
  <2>1. HtFacts'
    BY <1>0, <1>18 DEF HtFacts, Http!TypeOK, Early, Steps, Http!Uses, Http!Elements, Http!ThreadsGone, Doomed, BodyOf, Http!PumpBreaks, Http!Ended
  <2>2. HtPlace'
    BY <1>0, <1>18 DEF HtPlace, HtFacts, Http!TypeOK, Early, Http!HttpConstants, Http!Uses, Http!Elements, Http!ThreadsGone, Doomed, BodyOf, Http!PumpBreaks, Http!Ended
  <2>3. HtOwn'
    <3>1. \A u \in Transfers, c \in Conns : Http!Uses(u, c)' <=> Http!Uses(u, c)
      BY <1>0, <1>18 DEF Http!Uses, HtPlace, HtFacts, Early, Http!HttpConstants, Http!PumpBreaks, Http!Ended
    <3>2. UNCHANGED <<conn, pool>>
      BY <1>18 DEF Http!PumpBreaks, Http!Ended
    <3>3. pool \in Seq(Conns)
      BY <1>0 DEF HtFacts, Http!TypeOK
    <3> QED
      BY <1>0, <3>1, <3>2, <3>3, HtShrink
  <2>4. HtDown'
    BY <1>0, <1>18 DEF HtDown, HtFacts, Http!TypeOK, Http!ThreadsGone, Steps, Early, HtPlace, Http!Uses, Http!Elements, Doomed, BodyOf, Http!PumpBreaks, Http!Ended
  <2>5. HtOnce'
    BY <1>0, <1>18 DEF HtOnce, HtFacts, Http!TypeOK, HtPlace, Http!Uses, Http!Elements, Http!ThreadsGone, Doomed, BodyOf, Http!PumpBreaks, Http!Ended
  <2>6. HtBody'
    <3> SUFFICES ASSUME NEW u \in Transfers PROVE BodyOf(u)'
      BY DEF HtBody
    <3>1. BodyOf(u)
      BY <1>0 DEF HtBody
    <3>2. CASE u # t
      <4>1. /\ UNCHANGED <<conn, loc, stray>>
            /\ pipe'[u] = pipe[u] /\ cut'[u] = cut[u] /\ writer'[u] = writer[u] /\ pump'[u] = pump[u]
            /\ framing'[u] = framing[u] /\ left'[u] = left[u] /\ pc'[u] = pc[u]
            /\ completed'[u] = completed[u] /\ results'[u] = results[u] /\ abort'[u] = abort[u]
        BY <1>0, <1>18, <3>2 DEF HtFacts, Http!TypeOK, Http!PumpBreaks, Http!Ended
      <4> QED
        BY <3>1, <4>1 DEF BodyOf, Doomed
    <3>3. CASE u = t
      <4>1. /\ pump[t] = "copy" /\ UNCHANGED <<conn, loc, stray, pc, framing, left, completed, results, abort, writer>>
            /\ pump'[t] = "settle"
            /\ pipe'[t] = (IF pipe[t] = "open" THEN IF framing[t] = "close" THEN "finished" ELSE "failed" ELSE pipe[t])
            /\ cut'[t] = (conn[loc[t]] = "closed" /\ pipe[t] = "open")
        BY <1>0, <1>18 DEF HtFacts, Http!TypeOK, Http!PumpBreaks, Http!Ended
      <4>2. pc[t] \in {"deliver", "off"}
        BY <1>0, <4>1 DEF HtPlace
      <4>3. pipe[t] \in {"open", "failed"}
        BY <3>1, <3>3, <4>1 DEF BodyOf
      <4>4. cut'[t] /\ pipe'[t] = "finished" => loc[t] \in stray \/ Doomed(t)
        BY <3>1, <3>3, <4>1, <4>3 DEF BodyOf
      <4>5. pipe'[t] = "finished" => framing[t] = "close"
        BY <4>1, <4>3
      <4> QED
        BY <3>1, <3>3, <4>1, <4>2, <4>3, <4>4, <4>5 DEF BodyOf, Doomed
    <3> QED
      BY <3>2, <3>3
  <2> QED
    BY <2>1, <2>2, <2>3, <2>4, <2>5, <2>6 DEF HtInv
<1>19. ASSUME NEW t \in Transfers, Http!PumpWhole(t) PROVE HtInv'
  <2>1. HtFacts'
    BY <1>0, <1>19 DEF HtFacts, Http!TypeOK, Early, Steps, Http!Uses, Http!Elements, Http!ThreadsGone, Doomed, BodyOf, Http!PumpWhole
  <2>2. HtPlace'
    BY <1>0, <1>19 DEF HtPlace, HtFacts, Http!TypeOK, Early, Http!HttpConstants, Http!Uses, Http!Elements, Http!ThreadsGone, Doomed, BodyOf, Http!PumpWhole
  <2>3. HtOwn'
    <3>1. \A u \in Transfers, c \in Conns : Http!Uses(u, c)' <=> Http!Uses(u, c)
      BY <1>0, <1>19 DEF Http!Uses, HtPlace, HtFacts, Early, Http!HttpConstants, Http!PumpWhole
    <3>2. UNCHANGED <<conn, pool>>
      BY <1>19 DEF Http!PumpWhole
    <3>3. pool \in Seq(Conns)
      BY <1>0 DEF HtFacts, Http!TypeOK
    <3> QED
      BY <1>0, <3>1, <3>2, <3>3, HtShrink
  <2>4. HtDown'
    BY <1>0, <1>19 DEF HtDown, HtFacts, Http!TypeOK, Http!ThreadsGone, Steps, Early, HtPlace, Http!Uses, Http!Elements, Doomed, BodyOf, Http!PumpWhole
  <2>5. HtOnce'
    BY <1>0, <1>19 DEF HtOnce, HtFacts, Http!TypeOK, HtPlace, Http!Uses, Http!Elements, Http!ThreadsGone, Doomed, BodyOf, Http!PumpWhole
  <2>6. HtBody'
    BY <1>0, <1>19 DEF HtBody, HtFacts, Http!TypeOK, BodyOf, Doomed, HtPlace, HtOnce, Http!Uses, Http!Elements, Http!ThreadsGone, Http!PumpWhole
  <2> QED
    BY <2>1, <2>2, <2>3, <2>4, <2>5, <2>6 DEF HtInv
<1>20. ASSUME NEW t \in Transfers, Http!PumpSettle(t) PROVE HtInv'
  <2>1. HtFacts'
    <3>1. UNCHANGED <<pool, stopping, sdown, live, active, pc, loc, framing, left, reusable, pipe, completed, aborted, writer, abort, aconn, adone, results, cut, stray>>
      BY <1>20 DEF Http!PumpSettle, Http!Keep, Http!CloseHeld, Http!Shut, Http!Unwatch
    <3>2. pump' \in [Transfers -> {"off", "copy", "settle", "recycle"}]
      <4>1. (\E x \in {"recycle", "off"} : pump' = [pump EXCEPT ![t] = x])
        BY <1>20 DEF Http!PumpSettle
      <4> QED
        BY <1>0, <4>1 DEF HtFacts, Http!TypeOK, Steps, Early
    <3>3. conn' \in [Conns -> {"unused", "open", "closed"}]
      <4>1. CASE Http!CloseHeld(t)
        BY <1>0, <4>1, HtShut DEF Http!CloseHeld
      <4>2. CASE UNCHANGED conn
        BY <1>0, <4>2 DEF HtFacts, Http!TypeOK
      <4> QED
        BY <1>20, <4>1, <4>2 DEF Http!PumpSettle
    <3>4. held' \in [Transfers -> Conns \cup {None}]
      BY <1>0, <1>20 DEF HtFacts, Http!TypeOK, Http!PumpSettle, Http!CloseHeld
    <3> QED
      BY <1>0, <3>1, <3>2, <3>3, <3>4 DEF HtFacts, Http!TypeOK
  <2>2. HtPlace'
    BY <1>0, <1>20 DEF HtPlace, HtFacts, Http!TypeOK, Early, Http!HttpConstants, Http!Uses, Http!Elements, Http!ThreadsGone, Doomed, BodyOf, Http!PumpSettle, Http!Keep, Http!CloseHeld, Http!Shut, Http!Unwatch
  <2>3. HtOwn'
    <3>1. \A u \in Transfers, c \in Conns : Http!Uses(u, c)' => Http!Uses(u, c)
      BY <1>0, <1>20 DEF Http!Uses, HtPlace, HtFacts, Http!TypeOK, Early, Http!HttpConstants, Http!PumpSettle, Http!Keep, Http!CloseHeld, Http!Shut, Http!Unwatch
    <3>2. /\ pool' = pool /\ pool \in Seq(Conns)
          /\ \A c \in Conns : (conn'[c] = "open" => conn[c] = "open") /\ (conn[c] # "unused" => conn'[c] # "unused")
      BY <1>0, <1>20 DEF HtFacts, Http!TypeOK, Http!PumpSettle, Http!Keep, Http!CloseHeld, Http!Shut, Http!Unwatch
    <3>3. \A u \in Transfers, c \in Conns : Http!Uses(u, c) /\ ~Http!Uses(u, c)' => conn'[c] # "open"
      BY <1>0, <1>20 DEF Http!Uses, HtPlace, HtFacts, Http!TypeOK, Early, Http!HttpConstants, Http!PumpSettle, Http!Keep, Http!CloseHeld, Http!Shut, Http!Unwatch
    <3> QED
      BY <1>0, <3>1, <3>2, <3>3, HtShrink
  <2>4. HtDown'
    BY <1>0, <1>20 DEF HtDown, HtFacts, Http!TypeOK, Http!ThreadsGone, Steps, Early, HtPlace, Http!Uses, Http!Elements, Doomed, BodyOf, Http!PumpSettle, Http!Keep, Http!CloseHeld, Http!Shut, Http!Unwatch
  <2>5. HtOnce'
    BY <1>0, <1>20 DEF HtOnce, HtFacts, Http!TypeOK, HtPlace, Http!Uses, Http!Elements, Http!ThreadsGone, Doomed, BodyOf, Http!PumpSettle, Http!Keep, Http!CloseHeld, Http!Shut, Http!Unwatch
  <2>6. HtBody'
    <3> SUFFICES ASSUME NEW u \in Transfers PROVE BodyOf(u)'
      BY DEF HtBody
    <3>1. BodyOf(u)
      BY <1>0 DEF HtBody
    <3>2. pump[u] # "off" =>
            /\ loc[u] \in Conns /\ held[u] = loc[u] /\ pc[u] \in {"deliver", "off"}
            /\ conn[loc[u]] # "unused" /\ loc[u] \notin Http!Elements(pool) /\ Http!Uses(u, loc[u])
            /\ \A w \in Transfers : w # u => held[w] # loc[u] /\ (pc[w] = "set" => loc[w] # loc[u])
      BY <1>0, HtApart
    <3>3. /\ pipe'[u] = pipe[u] /\ cut'[u] = cut[u] /\ writer'[u] = writer[u]
          /\ framing'[u] = framing[u] /\ left'[u] = left[u] /\ stray \subseteq stray'
      BY <1>20 DEF Http!PumpSettle, Http!Keep, Http!CloseHeld, Http!Shut, Http!Unwatch
    <3>4. pump'[u] = "copy" => pump[u] = "copy"
      BY <1>0, <1>20 DEF HtFacts, Http!PumpSettle, Http!Keep, Http!CloseHeld, Http!Shut, Http!Unwatch
    <3>5. (completed[u] => completed'[u]) /\ (results'[u] = <<"body">> => results[u] = <<"body">>)
      BY <1>20 DEF Http!PumpSettle, Http!Keep, Http!CloseHeld, Http!Shut, Http!Unwatch
    <3>6. /\ loc'[u] = loc[u] \/ pc[u] \notin {"deliver", "off"}
          /\ pc'[u] = pc[u] \/ (pc[u] \notin {"deliver", "off"} /\ pc'[u] # "deliver")
      BY <1>0, <1>20 DEF HtFacts, Http!PumpSettle, Http!Keep, Http!CloseHeld, Http!Shut, Http!Unwatch
    <3>7. /\ abort'[u] = "fail" => abort[u] = "fail" \/ writer[u]
          /\ abort'[u] = "close" => abort[u] = "close" \/ (completed'[u] /\ results'[u] # <<"body">>)
      BY <1>20 DEF Http!PumpSettle, Http!Keep, Http!CloseHeld, Http!Shut, Http!Unwatch
    <3>8. pump[u] = "copy" /\ conn'[loc[u]] = "closed" =>
            conn[loc[u]] = "closed" \/ loc[u] \in stray' \/ pipe[u] = "failed" \/ Doomed(u)
      <4>1. CASE Http!CloseHeld(t)
        <5>1. pump[t] # "copy"
          BY <1>0, <1>20 DEF HtPlace, Http!PumpSettle
        <5>2. \A c \in Conns : conn'[c] = IF c \in {held[t]} \cap Conns THEN "closed" ELSE conn[c]
          BY <1>0, <4>1, HtShut DEF Http!CloseHeld
        <5> QED
          BY <3>2, <5>1, <5>2
      <4>2. CASE UNCHANGED conn
        BY <4>2
      <4> QED
        BY <1>20, <4>1, <4>2 DEF Http!PumpSettle
    <3> QED
      BY <3>1, <3>2, <3>3, <3>4, <3>5, <3>6, <3>7, <3>8, HtBodyKept
  <2> QED
    BY <2>1, <2>2, <2>3, <2>4, <2>5, <2>6 DEF HtInv
<1>21. ASSUME NEW t \in Transfers, Http!PumpRecycle(t) PROVE HtInv'
  <2>0. ASSUME Http!Recycle(t)
        PROVE  /\ HtOwn' /\ pool' \in Seq(Conns) /\ Len(pool') <= MaxPerHost
               /\ conn' \in [Conns -> {"unused", "open", "closed"}]
               /\ \A u \in Transfers : u # t => \A x \in Conns : Http!Uses(u, x) => conn'[x] = conn[x]
    <3>1. held[t] = loc[t] /\ loc[t] \in Conns
      BY <1>0, <1>21 DEF HtPlace, Http!PumpRecycle, Http!Unwatch
    <3>2. \A u \in Transfers : u # t => \A x \in Conns : Http!Uses(u, x)' <=> Http!Uses(u, x)
      BY <1>0, <1>21, <2>0 DEF HtFacts, Http!TypeOK, Http!Uses, Http!PumpRecycle, Http!Unwatch, Http!Recycle
    <3>3. \A x \in Conns : ~Http!Uses(t, x)'
      <4>1. pc[t] # "set" /\ pc' = pc /\ held'[t] = None
        BY <1>0, <1>21, <2>0 DEF HtFacts, Http!TypeOK, HtPlace, Http!PumpRecycle, Http!Recycle
      <4> QED
        BY <4>1 DEF Http!Uses, Http!HttpConstants
    <3> QED
      BY <1>0, <2>0, <3>1, <3>2, <3>3, HtRecycle
  <2>1. HtFacts'
    <3>1. UNCHANGED <<stopping, sdown, live, active, pc, loc, framing, left, reusable, pipe, completed, aborted, writer, abort, aconn, adone, results, cut, stray>>
      BY <1>21 DEF Http!PumpRecycle, Http!Recycle, Http!Shut, Http!Unwatch
    <3>2. /\ conn' \in [Conns -> {"unused", "open", "closed"}]
          /\ pool' \in Seq(Conns) /\ Len(pool') <= MaxPerHost
      BY <1>0, <1>21, <2>0 DEF Http!PumpRecycle
    <3>3. held' \in [Transfers -> Conns \cup {None}]
      BY <1>0, <1>21 DEF HtFacts, Http!TypeOK, Http!PumpRecycle, Http!Recycle
    <3>4. pump' \in [Transfers -> {"off", "copy", "settle", "recycle"}]
      BY <1>0, <1>21 DEF HtFacts, Http!PumpRecycle
    <3> QED
      BY <1>0, <3>1, <3>2, <3>3, <3>4 DEF HtFacts, Http!TypeOK
  <2>2. HtPlace'
    BY <1>0, <1>21, <2>0 DEF HtPlace, HtFacts, Http!TypeOK, Early, Http!HttpConstants, Http!Uses, Http!Elements, Http!ThreadsGone, Doomed, BodyOf, Http!PumpRecycle, Http!Recycle, Http!Shut, Http!Unwatch
  <2>3. HtOwn'
    BY <1>21, <2>0 DEF Http!PumpRecycle
  <2>4. HtDown'
    BY <1>0, <1>21, <2>0 DEF HtDown, HtFacts, Http!TypeOK, Http!ThreadsGone, Steps, Early, HtPlace, Http!Uses, Http!Elements, Doomed, BodyOf, Http!PumpRecycle, Http!Recycle, Http!Shut, Http!Unwatch
  <2>5. HtOnce'
    BY <1>0, <1>21, <2>0 DEF HtOnce, HtFacts, Http!TypeOK, HtPlace, Http!Uses, Http!Elements, Http!ThreadsGone, Doomed, BodyOf, Http!PumpRecycle, Http!Recycle, Http!Shut, Http!Unwatch
  <2>6. HtBody'
    <3> SUFFICES ASSUME NEW u \in Transfers PROVE BodyOf(u)'
      BY DEF HtBody
    <3>1. BodyOf(u)
      BY <1>0 DEF HtBody
    <3>2. pump[u] # "off" =>
            /\ loc[u] \in Conns /\ held[u] = loc[u] /\ pc[u] \in {"deliver", "off"}
            /\ conn[loc[u]] # "unused" /\ loc[u] \notin Http!Elements(pool) /\ Http!Uses(u, loc[u])
            /\ \A w \in Transfers : w # u => held[w] # loc[u] /\ (pc[w] = "set" => loc[w] # loc[u])
      BY <1>0, HtApart
    <3>3. /\ pipe'[u] = pipe[u] /\ cut'[u] = cut[u] /\ writer'[u] = writer[u]
          /\ framing'[u] = framing[u] /\ left'[u] = left[u] /\ stray \subseteq stray'
      BY <1>21 DEF Http!PumpRecycle, Http!Recycle, Http!Shut, Http!Unwatch
    <3>4. pump'[u] = "copy" => pump[u] = "copy"
      BY <1>0, <1>21 DEF HtFacts, Http!PumpRecycle, Http!Recycle, Http!Shut, Http!Unwatch
    <3>5. (completed[u] => completed'[u]) /\ (results'[u] = <<"body">> => results[u] = <<"body">>)
      BY <1>21 DEF Http!PumpRecycle, Http!Recycle, Http!Shut, Http!Unwatch
    <3>6. /\ loc'[u] = loc[u] \/ pc[u] \notin {"deliver", "off"}
          /\ pc'[u] = pc[u] \/ (pc[u] \notin {"deliver", "off"} /\ pc'[u] # "deliver")
      BY <1>0, <1>21 DEF HtFacts, Http!PumpRecycle, Http!Recycle, Http!Shut, Http!Unwatch
    <3>7. /\ abort'[u] = "fail" => abort[u] = "fail" \/ writer[u]
          /\ abort'[u] = "close" => abort[u] = "close" \/ (completed'[u] /\ results'[u] # <<"body">>)
      BY <1>21 DEF Http!PumpRecycle, Http!Recycle, Http!Shut, Http!Unwatch
    <3>8. pump[u] = "copy" /\ conn'[loc[u]] = "closed" =>
            conn[loc[u]] = "closed" \/ loc[u] \in stray' \/ pipe[u] = "failed" \/ Doomed(u)
      <4>1. CASE Http!Recycle(t)
        <5>1. pump[t] # "copy"
          BY <1>0, <1>21 DEF HtPlace, Http!PumpRecycle
        <5>2. \A w \in Transfers : w # t => \A x \in Conns : Http!Uses(w, x) => conn'[x] = conn[x]
          BY <2>0, <4>1
        <5> QED
          BY <3>2, <5>1, <5>2
      <4> QED
        BY <1>21, <4>1 DEF Http!PumpRecycle
    <3> QED
      BY <3>1, <3>2, <3>3, <3>4, <3>5, <3>6, <3>7, <3>8, HtBodyKept
  <2> QED
    BY <2>1, <2>2, <2>3, <2>4, <2>5, <2>6 DEF HtInv
<1>22. ASSUME NEW t \in Transfers, Http!CloseReader(t) PROVE HtInv'
  <2>1. HtPlace' /\ HtOwn' /\ HtDown' /\ HtOnce' /\ HtBody'
    BY <1>0, <1>22 DEF HtPlace, HtOwn, HtDown, HtOnce, HtBody, Http!Uses, Http!Elements, Http!ThreadsGone, Doomed, BodyOf, Http!CloseReader
  <2>2. HtFacts'
    BY <1>0, <1>22 DEF HtFacts, Http!TypeOK, Early, Steps, Http!Uses, Http!Elements, Http!ThreadsGone, Doomed, BodyOf, Http!CloseReader
  <2> QED
    BY <2>1, <2>2 DEF HtInv
<1>23. ASSUME NEW t \in Transfers, Http!AbortFail(t) PROVE HtInv'
  <2>1. HtPlace' /\ HtOwn' /\ HtDown'
    BY <1>0, <1>23 DEF HtPlace, HtOwn, HtDown, Http!Uses, Http!Elements, Http!ThreadsGone, Doomed, BodyOf, Http!AbortFail
  <2>2. HtFacts'
    BY <1>0, <1>23 DEF HtFacts, Http!TypeOK, Early, Steps, Http!Uses, Http!Elements, Http!ThreadsGone, Doomed, BodyOf, Http!AbortFail
  <2>3. HtOnce'
    BY <1>0, <1>23 DEF HtOnce, HtFacts, Http!TypeOK, HtPlace, Http!Uses, Http!Elements, Http!ThreadsGone, Doomed, BodyOf, Http!AbortFail
  <2>4. HtBody'
    BY <1>0, <1>23 DEF HtBody, HtFacts, Http!TypeOK, BodyOf, Doomed, HtPlace, HtOnce, Http!Uses, Http!Elements, Http!ThreadsGone, Http!AbortFail
  <2> QED
    BY <2>1, <2>2, <2>3, <2>4 DEF HtInv
<1>24. ASSUME NEW t \in Transfers, Http!AbortClose(t) PROVE HtInv'
  <2>1. HtPlace' /\ HtDown'
    BY <1>0, <1>24 DEF HtPlace, HtDown, Http!Uses, Http!Elements, Http!ThreadsGone, Doomed, BodyOf, Http!AbortClose, Http!Shut, Http!HandedOn
  <2>2. HtFacts'
    BY <1>0, <1>24 DEF HtFacts, Http!TypeOK, Early, Steps, Http!Uses, Http!Elements, Http!ThreadsGone, Doomed, BodyOf, Http!AbortClose, Http!Shut, Http!HandedOn
  <2>3. HtOwn'
    <3>1. \A u \in Transfers, c \in Conns : Http!Uses(u, c)' => Http!Uses(u, c)
      BY <1>0, <1>24 DEF Http!Uses, HtPlace, HtFacts, Http!TypeOK, Early, Http!HttpConstants, Http!AbortClose, Http!Shut, Http!HandedOn
    <3>2. /\ pool' = pool /\ pool \in Seq(Conns)
          /\ \A c \in Conns : (conn'[c] = "open" => conn[c] = "open") /\ (conn[c] # "unused" => conn'[c] # "unused")
      BY <1>0, <1>24 DEF HtFacts, Http!TypeOK, Http!AbortClose, Http!Shut, Http!HandedOn
    <3>3. \A u \in Transfers, c \in Conns : Http!Uses(u, c) /\ ~Http!Uses(u, c)' => conn'[c] # "open"
      BY <1>0, <1>24 DEF Http!Uses, HtPlace, HtFacts, Http!TypeOK, Early, Http!HttpConstants, Http!AbortClose, Http!Shut, Http!HandedOn
    <3> QED
      BY <1>0, <3>1, <3>2, <3>3, HtShrink
  <2>4. HtOnce'
    <3>1. /\ UNCHANGED <<completed, aborted, pc>> /\ abort[t] = "close"
          /\ results'[t] = (IF adone[t] THEN Append(results[t], "error") ELSE results[t])
          /\ abort'[t] = "idle" /\ ~adone'[t]
          /\ \A u \in Transfers : u # t => results'[u] = results[u] /\ abort'[u] = abort[u] /\ adone'[u] = adone[u]
      BY <1>0, <1>24 DEF HtFacts, Http!AbortClose
    <3>2. results[t] \in Seq({"error", "response", "body"})
      BY <1>0 DEF HtFacts
    <3>3. adone[t] => Len(results[t]) = 0 /\ completed[t]
      BY <1>0 DEF HtOnce
    <3>4. adone[t] => Len(Append(results[t], "error")) = 1
      BY <3>2, <3>3
    <3>5. abort'[t] = "idle" /\ ~adone'[t] /\ aborted[t]
      BY <1>0, <3>1 DEF HtOnce
    <3>6. Len(results'[t]) = IF completed[t] THEN 1 ELSE 0
      BY <1>0, <3>1, <3>3, <3>4 DEF HtOnce
    <3>7. ASSUME NEW u \in Transfers
          PROVE  /\ Len(results'[u]) = IF completed'[u] /\ ~adone'[u] THEN 1 ELSE 0
                 /\ adone'[u] => completed'[u] /\ abort'[u] # "idle"
                 /\ aborted'[u] => completed'[u]
                 /\ abort'[u] # "idle" => aborted'[u]
                 /\ pc'[u] = "off" => completed'[u]
                 /\ pc'[u] = "leave" => aborted'[u]
      <4>1. CASE u = t
        BY <1>0, <3>1, <3>5, <3>6, <4>1 DEF HtOnce
      <4>2. CASE u # t
        BY <1>0, <3>1, <4>2 DEF HtOnce
      <4> QED
        BY <4>1, <4>2
    <3> QED
      BY <3>7 DEF HtOnce
  <2>5. HtBody'
    <3> SUFFICES ASSUME NEW u \in Transfers PROVE BodyOf(u)'
      BY DEF HtBody
    <3>1. BodyOf(u)
      BY <1>0 DEF HtBody
    <3>2. pump[u] # "off" =>
            /\ loc[u] \in Conns /\ held[u] = loc[u] /\ pc[u] \in {"deliver", "off"}
            /\ conn[loc[u]] # "unused" /\ loc[u] \notin Http!Elements(pool) /\ Http!Uses(u, loc[u])
            /\ \A w \in Transfers : w # u => held[w] # loc[u] /\ (pc[w] = "set" => loc[w] # loc[u])
      BY <1>0, HtApart
    <3>3. /\ pipe'[u] = pipe[u] /\ cut'[u] = cut[u] /\ writer'[u] = writer[u]
          /\ framing'[u] = framing[u] /\ left'[u] = left[u] /\ stray \subseteq stray'
      BY <1>24 DEF Http!AbortClose, Http!Shut, Http!HandedOn
    <3>4. pump'[u] = "copy" => pump[u] = "copy"
      BY <1>0, <1>24 DEF HtFacts, Http!AbortClose, Http!Shut, Http!HandedOn
    <3>5. (completed[u] => completed'[u]) /\ (results'[u] = <<"body">> => results[u] = <<"body">>)
      <4>1. CASE u = t /\ adone[t]
        <5>1. results[t] \in Seq({"error", "response", "body"}) /\ Len(results[t]) = 0
          BY <1>0, <4>1 DEF HtFacts, HtOnce
        <5>2. results'[t] = Append(results[t], "error")
          BY <1>0, <1>24, <4>1 DEF HtFacts, Http!AbortClose
        <5>3. results'[t] = <<"error">>
          <6>1. results[t] = <<>>
            BY <5>1
          <6> QED
            BY <5>2, <6>1
        <5>4. <<"error">> # <<"body">>
          OBVIOUS
        <5> QED
          BY <1>24, <4>1, <5>3, <5>4 DEF Http!AbortClose
      <4>2. CASE u # t \/ ~adone[t]
        BY <1>0, <1>24, <4>2 DEF HtFacts, Http!AbortClose
      <4> QED
        BY <4>1, <4>2
    <3>6. /\ loc'[u] = loc[u] \/ pc[u] \notin {"deliver", "off"}
          /\ pc'[u] = pc[u] \/ (pc[u] \notin {"deliver", "off"} /\ pc'[u] # "deliver")
      BY <1>0, <1>24 DEF HtFacts, Http!AbortClose, Http!Shut, Http!HandedOn
    <3>7. /\ abort'[u] = "fail" => abort[u] = "fail" \/ writer[u]
          /\ abort'[u] = "close" => abort[u] = "close" \/ (completed'[u] /\ results'[u] # <<"body">>)
      BY <1>0, <1>24 DEF HtFacts, Http!AbortClose
    <3>8. pump[u] = "copy" /\ conn'[loc[u]] = "closed" =>
            conn[loc[u]] = "closed" \/ loc[u] \in stray' \/ pipe[u] = "failed" \/ Doomed(u)
      <4>1. \A c \in Conns : conn'[c] = IF c \in {aconn[t]} \cap Conns THEN "closed" ELSE conn[c]
        BY <1>0, <1>24, HtShut DEF Http!AbortClose
      <4>2. CASE pump[u] = "copy" /\ loc[u] = aconn[t] /\ u # t
        <5>1. Http!HandedOn(t, aconn[t])
          BY <3>2, <4>2 DEF Http!HandedOn
        <5>2. stray' = stray \cup {aconn[t]}
          BY <1>24, <5>1 DEF Http!AbortClose
        <5> QED
          BY <4>2, <5>2
      <4>3. CASE pump[u] = "copy" /\ u = t
        <5>1. abort[t] = "close"
          BY <1>24 DEF Http!AbortClose
        <5> QED
          BY <3>1, <4>3, <5>1 DEF BodyOf
      <4> QED
        BY <3>2, <4>1, <4>2, <4>3
    <3> QED
      BY <3>1, <3>2, <3>3, <3>4, <3>5, <3>6, <3>7, <3>8, HtBodyKept
  <2> QED
    BY <2>1, <2>2, <2>3, <2>4, <2>5 DEF HtInv
<1>25. ASSUME NEW t \in Transfers, Http!Cancel(t) PROVE HtInv'
  <2>1. HtPlace' /\ HtOwn' /\ HtDown' /\ HtOnce' /\ HtBody'
    BY <1>0, <1>25 DEF HtPlace, HtOwn, HtDown, HtOnce, HtBody, Http!Uses, Http!Elements, Http!ThreadsGone, Doomed, BodyOf, Http!Cancel
  <2>2. HtFacts'
    BY <1>0, <1>25 DEF HtFacts, Http!TypeOK, Early, Steps, Http!Uses, Http!Elements, Http!ThreadsGone, Doomed, BodyOf, Http!Cancel
  <2> QED
    BY <2>1, <2>2 DEF HtInv
<1>26. ASSUME NEW t \in Transfers, Http!CancelCall(t) PROVE HtInv'
  <2>1. HtPlace' /\ HtOwn' /\ HtDown'
    BY <1>0, <1>26 DEF HtPlace, HtOwn, HtDown, Http!Uses, Http!Elements, Http!ThreadsGone, Doomed, BodyOf, Http!CancelCall, Http!AbortBegin, Http!Claimed
  <2>2. HtFacts'
    <3>1. UNCHANGED <<conn, pool, stopping, sdown, live, active, pc, loc, framing, left, reusable, pump, pipe, held, writer, results, cut, stray>>
      BY <1>26 DEF Http!CancelCall, Http!AbortBegin, Http!Claimed
    <3>2. /\ completed' \in [Transfers -> BOOLEAN]
          /\ aborted' \in [Transfers -> BOOLEAN]
          /\ adone' \in [Transfers -> BOOLEAN]
          /\ aconn' \in [Transfers -> Conns \cup {None}]
          /\ abort' \in [Transfers -> {"idle", "fail", "close"}]
      <4>1. CASE Http!AbortBegin(t, "canceller")
        BY <1>0, <4>1, HtBegin
      <4>2. CASE UNCHANGED <<Http!aborting, completed, aborted>>
        BY <1>0, <4>2 DEF HtFacts
      <4> QED
        BY <1>26, <4>1, <4>2 DEF Http!CancelCall
    <3> QED
      BY <1>0, <3>1, <3>2 DEF HtFacts, Http!TypeOK
  <2>3. HtOnce'
    <3>1. CASE Http!AbortBegin(t, "canceller")
      <4>1. results' = results /\ \A u \in Transfers : pc'[u] = pc[u] \/ pc'[u] \notin {"off", "leave"}
        BY <1>0, <1>26, <3>1 DEF HtFacts, Http!CancelCall
      <4> QED
        BY <1>0, <3>1, <4>1, HtOnceBegin
    <3>2. CASE UNCHANGED <<Http!aborting, completed, aborted>>
      BY <1>0, <1>26, <3>2 DEF HtOnce, HtFacts, Http!CancelCall
    <3> QED
      BY <1>26, <3>1, <3>2 DEF Http!CancelCall
  <2>4. HtBody'
    BY <1>0, <1>26 DEF HtBody, HtFacts, Http!TypeOK, BodyOf, Doomed, HtPlace, HtOnce, Http!Uses, Http!Elements, Http!ThreadsGone, Http!CancelCall, Http!AbortBegin, Http!Claimed
  <2> QED
    BY <2>1, <2>2, <2>3, <2>4 DEF HtInv
<1>27. CASE Http!ShutdownBegin
  <2>1. HtPlace' /\ HtOwn' /\ HtOnce' /\ HtBody'
    BY <1>0, <1>27 DEF HtPlace, HtOwn, HtOnce, HtBody, Http!Uses, Http!Elements, Http!ThreadsGone, Doomed, BodyOf, Http!ShutdownBegin
  <2>2. HtFacts'
    BY <1>0, <1>27 DEF HtFacts, Http!TypeOK, Early, Steps, Http!Uses, Http!Elements, Http!ThreadsGone, Doomed, BodyOf, Http!ShutdownBegin
  <2>3. HtDown'
    BY <1>0, <1>27 DEF HtDown, HtFacts, Http!TypeOK, Http!ThreadsGone, Steps, Early, HtPlace, Http!Uses, Http!Elements, Doomed, BodyOf, Http!ShutdownBegin
  <2> QED
    BY <2>1, <2>2, <2>3 DEF HtInv
<1>28. CASE Http!ShutdownCollect
  <2>1. HtPlace' /\ HtOwn' /\ HtOnce' /\ HtBody'
    BY <1>0, <1>28 DEF HtPlace, HtOwn, HtOnce, HtBody, Http!Uses, Http!Elements, Http!ThreadsGone, Doomed, BodyOf, Http!ShutdownCollect, Http!Collected
  <2>2. HtFacts'
    BY <1>0, <1>28 DEF HtFacts, Http!TypeOK, Early, Steps, Http!Uses, Http!Elements, Http!ThreadsGone, Doomed, BodyOf, Http!ShutdownCollect, Http!Collected
  <2>3. HtDown'
    BY <1>0, <1>28 DEF HtDown, HtFacts, Http!TypeOK, Http!ThreadsGone, Steps, Early, HtPlace, Http!Uses, Http!Elements, Doomed, BodyOf, Http!ShutdownCollect, Http!Collected
  <2> QED
    BY <2>1, <2>2, <2>3 DEF HtInv
<1>29. CASE Http!ShutdownAbort
  <2>1. HtPlace' /\ HtOwn'
    BY <1>0, <1>29 DEF HtPlace, HtOwn, Http!Uses, Http!Elements, Http!ThreadsGone, Doomed, BodyOf, Http!ShutdownAbort, Http!AbortBegin, Http!Claimed
  <2>2. HtFacts'
    <3>1. UNCHANGED <<conn, pool, stopping, active, pc, loc, framing, left, reusable, pump, pipe, held, writer, results, cut, stray>>
      BY <1>29 DEF Http!ShutdownAbort, Http!AbortBegin, Http!Claimed
    <3>2. sdown' \in {"no", "collect", "abort", "join", "done"}
      BY <1>0, <1>29 DEF HtFacts, Http!ShutdownAbort
    <3>3. live' \subseteq Transfers
      BY <1>0, <1>29 DEF HtFacts, Http!ShutdownAbort
    <3>4. /\ completed' \in [Transfers -> BOOLEAN]
          /\ aborted' \in [Transfers -> BOOLEAN]
          /\ adone' \in [Transfers -> BOOLEAN]
          /\ aconn' \in [Transfers -> Conns \cup {None}]
          /\ abort' \in [Transfers -> {"idle", "fail", "close"}]
      <4>1. CASE \E u \in live : Http!AbortBegin(u, "shutdown")
        <5>1. PICK u \in Transfers : Http!AbortBegin(u, "shutdown")
          BY <1>0, <4>1 DEF HtFacts
        <5> QED
          BY <1>0, <5>1, HtBegin
      <4>2. CASE UNCHANGED <<Http!aborting, completed, aborted>>
        BY <1>0, <4>2 DEF HtFacts
      <4> QED
        BY <1>29, <4>1, <4>2 DEF Http!ShutdownAbort
    <3> QED
      BY <1>0, <3>1, <3>2, <3>3, <3>4 DEF HtFacts, Http!TypeOK
  <2>3. HtDown'
    BY <1>0, <1>29 DEF HtDown, HtFacts, Http!TypeOK, Http!ThreadsGone, Steps, Early, HtPlace, Http!Uses, Http!Elements, Doomed, BodyOf, Http!ShutdownAbort, Http!AbortBegin, Http!Claimed
  <2>4. HtOnce'
    <3>1. CASE \E u \in live : Http!AbortBegin(u, "shutdown")
      <4>1. PICK u \in Transfers : Http!AbortBegin(u, "shutdown")
        BY <1>0, <3>1 DEF HtFacts
      <4>2. results' = results /\ pc' = pc
        BY <1>29 DEF Http!ShutdownAbort
      <4> QED
        BY <1>0, <4>1, <4>2, HtOnceBegin
    <3>2. CASE UNCHANGED <<Http!aborting, completed, aborted>>
      BY <1>0, <1>29, <3>2 DEF HtOnce, Http!ShutdownAbort
    <3> QED
      BY <1>29, <3>1, <3>2 DEF Http!ShutdownAbort
  <2>5. HtBody'
    <3> SUFFICES ASSUME NEW u \in Transfers PROVE BodyOf(u)'
      BY DEF HtBody
    <3>1. BodyOf(u)
      BY <1>0 DEF HtBody
    <3>2. pump[u] # "off" =>
            /\ loc[u] \in Conns /\ held[u] = loc[u] /\ pc[u] \in {"deliver", "off"}
            /\ conn[loc[u]] # "unused" /\ loc[u] \notin Http!Elements(pool) /\ Http!Uses(u, loc[u])
            /\ \A w \in Transfers : w # u => held[w] # loc[u] /\ (pc[w] = "set" => loc[w] # loc[u])
      BY <1>0, HtApart
    <3>3. /\ pipe'[u] = pipe[u] /\ cut'[u] = cut[u] /\ writer'[u] = writer[u]
          /\ framing'[u] = framing[u] /\ left'[u] = left[u] /\ stray \subseteq stray'
      BY <1>29 DEF Http!ShutdownAbort, Http!AbortBegin, Http!Claimed
    <3>4. pump'[u] = "copy" => pump[u] = "copy"
      BY <1>0, <1>29 DEF HtFacts, Http!ShutdownAbort, Http!AbortBegin, Http!Claimed
    <3>5. (completed[u] => completed'[u]) /\ (results'[u] = <<"body">> => results[u] = <<"body">>)
      <4>1. CASE \E w \in live : Http!AbortBegin(w, "shutdown")
        <5>1. PICK w \in Transfers : Http!AbortBegin(w, "shutdown")
          BY <1>0, <4>1 DEF HtFacts
        <5>2. completed[u] => completed'[u]
          BY <1>0, <5>1, HtBegin
        <5> QED
          BY <1>29, <5>2 DEF Http!ShutdownAbort
      <4>2. CASE UNCHANGED <<Http!aborting, completed, aborted>>
        BY <1>29, <4>2 DEF Http!ShutdownAbort
      <4> QED
        BY <1>29, <4>1, <4>2 DEF Http!ShutdownAbort
    <3>6. /\ loc'[u] = loc[u] \/ pc[u] \notin {"deliver", "off"}
          /\ pc'[u] = pc[u] \/ (pc[u] \notin {"deliver", "off"} /\ pc'[u] # "deliver")
      BY <1>0, <1>29 DEF HtFacts, Http!ShutdownAbort, Http!AbortBegin, Http!Claimed
    <3>7. /\ abort'[u] = "fail" => abort[u] = "fail" \/ writer[u]
          /\ abort'[u] = "close" => abort[u] = "close" \/ (completed'[u] /\ results'[u] # <<"body">>)
      <4>1. CASE \E w \in live : Http!AbortBegin(w, "shutdown")
        <5>1. PICK w \in Transfers : Http!AbortBegin(w, "shutdown")
          BY <1>0, <4>1 DEF HtFacts
        <5>2. CASE u # w \/ aborted[w]
          BY <1>0, <5>1, <5>2, HtBegin
        <5>3. CASE u = w /\ ~aborted[w]
          <6>1. completed'[u] /\ abort'[u] = IF completed[u] /\ writer[u] THEN "fail" ELSE "close"
            BY <1>0, <5>1, <5>3, HtBegin
          <6>2. ~completed[u] => results[u] # <<"body">>
            <7>1. Len(<<"body">>) = 1
              OBVIOUS
            <7> QED
              BY <1>0, <7>1 DEF HtOnce
          <6>3. ~writer[u] => results[u] # <<"body">>
            BY <3>1 DEF BodyOf
          <6>4. results' = results
            BY <1>29 DEF Http!ShutdownAbort
          <6> QED
            BY <6>1, <6>2, <6>3, <6>4
        <5> QED
          BY <5>2, <5>3
      <4>2. CASE UNCHANGED <<Http!aborting, completed, aborted>>
        BY <4>2
      <4> QED
        BY <1>29, <4>1, <4>2 DEF Http!ShutdownAbort
    <3>8. pump[u] = "copy" /\ conn'[loc[u]] = "closed" =>
            conn[loc[u]] = "closed" \/ loc[u] \in stray' \/ pipe[u] = "failed" \/ Doomed(u)
      BY <1>29 DEF Http!ShutdownAbort, Http!AbortBegin, Http!Claimed
    <3> QED
      BY <3>1, <3>2, <3>3, <3>4, <3>5, <3>6, <3>7, <3>8, HtBodyKept
  <2> QED
    BY <2>1, <2>2, <2>3, <2>4, <2>5 DEF HtInv
<1>30. CASE Http!ShutdownJoin
  <2>1. HtPlace' /\ HtOnce'
    BY <1>0, <1>30 DEF HtPlace, HtOnce, Http!Uses, Http!Elements, Http!ThreadsGone, Doomed, BodyOf, Http!ShutdownJoin, Http!Shut
  <2>2. HtFacts'
    <3>1. UNCHANGED <<stopping, live, active, pc, loc, framing, left, reusable, pump, pipe, completed, aborted, held, writer, abort, aconn, adone, results, cut, stray>>
      BY <1>30 DEF Http!ShutdownJoin, Http!Shut
    <3>2. conn' \in [Conns -> {"unused", "open", "closed"}]
      BY <1>0, <1>30, HtShut DEF Http!ShutdownJoin
    <3>3. pool' \in Seq(Conns) /\ Len(pool') <= MaxPerHost
      <4>1. pool' = <<>> /\ MaxPerHost \in Nat
        BY <1>30 DEF Http!HttpConstants, Http!ShutdownJoin
      <4> QED
        BY <4>1
    <3>4. sdown' \in {"no", "collect", "abort", "join", "done"}
      BY <1>0, <1>30 DEF HtFacts, Http!ShutdownJoin
    <3> QED
      BY <1>0, <3>1, <3>2, <3>3, <3>4 DEF HtFacts, Http!TypeOK
  <2>3. HtOwn'
    <3>1. \A u \in Transfers, c \in Conns : Http!Uses(u, c)' <=> Http!Uses(u, c)
      BY <1>0, <1>30 DEF HtFacts, Http!Uses, Http!ShutdownJoin
    <3> QED
      BY <1>0, <1>30, <3>1, HtDrained DEF Http!ShutdownJoin
  <2>4. HtDown'
    BY <1>0, <1>30 DEF HtDown, HtFacts, Http!TypeOK, Http!ThreadsGone, Steps, Early, HtPlace, Http!Uses, Http!Elements, Doomed, BodyOf, Http!ShutdownJoin, Http!Shut
  <2>5. HtBody'
    BY <1>0, <1>30 DEF HtBody, HtFacts, Http!TypeOK, BodyOf, Doomed, HtPlace, HtOnce, Http!Uses, Http!Elements, Http!ThreadsGone, Http!ShutdownJoin, Http!Shut
  <2> QED
    BY <2>1, <2>2, <2>3, <2>4, <2>5 DEF HtInv
<1>31. CASE UNCHANGED Http!vars
  <2> USE DEF Http!vars
  <2>1. HtFacts'
    BY <1>0, <1>31 DEF HtFacts, Http!TypeOK, Http!Uses, Http!Elements, Http!ThreadsGone, Doomed, BodyOf
  <2>2. HtPlace'
    BY <1>0, <1>31 DEF HtPlace, Http!Uses, Http!Elements, Http!ThreadsGone, Doomed, BodyOf
  <2>3. HtOwn'
    BY <1>0, <1>31 DEF HtOwn, Http!Uses, Http!Elements, Http!Uses, Http!Elements, Http!ThreadsGone, Doomed, BodyOf
  <2>4. HtDown'
    BY <1>0, <1>31 DEF HtDown, Http!ThreadsGone, Http!Uses, Http!Elements, Http!ThreadsGone, Doomed, BodyOf
  <2>5. HtOnce'
    BY <1>0, <1>31 DEF HtOnce, Http!Uses, Http!Elements, Http!ThreadsGone, Doomed, BodyOf
  <2>6. HtBody'
    BY <1>0, <1>31 DEF HtBody, Doomed, BodyOf, Http!Uses, Http!Elements, Http!ThreadsGone, Doomed, BodyOf
  <2> QED
    BY <2>1, <2>2, <2>3, <2>4, <2>5, <2>6 DEF HtInv
<1> QED
  BY <1>1, <1>2, <1>3, <1>4, <1>5, <1>6, <1>7, <1>8, <1>9, <1>10, <1>11, <1>12, <1>13, <1>14, <1>15, <1>16, <1>17, <1>18, <1>19, <1>20, <1>21, <1>22, <1>23, <1>24, <1>25, <1>26, <1>27, <1>28, <1>29, <1>30, <1>31 DEF Http!Next, Http!Caller, Http!Run, Http!Pump, Http!Aborting, Http!Shutdown

\* The users of a connection are counted as everywhere.
LEMMA HtCardinality == \A S : Http!Cardinality(S) = Cardinality(S)
  BY Zenon DEF Http!Cardinality, Cardinality

\* From it: a connection has one user and none that is open is lost, a transfer has one
\* result, and a body that was cut is not presented as complete.
LEMMA HtSafe == Http!HttpConstants /\ HtInv => Http!Inv
<1> SUFFICES ASSUME Http!HttpConstants, HtInv PROVE Http!Inv
  OBVIOUS
<1>0. HtFacts /\ HtPlace /\ HtOwn /\ HtDown /\ HtOnce /\ HtBody
  BY DEF HtInv
<1>1. ASSUME NEW c \in Conns
      PROVE  Http!Cardinality({i \in 1 .. Len(pool) : pool[i] = c})
               + Http!Cardinality({t \in Transfers : Http!Uses(t, c)}) <= 1
  <2> DEFINE idle == {i \in 1 .. Len(pool) : pool[i] = c}
             users == {t \in Transfers : Http!Uses(t, c)}
  <2>1. Http!Cardinality({}) = 0 /\ \A x : Http!Cardinality({x}) = 1
    BY FS_EmptySet, FS_Singleton, HtCardinality
  <2>2. CASE \E t \in Transfers : Http!Uses(t, c)
    <3>1. PICK t \in Transfers : Http!Uses(t, c)
      BY <2>2
    <3>2. users = {t} /\ idle = {}
      BY <1>0, <3>1 DEF HtOwn
    <3>3. Http!Cardinality(idle) = 0 /\ Http!Cardinality(users) = 1
      BY <2>1, <3>2
    <3> HIDE DEF idle, users
    <3>4. Http!Cardinality(idle) + Http!Cardinality(users) <= 1
      BY <3>3
    <3> QED
      BY <3>4 DEF idle, users
  <2>3. CASE ~\E t \in Transfers : Http!Uses(t, c)
    <3>1. users = {}
      BY <2>3
    <3>2. idle = {} \/ \E i \in 1 .. Len(pool) : idle = {i}
      BY <1>0 DEF HtOwn
    <3>3. Http!Cardinality(idle) \in {0, 1} /\ Http!Cardinality(users) = 0
      BY <2>1, <3>1, <3>2
    <3> HIDE DEF idle, users
    <3>4. Http!Cardinality(idle) + Http!Cardinality(users) <= 1
      BY <3>3
    <3> QED
      BY <3>4 DEF idle, users
  <2> QED
    BY <2>2, <2>3
<1>2. ASSUME NEW c \in Conns, conn[c] = "open"
      PROVE  (c \in Http!Elements(pool) \/ \E t \in Transfers : Http!Uses(t, c)) /\ sdown # "done"
  <2>1. c \in Http!Elements(pool) \/ \E t \in Transfers : Http!Uses(t, c)
    BY <1>0, <1>2 DEF HtOwn
  <2>2. ASSUME sdown = "done" PROVE FALSE
    <3>1. pool = <<>> /\ \A t \in Transfers : pump[t] = "off" /\ pc[t] \in {"new", "inline", "spawn", "refuse", "leave", "off"}
      BY <1>0, <2>2 DEF HtDown, Http!ThreadsGone
    <3>2. \A t \in Transfers : held[t] = None /\ pc[t] # "set"
      BY <1>0, <3>1 DEF HtPlace, Early
    <3>3. \A t \in Transfers : ~Http!Uses(t, c)
      BY <3>2 DEF Http!Uses, Http!HttpConstants
    <3>4. Http!Elements(pool) = {}
      BY <3>1 DEF Http!Elements
    <3> QED
      BY <2>1, <3>3, <3>4
  <2> QED
    BY <2>1, <2>2
<1>3. ASSUME NEW t \in Transfers
      PROVE  Len(results[t]) <= 1 /\ (Http!AtRest(t) /\ pc[t] = "off" => Len(results[t]) = 1)
  <2>1. Len(results[t]) = (IF completed[t] /\ ~adone[t] THEN 1 ELSE 0)
        /\ (adone[t] => abort[t] # "idle") /\ (pc[t] = "off" => completed[t])
    BY <1>0 DEF HtOnce
  <2>2. Http!AtRest(t) => abort[t] = "idle"
    BY DEF Http!AtRest, Http!Alive
  <2> QED
    BY <2>1, <2>2
<1>4. ASSUME NEW t \in Transfers, results[t] = <<"body">>, pipe[t] = "finished"
      PROVE  (framing[t] = "length" => left[t] = 0) /\ (cut[t] => loc[t] \in stray)
  BY <1>0, <1>4 DEF HtBody, BodyOf, Doomed
<1> QED
  BY <1>0, <1>1, <1>2, <1>3, <1>4 DEF HtFacts, Http!Inv, Http!OneUser, Http!NoneLeaks, Http!OneResult, Http!BodyHonest

-----------------------------------------------------------------------------
\* The pipe of a body.

BpChunk == [from : Nat, size : Nat \ {0}]
BpFacts ==
    /\ Pipe!TypeOK /\ pipeChunks \in Seq(BpChunk)
    /\ pipeWriting \in Nat /\ pipeWritten \in Nat /\ pipeGot \in Nat
    /\ pipeFinished \in BOOLEAN /\ pipeFailed \in BOOLEAN /\ pipeReaderClosed \in BOOLEAN

\* Each side is where it may be; nothing is written when the end is told.
BpSides ==
    /\ pipeWpc \in {"in", "asleep"} => pipeWriting \in 1 .. MaxChunk
    /\ pipeWpc = "asleep" => PipeSize > 0
    /\ pipeEof = "end" => pipeFinished

\* A chunk that is being read is not read through.
BpFront ==
    /\ pipeChunks # <<>> => frontOffset < pipeChunks[1].size
    /\ ~pipeReaderClosed /\ pipeChunks = <<>> => frontOffset = 0
    /\ pipeReaderClosed => pipeChunks = <<>> /\ bufferedBytes = 0
    /\ \A k \in 1 .. Len(pipeChunks) : Pipe!End(pipeChunks[k]) <= pipeWritten

BpInv == BpFacts /\ BpSides /\ BpFront /\ Pipe!NoneSleepsOn /\ Pipe!PipeExact

\* Before its first step, the pipe of a body (body.cpp) satisfies the invariant.
LEMMA BpInit == Pipe!PipeConstants /\ Pipe!Init => BpInv
<1> SUFFICES ASSUME Pipe!PipeConstants, Pipe!Init PROVE BpInv
  OBVIOUS
<1> USE DEF Pipe!Init
<1>1. BpFacts
  <2>1. <<>> \in Seq(BpChunk)
    OBVIOUS
  <2> QED
    BY <2>1 DEF BpFacts, Pipe!TypeOK
<1>2. BpSides
  BY DEF BpSides
<1>3. BpFront
  BY DEF BpFront
<1>4. Pipe!NoneSleepsOn
  BY DEF Pipe!NoneSleepsOn
<1>5. Pipe!PipeExact
  BY DEF Pipe!PipeExact, Pipe!PipeConstants
<1> QED
  BY <1>1, <1>2, <1>3, <1>4, <1>5 DEF BpInv

\* Each step of the pipe of a body (body.cpp) preserves the invariant, part by part.
LEMMA BpStep == Pipe!PipeConstants /\ BpInv /\ [Pipe!Next]_(Pipe!vars) => BpInv'
<1> SUFFICES ASSUME Pipe!PipeConstants, BpInv, [Pipe!Next]_(Pipe!vars) PROVE BpInv'
  OBVIOUS
<1> USE DEF Pipe!data, Pipe!flags
<1>0. BpFacts /\ BpSides /\ BpFront /\ Pipe!NoneSleepsOn /\ Pipe!PipeExact
  BY DEF BpInv
<1>1. CASE Pipe!BeginRead
  <2>1. BpFront' /\ Pipe!PipeExact'
    BY <1>0, <1>1 DEF BpFront, Pipe!PipeExact, Pipe!BeginRead
  <2>2. BpFacts'
    BY <1>0, <1>1 DEF BpFacts, Pipe!TypeOK, Pipe!PipeConstants, Pipe!BeginRead
  <2>3. BpSides'
    BY <1>0, <1>1 DEF BpSides, BpFacts, Pipe!TypeOK, Pipe!PipeConstants, Pipe!BeginRead
  <2>4. Pipe!NoneSleepsOn'
    BY <1>0, <1>1 DEF Pipe!NoneSleepsOn, BpFacts, Pipe!TypeOK, Pipe!ReaderWakes, Pipe!WriterWakes, Pipe!HasRoom, Pipe!Over, Pipe!BeginRead
  <2> QED
    BY <2>1, <2>2, <2>3, <2>4 DEF BpInv
<1>2. CASE Pipe!ReadWaits
  <2>1. BpFront' /\ Pipe!PipeExact'
    BY <1>0, <1>2 DEF BpFront, Pipe!PipeExact, Pipe!ReadWaits
  <2>2. BpFacts'
    BY <1>0, <1>2 DEF BpFacts, Pipe!TypeOK, Pipe!PipeConstants, Pipe!ReadWaits
  <2>3. BpSides'
    BY <1>0, <1>2 DEF BpSides, BpFacts, Pipe!TypeOK, Pipe!PipeConstants, Pipe!ReadWaits
  <2>4. Pipe!NoneSleepsOn'
    BY <1>0, <1>2 DEF Pipe!NoneSleepsOn, BpFacts, Pipe!TypeOK, Pipe!ReaderWakes, Pipe!WriterWakes, Pipe!HasRoom, Pipe!Over, Pipe!ReadWaits
  <2> QED
    BY <2>1, <2>2, <2>3, <2>4 DEF BpInv
<1>3. CASE Pipe!ReadEnds
  <2>1. BpFront'
    BY <1>0, <1>3 DEF BpFront, Pipe!ReadEnds
  <2>2. BpFacts'
    BY <1>0, <1>3 DEF BpFacts, Pipe!TypeOK, Pipe!PipeConstants, Pipe!ReadEnds
  <2>3. BpSides'
    BY <1>0, <1>3 DEF BpSides, BpFacts, Pipe!TypeOK, Pipe!PipeConstants, Pipe!ReaderWakes, BpFront, Pipe!ReadEnds
  <2>4. Pipe!NoneSleepsOn'
    BY <1>0, <1>3 DEF Pipe!NoneSleepsOn, BpFacts, Pipe!TypeOK, Pipe!ReaderWakes, Pipe!WriterWakes, Pipe!HasRoom, Pipe!Over, Pipe!ReadEnds
  <2>5. Pipe!PipeExact'
    BY <1>0, <1>3 DEF Pipe!PipeExact, BpFacts, Pipe!TypeOK, BpSides, BpFront, Pipe!PipeConstants, Pipe!ReadEnds
  <2> QED
    BY <2>1, <2>2, <2>3, <2>4, <2>5 DEF BpInv
<1>4. CASE Pipe!ReadSome
  <2>1. BpFacts'
    <3>1. PICK room \in 1 .. MaxChunk :
             LET available == pipeChunks[1].size - frontOffset
                 n == IF room < available THEN room ELSE available
             IN  /\ pipeGot' = pipeGot + n /\ bufferedBytes' = bufferedBytes - n
                 /\ IF n = available THEN pipeChunks' = Tail(pipeChunks) /\ frontOffset' = 0
                    ELSE frontOffset' = frontOffset + n /\ UNCHANGED pipeChunks
      BY <1>4 DEF Pipe!ReadSome
    <3>2. /\ pipeChunks \in Seq(BpChunk) /\ pipeChunks # <<>> /\ ~pipeReaderClosed /\ pipeChunks[1] \in BpChunk
      <4>1. pipeChunks \in Seq(BpChunk) /\ pipeChunks # <<>>
        BY <1>0, <1>4 DEF BpFacts, Pipe!ReadSome
      <4> QED
        BY <1>0, <1>4, <4>1 DEF BpFacts, Pipe!ReadSome
    <3>20. Len(pipeChunks) \in Nat /\ Len(pipeChunks) > 0
      BY <3>2
    <3>21. /\ pipeChunks[1].size \in Nat /\ pipeChunks[1].from \in Nat
           /\ frontOffset \in Nat /\ frontOffset < pipeChunks[1].size
      BY <1>0, <3>2 DEF BpFacts, Pipe!TypeOK, BpFront, BpChunk
    <3>3. /\ room \in Nat /\ room > 0
          /\ pipeGot \in Nat /\ pipeWritten \in Nat /\ bufferedBytes \in Nat
      BY <1>0 DEF BpFacts, Pipe!TypeOK, Pipe!PipeConstants
    <3>40. PICK available \in Nat : available = pipeChunks[1].size - frontOffset /\ available > 0
      BY <3>21
    <3>41. PICK n \in Nat : n = (IF room < available THEN room ELSE available) /\ n > 0 /\ n <= available
      BY <3>3, <3>40
    <3>4. /\ pipeGot' = pipeGot + n /\ bufferedBytes' = bufferedBytes - n
          /\ n = available => pipeChunks' = Tail(pipeChunks) /\ frontOffset' = 0
          /\ n # available => frontOffset' = frontOffset + n /\ pipeChunks' = pipeChunks
      BY <3>1, <3>40, <3>41
    <3>42. pipeGot' = pipeGot + n /\ bufferedBytes' = bufferedBytes - n
      BY <3>4
    <3>43. n # available => frontOffset' = frontOffset + n
      BY <3>4
    <3>5. UNCHANGED <<Pipe!flags, pipeWpc, pipeWriting, pipeWritten, pipeEof>>
      BY <1>4 DEF Pipe!ReadSome
    <3>6. /\ available = pipeChunks[1].size - frontOffset /\ pipeGot = pipeChunks[1].from + frontOffset
          /\ bufferedBytes = pipeWritten - pipeGot /\ n <= available /\ n > 0
      BY <1>0, <3>2, <3>40, <3>41 DEF Pipe!PipeExact
    <3>7. /\ Tail(pipeChunks) \in Seq(BpChunk) /\ Len(Tail(pipeChunks)) = Len(pipeChunks) - 1
          /\ \A k \in 1 .. Len(pipeChunks) - 1 : Tail(pipeChunks)[k] = pipeChunks[k + 1]
      BY <3>2, HeadTailProperties
    <3>8. pipeWritten - pipeGot >= available
      <4>1. 1 \in 1 .. Len(pipeChunks)
        BY <3>20
      <4>2. pipeChunks[1].from + pipeChunks[1].size <= pipeWritten
        BY <1>0, <4>1 DEF BpFront, Pipe!End
      <4> QED
        BY <3>21, <3>3, <3>6, <4>2
    <3>9. pipeChunks' \in Seq(BpChunk)
      BY <3>2, <3>4, <3>7
    <3>10. pipeGot' \in Nat /\ bufferedBytes' \in Nat /\ frontOffset' \in Nat
      <4>1. pipeGot' \in Nat /\ bufferedBytes' \in Nat
        BY <3>3, <3>42, <3>41, <3>6, <3>8
      <4>2. frontOffset' \in Nat
        BY <3>21, <3>4
      <4> QED
        BY <4>1, <4>2
    <3> QED
      BY <1>0, <1>4, <3>5, <3>9, <3>10 DEF BpFacts, Pipe!TypeOK, Pipe!ReadSome, Pipe!flags
  <2>2. BpSides'
    BY <1>0, <1>4 DEF BpSides, Pipe!ReadSome
  <2>3. BpFront'
    <3>1. PICK room \in 1 .. MaxChunk :
             LET available == pipeChunks[1].size - frontOffset
                 n == IF room < available THEN room ELSE available
             IN  /\ pipeGot' = pipeGot + n /\ bufferedBytes' = bufferedBytes - n
                 /\ IF n = available THEN pipeChunks' = Tail(pipeChunks) /\ frontOffset' = 0
                    ELSE frontOffset' = frontOffset + n /\ UNCHANGED pipeChunks
      BY <1>4 DEF Pipe!ReadSome
    <3>2. /\ pipeChunks \in Seq(BpChunk) /\ pipeChunks # <<>> /\ ~pipeReaderClosed /\ pipeChunks[1] \in BpChunk
      <4>1. pipeChunks \in Seq(BpChunk) /\ pipeChunks # <<>>
        BY <1>0, <1>4 DEF BpFacts, Pipe!ReadSome
      <4> QED
        BY <1>0, <1>4, <4>1 DEF BpFacts, Pipe!ReadSome
    <3>20. Len(pipeChunks) \in Nat /\ Len(pipeChunks) > 0
      BY <3>2
    <3>21. /\ pipeChunks[1].size \in Nat /\ pipeChunks[1].from \in Nat
           /\ frontOffset \in Nat /\ frontOffset < pipeChunks[1].size
      BY <1>0, <3>2 DEF BpFacts, Pipe!TypeOK, BpFront, BpChunk
    <3>3. /\ room \in Nat /\ room > 0
          /\ pipeGot \in Nat /\ pipeWritten \in Nat /\ bufferedBytes \in Nat
      BY <1>0 DEF BpFacts, Pipe!TypeOK, Pipe!PipeConstants
    <3>40. PICK available \in Nat : available = pipeChunks[1].size - frontOffset /\ available > 0
      BY <3>21
    <3>41. PICK n \in Nat : n = (IF room < available THEN room ELSE available) /\ n > 0 /\ n <= available
      BY <3>3, <3>40
    <3>4. /\ pipeGot' = pipeGot + n /\ bufferedBytes' = bufferedBytes - n
          /\ n = available => pipeChunks' = Tail(pipeChunks) /\ frontOffset' = 0
          /\ n # available => frontOffset' = frontOffset + n /\ pipeChunks' = pipeChunks
      BY <3>1, <3>40, <3>41
    <3>42. pipeGot' = pipeGot + n /\ bufferedBytes' = bufferedBytes - n
      BY <3>4
    <3>43. n # available => frontOffset' = frontOffset + n
      BY <3>4
    <3>5. UNCHANGED <<Pipe!flags, pipeWpc, pipeWriting, pipeWritten, pipeEof>>
      BY <1>4 DEF Pipe!ReadSome
    <3>6. /\ available = pipeChunks[1].size - frontOffset /\ pipeGot = pipeChunks[1].from + frontOffset
          /\ bufferedBytes = pipeWritten - pipeGot /\ n <= available /\ n > 0
      BY <1>0, <3>2, <3>40, <3>41 DEF Pipe!PipeExact
    <3>7. /\ Tail(pipeChunks) \in Seq(BpChunk) /\ Len(Tail(pipeChunks)) = Len(pipeChunks) - 1
          /\ \A k \in 1 .. Len(pipeChunks) - 1 : Tail(pipeChunks)[k] = pipeChunks[k + 1]
      BY <3>2, HeadTailProperties
    <3>8. pipeWritten - pipeGot >= available
      <4>1. 1 \in 1 .. Len(pipeChunks)
        BY <3>20
      <4>2. pipeChunks[1].from + pipeChunks[1].size <= pipeWritten
        BY <1>0, <4>1 DEF BpFront, Pipe!End
      <4> QED
        BY <3>21, <3>3, <3>6, <4>2
    <3>9. CASE n = available
      <4>1. pipeChunks' # <<>> => pipeChunks'[1] \in BpChunk
        BY <3>2, <3>4, <3>7, <3>9
      <4>2. pipeChunks' # <<>> => frontOffset' < pipeChunks'[1].size
        BY <3>4, <3>9, <4>1 DEF BpChunk
      <4>3. \A k \in 1 .. Len(pipeChunks') : Pipe!End(pipeChunks'[k]) <= pipeWritten
        BY <1>0, <3>2, <3>4, <3>7, <3>9 DEF BpFront
      <4> QED
        BY <3>2, <3>4, <3>5, <3>9, <4>2, <4>3 DEF BpFront, Pipe!flags
    <3>10. CASE n # available
      <4>1. frontOffset' < pipeChunks[1].size
        <5>1. n < available /\ frontOffset' = frontOffset + n
          BY <3>4, <3>41, <3>10
        <5> QED
          BY <3>21, <3>40, <5>1
      <4> QED
        BY <1>0, <3>2, <3>4, <3>5, <3>10, <4>1 DEF BpFront, Pipe!flags
    <3> QED
      BY <3>9, <3>10
  <2>4. Pipe!NoneSleepsOn'
    BY <1>0, <1>4 DEF Pipe!NoneSleepsOn, BpSides, Pipe!ReadSome
  <2>5. Pipe!PipeExact'
    <3>1. PICK room \in 1 .. MaxChunk :
             LET available == pipeChunks[1].size - frontOffset
                 n == IF room < available THEN room ELSE available
             IN  /\ pipeGot' = pipeGot + n /\ bufferedBytes' = bufferedBytes - n
                 /\ IF n = available THEN pipeChunks' = Tail(pipeChunks) /\ frontOffset' = 0
                    ELSE frontOffset' = frontOffset + n /\ UNCHANGED pipeChunks
      BY <1>4 DEF Pipe!ReadSome
    <3>2. /\ pipeChunks \in Seq(BpChunk) /\ pipeChunks # <<>> /\ ~pipeReaderClosed /\ pipeChunks[1] \in BpChunk
      <4>1. pipeChunks \in Seq(BpChunk) /\ pipeChunks # <<>>
        BY <1>0, <1>4 DEF BpFacts, Pipe!ReadSome
      <4> QED
        BY <1>0, <1>4, <4>1 DEF BpFacts, Pipe!ReadSome
    <3>20. Len(pipeChunks) \in Nat /\ Len(pipeChunks) > 0
      BY <3>2
    <3>21. /\ pipeChunks[1].size \in Nat /\ pipeChunks[1].from \in Nat
           /\ frontOffset \in Nat /\ frontOffset < pipeChunks[1].size
      BY <1>0, <3>2 DEF BpFacts, Pipe!TypeOK, BpFront, BpChunk
    <3>3. /\ room \in Nat /\ room > 0
          /\ pipeGot \in Nat /\ pipeWritten \in Nat /\ bufferedBytes \in Nat
      BY <1>0 DEF BpFacts, Pipe!TypeOK, Pipe!PipeConstants
    <3>40. PICK available \in Nat : available = pipeChunks[1].size - frontOffset /\ available > 0
      BY <3>21
    <3>41. PICK n \in Nat : n = (IF room < available THEN room ELSE available) /\ n > 0 /\ n <= available
      BY <3>3, <3>40
    <3>4. /\ pipeGot' = pipeGot + n /\ bufferedBytes' = bufferedBytes - n
          /\ n = available => pipeChunks' = Tail(pipeChunks) /\ frontOffset' = 0
          /\ n # available => frontOffset' = frontOffset + n /\ pipeChunks' = pipeChunks
      BY <3>1, <3>40, <3>41
    <3>42. pipeGot' = pipeGot + n /\ bufferedBytes' = bufferedBytes - n
      BY <3>4
    <3>43. n # available => frontOffset' = frontOffset + n
      BY <3>4
    <3>5. UNCHANGED <<Pipe!flags, pipeWpc, pipeWriting, pipeWritten, pipeEof>>
      BY <1>4 DEF Pipe!ReadSome
    <3>6. /\ available = pipeChunks[1].size - frontOffset /\ pipeGot = pipeChunks[1].from + frontOffset
          /\ bufferedBytes = pipeWritten - pipeGot /\ n <= available /\ n > 0
      BY <1>0, <3>2, <3>40, <3>41 DEF Pipe!PipeExact
    <3>7. /\ Tail(pipeChunks) \in Seq(BpChunk) /\ Len(Tail(pipeChunks)) = Len(pipeChunks) - 1
          /\ \A k \in 1 .. Len(pipeChunks) - 1 : Tail(pipeChunks)[k] = pipeChunks[k + 1]
      BY <3>2, HeadTailProperties
    <3>8. pipeWritten - pipeGot >= available
      <4>1. 1 \in 1 .. Len(pipeChunks)
        BY <3>20
      <4>2. pipeChunks[1].from + pipeChunks[1].size <= pipeWritten
        BY <1>0, <4>1 DEF BpFront, Pipe!End
      <4> QED
        BY <3>21, <3>3, <3>6, <4>2
    <3>9. bufferedBytes' = pipeWritten - pipeGot'
      BY <3>3, <3>4, <3>6
    <3>10. PipeSize > 0 => bufferedBytes' < PipeSize + MaxChunk
      <4>1. bufferedBytes' < bufferedBytes
        BY <3>3, <3>4, <3>41
      <4> QED
        BY <1>0, <3>3, <3>9, <4>1 DEF Pipe!PipeExact, Pipe!PipeConstants
    <3>11. pipeEof # "end" \/ pipeChunks = <<>> \/ pipeGot = pipeWritten
      BY <1>0 DEF Pipe!PipeExact
    <3>12. pipeGot # pipeWritten
      BY <3>3, <3>40, <3>8
    <3>13. CASE n = available
      <4>1. pipeGot' = Pipe!End(pipeChunks[1])
        BY <3>21, <3>3, <3>42, <3>6, <3>13 DEF Pipe!End
      <4>2. CASE Len(pipeChunks) = 1
        <5>1. pipeChunks' = <<>> /\ pipeGot' = pipeWritten
          BY <1>0, <3>2, <3>4, <3>7, <3>13, <4>1, <4>2 DEF Pipe!PipeExact
        <5> QED
          BY <3>2, <3>5, <3>9, <3>10, <3>11, <3>12, <5>1 DEF Pipe!PipeExact, Pipe!flags
      <4>3. CASE Len(pipeChunks) > 1
        <5>1. /\ Len(pipeChunks') = Len(pipeChunks) - 1 /\ pipeChunks' # <<>> /\ frontOffset' = 0
              /\ \A k \in 1 .. Len(pipeChunks) - 1 : pipeChunks'[k] = pipeChunks[k + 1]
          <6>1. pipeChunks' = Tail(pipeChunks) /\ frontOffset' = 0
            BY <3>4, <3>13
          <6>2. Len(Tail(pipeChunks)) > 0
            BY <3>20, <3>7, <4>3
          <6>3. Len(<<>>) = 0 /\ ~(0 > 0)
            OBVIOUS
          <6>4. Tail(pipeChunks) # <<>>
            BY Zenon, <6>2, <6>3
          <6> QED
            BY <3>7, <6>1, <6>4
        <5>2. /\ 1 \in 1 .. Len(pipeChunks) - 1 /\ Len(pipeChunks) - 1 \in 1 .. Len(pipeChunks) - 1
              /\ (Len(pipeChunks) - 1) + 1 = Len(pipeChunks) /\ 1 + 1 \in 1 .. Len(pipeChunks)
          BY <3>20, <4>3
        <5>3. pipeChunks'[1] = pipeChunks[1 + 1] /\ pipeChunks'[Len(pipeChunks')] = pipeChunks[Len(pipeChunks)]
          BY <5>1, <5>2
        <5>4. pipeChunks[1 + 1] \in BpChunk /\ pipeChunks[1 + 1].from = Pipe!End(pipeChunks[1])
          BY <1>0, <3>2, <5>2 DEF Pipe!PipeExact
        <5>5. pipeChunks'[1].from + frontOffset' = pipeGot' /\ Pipe!End(pipeChunks'[Len(pipeChunks')]) = pipeWritten
          BY <1>0, <3>2, <4>1, <5>1, <5>3, <5>4 DEF Pipe!PipeExact, BpChunk
        <5>6. ASSUME NEW k \in 1 .. Len(pipeChunks') - 1 PROVE pipeChunks'[k + 1].from = Pipe!End(pipeChunks'[k])
          <6>1. k + 1 \in 1 .. Len(pipeChunks) - 1 /\ k \in 1 .. Len(pipeChunks) - 1
            BY <3>20, <5>1
          <6> QED
            BY <1>0, <5>1, <6>1 DEF Pipe!PipeExact
        <5> QED
          BY <3>2, <3>5, <3>9, <3>10, <3>11, <3>12, <5>1, <5>5, <5>6 DEF Pipe!PipeExact, Pipe!flags
      <4>4. Len(pipeChunks) = 1 \/ Len(pipeChunks) > 1
        BY <3>20
      <4> QED
        BY <4>2, <4>3, <4>4
    <3>14. CASE n # available
      <4>1. pipeChunks[1].from + frontOffset' = pipeGot'
        BY <3>21, <3>3, <3>42, <3>43, <3>6, <3>14
      <4> QED
        BY <1>0, <3>2, <3>4, <3>5, <3>9, <3>10, <3>11, <3>12, <3>14, <4>1 DEF Pipe!PipeExact, Pipe!flags
    <3> QED
      BY <3>13, <3>14
  <2> QED
    BY <2>1, <2>2, <2>3, <2>4, <2>5 DEF BpInv
<1>5. CASE Pipe!ReadNotifies
  <2>1. BpFront' /\ Pipe!PipeExact'
    BY <1>0, <1>5 DEF BpFront, Pipe!PipeExact, Pipe!ReadNotifies, Pipe!WakeWriter
  <2>2. BpFacts'
    BY <1>0, <1>5 DEF BpFacts, Pipe!TypeOK, Pipe!PipeConstants, Pipe!ReadNotifies, Pipe!WakeWriter
  <2>3. BpSides'
    BY <1>0, <1>5 DEF BpSides, BpFacts, Pipe!TypeOK, Pipe!PipeConstants, Pipe!ReadNotifies, Pipe!WakeWriter
  <2>4. Pipe!NoneSleepsOn'
    BY <1>0, <1>5 DEF Pipe!NoneSleepsOn, BpFacts, Pipe!TypeOK, Pipe!ReaderWakes, Pipe!WriterWakes, Pipe!HasRoom, Pipe!Over, Pipe!ReadNotifies, Pipe!WakeWriter
  <2> QED
    BY <2>1, <2>2, <2>3, <2>4 DEF BpInv
<1>6. CASE Pipe!BeginWrite
  <2>1. BpFront' /\ Pipe!PipeExact'
    BY <1>0, <1>6 DEF BpFront, Pipe!PipeExact, Pipe!BeginWrite
  <2>2. BpFacts'
    BY <1>0, <1>6 DEF BpFacts, Pipe!TypeOK, Pipe!PipeConstants, Pipe!BeginWrite
  <2>3. BpSides'
    BY <1>0, <1>6 DEF BpSides, BpFacts, Pipe!TypeOK, Pipe!PipeConstants, Pipe!BeginWrite
  <2>4. Pipe!NoneSleepsOn'
    BY <1>0, <1>6 DEF Pipe!NoneSleepsOn, BpFacts, Pipe!TypeOK, Pipe!ReaderWakes, Pipe!WriterWakes, Pipe!HasRoom, Pipe!Over, Pipe!BeginWrite
  <2> QED
    BY <2>1, <2>2, <2>3, <2>4 DEF BpInv
<1>7. CASE Pipe!WriteWaits
  <2>1. BpFront' /\ Pipe!PipeExact'
    BY <1>0, <1>7 DEF BpFront, Pipe!PipeExact, Pipe!WriteWaits
  <2>2. BpFacts'
    BY <1>0, <1>7 DEF BpFacts, Pipe!TypeOK, Pipe!PipeConstants, Pipe!WriteWaits
  <2>3. BpSides'
    BY <1>0, <1>7 DEF BpSides, BpFacts, Pipe!TypeOK, Pipe!PipeConstants, Pipe!WriteWaits
  <2>4. Pipe!NoneSleepsOn'
    BY <1>0, <1>7 DEF Pipe!NoneSleepsOn, BpFacts, Pipe!TypeOK, Pipe!ReaderWakes, Pipe!WriterWakes, Pipe!HasRoom, Pipe!Over, Pipe!WriteWaits
  <2> QED
    BY <2>1, <2>2, <2>3, <2>4 DEF BpInv
<1>8. CASE Pipe!WriteRefused
  <2>1. BpFront' /\ Pipe!PipeExact'
    BY <1>0, <1>8 DEF BpFront, Pipe!PipeExact, Pipe!WriteRefused
  <2>2. BpFacts'
    BY <1>0, <1>8 DEF BpFacts, Pipe!TypeOK, Pipe!PipeConstants, Pipe!WriteRefused
  <2>3. BpSides'
    BY <1>0, <1>8 DEF BpSides, BpFacts, Pipe!TypeOK, Pipe!PipeConstants, Pipe!WriteRefused
  <2>4. Pipe!NoneSleepsOn'
    BY <1>0, <1>8 DEF Pipe!NoneSleepsOn, BpFacts, Pipe!TypeOK, Pipe!ReaderWakes, Pipe!WriterWakes, Pipe!HasRoom, Pipe!Over, Pipe!WriteRefused
  <2> QED
    BY <2>1, <2>2, <2>3, <2>4 DEF BpInv
<1>9. CASE Pipe!Write
  <2>1. BpFacts'
    <3>1. /\ pipeChunks \in Seq(BpChunk) /\ Len(pipeChunks) \in Nat /\ pipeWriting \in Nat \ {0} /\ pipeWriting \in 1 .. MaxChunk
          /\ pipeWritten \in Nat /\ pipeGot \in Nat /\ bufferedBytes \in Nat /\ MaxChunk \in Nat
      BY <1>0, <1>9 DEF BpFacts, Pipe!TypeOK, BpSides, Pipe!PipeConstants, Pipe!Write
    <3>2. [from |-> pipeWritten, size |-> pipeWriting] \in BpChunk
      BY <3>1 DEF BpChunk
    <3> DEFINE c == [from |-> pipeWritten, size |-> pipeWriting]
    <3>3. c \in BpChunk /\ c.from = pipeWritten /\ c.size = pipeWriting /\ Pipe!End(c) = pipeWritten + pipeWriting
      BY <3>1, <3>2 DEF Pipe!End
    <3>4. /\ pipeChunks' = Append(pipeChunks, c) /\ bufferedBytes' = bufferedBytes + pipeWriting
          /\ pipeWritten' = pipeWritten + pipeWriting /\ UNCHANGED <<frontOffset, Pipe!flags, pipeGot, pipeEof>>
      BY <1>9 DEF Pipe!Write
    <3> HIDE DEF c
    <3>5. /\ pipeChunks' \in Seq(BpChunk) /\ pipeChunks' # <<>> /\ Len(pipeChunks') = Len(pipeChunks) + 1
          /\ \A k \in 1 .. Len(pipeChunks) : pipeChunks'[k] = pipeChunks[k]
          /\ pipeChunks'[Len(pipeChunks) + 1] = c
      BY <3>1, <3>3, <3>4, AppendProperties
    <3>6. ~pipeReaderClosed /\ ~pipeFinished /\ ~pipeFailed /\ (PipeSize > 0 => bufferedBytes < PipeSize)
      BY <1>9 DEF Pipe!Write, Pipe!Over, Pipe!HasRoom
    <3>7. bufferedBytes' \in Nat /\ pipeWritten' \in Nat
      BY <3>1, <3>4
    <3> QED
      BY <1>0, <1>9, <3>5, <3>7 DEF BpFacts, Pipe!TypeOK, Pipe!Write, Pipe!flags
  <2>2. BpSides'
    BY <1>0, <1>9 DEF BpSides, BpFacts, Pipe!TypeOK, Pipe!PipeConstants, Pipe!Write
  <2>3. BpFront'
    <3>1. /\ pipeChunks \in Seq(BpChunk) /\ Len(pipeChunks) \in Nat /\ pipeWriting \in Nat \ {0} /\ pipeWriting \in 1 .. MaxChunk
          /\ pipeWritten \in Nat /\ pipeGot \in Nat /\ bufferedBytes \in Nat /\ MaxChunk \in Nat
      BY <1>0, <1>9 DEF BpFacts, Pipe!TypeOK, BpSides, Pipe!PipeConstants, Pipe!Write
    <3>2. [from |-> pipeWritten, size |-> pipeWriting] \in BpChunk
      BY <3>1 DEF BpChunk
    <3> DEFINE c == [from |-> pipeWritten, size |-> pipeWriting]
    <3>3. c \in BpChunk /\ c.from = pipeWritten /\ c.size = pipeWriting /\ Pipe!End(c) = pipeWritten + pipeWriting
      BY <3>1, <3>2 DEF Pipe!End
    <3>4. /\ pipeChunks' = Append(pipeChunks, c) /\ bufferedBytes' = bufferedBytes + pipeWriting
          /\ pipeWritten' = pipeWritten + pipeWriting /\ UNCHANGED <<frontOffset, Pipe!flags, pipeGot, pipeEof>>
      BY <1>9 DEF Pipe!Write
    <3> HIDE DEF c
    <3>5. /\ pipeChunks' \in Seq(BpChunk) /\ pipeChunks' # <<>> /\ Len(pipeChunks') = Len(pipeChunks) + 1
          /\ \A k \in 1 .. Len(pipeChunks) : pipeChunks'[k] = pipeChunks[k]
          /\ pipeChunks'[Len(pipeChunks) + 1] = c
      BY <3>1, <3>3, <3>4, AppendProperties
    <3>6. ~pipeReaderClosed /\ ~pipeFinished /\ ~pipeFailed /\ (PipeSize > 0 => bufferedBytes < PipeSize)
      BY <1>9 DEF Pipe!Write, Pipe!Over, Pipe!HasRoom
    <3>7. CASE pipeChunks = <<>>
      <4>1. Len(pipeChunks) = 0 /\ pipeChunks'[1] = c
        BY <3>5, <3>7
      <4>2. frontOffset' < pipeChunks'[1].size
        BY <1>0, <3>1, <3>3, <3>4, <3>6, <3>7, <4>1 DEF BpFront
      <4>3. \A k \in 1 .. Len(pipeChunks') : Pipe!End(pipeChunks'[k]) <= pipeWritten'
        BY <3>1, <3>3, <3>4, <3>5, <4>1
      <4> QED
        BY <3>4, <3>5, <3>6, <4>2, <4>3 DEF BpFront, Pipe!flags
    <3>8. CASE pipeChunks # <<>>
      <4>1. 1 \in 1 .. Len(pipeChunks) /\ pipeChunks'[1] = pipeChunks[1]
        BY <3>1, <3>5, <3>8
      <4>2. frontOffset' < pipeChunks'[1].size
        BY <1>0, <3>4, <3>8, <4>1 DEF BpFront
      <4>3. ASSUME NEW k \in 1 .. Len(pipeChunks') PROVE Pipe!End(pipeChunks'[k]) <= pipeWritten'
        <5>1. CASE k = Len(pipeChunks) + 1
          BY <3>1, <3>3, <3>4, <3>5, <5>1
        <5>2. CASE k # Len(pipeChunks) + 1
          <6>1. k \in 1 .. Len(pipeChunks)
            BY <3>1, <3>5, <5>2
          <6>2. Pipe!End(pipeChunks[k]) <= pipeWritten /\ Pipe!End(pipeChunks[k]) \in Nat
            <7>1. pipeChunks[k] \in BpChunk
              BY <3>1, <6>1
            <7> QED
              BY <1>0, <6>1, <7>1 DEF BpFront, BpChunk, Pipe!End
          <6> QED
            BY <3>1, <3>4, <3>5, <6>1, <6>2
        <5> QED
          BY <5>1, <5>2
      <4> QED
        BY <3>4, <3>5, <3>6, <4>2, <4>3 DEF BpFront, Pipe!flags
    <3> QED
      BY <3>7, <3>8
  <2>4. Pipe!NoneSleepsOn'
    BY <1>0, <1>9 DEF Pipe!NoneSleepsOn, BpFacts, Pipe!TypeOK, Pipe!ReaderWakes, Pipe!WriterWakes, Pipe!HasRoom, Pipe!Over, Pipe!Write
  <2>5. Pipe!PipeExact'
    <3>1. /\ pipeChunks \in Seq(BpChunk) /\ Len(pipeChunks) \in Nat /\ pipeWriting \in Nat \ {0} /\ pipeWriting \in 1 .. MaxChunk
          /\ pipeWritten \in Nat /\ pipeGot \in Nat /\ bufferedBytes \in Nat /\ MaxChunk \in Nat
      BY <1>0, <1>9 DEF BpFacts, Pipe!TypeOK, BpSides, Pipe!PipeConstants, Pipe!Write
    <3>2. [from |-> pipeWritten, size |-> pipeWriting] \in BpChunk
      BY <3>1 DEF BpChunk
    <3> DEFINE c == [from |-> pipeWritten, size |-> pipeWriting]
    <3>3. c \in BpChunk /\ c.from = pipeWritten /\ c.size = pipeWriting /\ Pipe!End(c) = pipeWritten + pipeWriting
      BY <3>1, <3>2 DEF Pipe!End
    <3>4. /\ pipeChunks' = Append(pipeChunks, c) /\ bufferedBytes' = bufferedBytes + pipeWriting
          /\ pipeWritten' = pipeWritten + pipeWriting /\ UNCHANGED <<frontOffset, Pipe!flags, pipeGot, pipeEof>>
      BY <1>9 DEF Pipe!Write
    <3> HIDE DEF c
    <3>5. /\ pipeChunks' \in Seq(BpChunk) /\ pipeChunks' # <<>> /\ Len(pipeChunks') = Len(pipeChunks) + 1
          /\ \A k \in 1 .. Len(pipeChunks) : pipeChunks'[k] = pipeChunks[k]
          /\ pipeChunks'[Len(pipeChunks) + 1] = c
      BY <3>1, <3>3, <3>4, AppendProperties
    <3>6. ~pipeReaderClosed /\ ~pipeFinished /\ ~pipeFailed /\ (PipeSize > 0 => bufferedBytes < PipeSize)
      BY <1>9 DEF Pipe!Write, Pipe!Over, Pipe!HasRoom
    <3>7. bufferedBytes' = pipeWritten' - pipeGot
      BY <1>0, <3>1, <3>4, <3>6 DEF Pipe!PipeExact
    <3>8. PipeSize > 0 => bufferedBytes' < PipeSize + MaxChunk
      BY <3>1, <3>4, <3>6, <1>0 DEF Pipe!PipeConstants
    <3>9. pipeEof # "end"
      BY <1>0, <3>6 DEF BpSides
    <3>10. Pipe!End(pipeChunks'[Len(pipeChunks')]) = pipeWritten'
      BY <3>3, <3>4, <3>5
    <3>11. pipeChunks'[1].from + frontOffset' = pipeGot
      <4>1. CASE pipeChunks = <<>>
        <5>1. Len(pipeChunks) = 0 /\ pipeChunks'[1] = c
          BY <3>5, <4>1
        <5> QED
          BY <1>0, <3>1, <3>3, <3>4, <3>6, <4>1, <5>1 DEF BpFront, Pipe!PipeExact
      <4>2. CASE pipeChunks # <<>>
        <5>1. 1 \in 1 .. Len(pipeChunks) /\ pipeChunks'[1] = pipeChunks[1]
          BY <3>1, <3>5, <4>2
        <5> QED
          BY <1>0, <3>4, <4>2, <5>1 DEF Pipe!PipeExact
      <4> QED
        BY <4>1, <4>2
    <3>12. ASSUME NEW k \in 1 .. Len(pipeChunks') - 1 PROVE pipeChunks'[k + 1].from = Pipe!End(pipeChunks'[k])
      <4>1. k \in 1 .. Len(pipeChunks) /\ pipeChunks'[k] = pipeChunks[k]
        BY <3>1, <3>5
      <4>2. CASE k = Len(pipeChunks)
        <5>1. pipeChunks # <<>>
          BY <4>1, <4>2
        <5> QED
          BY <1>0, <3>3, <3>5, <4>1, <4>2, <5>1 DEF Pipe!PipeExact
      <4>3. CASE k # Len(pipeChunks)
        <5>1. k \in 1 .. Len(pipeChunks) - 1 /\ k + 1 \in 1 .. Len(pipeChunks)
          BY <3>1, <4>1, <4>3
        <5> QED
          BY <1>0, <3>5, <4>1, <5>1 DEF Pipe!PipeExact
      <4> QED
        BY <4>2, <4>3
    <3> QED
      BY <3>4, <3>5, <3>7, <3>8, <3>9, <3>10, <3>11, <3>12 DEF Pipe!PipeExact
  <2> QED
    BY <2>1, <2>2, <2>3, <2>4, <2>5 DEF BpInv
<1>10. CASE Pipe!WriteNotifies
  <2>1. BpFront' /\ Pipe!PipeExact'
    BY <1>0, <1>10 DEF BpFront, Pipe!PipeExact, Pipe!WriteNotifies, Pipe!WakeReader
  <2>2. BpFacts'
    BY <1>0, <1>10 DEF BpFacts, Pipe!TypeOK, Pipe!PipeConstants, Pipe!WriteNotifies, Pipe!WakeReader
  <2>3. BpSides'
    BY <1>0, <1>10 DEF BpSides, BpFacts, Pipe!TypeOK, Pipe!PipeConstants, Pipe!WriteNotifies, Pipe!WakeReader
  <2>4. Pipe!NoneSleepsOn'
    BY <1>0, <1>10 DEF Pipe!NoneSleepsOn, BpFacts, Pipe!TypeOK, Pipe!ReaderWakes, Pipe!WriterWakes, Pipe!HasRoom, Pipe!Over, Pipe!WriteNotifies, Pipe!WakeReader
  <2> QED
    BY <2>1, <2>2, <2>3, <2>4 DEF BpInv
<1>11. CASE Pipe!Finish
  <2>1. BpFront' /\ Pipe!PipeExact'
    BY <1>0, <1>11 DEF BpFront, Pipe!PipeExact, Pipe!Finish, Pipe!WakeAll, Pipe!WakeReader, Pipe!WakeWriter
  <2>2. BpFacts'
    BY <1>0, <1>11 DEF BpFacts, Pipe!TypeOK, Pipe!PipeConstants, Pipe!Finish, Pipe!WakeAll, Pipe!WakeReader, Pipe!WakeWriter
  <2>3. BpSides'
    BY <1>0, <1>11 DEF BpSides, BpFacts, Pipe!TypeOK, Pipe!PipeConstants, Pipe!Finish, Pipe!WakeAll, Pipe!WakeReader, Pipe!WakeWriter
  <2>4. Pipe!NoneSleepsOn'
    BY <1>0, <1>11 DEF Pipe!NoneSleepsOn, BpFacts, Pipe!TypeOK, Pipe!ReaderWakes, Pipe!WriterWakes, Pipe!HasRoom, Pipe!Over, Pipe!Finish, Pipe!WakeAll, Pipe!WakeReader, Pipe!WakeWriter
  <2> QED
    BY <2>1, <2>2, <2>3, <2>4 DEF BpInv
<1>12. CASE Pipe!FailPipe
  <2>1. BpFront'
    BY <1>0, <1>12 DEF BpFront, Pipe!FailPipe, Pipe!WakeAll, Pipe!WakeReader, Pipe!WakeWriter
  <2>2. BpFacts'
    BY <1>0, <1>12 DEF BpFacts, Pipe!TypeOK, Pipe!PipeConstants, Pipe!FailPipe, Pipe!WakeAll, Pipe!WakeReader, Pipe!WakeWriter
  <2>3. BpSides'
    BY <1>0, <1>12 DEF BpSides, BpFacts, Pipe!TypeOK, Pipe!PipeConstants, Pipe!FailPipe, Pipe!WakeAll, Pipe!WakeReader, Pipe!WakeWriter
  <2>4. Pipe!NoneSleepsOn'
    BY <1>0, <1>12 DEF Pipe!NoneSleepsOn, BpFacts, Pipe!TypeOK, Pipe!ReaderWakes, Pipe!WriterWakes, Pipe!HasRoom, Pipe!Over, Pipe!FailPipe, Pipe!WakeAll, Pipe!WakeReader, Pipe!WakeWriter
  <2>5. Pipe!PipeExact'
    BY <1>0, <1>12 DEF Pipe!PipeExact, BpFacts, Pipe!TypeOK, BpSides, BpFront, Pipe!PipeConstants, Pipe!FailPipe, Pipe!WakeAll, Pipe!WakeReader, Pipe!WakeWriter
  <2> QED
    BY <2>1, <2>2, <2>3, <2>4, <2>5 DEF BpInv
<1>13. CASE Pipe!Close
  <2>1. BpFacts'
    BY <1>0, <1>13 DEF BpFacts, Pipe!TypeOK, Pipe!PipeConstants, Pipe!Close, Pipe!WakeClosed, Pipe!WakeAll, Pipe!WakeReader, Pipe!WakeWriter
  <2>2. BpSides'
    BY <1>0, <1>13 DEF BpSides, BpFacts, Pipe!TypeOK, Pipe!PipeConstants, Pipe!Close, Pipe!WakeClosed, Pipe!WakeAll, Pipe!WakeReader, Pipe!WakeWriter
  <2>3. BpFront'
    BY <1>0, <1>13 DEF BpFront, BpFacts, Pipe!TypeOK, Pipe!Close, Pipe!WakeClosed, Pipe!WakeAll, Pipe!WakeReader, Pipe!WakeWriter
  <2>4. Pipe!NoneSleepsOn'
    BY <1>0, <1>13 DEF Pipe!NoneSleepsOn, BpFacts, Pipe!TypeOK, Pipe!ReaderWakes, Pipe!WriterWakes, Pipe!HasRoom, Pipe!Over, Pipe!Close, Pipe!WakeClosed, Pipe!WakeAll, Pipe!WakeReader, Pipe!WakeWriter
  <2>5. Pipe!PipeExact'
    BY <1>0, <1>13 DEF Pipe!PipeExact, BpFacts, Pipe!TypeOK, BpSides, BpFront, Pipe!PipeConstants, Pipe!Close, Pipe!WakeClosed, Pipe!WakeAll, Pipe!WakeReader, Pipe!WakeWriter
  <2> QED
    BY <2>1, <2>2, <2>3, <2>4, <2>5 DEF BpInv
<1>14. CASE UNCHANGED Pipe!vars
  <2> USE DEF Pipe!vars
  <2>1. BpFacts'
    BY <1>0, <1>14 DEF BpFacts, Pipe!TypeOK
  <2>2. BpSides'
    BY <1>0, <1>14 DEF BpSides
  <2>3. BpFront'
    BY <1>0, <1>14 DEF BpFront
  <2>4. Pipe!NoneSleepsOn'
    BY <1>0, <1>14 DEF Pipe!NoneSleepsOn, Pipe!ReaderWakes, Pipe!WriterWakes, Pipe!HasRoom, Pipe!Over
  <2>5. Pipe!PipeExact'
    BY <1>0, <1>14 DEF Pipe!PipeExact
  <2> QED
    BY <2>1, <2>2, <2>3, <2>4, <2>5 DEF BpInv
<1> QED
  BY <1>1, <1>2, <1>3, <1>4, <1>5, <1>6, <1>7, <1>8, <1>9, <1>10, <1>11, <1>12, <1>13, <1>14 DEF Pipe!Next, Pipe!Reading, Pipe!Writing

\* From it: nobody sleeps whom a condition already met should have woken, and what the
\* pipe holds is what was written and not yet read, in order.
LEMMA BpSafe == BpInv => Pipe!Inv
  BY DEF BpInv, BpFacts, Pipe!Inv

-----------------------------------------------------------------------------
\* The NetworkManager.

Places == {"new", "arm", "hop", "chain", "intercepted", "handler", "done"}
MgFacts ==
    /\ Manager!TypeOK
    /\ fetchPc \in [Fetches -> Places] /\ fetchIndex \in [Fetches -> Nat]
    /\ creds \in [Fetches -> BOOLEAN] /\ fetchOrigin \in [Fetches -> Origins]
    /\ fetchResults \in [Fetches -> Seq({"response", "cancelled", "invalid", "unsupported", "redirects"})]
    /\ fetchTimer \in [Fetches -> {"none", "shared", "private", "fired", "cancelled", "lost"}]
    /\ fetchIds \in Seq(Interceptors) /\ fetchRan \in [Fetches -> Seq(Interceptors)]

\* Each addition has an id of its own, and the chain keeps their order.
MgChain ==
    /\ \A m, n \in 1 .. Len(fetchIds) : fetchIds[m] = fetchIds[n] => m = n
    /\ \A n \in 1 .. Len(chain) : chain[n] \in Manager!Elements(fetchIds)
    /\ \A m, n \in 1 .. Len(chain) : m < n => Manager!Place(fetchIds, chain[m]) < Manager!Place(fetchIds, chain[n])

\* What a hop has run was added before all it may still run.
MgRan ==
    \A f \in Fetches :
        /\ \A m \in 1 .. Len(fetchRan[f]) : fetchRan[f][m] \in Manager!Elements(fetchIds)
        /\ fetchPc[f] \in {"chain", "intercepted"} =>
             \A m \in 1 .. Len(fetchRan[f]) : \A n \in fetchIndex[f] + 1 .. Len(chain) :
                 Manager!Place(fetchIds, fetchRan[f][m]) < Manager!Place(fetchIds, chain[n])

\* Credentials that are still there are at home.
MgCreds == \A f \in Fetches : creds[f] => fetchOrigin[f] = Home

MgInv == MgFacts /\ Manager!OneResult /\ MgChain /\ MgRan /\ Manager!InOrder /\ MgCreds

\* The place of what was added is its place in ids.
LEMMA MgPosition ==
  ASSUME NEW i \in Manager!Elements(fetchIds)
  PROVE  Manager!Place(fetchIds, i) \in 1 .. Len(fetchIds) /\ fetchIds[Manager!Place(fetchIds, i)] = i
  BY DEF Manager!Elements, Manager!Place

\* What is left of a sequence when one element of it is taken out.
LEMMA MgCut ==
  ASSUME NEW S, NEW s \in Seq(S), NEW k \in 1 .. Len(s)
  PROVE  LET r == SubSeq(s, 1, k - 1) \o SubSeq(s, k + 1, Len(s)) IN
         /\ r \in Seq(S) /\ Len(r) = Len(s) - 1
         /\ \A n \in 1 .. Len(r) : r[n] = IF n < k THEN s[n] ELSE s[n + 1]
<1> DEFINE a == SubSeq(s, 1, k - 1)
           b == SubSeq(s, k + 1, Len(s))
<1>1. Len(s) \in Nat /\ k \in Nat
  OBVIOUS
<1>2. a \in Seq(S) /\ Len(a) = k - 1 /\ \A n \in 1 .. k - 1 : a[n] = s[n]
  BY <1>1
<1>3. b \in Seq(S) /\ Len(b) = Len(s) - k /\ \A n \in 1 .. Len(s) - k : b[n] = s[n + k]
  BY <1>1
<1>4. /\ a \o b \in Seq(S) /\ Len(a \o b) = Len(a) + Len(b)
      /\ \A i \in 1 .. Len(a) + Len(b) : (a \o b)[i] = IF i <= Len(a) THEN a[i] ELSE b[i - Len(a)]
  BY <1>2, <1>3, ConcatProperties
<1> HIDE DEF a, b
<1>5. ASSUME NEW n \in 1 .. Len(s) - 1
      PROVE  (a \o b)[n] = IF n < k THEN s[n] ELSE s[n + 1]
  <2>1. CASE n < k
    BY <1>1, <1>2, <1>3, <1>4, <2>1
  <2>2. CASE ~(n < k)
    <3>1. n - (k - 1) \in 1 .. Len(s) - k /\ ~(n <= k - 1) /\ n - (k - 1) + k = n + 1
      BY <1>1, <2>2
    <3>2. b[n - (k - 1)] = s[n + 1]
      BY <1>3, <3>1
    <3>3. Len(a) = k - 1 /\ n \in 1 .. Len(a) + Len(b)
      BY <1>1, <1>2, <1>3
    <3>4. (a \o b)[n] = b[n - (k - 1)]
      BY <1>4, <3>1, <3>3
    <3> QED
      BY <2>2, <3>2, <3>4
  <2> QED
    BY <2>1, <2>2
<1>6. a \o b \in Seq(S) /\ Len(a \o b) = Len(s) - 1
  BY <1>1, <1>2, <1>3, <1>4
<1>7. (a \o b) = SubSeq(s, 1, k - 1) \o SubSeq(s, k + 1, Len(s))
  BY DEF a, b
<1> QED
  BY <1>5, <1>6, <1>7

\* Before its first step, the NetworkManager (network_manager.cpp) satisfies the invariant.
LEMMA MgInit == Manager!NetworkConstants /\ Manager!Init => MgInv
<1> SUFFICES ASSUME Manager!NetworkConstants, Manager!Init PROVE MgInv
  OBVIOUS
<1> USE DEF Manager!NetworkConstants, Manager!Init
<1>1. MgFacts
  <2>1. <<>> \in Seq(Interceptors) /\ hops \in [Fetches -> 0 .. MaxRedirects]
    OBVIOUS
  <2> QED
    BY <2>1 DEF MgFacts, Manager!TypeOK, Places
<1>2. Manager!OneResult /\ MgChain /\ MgRan /\ Manager!InOrder /\ MgCreds
  BY DEF Manager!OneResult, MgChain, MgRan, Manager!InOrder, MgCreds
<1> QED
  BY <1>1, <1>2 DEF MgInv

\* Each step of the NetworkManager (network_manager.cpp) preserves the invariant, part by part.
LEMMA MgStep == Manager!NetworkConstants /\ MgInv /\ [Manager!Next]_(Manager!vars) => MgInv'
<1> SUFFICES ASSUME Manager!NetworkConstants, MgInv, [Manager!Next]_(Manager!vars) PROVE MgInv'
  OBVIOUS
<1> USE DEF Manager!registry, Manager!signals, Manager!hop, Manager!Goto
<1>0. MgFacts /\ Manager!OneResult /\ MgChain /\ MgRan /\ Manager!InOrder /\ MgCreds
  BY DEF MgInv
<1>1. ASSUME NEW f \in Fetches, Manager!Forward(f) PROVE MgInv'
  <2>1. MgChain' /\ Manager!InOrder' /\ MgCreds'
    BY <1>0, <1>1 DEF MgChain, Manager!InOrder, MgCreds, Manager!Elements, Manager!Position, Manager!Forward, Manager!Signal
  <2>2. MgFacts'
    BY <1>0, <1>1 DEF MgFacts, Manager!TypeOK, Places, Manager!Elements, Manager!Position, Manager!Forward, Manager!Signal
  <2>3. Manager!OneResult'
    BY <1>0, <1>1 DEF Manager!OneResult, MgFacts, Manager!Elements, Manager!Position, Manager!Forward, Manager!Signal
  <2>4. MgRan'
    <3>1. (\A i : Manager!Place(fetchIds', i) = Manager!Place(fetchIds, i)) /\ Manager!Elements(fetchIds)' = Manager!Elements(fetchIds)
      BY <1>1 DEF Manager!Elements, Manager!Forward, Manager!Signal
    <3> QED
      BY <1>0, <1>1, <3>1 DEF MgRan, MgFacts, Places, Manager!Forward, Manager!Signal
  <2> QED
    BY <2>1, <2>2, <2>3, <2>4 DEF MgInv
<1>2. ASSUME NEW f \in Fetches, Manager!Arm(f) PROVE MgInv'
  <2>1. MgChain' /\ Manager!InOrder' /\ MgCreds'
    BY <1>0, <1>2 DEF MgChain, Manager!InOrder, MgCreds, Manager!Elements, Manager!Position, Manager!Arm
  <2>2. MgFacts'
    BY <1>0, <1>2 DEF MgFacts, Manager!TypeOK, Places, Manager!Elements, Manager!Position, Manager!Arm
  <2>3. Manager!OneResult'
    BY <1>0, <1>2 DEF Manager!OneResult, MgFacts, Manager!Elements, Manager!Position, Manager!Arm
  <2>4. MgRan'
    <3>1. (\A i : Manager!Place(fetchIds', i) = Manager!Place(fetchIds, i)) /\ Manager!Elements(fetchIds)' = Manager!Elements(fetchIds)
      BY <1>2 DEF Manager!Elements, Manager!Arm
    <3> QED
      BY <1>0, <1>2, <3>1 DEF MgRan, MgFacts, Places, Manager!Arm
  <2> QED
    BY <2>1, <2>2, <2>3, <2>4 DEF MgInv
<1>3. ASSUME NEW f \in Fetches, Manager!Untimed(f) PROVE MgInv'
  <2>1. MgChain' /\ Manager!InOrder' /\ MgCreds'
    BY <1>0, <1>3 DEF MgChain, Manager!InOrder, MgCreds, Manager!Elements, Manager!Position, Manager!Untimed
  <2>2. MgFacts'
    BY <1>0, <1>3 DEF MgFacts, Manager!TypeOK, Places, Manager!Elements, Manager!Position, Manager!Untimed
  <2>3. Manager!OneResult'
    BY <1>0, <1>3 DEF Manager!OneResult, MgFacts, Manager!Elements, Manager!Position, Manager!Untimed
  <2>4. MgRan'
    <3>1. (\A i : Manager!Place(fetchIds', i) = Manager!Place(fetchIds, i)) /\ Manager!Elements(fetchIds)' = Manager!Elements(fetchIds)
      BY <1>3 DEF Manager!Elements, Manager!Untimed
    <3> QED
      BY <1>0, <1>3, <3>1 DEF MgRan, MgFacts, Places, Manager!Untimed
  <2> QED
    BY <2>1, <2>2, <2>3, <2>4 DEF MgInv
<1>4. ASSUME NEW f \in Fetches, NEW r \in {"response", "cancelled", "invalid", "unsupported", "redirects"}, fetchPc[f] \in {"hop", "intercepted", "chain", "handler"}, Manager!Done(f, r) PROVE MgInv'
  <2>1. MgChain' /\ Manager!InOrder' /\ MgCreds'
    BY <1>0, <1>4 DEF MgChain, Manager!InOrder, MgCreds, Manager!Elements, Manager!Position, Manager!Done, Manager!Release
  <2>2. MgFacts'
    <3>1. Append(fetchResults[f], r) \in Seq({"response", "cancelled", "invalid", "unsupported", "redirects"})
      BY <1>0, <1>4 DEF MgFacts
    <3> QED
      BY <1>0, <1>4, <3>1 DEF MgFacts, Manager!TypeOK, Places, Manager!Done, Manager!Release
  <2>3. Manager!OneResult'
    <3>1. fetchResults[f] = <<>> /\ Len(Append(fetchResults[f], r)) = 1 /\ Append(fetchResults[f], r) # <<>>
      <4>1. fetchResults[f] = <<>>
        BY <1>0, <1>4 DEF Manager!OneResult
      <4>2. Append(<<>>, r) = <<r>> /\ Len(<<r>>) = 1 /\ <<r>> # <<>>
        OBVIOUS
      <4> QED
        BY <4>1, <4>2
    <3> QED
      BY <1>0, <1>4, <3>1 DEF MgFacts, Manager!OneResult, Manager!Done, Manager!Release
  <2>4. MgRan'
    <3>1. (\A i : Manager!Place(fetchIds', i) = Manager!Place(fetchIds, i)) /\ Manager!Elements(fetchIds)' = Manager!Elements(fetchIds)
      BY <1>4 DEF Manager!Elements, Manager!Done, Manager!Release
    <3> QED
      BY <1>0, <1>4, <3>1 DEF MgRan, MgFacts, Places, Manager!Done, Manager!Release
  <2> QED
    BY <2>1, <2>2, <2>3, <2>4 DEF MgInv
<1>5. ASSUME NEW f \in Fetches, Manager!Unsubscribe(f) PROVE MgInv'
  <2>1. Manager!OneResult' /\ MgChain' /\ MgRan' /\ Manager!InOrder' /\ MgCreds'
    BY <1>0, <1>5 DEF Manager!OneResult, MgChain, MgRan, Manager!InOrder, MgCreds, Manager!Elements, Manager!Position, Manager!Unsubscribe
  <2>2. MgFacts'
    BY <1>0, <1>5 DEF MgFacts, Manager!TypeOK, Places, Manager!Elements, Manager!Position, Manager!Unsubscribe
  <2> QED
    BY <2>1, <2>2 DEF MgInv
<1>6. ASSUME NEW f \in Fetches, Manager!Hop(f) PROVE MgInv'
  <2>1. MgChain' /\ MgCreds'
    BY <1>0, <1>6 DEF MgChain, MgCreds, Manager!Elements, Manager!Position, Manager!Hop
  <2>2. MgFacts'
    BY <1>0, <1>6 DEF MgFacts, Manager!TypeOK, Places, Manager!Elements, Manager!Position, Manager!Hop
  <2>3. Manager!OneResult'
    BY <1>0, <1>6 DEF Manager!OneResult, MgFacts, Manager!Elements, Manager!Position, Manager!Hop
  <2>4. MgRan'
    <3>1. (\A i : Manager!Place(fetchIds', i) = Manager!Place(fetchIds, i)) /\ Manager!Elements(fetchIds)' = Manager!Elements(fetchIds)
      BY <1>6 DEF Manager!Elements, Manager!Hop
    <3> QED
      BY <1>0, <1>6, <3>1 DEF MgRan, MgFacts, Places, Manager!Hop
  <2>5. Manager!InOrder'
    <3>1. fetchIds' = fetchIds /\ fetchRan'[f] = <<>> /\ \A g \in Fetches \ {f} : fetchRan'[g] = fetchRan[g]
      BY <1>0, <1>6 DEF MgFacts, Manager!Hop
    <3>2. \A i : Manager!Place(fetchIds', i) = Manager!Place(fetchIds, i)
      BY <3>1
    <3> QED
      BY <1>0, <3>1, <3>2 DEF Manager!InOrder, Manager!Position
  <2> QED
    BY <2>1, <2>2, <2>3, <2>4, <2>5 DEF MgInv
<1>7. ASSUME NEW f \in Fetches, Manager!Intercept(f) PROVE MgInv'
  <2>1. MgChain' /\ MgCreds'
    BY <1>0, <1>7 DEF MgChain, MgCreds, Manager!Elements, Manager!Position, Manager!Intercept, Manager!StepOn
  <2>2. MgFacts'
    <3>1. Append(fetchRan[f], chain[fetchIndex[f] + 1]) \in Seq(Interceptors) /\ fetchIndex[f] + 1 \in Nat
      BY <1>0, <1>7 DEF MgFacts, Manager!TypeOK, Manager!Intercept
    <3> QED
      BY <1>0, <1>7, <3>1 DEF MgFacts, Manager!TypeOK, Places, Manager!Intercept, Manager!StepOn
  <2>3. Manager!OneResult'
    BY <1>0, <1>7 DEF Manager!OneResult, MgFacts, Manager!Elements, Manager!Position, Manager!Intercept, Manager!StepOn
  <2>4. MgRan'
    <3>1. /\ fetchIndex[f] + 1 \in 1 .. Len(chain) /\ fetchIndex[f] \in Nat /\ Len(chain) \in Nat
          /\ fetchRan[f] \in Seq(Interceptors) /\ Len(fetchRan[f]) \in Nat /\ UNCHANGED <<fetchIds, chain>>
      BY <1>0, <1>7 DEF MgFacts, Manager!TypeOK, Manager!Intercept
    <3>2. /\ fetchRan'[f] = Append(fetchRan[f], chain[fetchIndex[f] + 1]) /\ fetchIndex'[f] = fetchIndex[f] + 1
          /\ \A g \in Fetches \ {f} : fetchRan'[g] = fetchRan[g] /\ fetchIndex'[g] = fetchIndex[g] /\ fetchPc'[g] = fetchPc[g]
      BY <1>0, <1>7 DEF MgFacts, Manager!Intercept, Manager!StepOn
    <3>3. /\ Len(fetchRan'[f]) = Len(fetchRan[f]) + 1 /\ fetchRan'[f][Len(fetchRan[f]) + 1] = chain[fetchIndex[f] + 1]
          /\ \A m \in 1 .. Len(fetchRan[f]) : fetchRan'[f][m] = fetchRan[f][m]
      BY <3>1, <3>2
    <3>4. \A i : Manager!Place(fetchIds', i) = Manager!Place(fetchIds, i)
      BY <3>1
    <3>5. \A m \in 1 .. Len(fetchRan'[f]) : m = Len(fetchRan[f]) + 1 \/ m \in 1 .. Len(fetchRan[f])
      BY <3>1, <3>3
    <3>6. Manager!Elements(fetchIds)' = Manager!Elements(fetchIds)
      BY <3>1 DEF Manager!Elements
    <3>7. \A m \in 1 .. Len(fetchRan'[f]) : fetchRan'[f][m] \in Manager!Elements(fetchIds)
      BY <1>0, <3>1, <3>3, <3>5 DEF MgRan, MgChain
    <3>8. ASSUME NEW m \in 1 .. Len(fetchRan'[f]), NEW n \in fetchIndex[f] + 2 .. Len(chain)
          PROVE  Manager!Place(fetchIds, fetchRan'[f][m]) < Manager!Place(fetchIds, chain[n])
      <4>1. n \in fetchIndex[f] + 1 .. Len(chain) /\ n \in 1 .. Len(chain) /\ fetchIndex[f] + 1 < n
        BY <3>1
      <4>2. CASE m = Len(fetchRan[f]) + 1
        BY <1>0, <3>1, <3>3, <4>1, <4>2 DEF MgChain
      <4>3. CASE m \in 1 .. Len(fetchRan[f])
        BY <1>0, <1>7, <3>3, <4>1, <4>3 DEF MgRan, Manager!Intercept
      <4> QED
        BY <3>5, <4>2, <4>3
    <3> SUFFICES ASSUME NEW g \in Fetches
                 PROVE  /\ \A m \in 1 .. Len(fetchRan'[g]) : fetchRan'[g][m] \in Manager!Elements(fetchIds)
                        /\ fetchPc'[g] \in {"chain", "intercepted"} =>
                             \A m \in 1 .. Len(fetchRan'[g]) : \A n \in fetchIndex'[g] + 1 .. Len(chain) :
                                 Manager!Place(fetchIds, fetchRan'[g][m]) < Manager!Place(fetchIds, chain[n])
      BY <3>1, <3>6 DEF MgRan
    <3>9. CASE g = f
      <4>1. fetchIndex'[f] + 1 = fetchIndex[f] + 2
        BY <3>1, <3>2
      <4> QED
        BY <3>7, <3>8, <3>9, <4>1
    <3>10. CASE g # f
      BY <1>0, <3>2, <3>10 DEF MgRan
    <3> QED
      BY <3>9, <3>10
  <2>5. Manager!InOrder'
    <3>1. /\ fetchIndex[f] + 1 \in 1 .. Len(chain) /\ fetchIndex[f] \in Nat /\ Len(chain) \in Nat
          /\ fetchRan[f] \in Seq(Interceptors) /\ Len(fetchRan[f]) \in Nat /\ UNCHANGED <<fetchIds, chain>>
      BY <1>0, <1>7 DEF MgFacts, Manager!TypeOK, Manager!Intercept
    <3>2. /\ fetchRan'[f] = Append(fetchRan[f], chain[fetchIndex[f] + 1]) /\ fetchIndex'[f] = fetchIndex[f] + 1
          /\ \A g \in Fetches \ {f} : fetchRan'[g] = fetchRan[g] /\ fetchIndex'[g] = fetchIndex[g] /\ fetchPc'[g] = fetchPc[g]
      BY <1>0, <1>7 DEF MgFacts, Manager!Intercept, Manager!StepOn
    <3>3. /\ Len(fetchRan'[f]) = Len(fetchRan[f]) + 1 /\ fetchRan'[f][Len(fetchRan[f]) + 1] = chain[fetchIndex[f] + 1]
          /\ \A m \in 1 .. Len(fetchRan[f]) : fetchRan'[f][m] = fetchRan[f][m]
      BY <3>1, <3>2
    <3>4. \A i : Manager!Place(fetchIds', i) = Manager!Place(fetchIds, i)
      BY <3>1
    <3>5. \A m \in 1 .. Len(fetchRan'[f]) : m = Len(fetchRan[f]) + 1 \/ m \in 1 .. Len(fetchRan[f])
      BY <3>1, <3>3
    <3>6. ASSUME NEW m \in 1 .. Len(fetchRan'[f]), NEW n \in 1 .. Len(fetchRan'[f]), m < n
          PROVE  Manager!Place(fetchIds, fetchRan'[f][m]) < Manager!Place(fetchIds, fetchRan'[f][n])
      <4>1. m \in 1 .. Len(fetchRan[f])
        BY <3>1, <3>3, <3>6
      <4>2. CASE n = Len(fetchRan[f]) + 1
        <5>1. fetchRan[f][m] = fetchRan'[f][m] /\ fetchRan'[f][n] = chain[fetchIndex[f] + 1]
          BY <3>3, <4>1, <4>2
        <5>2. fetchPc[f] = "chain"
          BY <1>7 DEF Manager!Intercept
        <5>3. fetchIndex[f] + 1 \in fetchIndex[f] + 1 .. Len(chain)
          BY <3>1
        <5>4. Manager!Place(fetchIds, fetchRan[f][m]) < Manager!Place(fetchIds, chain[fetchIndex[f] + 1])
          BY <1>0, <4>1, <5>2, <5>3 DEF MgRan
        <5> QED
          BY <5>1, <5>4
      <4>3. CASE n \in 1 .. Len(fetchRan[f])
        BY <1>0, <3>3, <3>6, <4>1, <4>3 DEF Manager!InOrder, Manager!Position
      <4> QED
        BY <3>5, <4>2, <4>3
    <3>7. fetchIds' = fetchIds
      BY <3>1
    <3> SUFFICES ASSUME NEW g \in Fetches, NEW m \in 1 .. Len(fetchRan'[g]), NEW n \in 1 .. Len(fetchRan'[g]), m < n
                 PROVE  Manager!Place(fetchIds, fetchRan'[g][m]) < Manager!Place(fetchIds, fetchRan'[g][n])
      BY <3>7 DEF Manager!InOrder, Manager!Position
    <3>8. CASE g = f
      BY <3>6, <3>8
    <3>9. CASE g # f
      BY <1>0, <3>2, <3>9 DEF Manager!InOrder, Manager!Position
    <3> QED
      BY <3>8, <3>9
  <2> QED
    BY <2>1, <2>2, <2>3, <2>4, <2>5 DEF MgInv
<1>8. ASSUME NEW f \in Fetches, Manager!InterceptNext(f) PROVE MgInv'
  <2>1. MgChain' /\ Manager!InOrder' /\ MgCreds'
    BY <1>0, <1>8 DEF MgChain, Manager!InOrder, MgCreds, Manager!Elements, Manager!Position, Manager!InterceptNext
  <2>2. MgFacts'
    BY <1>0, <1>8 DEF MgFacts, Manager!TypeOK, Places, Manager!Elements, Manager!Position, Manager!InterceptNext
  <2>3. Manager!OneResult'
    BY <1>0, <1>8 DEF Manager!OneResult, MgFacts, Manager!Elements, Manager!Position, Manager!InterceptNext
  <2>4. MgRan'
    <3>1. (\A i : Manager!Place(fetchIds', i) = Manager!Place(fetchIds, i)) /\ Manager!Elements(fetchIds)' = Manager!Elements(fetchIds)
      BY <1>8 DEF Manager!Elements, Manager!InterceptNext
    <3> QED
      BY <1>0, <1>8, <3>1 DEF MgRan, MgFacts, Places, Manager!InterceptNext
  <2> QED
    BY <2>1, <2>2, <2>3, <2>4 DEF MgInv
<1>9. ASSUME NEW f \in Fetches, Manager!Handle(f) PROVE MgInv'
  <2>1. MgChain' /\ Manager!InOrder' /\ MgCreds'
    BY <1>0, <1>9 DEF MgChain, Manager!InOrder, MgCreds, Manager!Elements, Manager!Position, Manager!Handle
  <2>2. MgFacts'
    BY <1>0, <1>9 DEF MgFacts, Manager!TypeOK, Places, Manager!Elements, Manager!Position, Manager!Handle
  <2>3. Manager!OneResult'
    BY <1>0, <1>9 DEF Manager!OneResult, MgFacts, Manager!Elements, Manager!Position, Manager!Handle
  <2>4. MgRan'
    <3>1. (\A i : Manager!Place(fetchIds', i) = Manager!Place(fetchIds, i)) /\ Manager!Elements(fetchIds)' = Manager!Elements(fetchIds)
      BY <1>9 DEF Manager!Elements, Manager!Handle
    <3> QED
      BY <1>0, <1>9, <3>1 DEF MgRan, MgFacts, Places, Manager!Handle
  <2> QED
    BY <2>1, <2>2, <2>3, <2>4 DEF MgInv
<1>10. ASSUME NEW f \in Fetches, Manager!Redirect(f) PROVE MgInv'
  <2>1. MgChain' /\ Manager!InOrder'
    BY <1>0, <1>10 DEF MgChain, Manager!InOrder, Manager!Elements, Manager!Position, Manager!Redirect, Manager!KeepCreds
  <2>2. MgFacts'
    <3>1. hops[f] \in 0 .. MaxRedirects /\ hops[f] > 0 /\ MaxRedirects \in Nat
      BY <1>0, <1>10 DEF MgFacts, Manager!TypeOK, Manager!Redirect, Manager!NetworkConstants
    <3>2. hops[f] - 1 \in 0 .. MaxRedirects
      BY <3>1
    <3>3. PICK o \in Origins : fetchOrigin' = [fetchOrigin EXCEPT ![f] = o] /\ creds' = [creds EXCEPT ![f] = Manager!KeepCreds(f, o)]
      BY <1>10 DEF Manager!Redirect
    <3>4. Manager!KeepCreds(f, o) \in BOOLEAN
      BY <1>0 DEF MgFacts, Manager!KeepCreds
    <3>5. fetchOrigin' \in [Fetches -> Origins] /\ creds' \in [Fetches -> BOOLEAN] /\ hops' \in [Fetches -> 0 .. MaxRedirects]
      BY <1>0, <1>10, <3>2, <3>3, <3>4 DEF MgFacts, Manager!TypeOK, Manager!Redirect
    <3> QED
      BY <1>0, <1>10, <3>5 DEF MgFacts, Manager!TypeOK, Places, Manager!Redirect
  <2>3. Manager!OneResult'
    BY <1>0, <1>10 DEF Manager!OneResult, MgFacts, Manager!Elements, Manager!Position, Manager!Redirect, Manager!KeepCreds
  <2>4. MgRan'
    <3>1. (\A i : Manager!Place(fetchIds', i) = Manager!Place(fetchIds, i)) /\ Manager!Elements(fetchIds)' = Manager!Elements(fetchIds)
      BY <1>10 DEF Manager!Elements, Manager!Redirect, Manager!KeepCreds
    <3> QED
      BY <1>0, <1>10, <3>1 DEF MgRan, MgFacts, Places, Manager!Redirect, Manager!KeepCreds
  <2>5. MgCreds'
    BY <1>0, <1>10 DEF MgCreds, MgFacts, Manager!Elements, Manager!Position, Manager!Redirect, Manager!KeepCreds
  <2> QED
    BY <2>1, <2>2, <2>3, <2>4, <2>5 DEF MgInv
<1>11. ASSUME NEW f \in Fetches, Manager!CancelCaller(f) PROVE MgInv'
  <2>1. Manager!OneResult' /\ MgChain' /\ MgRan' /\ Manager!InOrder' /\ MgCreds'
    BY <1>0, <1>11 DEF Manager!OneResult, MgChain, MgRan, Manager!InOrder, MgCreds, Manager!Elements, Manager!Position, Manager!CancelCaller
  <2>2. MgFacts'
    BY <1>0, <1>11 DEF MgFacts, Manager!TypeOK, Places, Manager!Elements, Manager!Position, Manager!CancelCaller
  <2> QED
    BY <2>1, <2>2 DEF MgInv
<1>12. ASSUME NEW f \in Fetches, Manager!ForwardCall(f) PROVE MgInv'
  <2>1. Manager!OneResult' /\ MgChain' /\ MgRan' /\ Manager!InOrder' /\ MgCreds'
    BY <1>0, <1>12 DEF Manager!OneResult, MgChain, MgRan, Manager!InOrder, MgCreds, Manager!Elements, Manager!Position, Manager!ForwardCall, Manager!Signal
  <2>2. MgFacts'
    BY <1>0, <1>12 DEF MgFacts, Manager!TypeOK, Places, Manager!Elements, Manager!Position, Manager!ForwardCall, Manager!Signal
  <2> QED
    BY <2>1, <2>2 DEF MgInv
<1>13. ASSUME NEW f \in Fetches, Manager!Fire(f) PROVE MgInv'
  <2>1. MgChain' /\ MgRan' /\ Manager!InOrder' /\ MgCreds'
    BY <1>0, <1>13 DEF MgChain, MgRan, Manager!InOrder, MgCreds, Manager!Elements, Manager!Position, Manager!Fire, Manager!Signal
  <2>2. MgFacts'
    BY <1>0, <1>13 DEF MgFacts, Manager!TypeOK, Places, Manager!Elements, Manager!Position, Manager!Fire, Manager!Signal
  <2>3. Manager!OneResult'
    BY <1>0, <1>13 DEF Manager!OneResult, MgFacts, Manager!Elements, Manager!Position, Manager!Fire, Manager!Signal
  <2> QED
    BY <2>1, <2>2, <2>3 DEF MgInv
<1>14. CASE Manager!UseScheduler
  <2>1. Manager!OneResult' /\ MgChain' /\ MgRan' /\ Manager!InOrder' /\ MgCreds'
    BY <1>0, <1>14 DEF Manager!OneResult, MgChain, MgRan, Manager!InOrder, MgCreds, Manager!Elements, Manager!Position, Manager!UseScheduler
  <2>2. MgFacts'
    BY <1>0, <1>14 DEF MgFacts, Manager!TypeOK, Places, Manager!Elements, Manager!Position, Manager!UseScheduler
  <2> QED
    BY <2>1, <2>2 DEF MgInv
<1>15. CASE Manager!StopShared
  <2>1. MgChain' /\ MgRan' /\ Manager!InOrder' /\ MgCreds'
    BY <1>0, <1>15 DEF MgChain, MgRan, Manager!InOrder, MgCreds, Manager!Elements, Manager!Position, Manager!StopShared
  <2>2. MgFacts'
    BY <1>0, <1>15 DEF MgFacts, Manager!TypeOK, Places, Manager!Elements, Manager!Position, Manager!StopShared
  <2>3. Manager!OneResult'
    BY <1>0, <1>15 DEF Manager!OneResult, MgFacts, Manager!Elements, Manager!Position, Manager!StopShared
  <2> QED
    BY <2>1, <2>2, <2>3 DEF MgInv
<1>16. ASSUME NEW i \in Interceptors, Manager!AddInterceptor(i) PROVE MgInv'
  <2>1. Manager!OneResult' /\ MgCreds'
    BY <1>0, <1>16 DEF Manager!OneResult, MgCreds, Manager!Elements, Manager!Position, Manager!AddInterceptor
  <2>2. MgFacts'
    <3>1. Append(fetchIds, i) \in Seq(Interceptors) /\ Append(chain, i) \in Seq(Interceptors)
      BY <1>0 DEF MgFacts, Manager!TypeOK
    <3> QED
      BY <1>0, <1>16, <3>1 DEF MgFacts, Manager!TypeOK, Manager!AddInterceptor
  <2>3. MgChain'
    <3>1. /\ Len(fetchIds) \in Nat /\ Len(fetchIds') = Len(fetchIds) + 1 /\ fetchIds'[Len(fetchIds) + 1] = i
          /\ \A n \in 1 .. Len(fetchIds) : fetchIds'[n] = fetchIds[n] /\ fetchIds[n] # i
      BY <1>0, <1>16 DEF MgFacts, Manager!AddInterceptor, Manager!Elements
    <3>2. \A n \in 1 .. Len(fetchIds') : n = Len(fetchIds) + 1 \/ n \in 1 .. Len(fetchIds)
      BY <3>1
    <3>3. \A m, n \in 1 .. Len(fetchIds') : fetchIds'[m] = fetchIds'[n] => m = n
      BY <1>0, <3>1, <3>2 DEF MgChain
    <3>4. ASSUME NEW n \in 1 .. Len(fetchIds') PROVE Manager!Place(fetchIds', fetchIds'[n]) = n
      BY <3>3 DEF Manager!Place
    <3>5. ASSUME NEW j \in Manager!Elements(fetchIds)
          PROVE  Manager!Place(fetchIds, j) \in 1 .. Len(fetchIds) /\ Manager!Place(fetchIds', j) = Manager!Place(fetchIds, j) /\ j \in Manager!Elements(fetchIds)'
      <4>1. Manager!Place(fetchIds, j) \in 1 .. Len(fetchIds) /\ fetchIds[Manager!Place(fetchIds, j)] = j
        BY MgPosition
      <4>2. Manager!Place(fetchIds, j) \in 1 .. Len(fetchIds') /\ fetchIds'[Manager!Place(fetchIds, j)] = j
        BY <3>1, <4>1
      <4> QED
        BY <3>4, <4>1, <4>2 DEF Manager!Elements
    <3>6. Manager!Place(fetchIds', i) = Len(fetchIds) + 1 /\ i \in Manager!Elements(fetchIds)'
      BY <3>1, <3>4 DEF Manager!Elements
    <3>7. /\ Len(chain) \in Nat /\ Len(chain') = Len(chain) + 1 /\ chain'[Len(chain) + 1] = i
          /\ \A n \in 1 .. Len(chain) : chain'[n] = chain[n]
      BY <1>0, <1>16 DEF MgFacts, Manager!TypeOK, Manager!AddInterceptor
    <3>8. \A n \in 1 .. Len(chain') : n = Len(chain) + 1 \/ n \in 1 .. Len(chain)
      BY <3>7
    <3>9. \A n \in 1 .. Len(chain') : chain'[n] \in Manager!Elements(fetchIds)'
      BY <1>0, <3>5, <3>6, <3>7, <3>8 DEF MgChain
    <3>10. ASSUME NEW m \in 1 .. Len(chain'), NEW n \in 1 .. Len(chain'), m < n
           PROVE  Manager!Place(fetchIds', chain'[m]) < Manager!Place(fetchIds', chain'[n])
      <4>1. m \in 1 .. Len(chain) /\ chain'[m] = chain[m] /\ chain[m] \in Manager!Elements(fetchIds)
        BY <1>0, <3>7, <3>8, <3>10 DEF MgChain
      <4>2. Manager!Place(fetchIds', chain[m]) = Manager!Place(fetchIds, chain[m]) /\ Manager!Place(fetchIds, chain[m]) \in 1 .. Len(fetchIds)
        BY <3>5, <4>1
      <4>3. CASE n = Len(chain) + 1
        BY <3>1, <3>6, <3>7, <4>1, <4>2, <4>3
      <4>4. CASE n \in 1 .. Len(chain)
        <5>1. chain'[n] = chain[n] /\ chain[n] \in Manager!Elements(fetchIds) /\ Manager!Place(fetchIds', chain[n]) = Manager!Place(fetchIds, chain[n])
          BY <1>0, <3>5, <3>7, <4>4 DEF MgChain
        <5> QED
          BY <1>0, <3>10, <4>1, <4>2, <4>4, <5>1 DEF MgChain
      <4> QED
        BY <3>8, <4>3, <4>4
    <3> QED
      BY <3>3, <3>9, <3>10 DEF MgChain
  <2>4. MgRan'
    <3>1. /\ Len(fetchIds) \in Nat /\ Len(fetchIds') = Len(fetchIds) + 1 /\ fetchIds'[Len(fetchIds) + 1] = i
          /\ \A n \in 1 .. Len(fetchIds) : fetchIds'[n] = fetchIds[n] /\ fetchIds[n] # i
      BY <1>0, <1>16 DEF MgFacts, Manager!AddInterceptor, Manager!Elements
    <3>2. \A n \in 1 .. Len(fetchIds') : n = Len(fetchIds) + 1 \/ n \in 1 .. Len(fetchIds)
      BY <3>1
    <3>3. \A m, n \in 1 .. Len(fetchIds') : fetchIds'[m] = fetchIds'[n] => m = n
      BY <1>0, <3>1, <3>2 DEF MgChain
    <3>4. ASSUME NEW n \in 1 .. Len(fetchIds') PROVE Manager!Place(fetchIds', fetchIds'[n]) = n
      BY <3>3 DEF Manager!Place
    <3>5. ASSUME NEW j \in Manager!Elements(fetchIds)
          PROVE  Manager!Place(fetchIds, j) \in 1 .. Len(fetchIds) /\ Manager!Place(fetchIds', j) = Manager!Place(fetchIds, j) /\ j \in Manager!Elements(fetchIds)'
      <4>1. Manager!Place(fetchIds, j) \in 1 .. Len(fetchIds) /\ fetchIds[Manager!Place(fetchIds, j)] = j
        BY MgPosition
      <4>2. Manager!Place(fetchIds, j) \in 1 .. Len(fetchIds') /\ fetchIds'[Manager!Place(fetchIds, j)] = j
        BY <3>1, <4>1
      <4> QED
        BY <3>4, <4>1, <4>2 DEF Manager!Elements
    <3>6. Manager!Place(fetchIds', i) = Len(fetchIds) + 1
      BY <3>1, <3>4
    <3>7. /\ Len(chain) \in Nat /\ Len(chain') = Len(chain) + 1 /\ chain'[Len(chain) + 1] = i
          /\ \A n \in 1 .. Len(chain) : chain'[n] = chain[n]
      BY <1>0, <1>16 DEF MgFacts, Manager!TypeOK, Manager!AddInterceptor
    <3>8. UNCHANGED <<fetchPc, fetchIndex, fetchRan>>
      BY <1>16 DEF Manager!AddInterceptor
    <3> SUFFICES ASSUME NEW f \in Fetches
                 PROVE  /\ \A m \in 1 .. Len(fetchRan[f]) : fetchRan[f][m] \in Manager!Elements(fetchIds)'
                        /\ fetchPc[f] \in {"chain", "intercepted"} =>
                             \A m \in 1 .. Len(fetchRan[f]) : \A n \in fetchIndex[f] + 1 .. Len(chain') :
                                 Manager!Place(fetchIds', fetchRan[f][m]) < Manager!Place(fetchIds', chain'[n])
      BY <3>8 DEF MgRan
    <3>9. \A m \in 1 .. Len(fetchRan[f]) : fetchRan[f][m] \in Manager!Elements(fetchIds)
      BY <1>0 DEF MgRan
    <3>10. ASSUME fetchPc[f] \in {"chain", "intercepted"}, NEW m \in 1 .. Len(fetchRan[f]), NEW n \in fetchIndex[f] + 1 .. Len(chain')
           PROVE  Manager!Place(fetchIds', fetchRan[f][m]) < Manager!Place(fetchIds', chain'[n])
      <4>1. Manager!Place(fetchIds', fetchRan[f][m]) = Manager!Place(fetchIds, fetchRan[f][m]) /\ Manager!Place(fetchIds, fetchRan[f][m]) \in 1 .. Len(fetchIds)
        BY <3>5, <3>9
      <4>2. CASE n = Len(chain) + 1
        BY <3>1, <3>6, <3>7, <4>1, <4>2
      <4>3. CASE n # Len(chain) + 1
        <5>1. n \in fetchIndex[f] + 1 .. Len(chain) /\ n \in 1 .. Len(chain)
          BY <1>0, <3>7, <4>3 DEF MgFacts
        <5>2. chain'[n] = chain[n] /\ Manager!Place(fetchIds', chain[n]) = Manager!Place(fetchIds, chain[n])
          BY <1>0, <3>5, <3>7, <5>1 DEF MgChain
        <5> QED
          BY <1>0, <3>10, <4>1, <5>1, <5>2 DEF MgRan
      <4> QED
        BY <4>2, <4>3
    <3> QED
      BY <3>5, <3>9, <3>10
  <2>5. Manager!InOrder'
    <3>1. /\ Len(fetchIds) \in Nat /\ Len(fetchIds') = Len(fetchIds) + 1 /\ fetchIds'[Len(fetchIds) + 1] = i
          /\ \A n \in 1 .. Len(fetchIds) : fetchIds'[n] = fetchIds[n] /\ fetchIds[n] # i
      BY <1>0, <1>16 DEF MgFacts, Manager!AddInterceptor, Manager!Elements
    <3>2. \A n \in 1 .. Len(fetchIds') : n = Len(fetchIds) + 1 \/ n \in 1 .. Len(fetchIds)
      BY <3>1
    <3>3. \A m, n \in 1 .. Len(fetchIds') : fetchIds'[m] = fetchIds'[n] => m = n
      BY <1>0, <3>1, <3>2 DEF MgChain
    <3>4. ASSUME NEW n \in 1 .. Len(fetchIds') PROVE Manager!Place(fetchIds', fetchIds'[n]) = n
      BY <3>3 DEF Manager!Place
    <3>5. ASSUME NEW j \in Manager!Elements(fetchIds)
          PROVE  Manager!Place(fetchIds, j) \in 1 .. Len(fetchIds) /\ Manager!Place(fetchIds', j) = Manager!Place(fetchIds, j) /\ j \in Manager!Elements(fetchIds)'
      <4>1. Manager!Place(fetchIds, j) \in 1 .. Len(fetchIds) /\ fetchIds[Manager!Place(fetchIds, j)] = j
        BY MgPosition
      <4>2. Manager!Place(fetchIds, j) \in 1 .. Len(fetchIds') /\ fetchIds'[Manager!Place(fetchIds, j)] = j
        BY <3>1, <4>1
      <4> QED
        BY <3>4, <4>1, <4>2 DEF Manager!Elements
    <3>6. fetchRan' = fetchRan
      BY <1>16 DEF Manager!AddInterceptor
    <3>7. ASSUME NEW f \in Fetches, NEW m \in 1 .. Len(fetchRan[f]) PROVE Manager!Place(fetchIds', fetchRan[f][m]) = Manager!Place(fetchIds, fetchRan[f][m])
      BY <1>0, <3>5 DEF MgRan
    <3> QED
      BY <1>0, <3>6, <3>7 DEF Manager!InOrder, Manager!Position
  <2> QED
    BY <2>1, <2>2, <2>3, <2>4, <2>5 DEF MgInv
<1>17. ASSUME NEW i \in Interceptors, Manager!RemoveInterceptor(i) PROVE MgInv'
  <2>1. Manager!OneResult' /\ Manager!InOrder' /\ MgCreds'
    BY <1>0, <1>17 DEF Manager!OneResult, Manager!InOrder, MgCreds, Manager!Elements, Manager!Position, Manager!RemoveInterceptor
  <2>2. MgFacts'
    <3>1. PICK k \in 1 .. Len(chain) :
             chain[k] = i /\ chain' = SubSeq(chain, 1, k - 1) \o SubSeq(chain, k + 1, Len(chain))
      BY <1>17 DEF Manager!RemoveInterceptor
    <3>2. /\ chain' \in Seq(Interceptors) /\ Len(chain) \in Nat /\ Len(chain') = Len(chain) - 1
          /\ \A n \in 1 .. Len(chain') : chain'[n] = IF n < k THEN chain[n] ELSE chain[n + 1]
      <4>1. chain \in Seq(Interceptors) /\ Len(chain) \in Nat
        BY <1>0 DEF MgFacts, Manager!TypeOK
      <4> QED
        BY <3>1, <4>1, MgCut
    <3> QED
      BY <1>0, <1>17, <3>2 DEF MgFacts, Manager!TypeOK, Manager!RemoveInterceptor
  <2>3. MgChain'
    <3>1. PICK k \in 1 .. Len(chain) :
             chain[k] = i /\ chain' = SubSeq(chain, 1, k - 1) \o SubSeq(chain, k + 1, Len(chain))
      BY <1>17 DEF Manager!RemoveInterceptor
    <3>2. /\ chain' \in Seq(Interceptors) /\ Len(chain) \in Nat /\ Len(chain') = Len(chain) - 1
          /\ \A n \in 1 .. Len(chain') : chain'[n] = IF n < k THEN chain[n] ELSE chain[n + 1]
      <4>1. chain \in Seq(Interceptors) /\ Len(chain) \in Nat
        BY <1>0 DEF MgFacts, Manager!TypeOK
      <4> QED
        BY <3>1, <4>1, MgCut
    <3>3. (\A j : Manager!Place(fetchIds', j) = Manager!Place(fetchIds, j)) /\ Manager!Elements(fetchIds)' = Manager!Elements(fetchIds) /\ fetchIds' = fetchIds
      BY <1>17 DEF Manager!Elements, Manager!RemoveInterceptor
    <3>4. ASSUME NEW m \in 1 .. Len(chain'), NEW n \in 1 .. Len(chain'), m < n
          PROVE  Manager!Place(fetchIds, chain'[m]) < Manager!Place(fetchIds, chain'[n])
      BY <1>0, <3>2, <3>4 DEF MgChain
    <3>5. \A n \in 1 .. Len(chain') : chain'[n] \in Manager!Elements(fetchIds)
      BY <1>0, <3>2 DEF MgChain
    <3> QED
      BY <1>0, <3>3, <3>4, <3>5 DEF MgChain
  <2>4. MgRan'
    <3>1. PICK k \in 1 .. Len(chain) :
             chain[k] = i /\ chain' = SubSeq(chain, 1, k - 1) \o SubSeq(chain, k + 1, Len(chain))
      BY <1>17 DEF Manager!RemoveInterceptor
    <3>2. /\ chain' \in Seq(Interceptors) /\ Len(chain) \in Nat /\ Len(chain') = Len(chain) - 1
          /\ \A n \in 1 .. Len(chain') : chain'[n] = IF n < k THEN chain[n] ELSE chain[n + 1]
      <4>1. chain \in Seq(Interceptors) /\ Len(chain) \in Nat
        BY <1>0 DEF MgFacts, Manager!TypeOK
      <4> QED
        BY <3>1, <4>1, MgCut
    <3>3. (\A j : Manager!Place(fetchIds', j) = Manager!Place(fetchIds, j)) /\ Manager!Elements(fetchIds)' = Manager!Elements(fetchIds) /\ UNCHANGED <<fetchIds, fetchRan, fetchPc, fetchIndex>>
      BY <1>17 DEF Manager!Elements, Manager!RemoveInterceptor
    <3>4. ASSUME NEW f \in Fetches, fetchPc[f] \in {"chain", "intercepted"}, NEW m \in 1 .. Len(fetchRan[f]),
                 NEW n \in fetchIndex[f] + 1 .. Len(chain')
          PROVE  Manager!Place(fetchIds, fetchRan[f][m]) < Manager!Place(fetchIds, chain'[n])
      <4>1. n \in 1 .. Len(chain') /\ n \in fetchIndex[f] + 1 .. Len(chain) /\ n + 1 \in fetchIndex[f] + 1 .. Len(chain)
        BY <1>0, <3>2 DEF MgFacts
      <4> QED
        BY <1>0, <3>2, <3>4, <4>1 DEF MgRan
    <3> QED
      BY <1>0, <3>3, <3>4 DEF MgRan
  <2> QED
    BY <2>1, <2>2, <2>3, <2>4 DEF MgInv
<1>18. CASE Manager!Serve
  <2>1. Manager!OneResult' /\ MgChain' /\ MgRan' /\ Manager!InOrder' /\ MgCreds'
    BY <1>0, <1>18 DEF Manager!OneResult, MgChain, MgRan, Manager!InOrder, MgCreds, Manager!Elements, Manager!Position, Manager!Serve, Manager!Register, Manager!Unregister
  <2>2. MgFacts'
    BY <1>0, <1>18 DEF MgFacts, Manager!TypeOK, Places, Manager!Elements, Manager!Position, Manager!Serve, Manager!Register, Manager!Unregister
  <2> QED
    BY <2>1, <2>2 DEF MgInv
<1>19. CASE UNCHANGED Manager!vars
  <2> USE DEF Manager!vars
  <2>1. MgFacts' /\ Manager!OneResult' /\ MgCreds'
    BY <1>0, <1>19 DEF MgFacts, Manager!TypeOK, Manager!OneResult, MgCreds
  <2>2. MgChain' /\ Manager!InOrder'
    BY <1>0, <1>19 DEF MgChain, Manager!InOrder, Manager!Elements, Manager!Position
  <2>3. MgRan'
    BY <1>0, <1>19 DEF MgRan, Manager!Elements
  <2> QED
    BY <2>1, <2>2, <2>3 DEF MgInv
<1> QED
  BY <1>1, <1>2, <1>3, <1>4, <1>5, <1>6, <1>7, <1>8, <1>9, <1>10, <1>11, <1>12, <1>13, <1>14, <1>15, <1>16, <1>17, <1>18, <1>19 DEF Manager!Next, Manager!GoesOn, Manager!Others, Manager!HopCancelled, Manager!NoScheme, Manager!InterceptAnswer, Manager!NoHandler, Manager!Answer, Manager!Aborted, Manager!TooMany

\* From it: a fetch has one result, interceptors run in the order they were added, and
\* credentials reach the handler only for the origin they were meant for.
LEMMA MgSafe == MgInv => Manager!Inv
  BY DEF MgInv, MgFacts, Manager!Inv, Manager!CredentialsStay, MgCreds

-----------------------------------------------------------------------------
\* The TLS connector.

Stages == {"new", "context", "arm", "subscribe", "handshake", "disarm", "disarming", "failed", "unwinding", "up", "done"}
TlFacts ==
    /\ Tls!TypeOK
    /\ tlsPc \in [Calls -> Stages] /\ tlsToken \in [Calls -> {"open", "cancelled"}]
    /\ tlsSub \in [Calls -> {"no", "set", "called"}] /\ tlsExpired \in [Calls -> BOOLEAN]
    /\ tlsResult \in [Calls -> {"none", "ok", "transport", "tls", "cancelled", "timeout"}]
    /\ session \in [Calls -> {"none", "up", "end", "error"}]
    /\ trust \in 1 .. MaxTrust /\ asked \in Nat /\ refresh \in BOOLEAN

\* An action is armed or runs only between arm() and the return of disarm().
TlFrame ==
    \A c \in Calls :
        /\ c \in armed => tlsPc[c] \in {"subscribe", "handshake", "disarm", "failed"}
        /\ c = runningId => tlsPc[c] \in {"subscribe", "handshake", "disarm", "disarming", "failed", "unwinding"}

\* What has closed the transport of a connect() that may still succeed.
TlClosed ==
    \A c \in Calls :
        /\ tlsSub[c] = "called" => tlsToken[c] = "cancelled"
        /\ tlsPc[c] \in {"context", "arm", "subscribe", "handshake", "disarm", "disarming", "up"} =>
             (transport[c] = "closed" => tlsToken[c] = "cancelled" \/ tlsExpired[c])
        /\ tlsPc[c] = "up" => ~tlsExpired[c]
        /\ tlsResult[c] = "ok" => tlsPc[c] = "done"
        /\ session[c] = "up" => tlsPc[c] = "done" /\ ~tlsExpired[c]

\* What was asked for is built or will be.
TlTrust == asked <= trust /\ (refresh \/ asked <= cached)

TlInv == TlFacts /\ TlFrame /\ TlClosed /\ Tls!OutcomeTrue /\ TlTrust /\ Tls!TrustRefreshed

\* Before its first step, the TLS connector (tls_connector.cpp) satisfies the invariant.
LEMMA TlInit == Tls!TlsConstants /\ Tls!Init => TlInv
<1> SUFFICES ASSUME Tls!TlsConstants, Tls!Init PROVE TlInv
  OBVIOUS
<1> USE DEF Tls!Init
<1>1. TlFacts
  <2>1. 0 \in 0 .. MaxTrust /\ 1 \in 1 .. MaxTrust
    BY DEF Tls!TlsConstants
  <2> QED
    BY <2>1 DEF TlFacts, Tls!TypeOK, Stages
<1>2. TlFrame
  BY DEF TlFrame, Tls!TlsConstants
<1>3. TlClosed
  BY DEF TlClosed
<1>4. Tls!OutcomeTrue
  BY DEF Tls!OutcomeTrue
<1>5. TlTrust
  BY DEF TlTrust
<1>6. Tls!TrustRefreshed
  BY DEF Tls!TrustRefreshed
<1> QED
  BY <1>1, <1>2, <1>3, <1>4, <1>5, <1>6 DEF TlInv

\* Each step of the TLS connector (tls_connector.cpp) preserves the invariant, part by part.
LEMMA TlStep == Tls!TlsConstants /\ TlInv /\ [Tls!Next]_(Tls!vars) => TlInv'
<1> SUFFICES ASSUME Tls!TlsConstants, TlInv, [Tls!Next]_(Tls!vars) PROVE TlInv'
  OBVIOUS
<1> USE DEF Tls!calls, Tls!watchdog, Tls!contexts, Tls!Goto, Tls!CloseTransport
<1>0. TlFacts /\ TlFrame /\ TlClosed /\ Tls!OutcomeTrue /\ TlTrust /\ Tls!TrustRefreshed
  BY DEF TlInv
<1>1. ASSUME NEW c \in Calls, Tls!Connect(c) PROVE TlInv'
  <2>1. TlTrust' /\ Tls!TrustRefreshed'
    BY <1>0, <1>1 DEF TlTrust, Tls!TrustRefreshed, Tls!Connect
  <2>2. TlFacts'
    BY <1>0, <1>1 DEF TlFacts, Tls!TypeOK, Tls!TlsConstants, Stages, Tls!Connect
  <2>3. TlFrame'
    BY <1>0, <1>1 DEF TlFrame, TlFacts, Tls!TypeOK, Tls!TlsConstants, Tls!Connect
  <2>4. TlClosed'
    BY <1>0, <1>1 DEF TlClosed, TlFacts, Tls!TypeOK, TlFrame, Tls!Connect
  <2>5. Tls!OutcomeTrue'
    BY <1>0, <1>1 DEF Tls!OutcomeTrue, TlFacts, Tls!TypeOK, TlClosed, TlFrame, Tls!Connect
  <2> QED
    BY <2>1, <2>2, <2>3, <2>4, <2>5 DEF TlInv
<1>2. ASSUME NEW c \in Calls, Tls!Context(c) PROVE TlInv'
  <2>1. TlFacts'
    <3>1. trust \in 0 .. MaxTrust
      BY <1>0 DEF TlFacts, Tls!TlsConstants
    <3>2. cached' \in 0 .. MaxTrust /\ refresh' \in BOOLEAN
      BY <1>0, <1>2, <3>1 DEF TlFacts, Tls!TypeOK, Tls!Context, Tls!BuildContext, Tls!KeepContext
    <3> QED
      BY <1>0, <1>2, <3>2 DEF TlFacts, Tls!TypeOK, Stages, Tls!Context
  <2>2. TlFrame'
    BY <1>0, <1>2 DEF TlFrame, TlFacts, Tls!TypeOK, Tls!TlsConstants, Tls!Context, Tls!BuildContext, Tls!KeepContext, Tls!Stale
  <2>3. TlClosed'
    BY <1>0, <1>2 DEF TlClosed, TlFacts, Tls!TypeOK, TlFrame, Tls!Context, Tls!BuildContext, Tls!KeepContext, Tls!Stale
  <2>4. Tls!OutcomeTrue'
    BY <1>0, <1>2 DEF Tls!OutcomeTrue, TlFacts, Tls!TypeOK, TlClosed, TlFrame, Tls!Context, Tls!BuildContext, Tls!KeepContext, Tls!Stale
  <2>5. TlTrust'
    BY <1>0, <1>2 DEF TlTrust, TlFacts, Tls!TypeOK, Tls!Context, Tls!BuildContext, Tls!KeepContext, Tls!Stale
  <2>6. Tls!TrustRefreshed'
    BY <1>0, <1>2 DEF Tls!TrustRefreshed, TlFacts, Tls!TypeOK, TlTrust, Tls!Context, Tls!BuildContext, Tls!KeepContext, Tls!Stale
  <2> QED
    BY <2>1, <2>2, <2>3, <2>4, <2>5, <2>6 DEF TlInv
<1>3. ASSUME NEW c \in Calls, Tls!ContextFails(c) PROVE TlInv'
  <2>1. TlTrust' /\ Tls!TrustRefreshed'
    BY <1>0, <1>3 DEF TlTrust, Tls!TrustRefreshed, Tls!ContextFails
  <2>2. TlFacts'
    BY <1>0, <1>3 DEF TlFacts, Tls!TypeOK, Tls!TlsConstants, Stages, Tls!ContextFails
  <2>3. TlFrame'
    BY <1>0, <1>3 DEF TlFrame, TlFacts, Tls!TypeOK, Tls!TlsConstants, Tls!ContextFails
  <2>4. TlClosed'
    BY <1>0, <1>3 DEF TlClosed, TlFacts, Tls!TypeOK, TlFrame, Tls!ContextFails
  <2>5. Tls!OutcomeTrue'
    BY <1>0, <1>3 DEF Tls!OutcomeTrue, TlFacts, Tls!TypeOK, TlClosed, TlFrame, Tls!ContextFails
  <2> QED
    BY <2>1, <2>2, <2>3, <2>4, <2>5 DEF TlInv
<1>4. ASSUME NEW c \in Calls, Tls!Arm(c) PROVE TlInv'
  <2>1. TlTrust' /\ Tls!TrustRefreshed'
    BY <1>0, <1>4 DEF TlTrust, Tls!TrustRefreshed, Tls!Arm
  <2>2. TlFacts'
    BY <1>0, <1>4 DEF TlFacts, Tls!TypeOK, Tls!TlsConstants, Stages, Tls!Arm
  <2>3. TlFrame'
    BY <1>0, <1>4 DEF TlFrame, TlFacts, Tls!TypeOK, Tls!TlsConstants, Tls!Arm
  <2>4. TlClosed'
    BY <1>0, <1>4 DEF TlClosed, TlFacts, Tls!TypeOK, TlFrame, Tls!Arm
  <2>5. Tls!OutcomeTrue'
    BY <1>0, <1>4 DEF Tls!OutcomeTrue, TlFacts, Tls!TypeOK, TlClosed, TlFrame, Tls!Arm
  <2> QED
    BY <2>1, <2>2, <2>3, <2>4, <2>5 DEF TlInv
<1>5. ASSUME NEW c \in Calls, Tls!Subscribe(c) PROVE TlInv'
  <2>1. TlTrust' /\ Tls!TrustRefreshed'
    BY <1>0, <1>5 DEF TlTrust, Tls!TrustRefreshed, Tls!Subscribe
  <2>2. TlFacts'
    BY <1>0, <1>5 DEF TlFacts, Tls!TypeOK, Tls!TlsConstants, Stages, Tls!Subscribe
  <2>3. TlFrame'
    BY <1>0, <1>5 DEF TlFrame, TlFacts, Tls!TypeOK, Tls!TlsConstants, Tls!Subscribe
  <2>4. TlClosed'
    BY <1>0, <1>5 DEF TlClosed, TlFacts, Tls!TypeOK, TlFrame, Tls!Subscribe
  <2>5. Tls!OutcomeTrue'
    BY <1>0, <1>5 DEF Tls!OutcomeTrue, TlFacts, Tls!TypeOK, TlClosed, TlFrame, Tls!Subscribe
  <2> QED
    BY <2>1, <2>2, <2>3, <2>4, <2>5 DEF TlInv
<1>6. ASSUME NEW c \in Calls, Tls!Established(c) PROVE TlInv'
  <2>1. TlTrust' /\ Tls!TrustRefreshed'
    BY <1>0, <1>6 DEF TlTrust, Tls!TrustRefreshed, Tls!Established
  <2>2. TlFacts'
    BY <1>0, <1>6 DEF TlFacts, Tls!TypeOK, Tls!TlsConstants, Stages, Tls!Established
  <2>3. TlFrame'
    BY <1>0, <1>6 DEF TlFrame, TlFacts, Tls!TypeOK, Tls!TlsConstants, Tls!Established
  <2>4. TlClosed'
    BY <1>0, <1>6 DEF TlClosed, TlFacts, Tls!TypeOK, TlFrame, Tls!Established
  <2>5. Tls!OutcomeTrue'
    BY <1>0, <1>6 DEF Tls!OutcomeTrue, TlFacts, Tls!TypeOK, TlClosed, TlFrame, Tls!Established
  <2> QED
    BY <2>1, <2>2, <2>3, <2>4, <2>5 DEF TlInv
<1>7. ASSUME NEW c \in Calls, Tls!Refused(c) PROVE TlInv'
  <2>1. TlTrust' /\ Tls!TrustRefreshed'
    BY <1>0, <1>7 DEF TlTrust, Tls!TrustRefreshed, Tls!Refused
  <2>2. TlFacts'
    BY <1>0, <1>7 DEF TlFacts, Tls!TypeOK, Tls!TlsConstants, Stages, Tls!Refused
  <2>3. TlFrame'
    BY <1>0, <1>7 DEF TlFrame, TlFacts, Tls!TypeOK, Tls!TlsConstants, Tls!Refused
  <2>4. TlClosed'
    BY <1>0, <1>7 DEF TlClosed, TlFacts, Tls!TypeOK, TlFrame, Tls!Refused
  <2>5. Tls!OutcomeTrue'
    BY <1>0, <1>7 DEF Tls!OutcomeTrue, TlFacts, Tls!TypeOK, TlClosed, TlFrame, Tls!Refused
  <2> QED
    BY <2>1, <2>2, <2>3, <2>4, <2>5 DEF TlInv
<1>8. ASSUME NEW c \in Calls, Tls!Disarm(c) PROVE TlInv'
  <2>1. TlTrust' /\ Tls!TrustRefreshed'
    BY <1>0, <1>8 DEF TlTrust, Tls!TrustRefreshed, Tls!Disarm
  <2>2. TlFacts'
    BY <1>0, <1>8 DEF TlFacts, Tls!TypeOK, Tls!TlsConstants, Stages, Tls!Disarm
  <2>3. TlFrame'
    BY <1>0, <1>8 DEF TlFrame, TlFacts, Tls!TypeOK, Tls!TlsConstants, Tls!Disarm
  <2>4. TlClosed'
    BY <1>0, <1>8 DEF TlClosed, TlFacts, Tls!TypeOK, TlFrame, Tls!Disarm
  <2>5. Tls!OutcomeTrue'
    BY <1>0, <1>8 DEF Tls!OutcomeTrue, TlFacts, Tls!TypeOK, TlClosed, TlFrame, Tls!Disarm
  <2> QED
    BY <2>1, <2>2, <2>3, <2>4, <2>5 DEF TlInv
<1>9. ASSUME NEW c \in Calls, Tls!Judge(c) PROVE TlInv'
  <2>1. TlTrust' /\ Tls!TrustRefreshed'
    BY <1>0, <1>9 DEF TlTrust, Tls!TrustRefreshed, Tls!Judge, Tls!Disarmed
  <2>2. TlFacts'
    BY <1>0, <1>9 DEF TlFacts, Tls!TypeOK, Tls!TlsConstants, Stages, Tls!Judge, Tls!Disarmed
  <2>3. TlFrame'
    BY <1>0, <1>9 DEF TlFrame, TlFacts, Tls!TypeOK, Tls!TlsConstants, Tls!Judge, Tls!Disarmed
  <2>4. TlClosed'
    BY <1>0, <1>9 DEF TlClosed, TlFacts, Tls!TypeOK, TlFrame, Tls!Judge, Tls!Disarmed
  <2>5. Tls!OutcomeTrue'
    BY <1>0, <1>9 DEF Tls!OutcomeTrue, TlFacts, Tls!TypeOK, TlClosed, TlFrame, Tls!Judge, Tls!Disarmed
  <2> QED
    BY <2>1, <2>2, <2>3, <2>4, <2>5 DEF TlInv
<1>10. ASSUME NEW c \in Calls, Tls!Fail(c) PROVE TlInv'
  <2>1. TlTrust' /\ Tls!TrustRefreshed'
    BY <1>0, <1>10 DEF TlTrust, Tls!TrustRefreshed, Tls!Fail, Tls!Reason
  <2>2. TlFacts'
    BY <1>0, <1>10 DEF TlFacts, Tls!TypeOK, Tls!TlsConstants, Stages, Tls!Fail, Tls!Reason
  <2>3. TlFrame'
    BY <1>0, <1>10 DEF TlFrame, TlFacts, Tls!TypeOK, Tls!TlsConstants, Tls!Fail, Tls!Reason
  <2>4. TlClosed'
    BY <1>0, <1>10 DEF TlClosed, TlFacts, Tls!TypeOK, TlFrame, Tls!Fail, Tls!Reason
  <2>5. Tls!OutcomeTrue'
    BY <1>0, <1>10 DEF Tls!OutcomeTrue, TlFacts, Tls!TypeOK, TlClosed, TlFrame, Tls!Fail, Tls!Reason
  <2> QED
    BY <2>1, <2>2, <2>3, <2>4, <2>5 DEF TlInv
<1>11. ASSUME NEW c \in Calls, Tls!Unwind(c) PROVE TlInv'
  <2>1. TlTrust' /\ Tls!TrustRefreshed'
    BY <1>0, <1>11 DEF TlTrust, Tls!TrustRefreshed, Tls!Unwind, Tls!Disarmed
  <2>2. TlFacts'
    BY <1>0, <1>11 DEF TlFacts, Tls!TypeOK, Tls!TlsConstants, Stages, Tls!Unwind, Tls!Disarmed
  <2>3. TlFrame'
    BY <1>0, <1>11 DEF TlFrame, TlFacts, Tls!TypeOK, Tls!TlsConstants, Tls!Unwind, Tls!Disarmed
  <2>4. TlClosed'
    BY <1>0, <1>11 DEF TlClosed, TlFacts, Tls!TypeOK, TlFrame, Tls!Unwind, Tls!Disarmed
  <2>5. Tls!OutcomeTrue'
    BY <1>0, <1>11 DEF Tls!OutcomeTrue, TlFacts, Tls!TypeOK, TlClosed, TlFrame, Tls!Unwind, Tls!Disarmed
  <2> QED
    BY <2>1, <2>2, <2>3, <2>4, <2>5 DEF TlInv
<1>12. ASSUME NEW c \in Calls, Tls!Return(c) PROVE TlInv'
  <2>1. TlTrust' /\ Tls!TrustRefreshed'
    BY <1>0, <1>12 DEF TlTrust, Tls!TrustRefreshed, Tls!Return
  <2>2. TlFacts'
    BY <1>0, <1>12 DEF TlFacts, Tls!TypeOK, Tls!TlsConstants, Stages, Tls!Return
  <2>3. TlFrame'
    BY <1>0, <1>12 DEF TlFrame, TlFacts, Tls!TypeOK, Tls!TlsConstants, Tls!Return
  <2>4. TlClosed'
    BY <1>0, <1>12 DEF TlClosed, TlFacts, Tls!TypeOK, TlFrame, Tls!Return
  <2>5. Tls!OutcomeTrue'
    BY <1>0, <1>12 DEF Tls!OutcomeTrue, TlFacts, Tls!TypeOK, TlClosed, TlFrame, Tls!Return
  <2> QED
    BY <2>1, <2>2, <2>3, <2>4, <2>5 DEF TlInv
<1>13. ASSUME NEW c \in Calls, Tls!Expire(c) PROVE TlInv'
  <2>1. TlClosed' /\ Tls!OutcomeTrue' /\ TlTrust' /\ Tls!TrustRefreshed'
    BY <1>0, <1>13 DEF TlClosed, Tls!OutcomeTrue, TlTrust, Tls!TrustRefreshed, Tls!Expire
  <2>2. TlFacts'
    BY <1>0, <1>13 DEF TlFacts, Tls!TypeOK, Tls!TlsConstants, Stages, Tls!Expire
  <2>3. TlFrame'
    BY <1>0, <1>13 DEF TlFrame, TlFacts, Tls!TypeOK, Tls!TlsConstants, Tls!Expire
  <2> QED
    BY <2>1, <2>2, <2>3 DEF TlInv
<1>14. ASSUME NEW c \in Calls, Tls!Cancel(c) PROVE TlInv'
  <2>1. TlTrust' /\ Tls!TrustRefreshed'
    BY <1>0, <1>14 DEF TlTrust, Tls!TrustRefreshed, Tls!Cancel
  <2>2. TlFacts'
    BY <1>0, <1>14 DEF TlFacts, Tls!TypeOK, Tls!TlsConstants, Stages, Tls!Cancel
  <2>3. TlFrame'
    BY <1>0, <1>14 DEF TlFrame, TlFacts, Tls!TypeOK, Tls!TlsConstants, Tls!Cancel
  <2>4. TlClosed'
    BY <1>0, <1>14 DEF TlClosed, TlFacts, Tls!TypeOK, TlFrame, Tls!Cancel
  <2>5. Tls!OutcomeTrue'
    BY <1>0, <1>14 DEF Tls!OutcomeTrue, TlFacts, Tls!TypeOK, TlClosed, TlFrame, Tls!Cancel
  <2> QED
    BY <2>1, <2>2, <2>3, <2>4, <2>5 DEF TlInv
<1>15. ASSUME NEW c \in Calls, Tls!CancelCall(c) PROVE TlInv'
  <2>1. TlTrust' /\ Tls!TrustRefreshed'
    BY <1>0, <1>15 DEF TlTrust, Tls!TrustRefreshed, Tls!CancelCall
  <2>2. TlFacts'
    BY <1>0, <1>15 DEF TlFacts, Tls!TypeOK, Tls!TlsConstants, Stages, Tls!CancelCall
  <2>3. TlFrame'
    BY <1>0, <1>15 DEF TlFrame, TlFacts, Tls!TypeOK, Tls!TlsConstants, Tls!CancelCall
  <2>4. TlClosed'
    BY <1>0, <1>15 DEF TlClosed, TlFacts, Tls!TypeOK, TlFrame, Tls!CancelCall
  <2>5. Tls!OutcomeTrue'
    BY <1>0, <1>15 DEF Tls!OutcomeTrue, TlFacts, Tls!TypeOK, TlClosed, TlFrame, Tls!CancelCall
  <2> QED
    BY <2>1, <2>2, <2>3, <2>4, <2>5 DEF TlInv
<1>16. ASSUME NEW c \in Calls, Tls!PeerEnds(c) PROVE TlInv'
  <2>1. TlTrust' /\ Tls!TrustRefreshed'
    BY <1>0, <1>16 DEF TlTrust, Tls!TrustRefreshed, Tls!PeerEnds, Tls!ReadSays
  <2>2. TlFacts'
    BY <1>0, <1>16 DEF TlFacts, Tls!TypeOK, Tls!TlsConstants, Stages, Tls!PeerEnds, Tls!ReadSays
  <2>3. TlFrame'
    BY <1>0, <1>16 DEF TlFrame, TlFacts, Tls!TypeOK, Tls!TlsConstants, Tls!PeerEnds, Tls!ReadSays
  <2>4. TlClosed'
    BY <1>0, <1>16 DEF TlClosed, TlFacts, Tls!TypeOK, TlFrame, Tls!PeerEnds, Tls!ReadSays
  <2>5. Tls!OutcomeTrue'
    BY <1>0, <1>16 DEF Tls!OutcomeTrue, TlFacts, Tls!TypeOK, TlClosed, TlFrame, Tls!PeerEnds, Tls!ReadSays
  <2> QED
    BY <2>1, <2>2, <2>3, <2>4, <2>5 DEF TlInv
<1>17. ASSUME NEW c \in Calls, Tls!Cut(c) PROVE TlInv'
  <2>1. TlTrust' /\ Tls!TrustRefreshed'
    BY <1>0, <1>17 DEF TlTrust, Tls!TrustRefreshed, Tls!Cut, Tls!ReadSays
  <2>2. TlFacts'
    BY <1>0, <1>17 DEF TlFacts, Tls!TypeOK, Tls!TlsConstants, Stages, Tls!Cut, Tls!ReadSays
  <2>3. TlFrame'
    BY <1>0, <1>17 DEF TlFrame, TlFacts, Tls!TypeOK, Tls!TlsConstants, Tls!Cut, Tls!ReadSays
  <2>4. TlClosed'
    BY <1>0, <1>17 DEF TlClosed, TlFacts, Tls!TypeOK, TlFrame, Tls!Cut, Tls!ReadSays
  <2>5. Tls!OutcomeTrue'
    BY <1>0, <1>17 DEF Tls!OutcomeTrue, TlFacts, Tls!TypeOK, TlClosed, TlFrame, Tls!Cut, Tls!ReadSays
  <2> QED
    BY <2>1, <2>2, <2>3, <2>4, <2>5 DEF TlInv
<1>18. ASSUME NEW c \in Calls, Tls!Close(c) PROVE TlInv'
  <2>1. TlTrust' /\ Tls!TrustRefreshed'
    BY <1>0, <1>18 DEF TlTrust, Tls!TrustRefreshed, Tls!Close, Tls!ReadSays
  <2>2. TlFacts'
    BY <1>0, <1>18 DEF TlFacts, Tls!TypeOK, Tls!TlsConstants, Stages, Tls!Close, Tls!ReadSays
  <2>3. TlFrame'
    BY <1>0, <1>18 DEF TlFrame, TlFacts, Tls!TypeOK, Tls!TlsConstants, Tls!Close, Tls!ReadSays
  <2>4. TlClosed'
    BY <1>0, <1>18 DEF TlClosed, TlFacts, Tls!TypeOK, TlFrame, Tls!Close, Tls!ReadSays
  <2>5. Tls!OutcomeTrue'
    BY <1>0, <1>18 DEF Tls!OutcomeTrue, TlFacts, Tls!TypeOK, TlClosed, TlFrame, Tls!Close, Tls!ReadSays
  <2> QED
    BY <2>1, <2>2, <2>3, <2>4, <2>5 DEF TlInv
<1>19. CASE Tls!Action
  <2>1. TlTrust' /\ Tls!TrustRefreshed'
    BY <1>0, <1>19 DEF TlTrust, Tls!TrustRefreshed, Tls!Action
  <2>2. TlFacts'
    BY <1>0, <1>19 DEF TlFacts, Tls!TypeOK, Tls!TlsConstants, Stages, Tls!Action
  <2>3. TlFrame'
    BY <1>0, <1>19 DEF TlFrame, TlFacts, Tls!TypeOK, Tls!TlsConstants, Tls!Action
  <2>4. TlClosed'
    BY <1>0, <1>19 DEF TlClosed, TlFacts, Tls!TypeOK, TlFrame, Tls!Action
  <2>5. Tls!OutcomeTrue'
    BY <1>0, <1>19 DEF Tls!OutcomeTrue, TlFacts, Tls!TypeOK, TlClosed, TlFrame, Tls!Action
  <2> QED
    BY <2>1, <2>2, <2>3, <2>4, <2>5 DEF TlInv
<1>20. CASE Tls!ActionDone
  <2>1. TlClosed' /\ Tls!OutcomeTrue' /\ TlTrust' /\ Tls!TrustRefreshed'
    BY <1>0, <1>20 DEF TlClosed, Tls!OutcomeTrue, TlTrust, Tls!TrustRefreshed, Tls!ActionDone
  <2>2. TlFacts'
    BY <1>0, <1>20 DEF TlFacts, Tls!TypeOK, Tls!TlsConstants, Stages, Tls!ActionDone
  <2>3. TlFrame'
    BY <1>0, <1>20 DEF TlFrame, TlFacts, Tls!TypeOK, Tls!TlsConstants, Tls!ActionDone
  <2> QED
    BY <2>1, <2>2, <2>3 DEF TlInv
<1>21. CASE Tls!Trust
  <2>1. TlFrame' /\ TlClosed' /\ Tls!OutcomeTrue' /\ Tls!TrustRefreshed'
    BY <1>0, <1>21 DEF TlFrame, TlClosed, Tls!OutcomeTrue, Tls!TrustRefreshed, Tls!Trust, Tls!Provide, Tls!RefreshTrust
  <2>2. TlFacts'
    <3>1. trust' \in 1 .. MaxTrust /\ asked' \in Nat
      BY <1>0, <1>21 DEF TlFacts, Tls!TlsConstants, Tls!Trust, Tls!Provide, Tls!RefreshTrust
    <3> QED
      BY <1>0, <1>21, <3>1 DEF TlFacts, Tls!TypeOK, Tls!Trust, Tls!Provide, Tls!RefreshTrust
  <2>3. TlTrust'
    BY <1>0, <1>21 DEF TlTrust, TlFacts, Tls!TypeOK, Tls!Trust, Tls!Provide, Tls!RefreshTrust
  <2> QED
    BY <2>1, <2>2, <2>3 DEF TlInv
<1>22. CASE UNCHANGED Tls!vars
  <2> USE DEF Tls!vars
  <2>1. TlFacts'
    BY <1>0, <1>22 DEF TlFacts, Tls!TypeOK
  <2>2. TlFrame'
    BY <1>0, <1>22 DEF TlFrame
  <2>3. TlClosed'
    BY <1>0, <1>22 DEF TlClosed
  <2>4. Tls!OutcomeTrue'
    BY <1>0, <1>22 DEF Tls!OutcomeTrue
  <2>5. TlTrust'
    BY <1>0, <1>22 DEF TlTrust
  <2>6. Tls!TrustRefreshed'
    BY <1>0, <1>22 DEF Tls!TrustRefreshed
  <2> QED
    BY <2>1, <2>2, <2>3, <2>4, <2>5, <2>6 DEF TlInv
<1> QED
  BY <1>1, <1>2, <1>3, <1>4, <1>5, <1>6, <1>7, <1>8, <1>9, <1>10, <1>11, <1>12, <1>13, <1>14, <1>15, <1>16, <1>17, <1>18, <1>19, <1>20, <1>21, <1>22 DEF Tls!Next, Tls!Connecting

\* From it: a callback of the token or the timer finds the frame of connect() alive, the
\* outcome says what happened, and no session relies on trust that was refreshed.
LEMMA TlSafe == TlInv => Tls!Inv
  BY DEF TlInv, TlFacts, TlFrame, Tls!Inv, Tls!FrameAlive

-----------------------------------------------------------------------------
\* The TCP connector.

TcFacts ==
    /\ Tcp!TypeOK
    /\ entry \in {"absent", "ours", "other"} /\ tcpToken \in {"open", "cancelled"}
    /\ overall \in BOOLEAN /\ slot \in BOOLEAN /\ lastWasTimeout \in BOOLEAN
    /\ tcpOpen \in Nat /\ tcpRefs \subseteq Users
    /\ inCall \in [Users -> {"nothing", "recv", "send"}]

\* There are users only of a connection that was returned, and nobody is in a call
\* who has let go.
TcUsers ==
    /\ tcpRefs # {} => tcpPc = "done"
    /\ \A u \in Users : inCall[u] # "nothing" => u \in tcpRefs

\* The registry's own connector exists.
TcEntry == entry = "ours" => connector = "alive"

\* Between two addresses, a timeout that is remembered was one.
TcTimes ==
    /\ tcpPc = "next" /\ lastWasTimeout => overall \/ slot
    /\ tcpPc \in {"get", "start"} => ~lastWasTimeout
    /\ tcpResult # "none" => tcpPc = "done"

TcInv == TcFacts /\ TcUsers /\ Tcp!SocketsAccounted /\ TcEntry /\ Tcp!ConnectorHeld /\ TcTimes /\ Tcp!Honest

\* Before its first step, the TCP connector (tcp_connector.cpp) satisfies the invariant.
LEMMA TcInit == Tcp!TcpConstants /\ Tcp!Init => TcInv
<1> SUFFICES ASSUME Tcp!TcpConstants, Tcp!Init PROVE TcInv
  OBVIOUS
<1> USE DEF Tcp!Init
<1>1. TcFacts
  <2>1. 0 \in 0 .. Addresses
    BY DEF Tcp!TcpConstants
  <2> QED
    BY <2>1 DEF TcFacts, Tcp!TypeOK
<1>2. TcUsers
  BY DEF TcUsers
<1>3. Tcp!SocketsAccounted
  BY DEF Tcp!SocketsAccounted
<1>4. TcEntry
  BY DEF TcEntry
<1>5. Tcp!ConnectorHeld
  BY DEF Tcp!ConnectorHeld
<1>6. TcTimes
  BY DEF TcTimes
<1>7. Tcp!Honest
  BY DEF Tcp!Honest
<1> QED
  BY <1>1, <1>2, <1>3, <1>4, <1>5, <1>6, <1>7 DEF TcInv

\* Each step of the TCP connector (tcp_connector.cpp) preserves the invariant, part by part.
LEMMA TcStep == Tcp!TcpConstants /\ TcInv /\ [Tcp!Next]_(Tcp!vars) => TcInv'
<1> SUFFICES ASSUME Tcp!TcpConstants, TcInv, [Tcp!Next]_(Tcp!vars) PROVE TcInv'
  OBVIOUS
<1> USE DEF Tcp!call, Tcp!sockets, Tcp!registry
<1>0. TcFacts /\ TcUsers /\ Tcp!SocketsAccounted /\ TcEntry /\ Tcp!ConnectorHeld /\ TcTimes /\ Tcp!Honest
  BY DEF TcInv
<1>1. CASE Tcp!Set
  <2>1. TcUsers' /\ Tcp!SocketsAccounted' /\ TcTimes' /\ Tcp!Honest'
    BY <1>0, <1>1 DEF TcUsers, Tcp!SocketsAccounted, TcTimes, Tcp!Honest, Tcp!Set
  <2>2. TcFacts'
    BY <1>0, <1>1 DEF TcFacts, Tcp!TypeOK, Tcp!TcpConstants, Tcp!SocketsAccounted, Tcp!Set
  <2>3. TcEntry'
    BY <1>0, <1>1 DEF TcEntry, TcFacts, Tcp!TypeOK, Tcp!ConnectorHeld, Tcp!Set
  <2>4. Tcp!ConnectorHeld'
    BY <1>0, <1>1 DEF Tcp!ConnectorHeld, TcFacts, Tcp!TypeOK, TcEntry, Tcp!Set
  <2> QED
    BY <2>1, <2>2, <2>3, <2>4 DEF TcInv
<1>2. CASE Tcp!Remove
  <2>1. TcUsers' /\ Tcp!SocketsAccounted' /\ TcTimes' /\ Tcp!Honest'
    BY <1>0, <1>2 DEF TcUsers, Tcp!SocketsAccounted, TcTimes, Tcp!Honest, Tcp!Remove
  <2>2. TcFacts'
    BY <1>0, <1>2 DEF TcFacts, Tcp!TypeOK, Tcp!TcpConstants, Tcp!SocketsAccounted, Tcp!Remove
  <2>3. TcEntry'
    BY <1>0, <1>2 DEF TcEntry, TcFacts, Tcp!TypeOK, Tcp!ConnectorHeld, Tcp!Remove
  <2>4. Tcp!ConnectorHeld'
    BY <1>0, <1>2 DEF Tcp!ConnectorHeld, TcFacts, Tcp!TypeOK, TcEntry, Tcp!Remove
  <2> QED
    BY <2>1, <2>2, <2>3, <2>4 DEF TcInv
<1>3. CASE Tcp!Get
  <2>1. TcEntry' /\ Tcp!Honest'
    BY <1>0, <1>3 DEF TcEntry, Tcp!Honest, Tcp!Get
  <2>2. TcFacts'
    BY <1>0, <1>3 DEF TcFacts, Tcp!TypeOK, Tcp!TcpConstants, Tcp!SocketsAccounted, Tcp!Get
  <2>3. TcUsers'
    BY <1>0, <1>3 DEF TcUsers, TcFacts, Tcp!TypeOK, Tcp!Get
  <2>4. Tcp!SocketsAccounted'
    BY <1>0, <1>3 DEF Tcp!SocketsAccounted, TcFacts, Tcp!TypeOK, TcUsers, Tcp!TcpConstants, Tcp!Get
  <2>5. Tcp!ConnectorHeld'
    BY <1>0, <1>3 DEF Tcp!ConnectorHeld, TcFacts, Tcp!TypeOK, TcEntry, Tcp!Get
  <2>6. TcTimes'
    BY <1>0, <1>3 DEF TcTimes, TcFacts, Tcp!TypeOK, Tcp!Get
  <2> QED
    BY <2>1, <2>2, <2>3, <2>4, <2>5, <2>6 DEF TcInv
<1>4. CASE Tcp!CancelledFirst
  <2>1. TcFacts'
    BY <1>0, <1>4 DEF TcFacts, Tcp!TypeOK, Tcp!TcpConstants, Tcp!SocketsAccounted, Tcp!CancelledFirst, Tcp!Return
  <2>2. TcUsers'
    BY <1>0, <1>4 DEF TcUsers, TcFacts, Tcp!TypeOK, Tcp!CancelledFirst, Tcp!Return
  <2>3. Tcp!SocketsAccounted'
    BY <1>0, <1>4 DEF Tcp!SocketsAccounted, TcFacts, Tcp!TypeOK, TcUsers, Tcp!TcpConstants, Tcp!CancelledFirst, Tcp!Return
  <2>4. TcEntry'
    BY <1>0, <1>4 DEF TcEntry, TcFacts, Tcp!TypeOK, Tcp!ConnectorHeld, Tcp!CancelledFirst, Tcp!Return
  <2>5. Tcp!ConnectorHeld'
    BY <1>0, <1>4 DEF Tcp!ConnectorHeld, TcFacts, Tcp!TypeOK, TcEntry, Tcp!CancelledFirst, Tcp!Return
  <2>6. TcTimes'
    BY <1>0, <1>4 DEF TcTimes, TcFacts, Tcp!TypeOK, Tcp!CancelledFirst, Tcp!Return
  <2>7. Tcp!Honest'
    BY <1>0, <1>4 DEF Tcp!Honest, TcFacts, Tcp!TypeOK, TcTimes, Tcp!CancelledFirst, Tcp!Return
  <2> QED
    BY <2>1, <2>2, <2>3, <2>4, <2>5, <2>6, <2>7 DEF TcInv
<1>5. CASE Tcp!Resolve
  <2>1. TcEntry' /\ Tcp!Honest'
    BY <1>0, <1>5 DEF TcEntry, Tcp!Honest, Tcp!Resolve
  <2>2. TcFacts'
    BY <1>0, <1>5 DEF TcFacts, Tcp!TypeOK, Tcp!TcpConstants, Tcp!SocketsAccounted, Tcp!Resolve
  <2>3. TcUsers'
    BY <1>0, <1>5 DEF TcUsers, TcFacts, Tcp!TypeOK, Tcp!Resolve
  <2>4. Tcp!SocketsAccounted'
    BY <1>0, <1>5 DEF Tcp!SocketsAccounted, TcFacts, Tcp!TypeOK, TcUsers, Tcp!TcpConstants, Tcp!Resolve
  <2>5. Tcp!ConnectorHeld'
    BY <1>0, <1>5 DEF Tcp!ConnectorHeld, TcFacts, Tcp!TypeOK, TcEntry, Tcp!Resolve
  <2>6. TcTimes'
    BY <1>0, <1>5 DEF TcTimes, TcFacts, Tcp!TypeOK, Tcp!Resolve
  <2> QED
    BY <2>1, <2>2, <2>3, <2>4, <2>5, <2>6 DEF TcInv
<1>6. CASE Tcp!Unresolved
  <2>1. TcFacts'
    BY <1>0, <1>6 DEF TcFacts, Tcp!TypeOK, Tcp!TcpConstants, Tcp!SocketsAccounted, Tcp!Unresolved, Tcp!Return
  <2>2. TcUsers'
    BY <1>0, <1>6 DEF TcUsers, TcFacts, Tcp!TypeOK, Tcp!Unresolved, Tcp!Return
  <2>3. Tcp!SocketsAccounted'
    BY <1>0, <1>6 DEF Tcp!SocketsAccounted, TcFacts, Tcp!TypeOK, TcUsers, Tcp!TcpConstants, Tcp!Unresolved, Tcp!Return
  <2>4. TcEntry'
    BY <1>0, <1>6 DEF TcEntry, TcFacts, Tcp!TypeOK, Tcp!ConnectorHeld, Tcp!Unresolved, Tcp!Return
  <2>5. Tcp!ConnectorHeld'
    BY <1>0, <1>6 DEF Tcp!ConnectorHeld, TcFacts, Tcp!TypeOK, TcEntry, Tcp!Unresolved, Tcp!Return
  <2>6. TcTimes'
    BY <1>0, <1>6 DEF TcTimes, TcFacts, Tcp!TypeOK, Tcp!Unresolved, Tcp!Return
  <2>7. Tcp!Honest'
    BY <1>0, <1>6 DEF Tcp!Honest, TcFacts, Tcp!TypeOK, TcTimes, Tcp!Unresolved, Tcp!Return
  <2> QED
    BY <2>1, <2>2, <2>3, <2>4, <2>5, <2>6, <2>7 DEF TcInv
<1>7. CASE Tcp!Attempt
  <2>1. TcFacts'
    <3>1. tcpOpen \in Nat /\ tcpAt \in Nat /\ Addresses \in Nat /\ tcpAt < Addresses
      BY <1>0, <1>7 DEF TcFacts, Tcp!TypeOK, Tcp!TcpConstants, Tcp!Attempt
    <3>2. tcpAt + 1 \in 0 .. Addresses /\ tcpOpen + 1 \in Nat
      BY <3>1
    <3> QED
      BY <1>0, <1>7, <3>2 DEF TcFacts, Tcp!TypeOK, Tcp!Attempt
  <2>2. TcUsers'
    BY <1>0, <1>7 DEF TcUsers, TcFacts, Tcp!TypeOK, Tcp!Attempt
  <2>3. Tcp!SocketsAccounted'
    BY <1>0, <1>7 DEF Tcp!SocketsAccounted, TcFacts, Tcp!TypeOK, TcUsers, Tcp!TcpConstants, Tcp!Attempt
  <2>4. TcEntry'
    BY <1>0, <1>7 DEF TcEntry, TcFacts, Tcp!TypeOK, Tcp!ConnectorHeld, Tcp!Attempt
  <2>5. Tcp!ConnectorHeld'
    BY <1>0, <1>7 DEF Tcp!ConnectorHeld, TcFacts, Tcp!TypeOK, TcEntry, Tcp!Attempt
  <2>6. TcTimes'
    BY <1>0, <1>7 DEF TcTimes, TcFacts, Tcp!TypeOK, Tcp!Attempt
  <2>7. Tcp!Honest'
    BY <1>0, <1>7 DEF Tcp!Honest, TcFacts, Tcp!TypeOK, TcTimes, Tcp!Attempt
  <2> QED
    BY <2>1, <2>2, <2>3, <2>4, <2>5, <2>6, <2>7 DEF TcInv
<1>8. CASE Tcp!NoSocket
  <2>1. TcFacts'
    <3>1. tcpOpen \in Nat /\ tcpAt \in Nat /\ Addresses \in Nat /\ tcpAt < Addresses
      BY <1>0, <1>8 DEF TcFacts, Tcp!TypeOK, Tcp!TcpConstants, Tcp!NoSocket
    <3>2. tcpAt + 1 \in 0 .. Addresses /\ tcpOpen + 1 \in Nat
      BY <3>1
    <3> QED
      BY <1>0, <1>8, <3>2 DEF TcFacts, Tcp!TypeOK, Tcp!NoSocket
  <2>2. TcUsers'
    BY <1>0, <1>8 DEF TcUsers, TcFacts, Tcp!TypeOK, Tcp!NoSocket
  <2>3. Tcp!SocketsAccounted'
    BY <1>0, <1>8 DEF Tcp!SocketsAccounted, TcFacts, Tcp!TypeOK, TcUsers, Tcp!TcpConstants, Tcp!NoSocket
  <2>4. TcEntry'
    BY <1>0, <1>8 DEF TcEntry, TcFacts, Tcp!TypeOK, Tcp!ConnectorHeld, Tcp!NoSocket
  <2>5. Tcp!ConnectorHeld'
    BY <1>0, <1>8 DEF Tcp!ConnectorHeld, TcFacts, Tcp!TypeOK, TcEntry, Tcp!NoSocket
  <2>6. TcTimes'
    BY <1>0, <1>8 DEF TcTimes, TcFacts, Tcp!TypeOK, Tcp!NoSocket
  <2>7. Tcp!Honest'
    BY <1>0, <1>8 DEF Tcp!Honest, TcFacts, Tcp!TypeOK, TcTimes, Tcp!NoSocket
  <2> QED
    BY <2>1, <2>2, <2>3, <2>4, <2>5, <2>6, <2>7 DEF TcInv
<1>9. CASE Tcp!GiveUp
  <2>1. TcFacts'
    BY <1>0, <1>9 DEF TcFacts, Tcp!TypeOK, Tcp!TcpConstants, Tcp!SocketsAccounted, Tcp!GiveUp, Tcp!Return
  <2>2. TcUsers'
    BY <1>0, <1>9 DEF TcUsers, TcFacts, Tcp!TypeOK, Tcp!GiveUp, Tcp!Return
  <2>3. Tcp!SocketsAccounted'
    BY <1>0, <1>9 DEF Tcp!SocketsAccounted, TcFacts, Tcp!TypeOK, TcUsers, Tcp!TcpConstants, Tcp!GiveUp, Tcp!Return
  <2>4. TcEntry'
    BY <1>0, <1>9 DEF TcEntry, TcFacts, Tcp!TypeOK, Tcp!ConnectorHeld, Tcp!GiveUp, Tcp!Return
  <2>5. Tcp!ConnectorHeld'
    BY <1>0, <1>9 DEF Tcp!ConnectorHeld, TcFacts, Tcp!TypeOK, TcEntry, Tcp!GiveUp, Tcp!Return
  <2>6. TcTimes'
    BY <1>0, <1>9 DEF TcTimes, TcFacts, Tcp!TypeOK, Tcp!GiveUp, Tcp!Return
  <2>7. Tcp!Honest'
    BY <1>0, <1>9 DEF Tcp!Honest, TcFacts, Tcp!TypeOK, TcTimes, Tcp!GiveUp, Tcp!Return
  <2> QED
    BY <2>1, <2>2, <2>3, <2>4, <2>5, <2>6, <2>7 DEF TcInv
<1>10. CASE Tcp!Refused
  <2>1. TcFacts'
    <3>1. tcpOpen = 1
      BY <1>0, <1>10 DEF Tcp!SocketsAccounted, Tcp!Refused
    <3>2. tcpOpen' \in Nat
      BY <1>10, <3>1 DEF Tcp!Refused, Tcp!GoOn, Tcp!CloseSocket
    <3> QED
      BY <1>0, <1>10, <3>2 DEF TcFacts, Tcp!TypeOK, Tcp!Refused, Tcp!GoOn
  <2>2. TcUsers'
    BY <1>0, <1>10 DEF TcUsers, TcFacts, Tcp!TypeOK, Tcp!Refused, Tcp!GoOn, Tcp!CloseSocket
  <2>3. Tcp!SocketsAccounted'
    BY <1>0, <1>10 DEF Tcp!SocketsAccounted, TcFacts, Tcp!TypeOK, TcUsers, Tcp!TcpConstants, Tcp!Refused, Tcp!GoOn, Tcp!CloseSocket
  <2>4. TcEntry'
    BY <1>0, <1>10 DEF TcEntry, TcFacts, Tcp!TypeOK, Tcp!ConnectorHeld, Tcp!Refused, Tcp!GoOn, Tcp!CloseSocket
  <2>5. Tcp!ConnectorHeld'
    BY <1>0, <1>10 DEF Tcp!ConnectorHeld, TcFacts, Tcp!TypeOK, TcEntry, Tcp!Refused, Tcp!GoOn, Tcp!CloseSocket
  <2>6. TcTimes'
    BY <1>0, <1>10 DEF TcTimes, TcFacts, Tcp!TypeOK, Tcp!Refused, Tcp!GoOn, Tcp!CloseSocket
  <2>7. Tcp!Honest'
    BY <1>0, <1>10 DEF Tcp!Honest, TcFacts, Tcp!TypeOK, TcTimes, Tcp!Refused, Tcp!GoOn, Tcp!CloseSocket
  <2> QED
    BY <2>1, <2>2, <2>3, <2>4, <2>5, <2>6, <2>7 DEF TcInv
<1>11. CASE Tcp!TimedOut
  <2>1. TcFacts'
    BY <1>0, <1>11 DEF TcFacts, Tcp!TypeOK, Tcp!TcpConstants, Tcp!SocketsAccounted, Tcp!TimedOut, Tcp!GoOn, Tcp!CloseSocket
  <2>2. TcUsers'
    BY <1>0, <1>11 DEF TcUsers, TcFacts, Tcp!TypeOK, Tcp!TimedOut, Tcp!GoOn, Tcp!CloseSocket
  <2>3. Tcp!SocketsAccounted'
    BY <1>0, <1>11 DEF Tcp!SocketsAccounted, TcFacts, Tcp!TypeOK, TcUsers, Tcp!TcpConstants, Tcp!TimedOut, Tcp!GoOn, Tcp!CloseSocket
  <2>4. TcEntry'
    BY <1>0, <1>11 DEF TcEntry, TcFacts, Tcp!TypeOK, Tcp!ConnectorHeld, Tcp!TimedOut, Tcp!GoOn, Tcp!CloseSocket
  <2>5. Tcp!ConnectorHeld'
    BY <1>0, <1>11 DEF Tcp!ConnectorHeld, TcFacts, Tcp!TypeOK, TcEntry, Tcp!TimedOut, Tcp!GoOn, Tcp!CloseSocket
  <2>6. TcTimes'
    BY <1>0, <1>11 DEF TcTimes, TcFacts, Tcp!TypeOK, Tcp!TimedOut, Tcp!GoOn, Tcp!CloseSocket
  <2>7. Tcp!Honest'
    BY <1>0, <1>11 DEF Tcp!Honest, TcFacts, Tcp!TypeOK, TcTimes, Tcp!TimedOut, Tcp!GoOn, Tcp!CloseSocket
  <2> QED
    BY <2>1, <2>2, <2>3, <2>4, <2>5, <2>6, <2>7 DEF TcInv
<1>12. CASE Tcp!NotCancelled
  <2>1. TcEntry' /\ Tcp!Honest'
    BY <1>0, <1>12 DEF TcEntry, Tcp!Honest, Tcp!NotCancelled, Tcp!Turn
  <2>2. TcFacts'
    BY <1>0, <1>12 DEF TcFacts, Tcp!TypeOK, Tcp!TcpConstants, Tcp!SocketsAccounted, Tcp!NotCancelled, Tcp!Turn
  <2>3. TcUsers'
    BY <1>0, <1>12 DEF TcUsers, TcFacts, Tcp!TypeOK, Tcp!NotCancelled, Tcp!Turn
  <2>4. Tcp!SocketsAccounted'
    BY <1>0, <1>12 DEF Tcp!SocketsAccounted, TcFacts, Tcp!TypeOK, TcUsers, Tcp!TcpConstants, Tcp!NotCancelled, Tcp!Turn
  <2>5. Tcp!ConnectorHeld'
    BY <1>0, <1>12 DEF Tcp!ConnectorHeld, TcFacts, Tcp!TypeOK, TcEntry, Tcp!NotCancelled, Tcp!Turn
  <2>6. TcTimes'
    BY <1>0, <1>12 DEF TcTimes, TcFacts, Tcp!TypeOK, Tcp!NotCancelled, Tcp!Turn
  <2> QED
    BY <2>1, <2>2, <2>3, <2>4, <2>5, <2>6 DEF TcInv
<1>13. CASE Tcp!Poll
  <2>1. TcEntry' /\ Tcp!Honest'
    BY <1>0, <1>13 DEF TcEntry, Tcp!Honest, Tcp!Poll, Tcp!Turn
  <2>2. TcFacts'
    BY <1>0, <1>13 DEF TcFacts, Tcp!TypeOK, Tcp!TcpConstants, Tcp!SocketsAccounted, Tcp!Poll, Tcp!Turn
  <2>3. TcUsers'
    BY <1>0, <1>13 DEF TcUsers, TcFacts, Tcp!TypeOK, Tcp!Poll, Tcp!Turn
  <2>4. Tcp!SocketsAccounted'
    BY <1>0, <1>13 DEF Tcp!SocketsAccounted, TcFacts, Tcp!TypeOK, TcUsers, Tcp!TcpConstants, Tcp!Poll, Tcp!Turn
  <2>5. Tcp!ConnectorHeld'
    BY <1>0, <1>13 DEF Tcp!ConnectorHeld, TcFacts, Tcp!TypeOK, TcEntry, Tcp!Poll, Tcp!Turn
  <2>6. TcTimes'
    BY <1>0, <1>13 DEF TcTimes, TcFacts, Tcp!TypeOK, Tcp!Poll, Tcp!Turn
  <2> QED
    BY <2>1, <2>2, <2>3, <2>4, <2>5, <2>6 DEF TcInv
<1>14. CASE Tcp!AttemptCancelled
  <2>1. TcFacts'
    BY <1>0, <1>14 DEF TcFacts, Tcp!TypeOK, Tcp!TcpConstants, Tcp!SocketsAccounted, Tcp!AttemptCancelled, Tcp!CloseSocket, Tcp!Return
  <2>2. TcUsers'
    BY <1>0, <1>14 DEF TcUsers, TcFacts, Tcp!TypeOK, Tcp!AttemptCancelled, Tcp!CloseSocket, Tcp!Return
  <2>3. Tcp!SocketsAccounted'
    BY <1>0, <1>14 DEF Tcp!SocketsAccounted, TcFacts, Tcp!TypeOK, TcUsers, Tcp!TcpConstants, Tcp!AttemptCancelled, Tcp!CloseSocket, Tcp!Return
  <2>4. TcEntry'
    BY <1>0, <1>14 DEF TcEntry, TcFacts, Tcp!TypeOK, Tcp!ConnectorHeld, Tcp!AttemptCancelled, Tcp!CloseSocket, Tcp!Return
  <2>5. Tcp!ConnectorHeld'
    BY <1>0, <1>14 DEF Tcp!ConnectorHeld, TcFacts, Tcp!TypeOK, TcEntry, Tcp!AttemptCancelled, Tcp!CloseSocket, Tcp!Return
  <2>6. TcTimes'
    BY <1>0, <1>14 DEF TcTimes, TcFacts, Tcp!TypeOK, Tcp!AttemptCancelled, Tcp!CloseSocket, Tcp!Return
  <2>7. Tcp!Honest'
    BY <1>0, <1>14 DEF Tcp!Honest, TcFacts, Tcp!TypeOK, TcTimes, Tcp!AttemptCancelled, Tcp!CloseSocket, Tcp!Return
  <2> QED
    BY <2>1, <2>2, <2>3, <2>4, <2>5, <2>6, <2>7 DEF TcInv
<1>15. CASE Tcp!Connected
  <2>1. TcFacts'
    BY <1>0, <1>15 DEF TcFacts, Tcp!TypeOK, Tcp!TcpConstants, Tcp!SocketsAccounted, Tcp!Connected, Tcp!Return
  <2>2. TcUsers'
    BY <1>0, <1>15 DEF TcUsers, TcFacts, Tcp!TypeOK, Tcp!Connected, Tcp!Return
  <2>3. Tcp!SocketsAccounted'
    BY <1>0, <1>15 DEF Tcp!SocketsAccounted, TcFacts, Tcp!TypeOK, TcUsers, Tcp!TcpConstants, Tcp!Connected, Tcp!Return
  <2>4. TcEntry'
    BY <1>0, <1>15 DEF TcEntry, TcFacts, Tcp!TypeOK, Tcp!ConnectorHeld, Tcp!Connected, Tcp!Return
  <2>5. Tcp!ConnectorHeld'
    BY <1>0, <1>15 DEF Tcp!ConnectorHeld, TcFacts, Tcp!TypeOK, TcEntry, Tcp!Connected, Tcp!Return
  <2>6. TcTimes'
    BY <1>0, <1>15 DEF TcTimes, TcFacts, Tcp!TypeOK, Tcp!Connected, Tcp!Return
  <2>7. Tcp!Honest'
    BY <1>0, <1>15 DEF Tcp!Honest, TcFacts, Tcp!TypeOK, TcTimes, Tcp!Connected, Tcp!Return
  <2> QED
    BY <2>1, <2>2, <2>3, <2>4, <2>5, <2>6, <2>7 DEF TcInv
<1>16. ASSUME NEW u \in Users, NEW k \in {"recv", "send"}, Tcp!Block(u, k) PROVE TcInv'
  <2>1. Tcp!SocketsAccounted' /\ TcEntry' /\ Tcp!ConnectorHeld' /\ TcTimes' /\ Tcp!Honest'
    BY <1>0, <1>16 DEF Tcp!SocketsAccounted, TcEntry, Tcp!ConnectorHeld, TcTimes, Tcp!Honest, Tcp!Block
  <2>2. TcFacts'
    BY <1>0, <1>16 DEF TcFacts, Tcp!TypeOK, Tcp!TcpConstants, Tcp!SocketsAccounted, Tcp!Block
  <2>3. TcUsers'
    BY <1>0, <1>16 DEF TcUsers, TcFacts, Tcp!TypeOK, Tcp!Block
  <2> QED
    BY <2>1, <2>2, <2>3 DEF TcInv
<1>17. ASSUME NEW u \in Users, Tcp!Unblock(u) PROVE TcInv'
  <2>1. Tcp!SocketsAccounted' /\ TcEntry' /\ Tcp!ConnectorHeld' /\ TcTimes' /\ Tcp!Honest'
    BY <1>0, <1>17 DEF Tcp!SocketsAccounted, TcEntry, Tcp!ConnectorHeld, TcTimes, Tcp!Honest, Tcp!Unblock
  <2>2. TcFacts'
    BY <1>0, <1>17 DEF TcFacts, Tcp!TypeOK, Tcp!TcpConstants, Tcp!SocketsAccounted, Tcp!Unblock
  <2>3. TcUsers'
    BY <1>0, <1>17 DEF TcUsers, TcFacts, Tcp!TypeOK, Tcp!Unblock
  <2> QED
    BY <2>1, <2>2, <2>3 DEF TcInv
<1>18. ASSUME NEW u \in Users, Tcp!Close(u) PROVE TcInv'
  <2>1. TcUsers' /\ Tcp!SocketsAccounted' /\ TcEntry' /\ Tcp!ConnectorHeld' /\ TcTimes' /\ Tcp!Honest'
    BY <1>0, <1>18 DEF TcUsers, Tcp!SocketsAccounted, TcEntry, Tcp!ConnectorHeld, TcTimes, Tcp!Honest, Tcp!Close
  <2>2. TcFacts'
    BY <1>0, <1>18 DEF TcFacts, Tcp!TypeOK, Tcp!TcpConstants, Tcp!SocketsAccounted, Tcp!Close
  <2> QED
    BY <2>1, <2>2 DEF TcInv
<1>19. ASSUME NEW u \in Users, Tcp!LetGo(u) PROVE TcInv'
  <2>1. TcEntry' /\ Tcp!ConnectorHeld' /\ TcTimes' /\ Tcp!Honest'
    BY <1>0, <1>19 DEF TcEntry, Tcp!ConnectorHeld, TcTimes, Tcp!Honest, Tcp!LetGo, Tcp!Released
  <2>2. TcFacts'
    BY <1>0, <1>19 DEF TcFacts, Tcp!TypeOK, Tcp!TcpConstants, Tcp!SocketsAccounted, Tcp!LetGo, Tcp!Released
  <2>3. TcUsers'
    BY <1>0, <1>19 DEF TcUsers, TcFacts, Tcp!TypeOK, Tcp!LetGo, Tcp!Released
  <2>4. Tcp!SocketsAccounted'
    BY <1>0, <1>19 DEF Tcp!SocketsAccounted, TcFacts, Tcp!TypeOK, TcUsers, Tcp!TcpConstants, Tcp!LetGo, Tcp!Released
  <2> QED
    BY <2>1, <2>2, <2>3, <2>4 DEF TcInv
<1>20. CASE Tcp!Cancel
  <2>1. TcUsers' /\ Tcp!SocketsAccounted' /\ TcEntry' /\ Tcp!ConnectorHeld' /\ TcTimes'
    BY <1>0, <1>20 DEF TcUsers, Tcp!SocketsAccounted, TcEntry, Tcp!ConnectorHeld, TcTimes, Tcp!Cancel
  <2>2. TcFacts'
    BY <1>0, <1>20 DEF TcFacts, Tcp!TypeOK, Tcp!TcpConstants, Tcp!SocketsAccounted, Tcp!Cancel
  <2>3. Tcp!Honest'
    BY <1>0, <1>20 DEF Tcp!Honest, TcFacts, Tcp!TypeOK, TcTimes, Tcp!Cancel
  <2> QED
    BY <2>1, <2>2, <2>3 DEF TcInv
<1>21. CASE Tcp!Tick
  <2>1. TcUsers' /\ Tcp!SocketsAccounted' /\ TcEntry' /\ Tcp!ConnectorHeld'
    BY <1>0, <1>21 DEF TcUsers, Tcp!SocketsAccounted, TcEntry, Tcp!ConnectorHeld, Tcp!Tick
  <2>2. TcFacts'
    BY <1>0, <1>21 DEF TcFacts, Tcp!TypeOK, Tcp!TcpConstants, Tcp!SocketsAccounted, Tcp!Tick
  <2>3. TcTimes'
    BY <1>0, <1>21 DEF TcTimes, TcFacts, Tcp!TypeOK, Tcp!Tick
  <2>4. Tcp!Honest'
    BY <1>0, <1>21 DEF Tcp!Honest, TcFacts, Tcp!TypeOK, TcTimes, Tcp!Tick
  <2> QED
    BY <2>1, <2>2, <2>3, <2>4 DEF TcInv
<1>22. CASE UNCHANGED Tcp!vars
  <2> USE DEF Tcp!vars
  <2>1. TcFacts'
    BY <1>0, <1>22 DEF TcFacts, Tcp!TypeOK
  <2>2. TcUsers'
    BY <1>0, <1>22 DEF TcUsers
  <2>3. Tcp!SocketsAccounted'
    BY <1>0, <1>22 DEF Tcp!SocketsAccounted
  <2>4. TcEntry'
    BY <1>0, <1>22 DEF TcEntry
  <2>5. Tcp!ConnectorHeld'
    BY <1>0, <1>22 DEF Tcp!ConnectorHeld
  <2>6. TcTimes'
    BY <1>0, <1>22 DEF TcTimes
  <2>7. Tcp!Honest'
    BY <1>0, <1>22 DEF Tcp!Honest
  <2> QED
    BY <2>1, <2>2, <2>3, <2>4, <2>5, <2>6, <2>7 DEF TcInv
<1> QED
  BY <1>1, <1>2, <1>3, <1>4, <1>5, <1>6, <1>7, <1>8, <1>9, <1>10, <1>11, <1>12, <1>13, <1>14, <1>15, <1>16, <1>17, <1>18, <1>19, <1>20, <1>21, <1>22 DEF Tcp!Next, Tcp!Connecting

\* From it: every descriptor that is open has an owner, none is used after its release,
\* the connector outlives its calls, and an error names its cause.
LEMMA TcSafe == TcInv => Tcp!Inv
  BY DEF TcInv, TcFacts, TcUsers, Tcp!Inv, Tcp!SocketsAccounted, Tcp!DescriptorHeld

-----------------------------------------------------------------------------
\* All of them: the one component that moves has its invariant.
NtInv ==
    /\ kind = "http" => HtInv
    /\ kind = "pipe" => BpInv
    /\ kind = "manager" => MgInv
    /\ kind = "tls" => TlInv
    /\ kind = "tcp" => TcInv

\* The initial states: no component has begun.
LEMMA NtInit == Init => NtInv
<1> SUFFICES ASSUME Init PROVE NtInv
  OBVIOUS
<1>1. kind = "http" => HtInv
  BY NetworkAssumption, HtInit DEF Init
<1>2. kind = "pipe" => BpInv
  BY NetworkAssumption, BpInit DEF Init
<1>3. kind = "manager" => MgInv
  BY NetworkAssumption, MgInit DEF Init
<1>4. kind = "tls" => TlInv
  BY NetworkAssumption, TlInit DEF Init
<1>5. kind = "tcp" => TcInv
  BY NetworkAssumption, TcInit DEF Init
<1> QED
  BY <1>1, <1>2, <1>3, <1>4, <1>5 DEF NtInv

\* A step is one of the component it is about.
LEMMA NtStep == NtInv /\ [Next]_vars => NtInv'
<1> SUFFICES ASSUME NtInv, [Next]_vars PROVE NtInv'
  OBVIOUS
<1>0. kind' = kind
  BY DEF Next, vars
<1>1. CASE kind = "http"
  <2>1. [Http!Next]_(Http!vars)
    <3>1. CASE UNCHANGED vars
      BY <3>1 DEF vars, httpVars, Http!vars, Http!sockets, Http!down, Http!request, Http!exchange, Http!body, Http!outcome, Http!aborting
    <3> QED
      BY <1>1, <3>1 DEF Next
  <2> QED
    BY <1>1, <1>0, <2>1, NetworkAssumption, HtStep DEF NtInv
<1>2. CASE kind = "pipe"
  <2>1. [Pipe!Next]_(Pipe!vars)
    <3>1. CASE UNCHANGED vars
      BY <3>1 DEF vars, pipeVars, Pipe!vars, Pipe!data, Pipe!flags
    <3> QED
      BY <1>2, <3>1 DEF Next
  <2> QED
    BY <1>2, <1>0, <2>1, NetworkAssumption, BpStep DEF NtInv
<1>3. CASE kind = "manager"
  <2>1. [Manager!Next]_(Manager!vars)
    <3>1. CASE UNCHANGED vars
      BY <3>1 DEF vars, managerVars, Manager!vars, Manager!registry, Manager!signals, Manager!hop
    <3> QED
      BY <1>3, <3>1 DEF Next
  <2> QED
    BY <1>3, <1>0, <2>1, NetworkAssumption, MgStep DEF NtInv
<1>4. CASE kind = "tls"
  <2>1. [Tls!Next]_(Tls!vars)
    <3>1. CASE UNCHANGED vars
      BY <3>1 DEF vars, tlsVars, Tls!vars, Tls!calls, Tls!watchdog, Tls!contexts
    <3> QED
      BY <1>4, <3>1 DEF Next
  <2> QED
    BY <1>4, <1>0, <2>1, NetworkAssumption, TlStep DEF NtInv
<1>5. CASE kind = "tcp"
  <2>1. [Tcp!Next]_(Tcp!vars)
    <3>1. CASE UNCHANGED vars
      BY <3>1 DEF vars, tcpVars, Tcp!vars, Tcp!call, Tcp!sockets, Tcp!registry
    <3> QED
      BY <1>5, <3>1 DEF Next
  <2> QED
    BY <1>5, <1>0, <2>1, NetworkAssumption, TcStep DEF NtInv
<1> QED
  BY <1>0, <1>1, <1>2, <1>3, <1>4, <1>5 DEF NtInv

\* What the components promise follows from their invariants.
LEMMA NtSafe == NtInv => ExchangesSafe /\ ConnectionsSafe /\ RequestsSafe
  BY NetworkAssumption, HtSafe, BpSafe, MgSafe, TlSafe, TcSafe
     DEF NtInv, ExchangesSafe, ConnectionsSafe, RequestsSafe

\* The invariant of the network stack is one of its specification.
LEMMA NtAlways == Spec => []NtInv
  BY NtInit, NtStep, PTL DEF Spec

\* HTTP (http_protocol_handler.cpp, body.cpp): however completion, cancellation,
\* abort and shutdown are interleaved, a transfer's callback is called at most once
\* and has been when the transfer is at rest; a connection is idle or in the hands of
\* one transfer, and none that is open is lost; a body that was cut short is not
\* presented as complete, unless by the late abort of an earlier user of its
\* connection; the pipe holds what was written and not yet read, in order, and whoever
\* sleeps although it could go on has a notification on its way.
THEOREM ExchangesSafeAlways == Spec => []ExchangesSafe
  BY NtAlways, NtSafe, PTL

\* TLS and TCP (tls_connector.cpp, tcp_connector.cpp, connector_registry.cpp): no
\* descriptor is left behind or used after its release, no connection is returned
\* that its own timeout has closed, and none relies on trust that was refreshed.
THEOREM ConnectionsSafeAlways == Spec => []ConnectionsSafe
  BY NtAlways, NtSafe, PTL

\* NetworkManager (network_manager.cpp): a fetch has one result, an interceptor runs
\* once, in its turn and only where it stays, and credentials leave with the origin
\* they were meant for.
THEOREM RequestsSafeAlways == Spec => []RequestsSafe
  BY NtAlways, NtSafe, PTL
=============================================================================
