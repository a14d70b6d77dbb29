-------------------------- MODULE Executors_proofs --------------------------
(***************************************************************************)
(* Proofs about the three executors, for any number of threads and any     *)
(* callbacks: the strand first, then the pool, then the loop.              *)
(***************************************************************************)
EXTENDS Executors, SequenceTheorems, FiniteSetTheorems, TLAPS

(***************************************************************************)
(* The strand.                                                             *)
(***************************************************************************)

\* Nobody is responsible while `running` is clear, and nothing is queued;
\* while it is set exactly one party is: a drain task in the base, the
\* poster p of a hand-over, or the base thread d that drains.
ResponsibleInv ==
    /\ ~running =>
          /\ tasks = 0 /\ queue = <<>>
          /\ \A p \in Posters : ppc[p] = "idle"
          /\ \A d \in Drainers : dpc[d] = "idle"
    /\ running =>
          \/ /\ tasks = 1
             /\ \A p \in Posters : ppc[p] = "idle"
             /\ \A d \in Drainers : dpc[d] = "idle"
          \/ /\ tasks = 0
             /\ \E p \in Posters : \A q \in Posters : ppc[q] # "idle" <=> q = p
             /\ \A d \in Drainers : dpc[d] = "idle"
          \/ /\ tasks = 0
             /\ \A p \in Posters : ppc[p] = "idle"
             /\ \E d \in Drainers : \A e \in Drainers : dpc[e] # "idle" <=> e = d

\* Setting an entry of a function, in its domain or not, keeps its type.
LEMMA ExceptType ==
    ASSUME NEW S, NEW T, NEW f \in [S -> T], NEW x, NEW v \in T
    PROVE  [f EXCEPT ![x] = v] \in [S -> T]
OBVIOUS

LEMMA SerialType ==
    ASSUME Serial!TypeOK, Serial!Next
    PROVE  Serial!TypeOK'
<1> USE DEF Serial!TypeOK
<1>1. ASSUME NEW p \in Posters, Serial!Post(p)
      PROVE  Serial!TypeOK'
  <2>1. ASSUME NEW c \in Callbacks, Serial!PostBehind(p, c)
        PROVE  Serial!TypeOK'
    BY <2>1 DEF Serial!PostBehind, Serial!PushBack, Serial!Accepted
  <2>2. ASSUME NEW c \in Callbacks, Serial!PostFirst(p, c)
        PROVE  Serial!TypeOK'
    BY <2>2 DEF Serial!PostFirst, Serial!PushBack
  <2>3. CASE Serial!HandOff(p)
    <3>1. result' \in [Callbacks -> {"none", "true", "false"}]
      BY <2>3, ExceptType DEF Serial!HandOff, Serial!Accepted
    <3> QED
      BY <2>3, <3>1 DEF Serial!HandOff
  <2>4. CASE Serial!HandOffRefused(p)
    BY <2>4 DEF Serial!HandOffRefused
  <2>5. CASE Serial!DropQueue(p)
    <3>1. result' \in [Callbacks -> {"none", "true", "false"}]
      BY <2>5, ExceptType DEF Serial!DropQueue, Serial!Refused
    <3> QED
      BY <2>5, <3>1, EmptySeq DEF Serial!DropQueue, Serial!StopRunning
  <2> QED
    BY <1>1, <2>1, <2>2, <2>3, <2>4, <2>5 DEF Serial!Post
<1>2. ASSUME NEW d \in Drainers, Serial!Drain(d)
      PROVE  Serial!TypeOK'
  <2>1. CASE Serial!StartDrain(d)
    BY <2>1 DEF Serial!StartDrain
  <2>2. CASE Serial!DrainOne(d)
    <3>1. Head(queue) \in Callbacks /\ Tail(queue) \in Seq(Callbacks)
      BY <2>2, HeadTailProperties DEF Serial!DrainOne
    <3> QED
      BY <2>2, <3>1, ExecutorsAssumption
         DEF Serial!DrainOne, Serial!PopFront, Serial!SerialConstants
  <2>3. CASE Serial!Invoked(d)
    BY <2>3 DEF Serial!Invoked, Serial!Release
  <2>4. CASE Serial!DrainEmpty(d)
    BY <2>4 DEF Serial!DrainEmpty, Serial!StopRunning
  <2> QED
    BY <1>2, <2>1, <2>2, <2>3, <2>4 DEF Serial!Drain
<1>3. CASE Serial!CloseBase
  BY <1>3 DEF Serial!CloseBase
<1> QED
  BY <1>1, <1>2, <1>3 DEF Serial!Next

LEMMA SerialResponsible ==
    ASSUME Serial!TypeOK, ResponsibleInv, Serial!Next
    PROVE  ResponsibleInv'
<1> USE DEF Serial!TypeOK, ResponsibleInv
<1>1. ASSUME NEW p \in Posters, Serial!Post(p)
      PROVE  ResponsibleInv'
  <2>1. ASSUME NEW c \in Callbacks, Serial!PostBehind(p, c)
        PROVE  ResponsibleInv'
    BY <2>1 DEF Serial!PostBehind, Serial!PushBack
  <2>2. ASSUME NEW c \in Callbacks, Serial!PostFirst(p, c)
        PROVE  ResponsibleInv'
    BY <2>2 DEF Serial!PostFirst, Serial!PushBack, Serial!NobodyDrains
  <2>3. CASE Serial!HandOff(p)
    BY <2>3 DEF Serial!HandOff
  <2>4. CASE Serial!HandOffRefused(p)
    BY <2>4 DEF Serial!HandOffRefused
  <2>5. CASE Serial!DropQueue(p)
    BY <2>5 DEF Serial!DropQueue, Serial!StopRunning
  <2> QED
    BY <1>1, <2>1, <2>2, <2>3, <2>4, <2>5 DEF Serial!Post
<1>2. ASSUME NEW d \in Drainers, Serial!Drain(d)
      PROVE  ResponsibleInv'
  <2>1. CASE Serial!StartDrain(d)
    BY <2>1 DEF Serial!StartDrain
  <2>2. CASE Serial!DrainOne(d)
    BY <2>2 DEF Serial!DrainOne
  <2>3. CASE Serial!Invoked(d)
    BY <2>3 DEF Serial!Invoked
  <2>4. CASE Serial!DrainEmpty(d)
    BY <2>4 DEF Serial!DrainEmpty, Serial!StopRunning
  <2> QED
    BY <1>2, <2>1, <2>2, <2>3, <2>4 DEF Serial!Drain
<1>3. CASE Serial!CloseBase
  BY <1>3 DEF Serial!CloseBase
<1> QED
  BY <1>1, <1>2, <1>3 DEF Serial!Next

\* Counting the parties gives what the run checks.
LEMMA SameCardinality ==
    \A S : /\ Serial!Cardinality(S) = Cardinality(S)
           /\ Pool!Cardinality(S) = Cardinality(S)
           /\ Loop!Cardinality(S) = Cardinality(S)
           /\ Pool!IsFiniteSet(S) <=> IsFiniteSet(S)
           /\ Loop!IsFiniteSet(S) <=> IsFiniteSet(S)
BY DEF Serial!Cardinality, Pool!Cardinality, Loop!Cardinality, Cardinality,
       Serial!IsFiniteSet, Pool!IsFiniteSet, Loop!IsFiniteSet, IsFiniteSet

LEMMA ResponsibleCount ==
    ASSUME Serial!TypeOK, ResponsibleInv
    PROVE  Serial!OneResponsible
<1> DEFINE posters == {p \in Posters : ppc[p] # "idle"}
           busy    == {d \in Drainers : dpc[d] # "idle"}
<1> SUFFICES /\ Cardinality(posters) + tasks + Cardinality(busy) = (IF running THEN 1 ELSE 0)
             /\ queue # <<>> => running
  BY SameCardinality DEF Serial!OneResponsible, Serial!Busy
<1>1. Cardinality({}) = 0 /\ \A x : Cardinality({x}) = 1
  BY FS_EmptySet, FS_Singleton
<1>2. CASE ~running
  <2>1. posters = {} /\ busy = {} /\ tasks = 0 /\ queue = <<>>
    BY <1>2 DEF ResponsibleInv
  <2> HIDE DEF posters, busy
  <2> QED
    BY <1>1, <1>2, <2>1
<1>3. CASE running
  <2>1. \/ tasks = 1 /\ posters = {} /\ busy = {}
        \/ tasks = 0 /\ (\E p \in Posters : posters = {p}) /\ busy = {}
        \/ tasks = 0 /\ posters = {} /\ (\E d \in Drainers : busy = {d})
    BY <1>3 DEF ResponsibleInv
  <2> HIDE DEF posters, busy
  <2> QED
    BY <1>1, <1>3, <2>1
<1> QED
  BY <1>2, <1>3 DEF Serial!TypeOK

\* What was started or is still queued is a subsequence of what was queued,
\* and nothing was queued twice.
Line == started \o queue

OrderInv ==
    /\ \A i, j \in 1 .. Len(order) : order[i] = order[j] => i = j
    /\ \A i \in 1 .. Len(Line) : \E m \in 1 .. Len(order) : Line[i] = order[m]
    /\ \A i, j \in 1 .. Len(Line), m, n \in 1 .. Len(order) :
          i < j /\ Line[i] = order[m] /\ Line[j] = order[n] => m < n

LEMMA LineProperties ==
    ASSUME Serial!TypeOK
    PROVE  /\ Line \in Seq(Callbacks) /\ Len(Line) \in Nat
           /\ order \in Seq(Callbacks) /\ Len(order) \in Nat
BY ConcatProperties DEF Serial!TypeOK, Line

\* post() makes the line and the history longer by the same callback.
LEMMA OrderPush ==
    ASSUME Serial!TypeOK, Serial!TypeOK', OrderInv, NEW c \in Callbacks,
           Serial!Fresh(c), Serial!PushBack(c), order' = Append(order, c),
           UNCHANGED started
    PROVE  OrderInv'
<1>1. /\ Line \in Seq(Callbacks) /\ Len(Line) \in Nat
      /\ order \in Seq(Callbacks) /\ Len(order) \in Nat
  BY LineProperties
<1>2. Line' = Append(Line, c)
  <2>1. started \in Seq(Callbacks) /\ queue \in Seq(Callbacks) /\ <<c>> \in Seq(Callbacks)
    BY DEF Serial!TypeOK
  <2>2. Append(queue, c) = queue \o <<c>> /\ Append(Line, c) = Line \o <<c>>
    BY <1>1, <2>1, AppendIsConcat
  <2>3. started \o (queue \o <<c>>) = (started \o queue) \o <<c>>
    BY <2>1, ConcatAssociative
  <2> QED
    BY <2>2, <2>3 DEF Serial!PushBack, Line
<1>3. /\ Len(Line') = Len(Line) + 1 /\ Line'[Len(Line) + 1] = c
      /\ \A i \in 1 .. Len(Line) : Line'[i] = Line[i]
  BY <1>1, <1>2, AppendProperties
<1>4. /\ Len(order') = Len(order) + 1 /\ order'[Len(order) + 1] = c
      /\ \A i \in 1 .. Len(order) : order'[i] = order[i]
  BY <1>1, AppendProperties
<1>5. \A i \in 1 .. Len(order) : order[i] # c
  BY DEF Serial!Fresh, Serial!Elements
<1>6. \A i \in 1 .. Len(Line) : Line[i] # c
  BY <1>5 DEF OrderInv
<1>7. \A i, j \in 1 .. Len(order') : order'[i] = order'[j] => i = j
  BY <1>1, <1>4, <1>5 DEF OrderInv
<1>8. \A i \in 1 .. Len(Line') : \E m \in 1 .. Len(order') : Line'[i] = order'[m]
  <2>1. Len(order) + 1 \in 1 .. Len(order')
    BY <1>1, <1>4
  <2>2. \A m \in 1 .. Len(order) : m \in 1 .. Len(order')
    BY <1>1, <1>4
  <2>3. TAKE i \in 1 .. Len(Line')
  <2>4. CASE i = Len(Line) + 1
    BY <1>3, <1>4, <2>1, <2>4
  <2>5. CASE i # Len(Line) + 1
    <3>1. i \in 1 .. Len(Line)
      BY <1>1, <1>3, <2>5
    <3>2. PICK m \in 1 .. Len(order) : Line[i] = order[m]
      BY <3>1 DEF OrderInv
    <3> QED
      BY <1>3, <1>4, <2>2, <3>1, <3>2
  <2> QED
    BY <2>4, <2>5
<1>9. \A i, j \in 1 .. Len(Line'), m, n \in 1 .. Len(order') :
          i < j /\ Line'[i] = order'[m] /\ Line'[j] = order'[n] => m < n
  <2> SUFFICES ASSUME NEW i \in 1 .. Len(Line'), NEW j \in 1 .. Len(Line'),
                      NEW m \in 1 .. Len(order'), NEW n \in 1 .. Len(order'),
                      i < j, Line'[i] = order'[m], Line'[j] = order'[n]
               PROVE  m < n
    OBVIOUS
  <2>1. i \in 1 .. Len(Line) /\ Line'[i] = Line[i] /\ Line[i] # c
    BY <1>1, <1>3, <1>6
  <2>2. m \in 1 .. Len(order) /\ order'[m] = order[m]
    <3>1. order'[m] # c
      BY <2>1
    <3>2. m # Len(order) + 1
      BY <1>4, <3>1
    <3> QED
      BY <1>1, <1>4, <3>2
  <2>3. CASE n = Len(order) + 1
    BY <1>1, <2>2, <2>3
  <2>4. CASE n # Len(order) + 1
    <3>1. n \in 1 .. Len(order) /\ order'[n] = order[n]
      BY <1>1, <1>4, <2>4
    <3>2. j \in 1 .. Len(Line) /\ Line'[j] = Line[j]
      <4>1. Line'[j] # c
        BY <1>5, <3>1
      <4>2. j # Len(Line) + 1
        BY <1>3, <4>1
      <4>3. j \in 1 .. Len(Line) + 1 /\ Len(Line) \in Nat
        BY <1>1, <1>3
      <4>4. j \in 1 .. Len(Line)
        BY <4>2, <4>3
      <4> QED
        BY <1>3, <4>4
    <3>3. Line[i] = order[m] /\ Line[j] = order[n]
      BY <2>1, <2>2, <3>1, <3>2
    <3> QED
      BY <2>1, <2>2, <3>1, <3>2, <3>3 DEF OrderInv
  <2> QED
    BY <2>3, <2>4
<1> QED
  BY <1>7, <1>8, <1>9 DEF OrderInv

\* A step that keeps the history and at most cuts the end of the line.
LEMMA OrderKeep ==
    ASSUME Serial!TypeOK, OrderInv, UNCHANGED order,
           Len(Line') \in Nat, Len(Line') <= Len(Line),
           \A i \in 1 .. Len(Line') : Line'[i] = Line[i]
    PROVE  OrderInv'
<1>1. Len(Line) \in Nat
  BY LineProperties
<1>2. \A i \in 1 .. Len(Line') : i \in 1 .. Len(Line) /\ Line'[i] = Line[i]
  BY <1>1
<1>3. order' = order
  OBVIOUS
<1>4. \A i \in 1 .. Len(Line') : \E m \in 1 .. Len(order') : Line'[i] = order'[m]
  BY <1>2, <1>3 DEF OrderInv
<1>5. \A i, j \in 1 .. Len(Line'), m, n \in 1 .. Len(order') :
          i < j /\ Line'[i] = order'[m] /\ Line'[j] = order'[n] => m < n
  <2> SUFFICES ASSUME NEW i \in 1 .. Len(Line'), NEW j \in 1 .. Len(Line'),
                      NEW m \in 1 .. Len(order), NEW n \in 1 .. Len(order),
                      i < j, Line'[i] = order[m], Line'[j] = order[n]
               PROVE  m < n
    BY <1>3
  <2>1. Line[i] = order[m] /\ Line[j] = order[n]
    BY <1>2
  <2> QED
    BY <1>2, <2>1 DEF OrderInv
<1>6. \A i, j \in 1 .. Len(order') : order'[i] = order'[j] => i = j
  BY <1>3 DEF OrderInv
<1> QED
  BY <1>4, <1>5, <1>6 DEF OrderInv

LEMMA SerialOrder ==
    ASSUME Serial!TypeOK, Serial!TypeOK', OrderInv, Serial!Next
    PROVE  OrderInv'
<1>0. Line \in Seq(Callbacks) /\ Len(Line) \in Nat
  BY LineProperties
<1>1. ASSUME UNCHANGED <<order, queue, started>>
      PROVE  OrderInv'
  <2>1. Line' = Line /\ order' = order
    BY <1>1 DEF Line
  <2> QED
    BY <1>0, <2>1, OrderKeep
<1>2. ASSUME NEW p \in Posters, Serial!Post(p)
      PROVE  OrderInv'
  <2>1. ASSUME NEW c \in Callbacks, Serial!PostBehind(p, c) \/ Serial!PostFirst(p, c)
        PROVE  OrderInv'
    BY <2>1, OrderPush DEF Serial!PostBehind, Serial!PostFirst
  <2>2. CASE Serial!HandOff(p) \/ Serial!HandOffRefused(p)
    BY <1>1, <2>2 DEF Serial!HandOff, Serial!HandOffRefused
  <2>3. CASE Serial!DropQueue(p)
    <3>1. started \in Seq(Callbacks) /\ queue \in Seq(Callbacks)
      BY DEF Serial!TypeOK
    <3>2. Line' = started
      BY <2>3, <3>1, ConcatEmptySeq DEF Serial!DropQueue, Line
    <3>3. Len(started) <= Len(Line) /\ \A i \in 1 .. Len(started) : Line[i] = started[i]
      BY <3>1, ConcatProperties DEF Line
    <3> QED
      BY <2>3, <3>1, <3>2, <3>3, OrderKeep DEF Serial!DropQueue
  <2> QED
    BY <1>2, <2>1, <2>2, <2>3 DEF Serial!Post
<1>3. ASSUME NEW d \in Drainers, Serial!Drain(d)
      PROVE  OrderInv'
  <2>1. CASE Serial!DrainOne(d)
    <3>1. started \in Seq(Callbacks) /\ queue \in Seq(Callbacks) /\ queue # <<>>
      BY <2>1 DEF Serial!TypeOK, Serial!DrainOne
    <3>2. /\ Head(queue) \in Callbacks /\ Tail(queue) \in Seq(Callbacks)
          /\ <<Head(queue)>> \in Seq(Callbacks)
      BY <3>1, HeadTailProperties
    <3>3. queue = <<Head(queue)>> \o Tail(queue)
      BY <3>1, <3>2
    <3>4. Append(started, Head(queue)) \o Tail(queue) = started \o queue
      BY <3>1, <3>2, <3>3, AppendIsConcat, ConcatAssociative
    <3>5. Line' = Line
      BY <2>1, <3>4 DEF Serial!DrainOne, Serial!PopFront, Line
    <3> QED
      BY <1>0, <2>1, <3>5, OrderKeep DEF Serial!DrainOne
  <2>2. CASE Serial!StartDrain(d) \/ Serial!Invoked(d) \/ Serial!DrainEmpty(d)
    BY <1>1, <2>2 DEF Serial!StartDrain, Serial!Invoked, Serial!DrainEmpty
  <2> QED
    BY <1>3, <2>1, <2>2 DEF Serial!Drain
<1>4. CASE Serial!CloseBase
  BY <1>1, <1>4 DEF Serial!CloseBase
<1> QED
  BY <1>2, <1>3, <1>4 DEF Serial!Next

\* An increasing line is what the run states with positions.
LEMMA OrderIsFifo ==
    ASSUME Serial!TypeOK, OrderInv
    PROVE  Serial!FifoOrder
<1>1. \A m \in 1 .. Len(order) : Serial!Position(order[m]) = m
  BY DEF OrderInv, Serial!Position
<1> SUFFICES ASSUME NEW i \in 1 .. Len(Line), NEW j \in 1 .. Len(Line), i < j
             PROVE  Serial!Position(Line[i]) < Serial!Position(Line[j])
  BY DEF Serial!FifoOrder, Line
<1>2. PICK m \in 1 .. Len(order) : Line[i] = order[m]
  BY DEF OrderInv
<1>3. PICK n \in 1 .. Len(order) : Line[j] = order[n]
  BY DEF OrderInv
<1>4. m < n
  BY <1>2, <1>3 DEF OrderInv
<1> QED
  BY <1>1, <1>2, <1>3, <1>4

\* The elements of a sequence, as sets.
LEMMA SerialElements ==
    /\ Serial!Elements(<<>>) = {}
    /\ \A s, t \in Seq(Callbacks) :
          Serial!Elements(s \o t) = Serial!Elements(s) \cup Serial!Elements(t)
    /\ \A s \in Seq(Callbacks), c \in Callbacks :
          Serial!Elements(Append(s, c)) = Serial!Elements(s) \cup {c}
    /\ \A s \in Seq(Callbacks) :
          s # <<>> => Serial!Elements(s) = {Head(s)} \cup Serial!Elements(Tail(s))
    /\ \A s \in Seq(Callbacks) : Serial!Elements(s) \subseteq Callbacks
<1> USE DEF Serial!Elements
<1>1. Serial!Elements(<<>>) = {}
  OBVIOUS
<1>2. ASSUME NEW s \in Seq(Callbacks), NEW t \in Seq(Callbacks)
      PROVE  Serial!Elements(s \o t) = Serial!Elements(s) \cup Serial!Elements(t)
  <2>1. /\ Len(s) \in Nat /\ Len(t) \in Nat /\ Len(s \o t) = Len(s) + Len(t)
        /\ \A i \in 1 .. Len(s) + Len(t) :
               (s \o t)[i] = IF i <= Len(s) THEN s[i] ELSE t[i - Len(s)]
    BY ConcatProperties
  <2>2. \A i \in 1 .. Len(s) : i \in 1 .. Len(s \o t) /\ (s \o t)[i] = s[i]
    BY <2>1
  <2>3. \A i \in 1 .. Len(t) :
            Len(s) + i \in 1 .. Len(s \o t) /\ (s \o t)[Len(s) + i] = t[i]
    BY <2>1
  <2>4. \A i \in 1 .. Len(s \o t) :
            \/ i \in 1 .. Len(s) /\ (s \o t)[i] = s[i]
            \/ i - Len(s) \in 1 .. Len(t) /\ (s \o t)[i] = t[i - Len(s)]
    BY <2>1
  <2> QED
    BY <2>2, <2>3, <2>4
<1>3. ASSUME NEW s \in Seq(Callbacks), NEW c \in Callbacks
      PROVE  Serial!Elements(Append(s, c)) = Serial!Elements(s) \cup {c}
  <2>1. <<c>> \in Seq(Callbacks) /\ Append(s, c) = s \o <<c>> /\ Serial!Elements(<<c>>) = {c}
    BY AppendIsConcat
  <2> QED
    BY <1>2, <2>1
<1>4. ASSUME NEW s \in Seq(Callbacks), s # <<>>
      PROVE  Serial!Elements(s) = {Head(s)} \cup Serial!Elements(Tail(s))
  <2>1. /\ <<Head(s)>> \in Seq(Callbacks) /\ Tail(s) \in Seq(Callbacks)
        /\ s = <<Head(s)>> \o Tail(s) /\ Serial!Elements(<<Head(s)>>) = {Head(s)}
    BY <1>4, HeadTailProperties
  <2> QED
    BY <1>2, <2>1
<1>5. ASSUME NEW s \in Seq(Callbacks)
      PROVE  Serial!Elements(s) \subseteq Callbacks
  <2>1. \A i \in 1 .. Len(s) : s[i] \in Callbacks
    BY ElementOfSeq
  <2> QED
    BY <2>1
<1> QED
  BY <1>1, <1>2, <1>3, <1>4, <1>5

\* What post() answered, against what became of the callback.
Held == Serial!Elements(started) \cup Serial!Elements(queue)

AnswerInv ==
    /\ Held \subseteq Serial!Elements(order)
    /\ \A c \in Callbacks : result[c] # "none" => c \in Serial!Elements(order)
    /\ \A p \in Posters : ppc[p] # "idle" =>
          /\ posting[p] \in Serial!Elements(order)
          /\ posting[p] \notin Serial!Elements(started)
          /\ result[posting[p]] = "none"
    /\ \A c \in Serial!Elements(started) : result[c] = "true"
    /\ \A c \in Serial!Elements(queue) :
          result[c] = "true" \/ \E p \in Posters : ppc[p] # "idle" /\ posting[p] = c
    /\ \A d \in Drainers : dpc[d] = "invoke" => current[d] \in Serial!Elements(started)
    /\ (\A c \in Callbacks : result[c] # "false") =>
          /\ \A c \in Callbacks : result[c] = "true" => c \in Held
          /\ \A p \in Posters : ppc[p] # "idle" => posting[p] \in Held

LEMMA SerialAnswers ==
    ASSUME Serial!TypeOK, ResponsibleInv, AnswerInv, Serial!Next
    PROVE  AnswerInv'
<1> DEFINE E(s) == Serial!Elements(s)
<1>0. /\ queue \in Seq(Callbacks) /\ started \in Seq(Callbacks) /\ order \in Seq(Callbacks)
      /\ ppc \in [Posters -> {"idle", "handoff", "refused"}]
      /\ posting \in [Posters -> Callbacks \cup {NoCallback}]
      /\ dpc \in [Drainers -> {"idle", "drain", "invoke"}]
      /\ current \in [Drainers -> Callbacks \cup {NoCallback}]
      /\ result \in [Callbacks -> {"none", "true", "false"}]
  BY DEF Serial!TypeOK
<1>1. E(queue) \subseteq Callbacks /\ E(started) \subseteq Callbacks /\ E(order) \subseteq Callbacks
  BY <1>0, SerialElements
<1> HIDE DEF E
<1>2. ASSUME NEW p \in Posters, Serial!Post(p)
      PROVE  AnswerInv'
  <2>1. ASSUME NEW c \in Callbacks, Serial!PostBehind(p, c)
        PROVE  AnswerInv'
    <3>1. /\ E(queue') = E(queue) \cup {c} /\ E(order') = E(order) \cup {c}
          /\ c \notin E(order) /\ started' = started
      BY <1>0, <2>1, SerialElements DEF E, Serial!PostBehind, Serial!PushBack, Serial!Fresh
    <3>2. result[c] = "none"
      BY <1>0, <3>1 DEF AnswerInv, E
    <3> QED
      BY <1>0, <1>1, <2>1, <3>1, <3>2 DEF AnswerInv, Held, E, Serial!PostBehind, Serial!Accepted
  <2>2. ASSUME NEW c \in Callbacks, Serial!PostFirst(p, c)
        PROVE  AnswerInv'
    <3>1. /\ E(queue') = E(queue) \cup {c} /\ E(order') = E(order) \cup {c}
          /\ c \notin E(order) /\ started' = started
      BY <1>0, <2>2, SerialElements DEF E, Serial!PostFirst, Serial!PushBack, Serial!Fresh
    <3>2. result[c] = "none" /\ c \notin E(started)
      BY <1>0, <3>1 DEF AnswerInv, Held, E
    <3> QED
      BY <1>0, <1>1, <2>2, <3>1, <3>2 DEF AnswerInv, Held, E, Serial!PostFirst
  <2>3. CASE Serial!HandOff(p)
    <3>1. \A q \in Posters : ppc[q] # "idle" <=> q = p
      BY <1>0, <2>3 DEF ResponsibleInv, Serial!HandOff, Serial!TypeOK
    <3> QED
      BY <1>0, <1>1, <2>3, <3>1 DEF AnswerInv, Held, E, Serial!HandOff, Serial!Accepted
  <2>4. CASE Serial!HandOffRefused(p)
    BY <1>0, <1>1, <2>4 DEF AnswerInv, Held, E, Serial!HandOffRefused
  <2>5. CASE Serial!DropQueue(p)
    <3>1. \A q \in Posters : ppc[q] # "idle" <=> q = p
      BY <1>0, <2>5 DEF ResponsibleInv, Serial!DropQueue, Serial!TypeOK
    <3>2. E(queue') = {}
      BY <2>5, SerialElements DEF E, Serial!DropQueue
    <3> QED
      BY <1>0, <1>1, <2>5, <3>1, <3>2 DEF AnswerInv, Held, E, Serial!DropQueue, Serial!Refused
  <2> QED
    BY <1>2, <2>1, <2>2, <2>3, <2>4, <2>5 DEF Serial!Post
<1>3. ASSUME NEW d \in Drainers, Serial!Drain(d)
      PROVE  AnswerInv'
  <2>1. CASE Serial!StartDrain(d)
    BY <1>0, <2>1 DEF AnswerInv, Held, Serial!StartDrain
  <2>2. CASE Serial!DrainOne(d)
    <3>1. \A q \in Posters : ppc[q] = "idle"
      BY <1>0, <2>2 DEF ResponsibleInv, Serial!DrainOne, Serial!TypeOK
    <3>2. /\ E(started') = E(started) \cup {Head(queue)}
          /\ E(queue) = E(queue') \cup {Head(queue)}
          /\ order' = order
      BY <1>0, <2>2, SerialElements, HeadTailProperties
         DEF E, Serial!DrainOne, Serial!PopFront
    <3>3. result[Head(queue)] = "true"
      BY <3>1, <3>2 DEF AnswerInv, E
    <3> QED
      BY <1>0, <1>1, <2>2, <3>1, <3>2, <3>3 DEF AnswerInv, Held, E, Serial!DrainOne
  <2>3. CASE Serial!Invoked(d)
    BY <1>0, <2>3 DEF AnswerInv, Held, Serial!Invoked, Serial!Release
  <2>4. CASE Serial!DrainEmpty(d)
    BY <1>0, <2>4 DEF AnswerInv, Held, Serial!DrainEmpty
  <2> QED
    BY <1>3, <2>1, <2>2, <2>3, <2>4 DEF Serial!Drain
<1>4. CASE Serial!CloseBase
  BY <1>4 DEF AnswerInv, Held, Serial!CloseBase
<1> QED
  BY <1>2, <1>3, <1>4 DEF Serial!Next

LEMMA AnswersKept ==
    ASSUME Serial!TypeOK, AnswerInv
    PROVE  Serial!AcceptedUnlessRefused
<1>1. Serial!Elements(started \o queue) = Held
  BY SerialElements DEF Serial!TypeOK, Held
<1> QED
  BY <1>1 DEF AnswerInv, Serial!AcceptedUnlessRefused

\* As its clients see it a strand takes or refuses a callback it has not
\* seen, runs one it has taken, and finishes one it runs.
SerialStatus == [c \in Callbacks |-> Serial!StatusOf(c)]

Allowed(l, m) ==
    \/ l = "new" /\ m \in {"taken", "refused"}
    \/ l = "taken" /\ m = "running"
    \/ l = "running" /\ m = "done"

SerialMoves ==
    \E c \in Callbacks :
        /\ Allowed(Serial!StatusOf(c), Serial!StatusOf(c)')
        /\ \A b \in Callbacks : b # c => Serial!StatusOf(b)' = Serial!StatusOf(b)

SerialStays == \A b \in Callbacks : Serial!StatusOf(b)' = Serial!StatusOf(b)

LEMMA SerialStart ==
    Serial!Init => SerialStatus = [c \in Callbacks |-> "new"]
BY ExecutorsAssumption, SerialElements
   DEF Serial!Init, SerialStatus, Serial!StatusOf, Serial!SerialConstants

LEMMA SerialRefines ==
    ASSUME Serial!TypeOK, ResponsibleInv, OrderInv, AnswerInv, Serial!Next
    PROVE  SerialMoves \/ SerialStays
<1> DEFINE E(s) == Serial!Elements(s)
<1>0. /\ queue \in Seq(Callbacks) /\ started \in Seq(Callbacks) /\ order \in Seq(Callbacks)
      /\ ppc \in [Posters -> {"idle", "handoff", "refused"}]
      /\ posting \in [Posters -> Callbacks \cup {NoCallback}]
      /\ dpc \in [Drainers -> {"idle", "drain", "invoke"}]
      /\ current \in [Drainers -> Callbacks \cup {NoCallback}]
      /\ \A d \in Drainers : current[d] = NoCallback <=> dpc[d] # "invoke"
      /\ result \in [Callbacks -> {"none", "true", "false"}]
      /\ NoCallback \notin Callbacks
  BY ExecutorsAssumption DEF Serial!TypeOK, Serial!SerialConstants
<1>1. E(queue) \subseteq Callbacks /\ E(started) \subseteq Callbacks /\ E(order) \subseteq Callbacks
  BY <1>0, SerialElements
<1>2. \A c \in Callbacks : (\E d \in Drainers : current[d] = c) =>
          \E d \in Drainers : dpc[d] = "invoke" /\ current[d] = c /\ c \in E(started)
  BY <1>0 DEF AnswerInv
<1> HIDE DEF E
<1>3. ASSUME NEW c \in Callbacks, NEW l, NEW m, Allowed(l, m),
             Serial!StatusOf(c) = l, Serial!StatusOf(c)' = m,
             \A b \in Callbacks : b # c => Serial!StatusOf(b)' = Serial!StatusOf(b)
      PROVE  SerialMoves \/ SerialStays
  BY <1>3 DEF SerialMoves
<1>5. ASSUME UNCHANGED <<current, result, started>>
      PROVE  SerialMoves \/ SerialStays
  BY <1>5 DEF SerialStays, Serial!StatusOf
<1>6. ASSUME NEW p \in Posters, Serial!Post(p)
      PROVE  SerialMoves \/ SerialStays
  <2>1. ASSUME NEW c \in Callbacks, Serial!PostBehind(p, c)
        PROVE  SerialMoves \/ SerialStays
    <3>1. c \notin E(order) /\ result[c] = "none"
      BY <1>0, <2>1 DEF AnswerInv, E, Serial!PostBehind, Serial!Fresh
    <3>2. c \notin E(started)
      BY <3>1 DEF AnswerInv, Held, E
    <3>3. /\ current' = current /\ started' = started
          /\ result' = [result EXCEPT ![c] = "true"]
      BY <2>1 DEF Serial!PostBehind, Serial!Accepted
    <3>4. Serial!StatusOf(c) = "new" /\ Serial!StatusOf(c)' = "taken"
      BY <1>0, <1>2, <3>1, <3>2, <3>3 DEF Serial!StatusOf, E
    <3>5. \A b \in Callbacks : b # c => Serial!StatusOf(b)' = Serial!StatusOf(b)
      BY <1>0, <3>3 DEF Serial!StatusOf
    <3> QED
      BY <1>3, <3>4, <3>5 DEF Allowed
  <2>2. ASSUME NEW c \in Callbacks, Serial!PostFirst(p, c)
        PROVE  SerialMoves \/ SerialStays
    BY <1>5, <2>2 DEF Serial!PostFirst
  <2>3. ASSUME NEW x \in {"true", "false"}, ppc[p] # "idle",
               current' = current, started' = started,
               result' = [result EXCEPT ![posting[p]] = x]
        PROVE  SerialMoves \/ SerialStays
    <3>1. PICK c \in Callbacks : c = posting[p] /\ c \notin E(started) /\ result[c] = "none"
      BY <1>1, <2>3 DEF AnswerInv, E
    <3>2. result' = [result EXCEPT ![c] = x]
      BY <2>3, <3>1
    <3>3. Serial!StatusOf(c) = "new"
      BY <1>0, <1>2, <3>1 DEF Serial!StatusOf, E
    <3>4. Serial!StatusOf(c)' = IF x = "true" THEN "taken" ELSE "refused"
      BY <1>0, <1>2, <2>3, <3>1, <3>2 DEF Serial!StatusOf, E
    <3>5. \A b \in Callbacks : b # c => Serial!StatusOf(b)' = Serial!StatusOf(b)
      BY <1>0, <2>3, <3>2 DEF Serial!StatusOf
    <3> QED
      BY <1>3, <2>3, <3>1, <3>3, <3>4, <3>5 DEF Allowed
  <2>4. CASE Serial!HandOff(p)
    BY <2>3, <2>4 DEF Serial!HandOff, Serial!Accepted
  <2>5. CASE Serial!HandOffRefused(p)
    BY <1>5, <2>5 DEF Serial!HandOffRefused
  <2>6. CASE Serial!DropQueue(p)
    BY <2>3, <2>6 DEF Serial!DropQueue, Serial!Refused
  <2> QED
    BY <1>6, <2>1, <2>2, <2>4, <2>5, <2>6 DEF Serial!Post
<1>7. ASSUME NEW d \in Drainers, Serial!Drain(d)
      PROVE  SerialMoves \/ SerialStays
  <2>1. CASE Serial!StartDrain(d) \/ Serial!DrainEmpty(d)
    BY <1>5, <2>1 DEF Serial!StartDrain, Serial!DrainEmpty
  <2>2. CASE Serial!DrainOne(d)
    <3>0. PICK c \in Callbacks : c = Head(queue)
      BY <1>0, <2>2, HeadTailProperties DEF Serial!DrainOne
    <3>1. /\ c \in Callbacks
          /\ E(started') = E(started) \cup {c} /\ c \in E(queue)
      BY <1>0, <2>2, <3>0, SerialElements DEF E, Serial!DrainOne
    <3>2. \A q \in Posters : ppc[q] = "idle"
      BY <1>0, <2>2 DEF ResponsibleInv, Serial!DrainOne, Serial!TypeOK
    <3>3. result[c] = "true"
      BY <3>1, <3>2 DEF AnswerInv, E
    <3>4. c \notin E(started)
      <4> SUFFICES ASSUME NEW i \in 1 .. Len(started), started[i] = c
                   PROVE  FALSE
        BY DEF E, Serial!Elements
      <4>1. queue # <<>> /\ Len(queue) \in Nat /\ Len(started) \in Nat /\ Len(queue) > 0
        BY <1>0, <2>2, EmptySeq DEF Serial!DrainOne
      <4>2. /\ i \in 1 .. Len(Line) /\ Len(started) + 1 \in 1 .. Len(Line)
            /\ i < Len(started) + 1
            /\ Line[i] = c /\ Line[Len(started) + 1] = c
        BY <1>0, <3>0, <4>1, ConcatProperties DEF Line
      <4>3. PICK m \in 1 .. Len(order) : Line[i] = order[m]
        BY <4>2 DEF OrderInv
      <4>4. m < m
        BY <4>2, <4>3 DEF OrderInv
      <4>5. m \in Nat
        OBVIOUS
      <4> QED
        BY <4>4, <4>5
    <3>5. current' = [current EXCEPT ![d] = c] /\ result' = result
      BY <2>2, <3>0 DEF Serial!DrainOne
    <3>6. current[d] = NoCallback
      BY <1>0, <2>2 DEF Serial!DrainOne
    <3>7. Serial!StatusOf(c) = "taken" /\ Serial!StatusOf(c)' = "running"
      BY <1>0, <1>2, <3>1, <3>3, <3>4, <3>5 DEF Serial!StatusOf, E
    <3>8. \A b \in Callbacks : b # c => Serial!StatusOf(b)' = Serial!StatusOf(b)
      BY <1>0, <3>1, <3>5, <3>6 DEF Serial!StatusOf, E
    <3> QED
      BY <1>3, <3>1, <3>7, <3>8 DEF Allowed
  <2>3. CASE Serial!Invoked(d)
    <3> DEFINE c == current[d]
    <3>1. c \in Callbacks /\ c \in E(started) /\ result[c] = "true"
      BY <1>0, <1>1, <2>3 DEF AnswerInv, E, Serial!Invoked
    <3>2. \A e \in Drainers : dpc[e] # "idle" <=> e = d
      BY <1>0, <2>3 DEF ResponsibleInv, Serial!Invoked, Serial!TypeOK
    <3>3. \A e \in Drainers : e # d => current[e] = NoCallback
      BY <1>0, <3>2
    <3>4. /\ current' = [current EXCEPT ![d] = NoCallback]
          /\ result' = result /\ started' = started
      BY <2>3 DEF Serial!Invoked, Serial!Release
    <3>5. \A e \in Drainers : current'[e] = NoCallback
      BY <1>0, <3>3, <3>4
    <3>6. Serial!StatusOf(c) = "running"
      BY <3>1 DEF Serial!StatusOf
    <3>7. \A b \in Callbacks : b # c => Serial!StatusOf(b)' = Serial!StatusOf(b)
      BY <1>0, <3>3, <3>4, <3>5 DEF Serial!StatusOf
    <3>8. \A b \in Callbacks : b \in E(started) /\ result[b] = "true" =>
              Serial!StatusOf(b)' = "done"
      BY <1>0, <3>4, <3>5 DEF Serial!StatusOf, E
    <3>9. PICK b \in Callbacks : b = c
      BY <3>1
    <3>10. Serial!StatusOf(b) = "running" /\ Serial!StatusOf(b)' = "done"
      BY <3>1, <3>6, <3>8, <3>9
    <3>11. \A a \in Callbacks : a # b => Serial!StatusOf(a)' = Serial!StatusOf(a)
      BY <3>7, <3>9
    <3> QED
      BY <1>3, <3>10, <3>11 DEF Allowed
  <2> QED
    BY <1>7, <2>1, <2>2, <2>3 DEF Serial!Drain
<1>8. CASE Serial!CloseBase
  BY <1>5, <1>8 DEF Serial!CloseBase
<1> QED
  BY <1>6, <1>7, <1>8 DEF Serial!Next

(***************************************************************************)
(* The pool.                                                               *)
(***************************************************************************)

LEMMA PoolFinite == IsFiniteSet(Workers) /\ IsFiniteSet(Callbacks)
BY SameCardinality, ExecutorsAssumption DEF Pool!PoolConstants

\* Counting in a finite set.
LEMMA Counting ==
    ASSUME NEW S, IsFiniteSet(S)
    PROVE  /\ Cardinality(S) \in Nat
           /\ \A T \in SUBSET S : Cardinality(T) \in Nat /\ Cardinality(T) <= Cardinality(S)
           /\ \A T \in SUBSET S, x \in S :
                 x \notin T => Cardinality(T \cup {x}) = Cardinality(T) + 1
           /\ \A T, U \in SUBSET S : T \subseteq U => Cardinality(T) <= Cardinality(U)
<1>1. \A T \in SUBSET S : IsFiniteSet(T)
  BY FS_Subset
<1> QED
  BY <1>1, FS_CardinalityType, FS_Subset, FS_AddElement

Alive == {w \in Workers : wpc[w] # "unborn"}
Awake == {w \in Workers \ asleep : wpc[w] = "loop"}
Took  == {c \in Callbacks : result[c] = "true"}

\* The threads: who is alive is still to be joined or, after a shutdown(),
\* has been taken over by it, and a worker leaves only an empty, stopped pool.
ThreadsInv ==
    /\ ~started => Alive = {}
    /\ \A w \in asleep : wpc[w] = "loop"
    /\ \A w \in Workers : wpc[w] = "exited" => queue = <<>> /\ stopping
    /\ workers = IF stopping THEN {} ELSE Alive
    /\ \A u \in Pool!Callers :
          /\ joining[u] # {} => stopping /\ joining[u] = Alive
          /\ cpc[u] \in {"waking", "joining", "joined"} => stopping
          /\ cpc[u] = "joined" => \A w \in joining[u] \ {u} : wpc[w] = "exited"

\* No wake-up is lost, and as many notifies are under way as were promised.
PoolWakeInv ==
    /\ notifies <= Cardinality(Took)
    /\ asleep # {} =>
          /\ Len(queue) <= notifies + Cardinality(Awake)
          /\ stopping => \E u \in Pool!Callers : cpc[u] = "waking"

LEMMA PoolType ==
    ASSUME Pool!TypeOK, ThreadsInv, PoolWakeInv, Pool!Next
    PROVE  Pool!TypeOK'
<1>0. /\ queue \in Seq(Callbacks)
      /\ started \in BOOLEAN /\ stopping \in BOOLEAN
      /\ workers \subseteq Workers /\ active \subseteq Workers /\ asleep \subseteq Workers
      /\ wpc \in [Workers -> {"unborn", "loop", "run", "report", "exited"}]
      /\ current \in [Workers -> Callbacks \cup {NoCallback}]
      /\ \A w \in Workers : current[w] = NoCallback <=> wpc[w] # "run"
      /\ notifies \in Nat
      /\ cpc \in [Pool!Callers -> {"out", "waking", "joining", "waiting", "joined", "idle"}]
      /\ joining \in [Pool!Callers -> SUBSET Workers]
      /\ idlers \subseteq Clients
      /\ result \in [Callbacks -> {"none", "true", "false", "threw"}]
      /\ NoCallback \notin Callbacks
      /\ Cardinality(Callbacks) \in Nat
      /\ notifies \in 0 .. Cardinality(Callbacks)
      /\ Pool!Cardinality(Callbacks) = Cardinality(Callbacks)
  BY ExecutorsAssumption, SameCardinality, PoolFinite, FS_CardinalityType
     DEF Pool!TypeOK, Pool!PoolConstants
<1>1. ASSUME NEW c \in Callbacks, Pool!PostTaken(c)
      PROVE  Pool!TypeOK'
  <2>1. notifies' \in 0 .. Cardinality(Callbacks)
    <3>1. Took \subseteq Callbacks /\ c \in Callbacks \ Took /\ Took \cup {c} \subseteq Callbacks
      BY <1>1 DEF Pool!PostTaken, Took
    <3>2. Cardinality(Took \cup {c}) = Cardinality(Took) + 1
      BY <3>1, PoolFinite, Counting
    <3>3. /\ Cardinality(Took) \in Nat
          /\ Cardinality(Took \cup {c}) <= Cardinality(Callbacks)
      BY <3>1, PoolFinite, Counting
    <3> QED
      BY <1>0, <1>1, <3>2, <3>3 DEF Pool!PostTaken, PoolWakeInv
  <2>2. \A w \in Workers : current'[w] = NoCallback <=> wpc'[w] # "run"
    BY <1>0, <1>1 DEF Pool!PostTaken, Pool!StartWorkers, Pool!ToStart, ThreadsInv, Alive
  <2>3. /\ queue' \in Seq(Callbacks) /\ workers' \subseteq Workers
        /\ wpc' \in [Workers -> {"unborn", "loop", "run", "report", "exited"}]
    BY <1>0, <1>1 DEF Pool!PostTaken, Pool!StartWorkers, Pool!ToStart
  <2> QED
    BY <1>0, <1>1, <2>1, <2>2, <2>3 DEF Pool!TypeOK, Pool!PostTaken, Pool!StartWorkers
<1>2. ASSUME NEW c \in Callbacks, Pool!PostRefused(c)
      PROVE  Pool!TypeOK'
  BY <1>0, <1>2 DEF Pool!TypeOK, Pool!PostRefused
<1>3. ASSUME NEW c \in Callbacks, Pool!PostThrows(c)
      PROVE  Pool!TypeOK'
  <2>1. \A w \in Workers : current'[w] = NoCallback <=> wpc'[w] # "run"
    BY <1>0, <1>3 DEF Pool!PostThrows, Pool!StartWorkers, ThreadsInv, Alive
  <2>2. /\ workers' \subseteq Workers
        /\ wpc' \in [Workers -> {"unborn", "loop", "run", "report", "exited"}]
    BY <1>0, <1>3 DEF Pool!PostThrows, Pool!StartWorkers
  <2> QED
    BY <1>0, <1>3, <2>1, <2>2 DEF Pool!TypeOK, Pool!PostThrows, Pool!StartWorkers
<1>4. CASE Pool!NotifyOne
  <2>1. asleep' \subseteq Workers
    BY <1>0, <1>4 DEF Pool!NotifyOne, Pool!WakeOne
  <2>2. notifies' \in 0 .. Cardinality(Callbacks)
    BY <1>0, <1>4 DEF Pool!NotifyOne
  <2> QED
    BY <1>0, <1>4, <2>1, <2>2 DEF Pool!TypeOK, Pool!NotifyOne
<1>5. ASSUME NEW w \in Workers, Pool!Work(w)
      PROVE  Pool!TypeOK'
  <2>1. CASE Pool!TakeCallback(w)
    <3>1. Head(queue) \in Callbacks /\ Tail(queue) \in Seq(Callbacks)
      BY <1>0, <2>1, HeadTailProperties DEF Pool!TakeCallback
    <3> QED
      BY <1>0, <2>1, <3>1 DEF Pool!TypeOK, Pool!TakeCallback, Pool!PopFront
  <2>2. CASE Pool!Sleep(w)
    BY <1>0, <2>2 DEF Pool!TypeOK, Pool!Sleep
  <2>3. CASE Pool!Exit(w)
    BY <1>0, <2>3 DEF Pool!TypeOK, Pool!Exit
  <2>4. CASE Pool!Returned(w)
    BY <1>0, <2>4 DEF Pool!TypeOK, Pool!Returned, Pool!Release
  <2>5. CASE Pool!Report(w)
    BY <1>0, <2>5 DEF Pool!TypeOK, Pool!Report, Pool!WakeIdlers
  <2> QED
    BY <1>5, <2>1, <2>2, <2>3, <2>4, <2>5 DEF Pool!Work
<1>6. ASSUME NEW u \in Pool!Callers, Pool!Shutdown(u) \/ Pool!WakeAll(u) \/ Pool!Joined(u)
      PROVE  Pool!TypeOK'
  BY <1>0, <1>6 DEF Pool!TypeOK, Pool!Shutdown, Pool!WakeAll, Pool!Joined
<1>7. ASSUME NEW u \in Clients, Pool!WaitIdle(u) \/ Pool!IdleSleep(u) \/ Pool!IdleReturn(u)
      PROVE  Pool!TypeOK'
  BY <1>0, <1>7 DEF Pool!TypeOK, Pool!WaitIdle, Pool!IdleSleep, Pool!IdleReturn, Pool!Callers
<1> QED
  BY <1>1, <1>2, <1>3, <1>4, <1>5, <1>6, <1>7 DEF Pool!Next

LEMMA PoolThreads ==
    ASSUME Pool!TypeOK, ThreadsInv, Pool!Next
    PROVE  ThreadsInv'
<1>0. /\ queue \in Seq(Callbacks)
      /\ started \in BOOLEAN /\ stopping \in BOOLEAN
      /\ workers \subseteq Workers /\ asleep \subseteq Workers
      /\ wpc \in [Workers -> {"unborn", "loop", "run", "report", "exited"}]
      /\ cpc \in [Pool!Callers -> {"out", "waking", "joining", "waiting", "joined", "idle"}]
      /\ joining \in [Pool!Callers -> SUBSET Workers]
  BY DEF Pool!TypeOK
<1> USE DEF ThreadsInv, Alive
<1>1. ASSUME NEW c \in Callbacks, Pool!PostTaken(c)
      PROVE  ThreadsInv'
  BY <1>0, <1>1 DEF Pool!PostTaken, Pool!StartWorkers, Pool!ToStart
<1>2. ASSUME NEW c \in Callbacks, Pool!PostRefused(c)
      PROVE  ThreadsInv'
  BY <1>0, <1>2 DEF Pool!PostRefused
<1>3. ASSUME NEW c \in Callbacks, Pool!PostThrows(c)
      PROVE  ThreadsInv'
  BY <1>0, <1>3 DEF Pool!PostThrows, Pool!StartWorkers
<1>4. CASE Pool!NotifyOne
  BY <1>0, <1>4 DEF Pool!NotifyOne, Pool!WakeOne
<1>5. ASSUME NEW w \in Workers, Pool!Work(w)
      PROVE  ThreadsInv'
  <2>0. CASE UNCHANGED <<started, stopping, workers, cpc, joining>> /\ Alive' = Alive
             /\ (\A v \in Workers : wpc[v] = "exited" => wpc'[v] = "exited")
             /\ (\A v \in Workers : wpc'[v] = "exited" => queue' = <<>> /\ stopping)
             /\ (\A v \in asleep' : wpc'[v] = "loop")
    <3> HIDE DEF Alive
    <3> QED BY <1>0, <2>0 DEF Pool!Callers
  <2>1. CASE Pool!Sleep(w)
    BY <1>0, <2>1 DEF Pool!Sleep
  <2>2. CASE Pool!TakeCallback(w)
    BY <1>0, <2>0, <2>2 DEF Pool!TakeCallback
  <2>3. CASE Pool!Exit(w)
    BY <1>0, <2>0, <2>3 DEF Pool!Exit, Pool!MayLeave
  <2>4. CASE Pool!Returned(w)
    BY <1>0, <2>0, <2>4 DEF Pool!Returned
  <2>5. CASE Pool!Report(w)
    BY <1>0, <2>0, <2>5 DEF Pool!Report
  <2> QED
    BY <1>5, <2>1, <2>2, <2>3, <2>4, <2>5 DEF Pool!Work
<1>6. ASSUME NEW u \in Pool!Callers, Pool!Shutdown(u) \/ Pool!WakeAll(u) \/ Pool!Joined(u)
      PROVE  ThreadsInv'
  <2>1. CASE Pool!Shutdown(u)
    BY <1>0, <2>1 DEF Pool!Shutdown, Pool!MayCall
  <2>2. CASE Pool!WakeAll(u)
    BY <1>0, <2>2 DEF Pool!WakeAll
  <2>3. CASE Pool!Joined(u)
    BY <1>0, <2>3 DEF Pool!Joined, Pool!ToJoin
  <2> QED
    BY <1>6, <2>1, <2>2, <2>3
<1>7. ASSUME NEW u \in Clients, Pool!WaitIdle(u) \/ Pool!IdleSleep(u) \/ Pool!IdleReturn(u)
      PROVE  ThreadsInv'
  BY <1>0, <1>7 DEF Pool!WaitIdle, Pool!IdleSleep, Pool!IdleReturn, Pool!Callers
<1> QED
  BY <1>1, <1>2, <1>3, <1>4, <1>5, <1>6, <1>7 DEF Pool!Next

\* Sleepers gone and threads come to look can only help.
LEMMA PoolWakeKeep ==
    ASSUME Pool!TypeOK, PoolWakeInv, UNCHANGED <<queue, notifies, result>>,
           Awake \subseteq Awake', asleep' \subseteq asleep, stopping' = stopping,
           \A u \in Pool!Callers : cpc[u] = "waking" => cpc'[u] = "waking",
           Awake' \subseteq Workers
    PROVE  PoolWakeInv'
<1>1. Cardinality(Awake) <= Cardinality(Awake')
  BY PoolFinite, Counting
<1>2. Cardinality(Awake) \in Nat /\ Cardinality(Awake') \in Nat /\ Len(queue) \in Nat /\ notifies \in Nat
  BY PoolFinite, Counting DEF Pool!TypeOK
<1>3. Took' = Took
  BY DEF Took
<1> QED
  BY <1>1, <1>2, <1>3 DEF PoolWakeInv

LEMMA PoolWake ==
    ASSUME Pool!TypeOK, Pool!TypeOK', ThreadsInv, PoolWakeInv, Pool!Next
    PROVE  PoolWakeInv'
<1>0. /\ queue \in Seq(Callbacks) /\ Len(queue) \in Nat
      /\ asleep \subseteq Workers
      /\ notifies \in Nat
      /\ wpc \in [Workers -> {"unborn", "loop", "run", "report", "exited"}]
      /\ cpc \in [Pool!Callers -> {"out", "waking", "joining", "waiting", "joined", "idle"}]
      /\ result \in [Callbacks -> {"none", "true", "false", "threw"}]
  BY DEF Pool!TypeOK
<1>00. /\ Awake \subseteq Workers /\ Awake' \subseteq Workers
       /\ Took \subseteq Callbacks /\ Took' \subseteq Callbacks
       /\ Cardinality(Awake) \in Nat /\ Cardinality(Awake') \in Nat
       /\ Cardinality(Took) \in Nat /\ Cardinality(Took') \in Nat
       /\ (Awake \subseteq Awake' => Cardinality(Awake) <= Cardinality(Awake'))
  <2>1. /\ Awake \subseteq Workers /\ Awake' \subseteq Workers
        /\ Took \subseteq Callbacks /\ Took' \subseteq Callbacks
    BY DEF Awake, Took
  <2> QED BY <2>1, PoolFinite, Counting
<1>1. ASSUME NEW c \in Callbacks, Pool!PostTaken(c)
      PROVE  PoolWakeInv'
  <2>1. Len(queue') = Len(queue) + 1 /\ notifies' = notifies + 1
    BY <1>0, <1>1, AppendProperties DEF Pool!PostTaken
  <2>2. Awake \subseteq Awake' /\ asleep' = asleep /\ stopping' = stopping /\ cpc' = cpc
    BY <1>0, <1>1 DEF Pool!PostTaken, Pool!StartWorkers, Pool!ToStart, Awake
  <2>3. Took' = Took \cup {c} /\ c \notin Took
    BY <1>0, <1>1 DEF Pool!PostTaken, Took
  <2>4. Cardinality(Took') = Cardinality(Took) + 1
    BY <1>00, <2>3, PoolFinite, Counting
  <2> QED
    BY <1>0, <1>00, <2>1, <2>2, <2>4 DEF PoolWakeInv
<1>2. ASSUME NEW c \in Callbacks, Pool!PostRefused(c)
      PROVE  PoolWakeInv'
  <2>1. Took' = Took /\ Awake' = Awake
    BY <1>0, <1>2 DEF Pool!PostRefused, Took, Awake
  <2> QED
    BY <1>2, <2>1 DEF PoolWakeInv, Pool!PostRefused
<1>3. ASSUME NEW c \in Callbacks, Pool!PostThrows(c)
      PROVE  PoolWakeInv'
  <2>1. Took' = Took
    BY <1>0, <1>3 DEF Pool!PostThrows, Took
  <2>2. asleep = {}
    BY <1>0, <1>3 DEF Pool!PostThrows, ThreadsInv, Alive
  <2> QED
    BY <1>3, <2>1, <2>2 DEF PoolWakeInv, Pool!PostThrows
<1>4. CASE Pool!NotifyOne
  <2>1. Took' = Took
    BY <1>4 DEF Pool!NotifyOne, Took
  <2>2. CASE asleep = {} /\ UNCHANGED asleep
    BY <1>0, <1>00, <1>4, <2>1, <2>2 DEF Pool!NotifyOne, PoolWakeInv
  <2>3. ASSUME NEW w \in asleep, asleep' = asleep \ {w}
        PROVE  PoolWakeInv'
    <3>1. Awake' = Awake \cup {w} /\ w \notin Awake /\ w \in Workers
      BY <1>0, <1>4, <2>3 DEF Pool!NotifyOne, Awake, ThreadsInv
    <3>2. Cardinality(Awake') = Cardinality(Awake) + 1
      BY <1>00, <3>1, PoolFinite, Counting
    <3> QED
      BY <1>0, <1>00, <1>4, <2>1, <2>3, <3>2 DEF Pool!NotifyOne, PoolWakeInv
  <2> QED
    BY <1>4, <2>2, <2>3 DEF Pool!NotifyOne, Pool!WakeOne
<1>5. ASSUME NEW w \in Workers, Pool!Work(w)
      PROVE  PoolWakeInv'
  <2>1. CASE Pool!TakeCallback(w)
    <3>1. Len(queue') = Len(queue) - 1
      BY <1>0, <2>1, HeadTailProperties DEF Pool!TakeCallback, Pool!PopFront
    <3>2. Awake = Awake' \cup {w} /\ w \notin Awake'
      BY <1>0, <2>1 DEF Pool!TakeCallback, Awake
    <3>3. Cardinality(Awake) = Cardinality(Awake') + 1
      BY <1>00, <3>2, PoolFinite, Counting
    <3>4. Took' = Took
      BY <2>1 DEF Pool!TakeCallback, Took
    <3> QED
      BY <1>0, <1>00, <2>1, <3>1, <3>3, <3>4 DEF Pool!TakeCallback, PoolWakeInv
  <2>2. CASE Pool!Sleep(w)
    <3>1. Took' = Took
      BY <2>2 DEF Pool!Sleep, Took
    <3> QED
      BY <1>0, <1>00, <2>2, <3>1 DEF Pool!Sleep, PoolWakeInv
  <2>3. CASE Pool!Exit(w)
    <3>1. Took' = Took
      BY <2>3 DEF Pool!Exit, Took
    <3> QED
      BY <1>0, <1>00, <2>3, <3>1 DEF Pool!Exit, Pool!MayLeave, PoolWakeInv
  <2>4. CASE Pool!Returned(w)
    <3>1. Awake \subseteq Awake'
      BY <1>0, <2>4 DEF Pool!Returned, Awake
    <3> QED
      BY <1>00, <2>4, <3>1, PoolWakeKeep DEF Pool!Returned
  <2>5. CASE Pool!Report(w)
    <3>1. Awake \subseteq Awake'
      BY <1>0, <2>5 DEF Pool!Report, Awake
    <3> QED
      BY <1>00, <2>5, <3>1, PoolWakeKeep DEF Pool!Report
  <2> QED
    BY <1>5, <2>1, <2>2, <2>3, <2>4, <2>5 DEF Pool!Work
<1>6. ASSUME NEW u \in Pool!Callers, Pool!Shutdown(u) \/ Pool!WakeAll(u) \/ Pool!Joined(u)
      PROVE  PoolWakeInv'
  <2>1. CASE Pool!Shutdown(u)
    <3>1. Took' = Took /\ Awake' = Awake
      BY <2>1 DEF Pool!Shutdown, Took, Awake
    <3>2. cpc'[u] = "waking"
      BY <1>0, <2>1 DEF Pool!Shutdown
    <3> QED
      BY <1>0, <2>1, <3>1, <3>2 DEF Pool!Shutdown, PoolWakeInv
  <2>2. CASE Pool!WakeAll(u)
    <3>1. Took' = Took
      BY <2>2 DEF Pool!WakeAll, Took
    <3> QED
      BY <2>2, <3>1 DEF Pool!WakeAll, PoolWakeInv
  <2>3. CASE Pool!Joined(u)
    <3>1. Awake' = Awake
      BY <2>3 DEF Pool!Joined, Awake
    <3>2. \A v \in Pool!Callers : cpc[v] = "waking" => cpc'[v] = "waking"
      BY <1>0, <2>3 DEF Pool!Joined
    <3> QED
      BY <1>00, <2>3, <3>1, <3>2, PoolWakeKeep DEF Pool!Joined
  <2> QED
    BY <1>6, <2>1, <2>2, <2>3
<1>7. ASSUME NEW u \in Clients, Pool!WaitIdle(u) \/ Pool!IdleSleep(u) \/ Pool!IdleReturn(u)
      PROVE  PoolWakeInv'
  <2>1. Awake' = Awake
    BY <1>7 DEF Pool!WaitIdle, Pool!IdleSleep, Pool!IdleReturn, Awake
  <2>2. \A v \in Pool!Callers : cpc[v] = "waking" => cpc'[v] = "waking"
    BY <1>0, <1>7 DEF Pool!WaitIdle, Pool!IdleSleep, Pool!IdleReturn
  <2> QED
    BY <1>00, <1>7, <2>1, <2>2, PoolWakeKeep
       DEF Pool!WaitIdle, Pool!IdleSleep, Pool!IdleReturn
<1> QED
  BY <1>1, <1>2, <1>3, <1>4, <1>5, <1>6, <1>7 DEF Pool!Next

LEMMA PoolPromises ==
    ASSUME Pool!TypeOK, ThreadsInv, PoolWakeInv
    PROVE  Pool!Inv /\ Pool!ShutdownDrains
<1>1. Pool!NoLostWakeup
  BY SameCardinality DEF PoolWakeInv, Awake, Pool!NoLostWakeup
<1>2. Pool!ShutdownDrains
  BY DEF Pool!TypeOK, ThreadsInv, Alive, Pool!ShutdownDrains, Pool!Callers
<1> QED
  BY <1>1, <1>2 DEF Pool!Inv

\* A callback is at one place: queued once, or run by one worker, or over.
OnceInv(Threads) ==
    /\ \A i, j \in 1 .. Len(queue) : queue[i] = queue[j] => i = j
    /\ \A i \in 1 .. Len(queue) : result[queue[i]] = "true"
    /\ \A t \in Threads : current[t] # NoCallback =>
          /\ result[current[t]] = "true"
          /\ \A i \in 1 .. Len(queue) : queue[i] # current[t]
          /\ \A s \in Threads : current[s] = current[t] => s = t

\* The three ways a step of a pool or a loop touches what OnceInv is about.
LEMMA OnceAnswer ==
    ASSUME NEW Threads, NEW C, NEW c \in C, NEW x \in {"true", "false", "threw"},
           NoCallback \notin C,
           queue \in Seq(C), current \in [Threads -> C \cup {NoCallback}],
           result \in [C -> {"none", "true", "false", "threw"}],
           OnceInv(Threads),
           result[c] = "none", result' = [result EXCEPT ![c] = x],
           current' = current,
           queue' = IF x = "true" THEN Append(queue, c) ELSE queue
    PROVE  OnceInv(Threads)'
<1>1. Len(queue) \in Nat /\ \A i \in 1 .. Len(queue) : queue[i] \in C /\ queue[i] # c
  BY DEF OnceInv
<1>2. \A t \in Threads : current[t] # c
  BY DEF OnceInv
<1>3. CASE x = "true"
  <2>1. /\ Len(queue') = Len(queue) + 1 /\ queue'[Len(queue) + 1] = c
        /\ \A i \in 1 .. Len(queue) : queue'[i] = queue[i]
    BY <1>3, AppendProperties
  <2>2. \A i \in 1 .. Len(queue') : i \in 1 .. Len(queue) \/ i = Len(queue) + 1
    BY <1>1, <2>1
  <2>3. \A i, j \in 1 .. Len(queue') : queue'[i] = queue'[j] => i = j
    BY <1>1, <2>1, <2>2 DEF OnceInv
  <2>4. \A i \in 1 .. Len(queue') : result'[queue'[i]] = "true"
    BY <1>1, <1>3, <2>1, <2>2 DEF OnceInv
  <2>5. \A t \in Threads : current'[t] # NoCallback =>
          /\ result'[current'[t]] = "true"
          /\ \A i \in 1 .. Len(queue') : queue'[i] # current'[t]
          /\ \A s \in Threads : current'[s] = current'[t] => s = t
    BY <1>1, <1>2, <1>3, <2>1, <2>2 DEF OnceInv
  <2> QED
    BY <2>3, <2>4, <2>5 DEF OnceInv
<1>4. CASE x # "true"
  BY <1>1, <1>2, <1>4 DEF OnceInv
<1> QED
  BY <1>3, <1>4

LEMMA OnceTake ==
    ASSUME NEW Threads, NEW C, NEW t \in Threads,
           NoCallback \notin C,
           queue \in Seq(C), current \in [Threads -> C \cup {NoCallback}],
           OnceInv(Threads),
           queue # <<>>, queue' = Tail(queue), current[t] = NoCallback,
           current' = [current EXCEPT ![t] = Head(queue)], result' = result
    PROVE  OnceInv(Threads)'
<1>1. /\ Len(queue) \in Nat /\ Len(queue') = Len(queue) - 1
      /\ \A i \in 1 .. Len(queue') : queue'[i] = queue[i + 1]
      /\ 1 \in 1 .. Len(queue) /\ Head(queue) = queue[1]
  BY HeadTailProperties, EmptySeq
<1>2. \A i \in 1 .. Len(queue') : i + 1 \in 1 .. Len(queue) /\ i + 1 # 1 /\ i \in Nat
  BY <1>1
<1>3. \A i, j \in 1 .. Len(queue') : queue'[i] = queue'[j] => i = j
  <2> SUFFICES ASSUME NEW i \in 1 .. Len(queue'), NEW j \in 1 .. Len(queue'),
                      queue'[i] = queue'[j]
               PROVE  i = j
    OBVIOUS
  <2>1. queue[i + 1] = queue[j + 1]
    BY <1>1
  <2>2. i + 1 = j + 1
    BY <1>2, <2>1 DEF OnceInv
  <2> QED
    BY <1>2, <2>2
<1>4. \A i \in 1 .. Len(queue') : result'[queue'[i]] = "true"
  BY <1>1, <1>2 DEF OnceInv
<1>5. \A i \in 1 .. Len(queue') : queue'[i] # Head(queue)
  BY <1>1, <1>2 DEF OnceInv
<1>6. \A s \in Threads : current[s] # Head(queue)
  <2>1. Head(queue) # NoCallback
    BY HeadTailProperties
  <2> QED
    BY <1>1, <2>1 DEF OnceInv
<1>7. \A s \in Threads : current'[s] # NoCallback =>
          /\ result'[current'[s]] = "true"
          /\ \A i \in 1 .. Len(queue') : queue'[i] # current'[s]
          /\ \A r \in Threads : current'[r] = current'[s] => r = s
  <2> SUFFICES ASSUME NEW s \in Threads, current'[s] # NoCallback
               PROVE  /\ result'[current'[s]] = "true"
                      /\ \A i \in 1 .. Len(queue') : queue'[i] # current'[s]
                      /\ \A r \in Threads : current'[r] = current'[s] => r = s
    OBVIOUS
  <2>1. CASE s = t
    BY <1>1, <1>5, <1>6, <2>1 DEF OnceInv
  <2>2. CASE s # t
    <3>1. current'[s] = current[s] /\ current[s] # NoCallback
      BY <2>2
    <3>2. \A i \in 1 .. Len(queue') : queue'[i] # current[s]
      BY <1>1, <1>2, <3>1 DEF OnceInv
    <3> QED
      BY <1>6, <2>2, <3>1, <3>2 DEF OnceInv
  <2> QED
    BY <2>1, <2>2
<1> QED
  BY <1>3, <1>4, <1>7 DEF OnceInv

LEMMA OnceRelease ==
    ASSUME NEW Threads, NEW C, NEW t \in Threads,
           queue \in Seq(C), current \in [Threads -> C \cup {NoCallback}],
           OnceInv(Threads),
           queue' = queue, result' = result,
           current' = [current EXCEPT ![t] = NoCallback]
    PROVE  OnceInv(Threads)'
BY DEF OnceInv

LEMMA PoolOnce ==
    ASSUME Pool!TypeOK, OnceInv(Workers), Pool!Next
    PROVE  OnceInv(Workers)'
<1>0. /\ queue \in Seq(Callbacks)
      /\ current \in [Workers -> Callbacks \cup {NoCallback}]
      /\ \A w \in Workers : current[w] = NoCallback <=> wpc[w] # "run"
      /\ result \in [Callbacks -> {"none", "true", "false", "threw"}]
      /\ NoCallback \notin Callbacks
  BY ExecutorsAssumption DEF Pool!TypeOK, Pool!PoolConstants
<1>1. ASSUME UNCHANGED <<queue, current, result>>
      PROVE  OnceInv(Workers)'
  BY <1>1 DEF OnceInv
<1>2. ASSUME NEW c \in Callbacks,
             Pool!PostTaken(c) \/ Pool!PostRefused(c) \/ Pool!PostThrows(c)
      PROVE  OnceInv(Workers)'
  BY <1>0, <1>2, OnceAnswer DEF Pool!PostTaken, Pool!PostRefused, Pool!PostThrows
<1>3. CASE Pool!NotifyOne
  BY <1>1, <1>3 DEF Pool!NotifyOne
<1>4. ASSUME NEW w \in Workers, Pool!Work(w)
      PROVE  OnceInv(Workers)'
  <2>1. CASE Pool!TakeCallback(w)
    BY <1>0, <2>1, OnceTake DEF Pool!TakeCallback, Pool!PopFront
  <2>2. CASE Pool!Returned(w)
    BY <1>0, <2>2, OnceRelease DEF Pool!Returned, Pool!Release
  <2>3. CASE Pool!Sleep(w) \/ Pool!Exit(w) \/ Pool!Report(w)
    BY <1>1, <2>3 DEF Pool!Sleep, Pool!Exit, Pool!Report
  <2> QED
    BY <1>4, <2>1, <2>2, <2>3 DEF Pool!Work
<1>5. ASSUME NEW u \in Pool!Callers, Pool!Shutdown(u) \/ Pool!WakeAll(u) \/ Pool!Joined(u)
      PROVE  OnceInv(Workers)'
  BY <1>1, <1>5 DEF Pool!Shutdown, Pool!WakeAll, Pool!Joined
<1>6. ASSUME NEW u \in Clients, Pool!WaitIdle(u) \/ Pool!IdleSleep(u) \/ Pool!IdleReturn(u)
      PROVE  OnceInv(Workers)'
  BY <1>1, <1>6 DEF Pool!WaitIdle, Pool!IdleSleep, Pool!IdleReturn
<1> QED
  BY <1>2, <1>3, <1>4, <1>5, <1>6 DEF Pool!Next

\* What a client of a pool or a loop sees of a callback, and one move of it.
Queued == {queue[i] : i \in 1 .. Len(queue)}

SeenOf(Threads, c) ==
    IF \E t \in Threads : current[t] = c THEN "running"
    ELSE IF result[c] \in {"false", "threw"} THEN "refused"
    ELSE IF result[c] = "none" THEN "new"
    ELSE IF c \in Queued THEN "taken" ELSE "done"

Moves(Threads, C) ==
    \E c \in C :
        /\ Allowed(SeenOf(Threads, c), SeenOf(Threads, c)')
        /\ \A b \in C : b # c => SeenOf(Threads, b)' = SeenOf(Threads, b)

LEMMA SeenAnswer ==
    ASSUME NEW Threads, NEW C, NEW c \in C, NEW x \in {"true", "false", "threw"},
           NoCallback \notin C,
           queue \in Seq(C), current \in [Threads -> C \cup {NoCallback}],
           result \in [C -> {"none", "true", "false", "threw"}],
           OnceInv(Threads),
           result[c] = "none", result' = [result EXCEPT ![c] = x],
           current' = current,
           queue' = IF x = "true" THEN Append(queue, c) ELSE queue
    PROVE  Moves(Threads, C)
<1>1. c \notin Queued
  BY DEF OnceInv, Queued
<1>2. \A t \in Threads : current[t] # c
  BY DEF OnceInv
<1>3. Queued' = IF x = "true" THEN Queued \cup {c} ELSE Queued
  <2>1. CASE x = "true"
    <3>1. /\ Len(queue) \in Nat
          /\ Len(queue') = Len(queue) + 1 /\ queue'[Len(queue) + 1] = c
          /\ \A i \in 1 .. Len(queue) : queue'[i] = queue[i]
      BY <2>1, AppendProperties
    <3>2. 1 .. Len(queue') = (1 .. Len(queue)) \cup {Len(queue) + 1}
      BY <3>1
    <3> QED
      BY <2>1, <3>1, <3>2 DEF Queued
  <2>2. CASE x # "true"
    BY <2>2 DEF Queued
  <2> QED
    BY <2>1, <2>2
<1>4. SeenOf(Threads, c) = "new"
  BY <1>2 DEF SeenOf
<1>5. SeenOf(Threads, c)' = IF x = "true" THEN "taken" ELSE "refused"
  BY <1>2, <1>3 DEF SeenOf
<1>6. \A b \in C : b # c => SeenOf(Threads, b)' = SeenOf(Threads, b)
  BY <1>3 DEF SeenOf
<1> QED
  BY <1>4, <1>5, <1>6 DEF Moves, Allowed

LEMMA SeenTake ==
    ASSUME NEW Threads, NEW C, NEW t \in Threads,
           NoCallback \notin C,
           queue \in Seq(C), current \in [Threads -> C \cup {NoCallback}],
           OnceInv(Threads),
           queue # <<>>, queue' = Tail(queue), current[t] = NoCallback,
           current' = [current EXCEPT ![t] = Head(queue)], result' = result
    PROVE  Moves(Threads, C)
<1>1. /\ Len(queue) \in Nat /\ Len(queue') = Len(queue) - 1
      /\ \A i \in 1 .. Len(queue') : queue'[i] = queue[i + 1]
      /\ 1 \in 1 .. Len(queue) /\ Head(queue) = queue[1] /\ Head(queue) \in C
  BY HeadTailProperties, EmptySeq
<1>2. PICK c \in C : c = Head(queue)
  BY <1>1
<1>3. result[c] = "true" /\ c \in Queued /\ \A s \in Threads : current[s] # c
  BY <1>1, <1>2 DEF OnceInv, Queued
<1>4. Queued = Queued' \cup {c}
  <2>1. 1 .. Len(queue) = {1} \cup {i + 1 : i \in 1 .. Len(queue')}
    BY <1>1
  <2> QED
    BY <1>1, <1>2, <2>1 DEF Queued
<1>5. SeenOf(Threads, c) = "taken"
  BY <1>3 DEF SeenOf
<1>6. SeenOf(Threads, c)' = "running"
  BY <1>2 DEF SeenOf
<1>7. \A b \in C : b # c => SeenOf(Threads, b)' = SeenOf(Threads, b)
  BY <1>2, <1>4 DEF SeenOf
<1> QED
  BY <1>5, <1>6, <1>7 DEF Moves, Allowed

LEMMA SeenRelease ==
    ASSUME NEW Threads, NEW C, NEW t \in Threads,
           NoCallback \notin C,
           queue \in Seq(C), current \in [Threads -> C \cup {NoCallback}],
           OnceInv(Threads), current[t] # NoCallback,
           queue' = queue, result' = result,
           current' = [current EXCEPT ![t] = NoCallback]
    PROVE  Moves(Threads, C)
<1>1. PICK c \in C : c = current[t]
  OBVIOUS
<1>2. /\ result[c] = "true" /\ c \notin Queued
      /\ \A s \in Threads : current[s] = c => s = t
  BY <1>1 DEF OnceInv, Queued
<1>3. SeenOf(Threads, c) = "running"
  BY <1>1 DEF SeenOf
<1>4. Queued' = Queued
  BY DEF Queued
<1>5. SeenOf(Threads, c)' = "done"
  BY <1>2, <1>4 DEF SeenOf
<1>6. \A b \in C : b # c => SeenOf(Threads, b)' = SeenOf(Threads, b)
  BY <1>1, <1>4 DEF SeenOf
<1> QED
  BY <1>3, <1>5, <1>6 DEF Moves, Allowed

LEMMA PoolMoves ==
    ASSUME Pool!TypeOK, OnceInv(Workers), Pool!Next
    PROVE  \/ \A c \in Callbacks : SeenOf(Workers, c)' = SeenOf(Workers, c)
           \/ Moves(Workers, Callbacks)
<1>0. /\ queue \in Seq(Callbacks)
      /\ current \in [Workers -> Callbacks \cup {NoCallback}]
      /\ \A w \in Workers : current[w] = NoCallback <=> wpc[w] # "run"
      /\ result \in [Callbacks -> {"none", "true", "false", "threw"}]
      /\ NoCallback \notin Callbacks
  BY ExecutorsAssumption DEF Pool!TypeOK, Pool!PoolConstants
<1>1. ASSUME UNCHANGED <<queue, current, result>>
      PROVE  \A c \in Callbacks : SeenOf(Workers, c)' = SeenOf(Workers, c)
  BY <1>1 DEF SeenOf, Queued
<1>2. ASSUME NEW c \in Callbacks,
             Pool!PostTaken(c) \/ Pool!PostRefused(c) \/ Pool!PostThrows(c)
      PROVE  Moves(Workers, Callbacks)
  BY <1>0, <1>2, SeenAnswer DEF Pool!PostTaken, Pool!PostRefused, Pool!PostThrows
<1>3. ASSUME NEW w \in Workers, Pool!TakeCallback(w)
      PROVE  Moves(Workers, Callbacks)
  BY <1>0, <1>3, SeenTake DEF Pool!TakeCallback, Pool!PopFront
<1>4. ASSUME NEW w \in Workers, Pool!Returned(w)
      PROVE  Moves(Workers, Callbacks)
  BY <1>0, <1>4, SeenRelease DEF Pool!Returned, Pool!Release
<1>5. ASSUME \/ Pool!NotifyOne
             \/ \E w \in Workers : Pool!Sleep(w) \/ Pool!Exit(w) \/ Pool!Report(w)
             \/ \E u \in Pool!Callers : Pool!Shutdown(u) \/ Pool!WakeAll(u) \/ Pool!Joined(u)
             \/ \E u \in Clients : Pool!WaitIdle(u) \/ Pool!IdleSleep(u) \/ Pool!IdleReturn(u)
      PROVE  UNCHANGED <<queue, current, result>>
  BY <1>5 DEF Pool!NotifyOne, Pool!Sleep, Pool!Exit, Pool!Report, Pool!Shutdown,
              Pool!WakeAll, Pool!Joined, Pool!WaitIdle, Pool!IdleSleep, Pool!IdleReturn
<1> QED
  BY <1>1, <1>2, <1>3, <1>4, <1>5 DEF Pool!Next, Pool!Work

(***************************************************************************)
(* The loop.                                                               *)
(***************************************************************************)

Looking == {p \in Pumps \ asleep : phase[p] = "wait"}
Given   == {c \in LoopCallbacks : result[c] = "true"}

LoopWakeInv ==
    /\ notifies <= Cardinality(Given)
    /\ \A p \in asleep : phase[p] = "wait"
    /\ asleep # {} /\ ~waking =>
          /\ ~stopRequested
          /\ Len(queue) <= notifies + Cardinality(Looking)

LEMMA LoopFinite == IsFiniteSet(Pumps) /\ IsFiniteSet(LoopCallbacks)
BY SameCardinality, ExecutorsAssumption DEF Loop!LoopConstants

LEMMA LoopTypes ==
    ASSUME Loop!TypeOK
    PROVE  /\ queue \in Seq(LoopCallbacks) /\ Len(queue) \in Nat
           /\ stopRequested \in BOOLEAN /\ closed \in BOOLEAN /\ waking \in BOOLEAN
           /\ mode \in [Pumps -> {"run", "runFor", "poll", "runOne"}]
           /\ phase \in [Pumps -> {"out", "top", "wait", "invoke"}]
           /\ late \in [Pumps -> BOOLEAN] /\ asleep \subseteq Pumps
           /\ Cardinality(LoopCallbacks) \in Nat
           /\ Loop!Cardinality(LoopCallbacks) = Cardinality(LoopCallbacks)
           /\ notifies \in 0 .. Cardinality(LoopCallbacks) /\ notifies \in Nat
           /\ current \in [Pumps -> LoopCallbacks \cup {NoCallback}]
           /\ \A p \in Pumps : current[p] = NoCallback <=> phase[p] # "invoke"
           /\ MaxRestarts \in Nat /\ restarts \in 0 .. MaxRestarts
           /\ result \in [LoopCallbacks -> {"none", "true", "false"}]
           /\ NoCallback \notin LoopCallbacks
BY ExecutorsAssumption, SameCardinality, LoopFinite, FS_CardinalityType
   DEF Loop!TypeOK, Loop!LoopConstants, Loop!Modes

LEMMA LoopType ==
    ASSUME Loop!TypeOK, LoopWakeInv, Loop!Next
    PROVE  Loop!TypeOK'
<1> USE LoopTypes DEF Loop!Modes
<1>1. ASSUME NEW c \in LoopCallbacks, Loop!PostTaken(c)
      PROVE  Loop!TypeOK'
  <2>1. notifies' \in 0 .. Cardinality(LoopCallbacks)
    <3>1. /\ Given \subseteq LoopCallbacks /\ c \notin Given
          /\ Given \cup {c} \subseteq LoopCallbacks
      BY <1>1 DEF Loop!PostTaken, Given
    <3>2. Cardinality(Given \cup {c}) = Cardinality(Given) + 1
      BY <3>1, LoopFinite, Counting
    <3>3. /\ Cardinality(Given) \in Nat
          /\ Cardinality(Given \cup {c}) <= Cardinality(LoopCallbacks)
      BY <3>1, LoopFinite, Counting
    <3> QED
      BY <1>1, <3>2, <3>3 DEF Loop!PostTaken, LoopWakeInv
  <2> QED
    BY <1>1, <2>1 DEF Loop!TypeOK, Loop!PostTaken
<1>2. ASSUME NEW c \in LoopCallbacks, Loop!PostRefused(c)
      PROVE  Loop!TypeOK'
  BY <1>2 DEF Loop!TypeOK, Loop!PostRefused
<1>3. CASE Loop!NotifyOne
  <2>1. asleep' \subseteq Pumps /\ notifies' \in 0 .. Cardinality(LoopCallbacks)
    BY <1>3 DEF Loop!NotifyOne, Loop!WakeOne
  <2> QED
    BY <1>3, <2>1 DEF Loop!TypeOK, Loop!NotifyOne
<1>4. CASE Loop!Stop \/ Loop!WakeAll \/ Loop!Restart \/ Loop!Close
  <2>1. CASE Loop!Stop
    BY <2>1 DEF Loop!TypeOK, Loop!Stop
  <2>2. CASE Loop!WakeAll
    BY <2>2 DEF Loop!TypeOK, Loop!WakeAll, Loop!WakeEverybody
  <2>3. CASE Loop!Restart
    <3>1. restarts' \in 0 .. MaxRestarts
      BY <2>3 DEF Loop!Restart
    <3> QED
      BY <2>3, <3>1 DEF Loop!TypeOK, Loop!Restart
  <2>4. CASE Loop!Close
    BY <2>4 DEF Loop!TypeOK, Loop!Close
  <2> QED
    BY <1>4, <2>1, <2>2, <2>3, <2>4
<1>5. ASSUME NEW p \in Pumps, Loop!Enter(p)
      PROVE  Loop!TypeOK'
  BY <1>5 DEF Loop!TypeOK, Loop!Enter, Loop!Goto
<1>6. ASSUME NEW p \in Pumps, Loop!Deadline(p)
      PROVE  Loop!TypeOK'
  BY <1>6 DEF Loop!TypeOK, Loop!Deadline, Loop!EndWait
<1>7. ASSUME NEW p \in Pumps, Loop!Pump(p)
      PROVE  Loop!TypeOK'
  <2>1. CASE Loop!CheckDeadline(p)
    BY <2>1 DEF Loop!TypeOK, Loop!CheckDeadline, Loop!Goto
  <2>2. CASE Loop!Sleep(p)
    BY <2>2 DEF Loop!TypeOK, Loop!Sleep
  <2>3. CASE Loop!Leave(p)
    BY <2>3 DEF Loop!TypeOK, Loop!Leave, Loop!Goto
  <2>4. CASE Loop!TakeCallback(p)
    <3>1. Head(queue) \in LoopCallbacks /\ Tail(queue) \in Seq(LoopCallbacks)
      BY <2>4, HeadTailProperties DEF Loop!TakeCallback
    <3> QED
      BY <2>4, <3>1 DEF Loop!TypeOK, Loop!TakeCallback, Loop!PopFront, Loop!Goto
  <2>5. CASE Loop!Returned(p)
    BY <2>5 DEF Loop!TypeOK, Loop!Returned, Loop!Release, Loop!Goto
  <2> QED
    BY <1>7, <2>1, <2>2, <2>3, <2>4, <2>5 DEF Loop!Pump
<1> QED
  BY <1>1, <1>2, <1>3, <1>4, <1>5, <1>6, <1>7 DEF Loop!Next

LEMMA LoopWake ==
    ASSUME Loop!TypeOK, LoopWakeInv, Loop!Next
    PROVE  LoopWakeInv'
<1>0. /\ Looking \subseteq Pumps /\ Looking' \subseteq Pumps
      /\ Given \subseteq LoopCallbacks /\ Given' \subseteq LoopCallbacks
      /\ Cardinality(Looking) \in Nat /\ Cardinality(Looking') \in Nat
      /\ Cardinality(Given) \in Nat /\ Cardinality(Given') \in Nat
      /\ (Looking \subseteq Looking' => Cardinality(Looking) <= Cardinality(Looking'))
  <2>1. /\ Looking \subseteq Pumps /\ Looking' \subseteq Pumps
        /\ Given \subseteq LoopCallbacks /\ Given' \subseteq LoopCallbacks
    BY DEF Looking, Given
  <2> QED BY <2>1, LoopFinite, Counting
<1> USE LoopTypes
<1>1. ASSUME NEW c \in LoopCallbacks, Loop!PostTaken(c)
      PROVE  LoopWakeInv'
  <2>1. Len(queue') = Len(queue) + 1 /\ notifies' = notifies + 1
    BY <1>1, AppendProperties DEF Loop!PostTaken
  <2>2. Looking' = Looking
    BY <1>1 DEF Loop!PostTaken, Looking
  <2>3. Given' = Given \cup {c} /\ c \notin Given
    BY <1>1 DEF Loop!PostTaken, Given
  <2>4. Cardinality(Given') = Cardinality(Given) + 1
    BY <1>0, <2>3, LoopFinite, Counting
  <2> QED
    BY <1>0, <1>1, <2>1, <2>2, <2>4 DEF LoopWakeInv, Loop!PostTaken
<1>2. ASSUME NEW c \in LoopCallbacks, Loop!PostRefused(c)
      PROVE  LoopWakeInv'
  <2>1. Given' = Given /\ Looking' = Looking
    BY <1>2 DEF Loop!PostRefused, Given, Looking
  <2> QED
    BY <1>2, <2>1 DEF LoopWakeInv, Loop!PostRefused
<1>3. CASE Loop!NotifyOne
  <2>1. Given' = Given
    BY <1>3 DEF Loop!NotifyOne, Given
  <2>2. CASE asleep = {} /\ UNCHANGED asleep
    BY <1>0, <1>3, <2>1, <2>2 DEF Loop!NotifyOne, LoopWakeInv
  <2>3. ASSUME NEW p \in asleep, asleep' = asleep \ {p}
        PROVE  LoopWakeInv'
    <3>1. Looking' = Looking \cup {p} /\ p \notin Looking /\ p \in Pumps
      BY <1>3, <2>3 DEF Loop!NotifyOne, Looking, LoopWakeInv
    <3>2. Cardinality(Looking') = Cardinality(Looking) + 1
      BY <1>0, <3>1, LoopFinite, Counting
    <3> QED
      BY <1>0, <1>3, <2>1, <2>3, <3>2 DEF Loop!NotifyOne, LoopWakeInv
  <2> QED
    BY <1>3, <2>2, <2>3 DEF Loop!NotifyOne, Loop!WakeOne
<1>4. CASE Loop!Stop \/ Loop!WakeAll \/ Loop!Restart \/ Loop!Close
  <2>1. Given' = Given
    BY <1>4 DEF Loop!Stop, Loop!WakeAll, Loop!Restart, Loop!Close, Given
  <2>2. CASE Loop!Stop \/ Loop!WakeAll
    BY <2>1, <2>2 DEF LoopWakeInv, Loop!Stop, Loop!WakeAll, Loop!WakeEverybody
  <2>3. CASE Loop!Restart \/ Loop!Close
    <3>1. Looking' = Looking
      BY <2>3 DEF Loop!Restart, Loop!Close, Looking
    <3> QED
      BY <2>1, <2>3, <3>1 DEF LoopWakeInv, Loop!Restart, Loop!Close
  <2> QED
    BY <1>4, <2>2, <2>3
<1>5. ASSUME \/ \E p \in Pumps : Loop!Enter(p) \/ Loop!Deadline(p)
             \/ \E p \in Pumps : Loop!CheckDeadline(p) \/ Loop!Returned(p)
      PROVE  LoopWakeInv'
  <2>1. /\ Given' = Given /\ Looking \subseteq Looking' /\ asleep' \subseteq asleep
        /\ \A p \in asleep' : phase'[p] = "wait"
        /\ UNCHANGED <<queue, notifies, waking, stopRequested>>
    BY <1>5 DEF Loop!Enter, Loop!Deadline, Loop!EndWait, Loop!CheckDeadline, Loop!Returned,
                Loop!Goto, Given, Looking, LoopWakeInv
  <2> QED
    BY <1>0, <2>1 DEF LoopWakeInv
<1>6. ASSUME NEW p \in Pumps, Loop!Sleep(p)
      PROVE  LoopWakeInv'
  <2>1. Given' = Given /\ Len(queue) = 0
    BY <1>6 DEF Loop!Sleep, Given
  <2> QED
    BY <1>0, <1>6, <2>1 DEF LoopWakeInv, Loop!Sleep
<1>7. ASSUME NEW p \in Pumps, Loop!Leave(p)
      PROVE  LoopWakeInv'
  <2>1. Given' = Given
    BY <1>7 DEF Loop!Leave, Given
  <2>2. \A q \in asleep' : phase'[q] = "wait"
    BY <1>7 DEF Loop!Leave, Loop!Goto, LoopWakeInv
  <2>3. CASE stopRequested
    BY <1>7, <2>1, <2>2, <2>3 DEF LoopWakeInv, Loop!Leave
  <2>4. CASE ~stopRequested
    <3>1. Len(queue) = 0
      BY <1>7, <2>4 DEF Loop!Leave, Loop!Stopped
    <3> QED
      BY <1>0, <1>7, <2>1, <2>2, <2>4, <3>1 DEF LoopWakeInv, Loop!Leave
  <2> QED
    BY <2>3, <2>4
<1>8. ASSUME NEW p \in Pumps, Loop!TakeCallback(p)
      PROVE  LoopWakeInv'
  <2>1. Len(queue') = Len(queue) - 1
    BY <1>8, HeadTailProperties DEF Loop!TakeCallback, Loop!PopFront
  <2>2. Looking = Looking' \cup {p} /\ p \notin Looking'
    BY <1>8 DEF Loop!TakeCallback, Loop!Goto, Looking
  <2>3. Cardinality(Looking) = Cardinality(Looking') + 1
    BY <1>0, <2>2, LoopFinite, Counting
  <2>4. Given' = Given
    BY <1>8 DEF Loop!TakeCallback, Given
  <2>5. \A q \in asleep' : phase'[q] = "wait"
    BY <1>8 DEF Loop!TakeCallback, Loop!Goto, LoopWakeInv
  <2> QED
    BY <1>0, <1>8, <2>1, <2>3, <2>4, <2>5 DEF Loop!TakeCallback, LoopWakeInv
<1> QED
  BY <1>1, <1>2, <1>3, <1>4, <1>5, <1>6, <1>7, <1>8 DEF Loop!Next, Loop!Pump

LEMMA LoopPromises ==
    ASSUME Loop!TypeOK, LoopWakeInv
    PROVE  Loop!Inv
BY SameCardinality DEF LoopWakeInv, Looking, Loop!NoLostWakeup, Loop!Inv

LEMMA LoopMoves ==
    ASSUME Loop!TypeOK, OnceInv(Pumps), Loop!Next
    PROVE  /\ OnceInv(Pumps)'
           /\ \/ \A c \in LoopCallbacks : SeenOf(Pumps, c)' = SeenOf(Pumps, c)
              \/ Moves(Pumps, LoopCallbacks)
<1>0. /\ queue \in Seq(LoopCallbacks)
      /\ current \in [Pumps -> LoopCallbacks \cup {NoCallback}]
      /\ \A p \in Pumps : current[p] = NoCallback <=> phase[p] # "invoke"
      /\ result \in [LoopCallbacks -> {"none", "true", "false", "threw"}]
      /\ NoCallback \notin LoopCallbacks
  BY LoopTypes
<1>1. ASSUME UNCHANGED <<queue, current, result>>
      PROVE  /\ OnceInv(Pumps)'
             /\ \A c \in LoopCallbacks : SeenOf(Pumps, c)' = SeenOf(Pumps, c)
  BY <1>1 DEF OnceInv, SeenOf, Queued
<1>2. ASSUME NEW c \in LoopCallbacks, Loop!PostTaken(c) \/ Loop!PostRefused(c)
      PROVE  OnceInv(Pumps)' /\ Moves(Pumps, LoopCallbacks)
  BY <1>0, <1>2, OnceAnswer, SeenAnswer DEF Loop!PostTaken, Loop!PostRefused
<1>3. ASSUME NEW p \in Pumps, Loop!TakeCallback(p)
      PROVE  OnceInv(Pumps)' /\ Moves(Pumps, LoopCallbacks)
  BY <1>0, <1>3, OnceTake, SeenTake DEF Loop!TakeCallback, Loop!PopFront
<1>4. ASSUME NEW p \in Pumps, Loop!Returned(p)
      PROVE  OnceInv(Pumps)' /\ Moves(Pumps, LoopCallbacks)
  BY <1>0, <1>4, OnceRelease, SeenRelease DEF Loop!Returned, Loop!Release
<1>5. ASSUME \/ Loop!NotifyOne \/ Loop!Stop \/ Loop!WakeAll \/ Loop!Restart \/ Loop!Close
             \/ \E p \in Pumps : Loop!Enter(p) \/ Loop!Deadline(p) \/ Loop!CheckDeadline(p)
                                \/ Loop!Sleep(p) \/ Loop!Leave(p)
      PROVE  UNCHANGED <<queue, current, result>>
  BY <1>5 DEF Loop!NotifyOne, Loop!Stop, Loop!WakeAll, Loop!Restart, Loop!Close,
              Loop!Enter, Loop!Deadline, Loop!CheckDeadline, Loop!Sleep, Loop!Leave
<1> QED
  BY <1>1, <1>2, <1>3, <1>4, <1>5 DEF Loop!Next, Loop!Pump

(***************************************************************************)
(* An executor of any kind.                                                *)
(***************************************************************************)

SerialInv == Serial!TypeOK /\ ResponsibleInv /\ OrderInv /\ AnswerInv
PoolInv   == Pool!TypeOK /\ ThreadsInv /\ PoolWakeInv /\ OnceInv(Workers)
LoopInv   == Loop!TypeOK /\ LoopWakeInv /\ OnceInv(Pumps)

ExecInv ==
    /\ kind \in {"serial", "pool", "loop"}
    /\ kind = "serial" => SerialInv
    /\ kind = "pool" => PoolInv
    /\ kind = "loop" => LoopInv

LEMMA SerialInit == Serial!Init => SerialInv
<1> SUFFICES ASSUME Serial!Init PROVE SerialInv
  OBVIOUS
<1>1. NoCallback \notin Callbacks
  BY ExecutorsAssumption DEF Serial!SerialConstants
<1>2. Line = <<>>
  BY ConcatEmptySeq, EmptySeq DEF Serial!Init, Line
<1>3. Serial!TypeOK
  BY <1>1, EmptySeq DEF Serial!Init, Serial!TypeOK
<1>4. OrderInv
  BY <1>2, EmptySeq DEF Serial!Init, OrderInv
<1>5. ResponsibleInv /\ AnswerInv
  BY SerialElements DEF Serial!Init, ResponsibleInv, AnswerInv, Held
<1> QED
  BY <1>3, <1>4, <1>5 DEF SerialInv

LEMMA PoolInit == Pool!Init => PoolInv
<1> SUFFICES ASSUME Pool!Init PROVE PoolInv
  OBVIOUS
<1>1. /\ NoCallback \notin Callbacks /\ Cardinality(Callbacks) \in Nat
      /\ Pool!Cardinality(Callbacks) = Cardinality(Callbacks)
  BY ExecutorsAssumption, SameCardinality, PoolFinite, Counting DEF Pool!PoolConstants
<1>2. Pool!TypeOK
  <2>1. queue \in Seq(Callbacks) /\ notifies \in 0 .. Pool!Cardinality(Callbacks)
    BY <1>1, EmptySeq DEF Pool!Init
  <2>2. \A w \in Workers : current[w] = NoCallback <=> wpc[w] # "run"
    BY DEF Pool!Init
  <2> QED
    BY <2>1, <2>2 DEF Pool!Init, Pool!TypeOK
<1>3. ThreadsInv
  BY DEF Pool!Init, ThreadsInv, Alive
<1>4. PoolWakeInv
  <2>1. Took = {} /\ Cardinality({}) = 0
    BY FS_EmptySet DEF Pool!Init, Took
  <2> QED
    BY <2>1 DEF Pool!Init, PoolWakeInv
<1>5. OnceInv(Workers)
  BY EmptySeq DEF Pool!Init, OnceInv
<1> QED
  BY <1>2, <1>3, <1>4, <1>5 DEF PoolInv

LEMMA LoopInit == Loop!Init => LoopInv
<1> SUFFICES ASSUME Loop!Init PROVE LoopInv
  OBVIOUS
<1>1. /\ NoCallback \notin LoopCallbacks /\ Cardinality(LoopCallbacks) \in Nat
      /\ MaxRestarts \in Nat
      /\ Loop!Cardinality(LoopCallbacks) = Cardinality(LoopCallbacks)
  BY ExecutorsAssumption, SameCardinality, LoopFinite, Counting DEF Loop!LoopConstants
<1>2. Loop!TypeOK
  <2>1. /\ queue \in Seq(LoopCallbacks) /\ restarts \in 0 .. MaxRestarts
        /\ notifies \in 0 .. Loop!Cardinality(LoopCallbacks)
    BY <1>1, EmptySeq DEF Loop!Init
  <2>2. \A p \in Pumps : current[p] = NoCallback <=> phase[p] # "invoke"
    BY DEF Loop!Init
  <2> QED
    BY <2>1, <2>2 DEF Loop!Init, Loop!TypeOK, Loop!Modes
<1>3. LoopWakeInv
  <2>1. Given = {} /\ Cardinality({}) = 0
    BY FS_EmptySet DEF Loop!Init, Given
  <2> QED
    BY <2>1 DEF Loop!Init, LoopWakeInv
<1>4. OnceInv(Pumps)
  BY EmptySeq DEF Loop!Init, OnceInv
<1> QED
  BY <1>2, <1>3, <1>4 DEF LoopInv

LEMMA ExecStep ==
    ASSUME ExecInv, [Next]_vars
    PROVE  ExecInv'
<1>1. CASE UNCHANGED vars
  <2> USE <1>1 DEF vars, common, wakeups, serialOnly, poolOnly, loopOnly
  <2>1. SerialInv => SerialInv'
    BY DEF SerialInv, Serial!TypeOK, ResponsibleInv, OrderInv, AnswerInv, Line, Held
  <2>2. PoolInv => PoolInv'
    BY DEF PoolInv, Pool!TypeOK, ThreadsInv, PoolWakeInv, OnceInv, Alive, Awake, Took
  <2>3. LoopInv => LoopInv'
    BY DEF LoopInv, Loop!TypeOK, LoopWakeInv, OnceInv, Looking, Given
  <2> QED
    BY <2>1, <2>2, <2>3 DEF ExecInv
<1>2. CASE Next
  <2>1. CASE kind = "serial" /\ Serial!Next
    <3>1. SerialInv'
      BY <2>1, SerialType, SerialResponsible, SerialOrder, SerialAnswers DEF ExecInv, SerialInv
    <3> QED
      BY <1>2, <2>1, <3>1 DEF ExecInv, Next
  <2>2. CASE kind = "pool" /\ Pool!Next
    <3>1. PoolInv'
      BY <2>2, PoolType, PoolThreads, PoolWake, PoolOnce DEF ExecInv, PoolInv
    <3> QED
      BY <1>2, <2>2, <3>1 DEF ExecInv, Next
  <2>3. CASE kind = "loop" /\ Loop!Next
    <3>1. LoopInv'
      BY <2>3, LoopType, LoopWake, LoopMoves DEF ExecInv, LoopInv
    <3> QED
      BY <1>2, <2>3, <3>1 DEF ExecInv, Next
  <2> QED
    BY <1>2, <2>1, <2>2, <2>3 DEF Next
<1> QED
  BY <1>1, <1>2

\* The invariant all the results about executors follow from.
THEOREM ExecInvariant == Spec => []ExecInv
<1>1. Init => ExecInv
  BY SerialInit, PoolInit, LoopInit DEF Init, ExecInv
<1> QED
  BY <1>1, ExecStep, PTL DEF Spec

\* A strand: at any time exactly one party - a post() handing a drain task
\* over, a drain task queued in the base, or serialDrain() in one thread - is
\* responsible for a queue that is not empty, for any number of posters and
\* base threads (SerialState::running, executor.cpp).
THEOREM StrandResponsibility == Spec => []OneResponsible
<1>1. ExecInv => OneResponsible
  BY ResponsibleCount DEF ExecInv, SerialInv, OneResponsible
<1> QED
  BY <1>1, ExecInvariant, PTL

\* A strand starts callbacks in the order post() queued them, and a callback
\* post() took is queued or started unless a post() has been refused.
THEOREM StrandOrder == Spec => []AcceptedInOrder
<1>1. ExecInv => AcceptedInOrder
  BY OrderIsFifo, AnswersKept DEF ExecInv, SerialInv, AcceptedInOrder
<1> QED
  BY <1>1, ExecInvariant, PTL

\* A pool and a loop notify after they unlock and still never sleep on a
\* queued callback, and a shutdown() of a pool that returns has drained the
\* queue and joined the workers, for any number of threads.
THEOREM WakeUps == Spec => []NoLostWakeup
<1>1. ExecInv => NoLostWakeup
  BY PoolPromises, LoopPromises DEF ExecInv, PoolInv, LoopInv, NoLostWakeup
<1> QED
  BY <1>1, ExecInvariant, PTL

(***************************************************************************)
(* The contract.                                                           *)
(***************************************************************************)

Status == [c \in Callbacks |-> StatusOf(c)]

LEMMA ContractInit == Init => Contract!Init
<1> SUFFICES ASSUME Init PROVE \A c \in Callbacks : StatusOf(c) = "new"
  BY DEF Contract!Init
<1>1. NoCallback \notin Callbacks /\ NoCallback \notin LoopCallbacks
  BY ExecutorsAssumption DEF Serial!SerialConstants, Loop!LoopConstants
<1>2. CASE kind = "serial" /\ Serial!Init
  <2>1. SerialStatus = [c \in Callbacks |-> "new"]
    BY <1>2, SerialStart
  <2>2. \A c \in Callbacks : Serial!StatusOf(c) = SerialStatus[c]
    BY DEF SerialStatus
  <2> QED
    BY <1>2, <2>1, <2>2 DEF StatusOf
<1>3. CASE kind = "pool" /\ Pool!Init
  <2> TAKE c \in Callbacks
  <2>1. result[c] = "none" /\ c \notin Pool!Queued /\ \A w \in Workers : current[w] # c
    BY <1>1, <1>3, EmptySeq DEF Pool!Init, Pool!Queued
  <2>2. Pool!StatusOf(c) = "new"
    BY <2>1 DEF Pool!StatusOf
  <2> QED
    BY <1>3, <2>2 DEF StatusOf
<1>4. CASE kind = "loop" /\ Loop!Init
  <2> TAKE c \in Callbacks
  <2>1. ASSUME c \in LoopCallbacks PROVE Loop!StatusOf(c) = "new"
    <3>1. result[c] = "none" /\ c \notin Loop!Queued /\ \A p \in Pumps : current[p] # c
      BY <1>1, <1>4, <2>1, EmptySeq DEF Loop!Init, Loop!Queued
    <3> QED
      BY <3>1 DEF Loop!StatusOf
  <2> QED
    BY <1>4, <2>1 DEF StatusOf
<1> QED
  BY <1>2, <1>3, <1>4 DEF Init

\* One callback moves as the contract allows and the others stay.
LEMMA ContractMove ==
    ASSUME NEW c \in Callbacks,
           Allowed(Status[c], Status'[c]),
           \A b \in Callbacks : b # c => Status'[b] = Status[b]
    PROVE  Contract!Next
<1> DEFINE l == Status[c]
           m == Status'[c]
<1>1. Status' = [Status EXCEPT ![c] = m]
  BY DEF Status
<1>2. Allowed(l, m)
  OBVIOUS
<1>3. Contract!Take(c) \/ Contract!Refuse(c) \/ Contract!Start(c) \/ Contract!Finish(c)
  <2> HIDE DEF m
  <2>1. \A x : m = x => Status' = [Status EXCEPT ![c] = x]
    BY <1>1
  <2> QED
    BY <1>2, <2>1 DEF Allowed, Status, Contract!Take, Contract!Refuse, Contract!Start, Contract!Finish, Contract!Move
<1> QED
  BY <1>3 DEF Contract!Next

\* What a client sees of a pool and of a loop is SeenOf.
LEMMA PoolSeen ==
    ASSUME PoolInv, NEW c \in Callbacks
    PROVE  Pool!StatusOf(c) = SeenOf(Workers, c)
<1>1. result[c] \in {"none", "true", "false", "threw"} /\ Pool!Queued = Queued
  BY DEF PoolInv, Pool!TypeOK, Pool!Queued, Queued
<1>2. c \in Queued => result[c] = "true"
  BY DEF PoolInv, OnceInv, Queued
<1> QED
  BY <1>1, <1>2 DEF Pool!StatusOf, SeenOf

LEMMA LoopSeen ==
    ASSUME LoopInv, NEW c \in LoopCallbacks
    PROVE  Loop!StatusOf(c) = SeenOf(Pumps, c)
<1>1. result[c] \in {"none", "true", "false"} /\ Loop!Queued = Queued
  BY LoopTypes DEF LoopInv, Loop!Queued, Queued
<1>2. c \in Queued => result[c] = "true"
  BY DEF LoopInv, OnceInv, Queued
<1> QED
  BY <1>1, <1>2 DEF Loop!StatusOf, SeenOf

LEMMA SeenNext ==
    /\ PoolInv' => (\A c \in Callbacks : Pool!StatusOf(c) = SeenOf(Workers, c))'
    /\ LoopInv' => (\A c \in LoopCallbacks : Loop!StatusOf(c) = SeenOf(Pumps, c))'
<1>1. PoolInv => \A c \in Callbacks : Pool!StatusOf(c) = SeenOf(Workers, c)
  BY PoolSeen
<1>2. LoopInv => \A c \in LoopCallbacks : Loop!StatusOf(c) = SeenOf(Pumps, c)
  BY LoopSeen
<1> QED
  BY <1>1, <1>2, PTL

\* Every step of an executor is one the contract allows, or none.
LEMMA ContractStep ==
    ASSUME ExecInv, ExecInv', [Next]_vars
    PROVE  Contract!Next \/ Status' = Status
<1>1. CASE UNCHANGED vars
  <2>1. UNCHANGED <<kind, queue, current, result, started>>
    BY <1>1 DEF vars, common
  <2>2. \A c \in Callbacks : /\ Serial!StatusOf(c)' = Serial!StatusOf(c)
                            /\ Pool!StatusOf(c)' = Pool!StatusOf(c)
                            /\ Loop!StatusOf(c)' = Loop!StatusOf(c)
    BY <2>1 DEF Serial!StatusOf, Pool!StatusOf, Loop!StatusOf, Pool!Queued, Loop!Queued
  <2> QED
    <3>1. \A c \in Callbacks : StatusOf(c)' = StatusOf(c)
      BY <2>1, <2>2 DEF StatusOf
    <3> QED
      BY <3>1 DEF Status
<1>2. CASE Next
  <2>0. kind' = kind
    BY <1>2 DEF Next
  <2>1. CASE kind = "serial" /\ Serial!Next
    <3>1. \A c \in Callbacks : Status[c] = Serial!StatusOf(c) /\ Status'[c] = Serial!StatusOf(c)'
      BY <2>0, <2>1 DEF Status, StatusOf
    <3>2. SerialMoves \/ SerialStays
      BY <2>1, SerialRefines DEF ExecInv, SerialInv
    <3>3. CASE SerialMoves
      BY <3>1, <3>3, ContractMove DEF SerialMoves
    <3>4. CASE SerialStays
      <4>1. \A c \in Callbacks : Status'[c] = Status[c]
        BY <3>1, <3>4 DEF SerialStays
      <4> QED
        BY <4>1 DEF Status
    <3> QED
      BY <3>2, <3>3, <3>4
  <2>2. CASE kind = "pool" /\ Pool!Next
    <3>0. PoolInv /\ PoolInv'
      BY <2>0, <2>2 DEF ExecInv
    <3>1. \A c \in Callbacks : Status[c] = SeenOf(Workers, c)
      BY <2>2, <3>0, PoolSeen DEF Status, StatusOf
    <3>2. \A c \in Callbacks : Pool!StatusOf(c)' = SeenOf(Workers, c)'
      BY <3>0, SeenNext
    <3>3. \A c \in Callbacks : Status'[c] = SeenOf(Workers, c)'
      BY <2>0, <2>2, <3>2 DEF Status, StatusOf
    <3>4. CASE Moves(Workers, Callbacks)
      BY <3>1, <3>3, <3>4, ContractMove DEF Moves
    <3>5. CASE \A c \in Callbacks : SeenOf(Workers, c)' = SeenOf(Workers, c)
      <4>1. \A c \in Callbacks : Status'[c] = Status[c]
        BY <3>1, <3>3, <3>5
      <4> QED
        BY <4>1 DEF Status
    <3> QED
      BY <2>2, <3>0, <3>4, <3>5, PoolMoves DEF PoolInv
  <2>3. CASE kind = "loop" /\ Loop!Next
    <3>0. LoopInv /\ LoopInv' /\ LoopCallbacks \subseteq Callbacks
      BY <2>0, <2>3, ExecutorsAssumption DEF ExecInv
    <3>1. \A c \in LoopCallbacks : Status[c] = SeenOf(Pumps, c)
      BY <2>3, <3>0, LoopSeen DEF Status, StatusOf
    <3>2. \A c \in LoopCallbacks : Loop!StatusOf(c)' = SeenOf(Pumps, c)'
      BY <3>0, SeenNext
    <3>3. \A c \in LoopCallbacks : Status'[c] = SeenOf(Pumps, c)'
      BY <2>0, <2>3, <3>0, <3>2 DEF Status, StatusOf
    <3>4. \A c \in Callbacks \ LoopCallbacks : Status[c] = "new" /\ Status'[c] = "new"
      BY <2>0, <2>3 DEF Status, StatusOf
    <3>5. CASE Moves(Pumps, LoopCallbacks)
      <4>1. PICK c \in LoopCallbacks :
                /\ Allowed(SeenOf(Pumps, c), SeenOf(Pumps, c)')
                /\ \A b \in LoopCallbacks : b # c => SeenOf(Pumps, b)' = SeenOf(Pumps, b)
        BY <3>5 DEF Moves
      <4>2. \A b \in Callbacks : b # c => Status'[b] = Status[b]
        BY <3>1, <3>3, <3>4, <4>1
      <4>3. Allowed(Status[c], Status'[c])
        BY <3>1, <3>3, <4>1
      <4> QED
        BY <3>0, <4>2, <4>3, ContractMove
    <3>6. CASE \A c \in LoopCallbacks : SeenOf(Pumps, c)' = SeenOf(Pumps, c)
      <4>1. \A c \in Callbacks : Status'[c] = Status[c]
        BY <3>1, <3>3, <3>4, <3>6
      <4> QED
        BY <4>1 DEF Status
    <3> QED
      BY <2>3, <3>0, <3>5, <3>6, LoopMoves DEF LoopInv
  <2> QED
    BY <1>2, <2>1, <2>2, <2>3 DEF Next
<1> QED
  BY <1>1, <1>2

\* Every executor implements IExecutor (executor.hpp): post() takes a callback,
\* which is then run at most once, or refuses it, and then it never runs.
THEOREM Implementation == Spec => ImplementsExecutor
<1>1. ExecInv /\ ExecInv' /\ [Next]_vars => [Contract!Next]_Status
  BY ContractStep
<1>2. Init /\ [][Next]_vars /\ []ExecInv => Contract!Init /\ [][Contract!Next]_Status
  BY <1>1, ContractInit, PTL
<1> QED
  BY <1>2, ExecInvariant, PTL DEF Spec, ImplementsExecutor, Contract!Spec, Status
=============================================================================
