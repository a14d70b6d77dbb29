----------------------- MODULE CommunicationManager_proofs -----------------------
(***************************************************************************)
(* Proofs about CommunicationManager, for any names, owners, threads and   *)
(* depth of nested calls: the books of subscriptions are right, and an     *)
(* emission reaches the subscribers it should; and every change is told    *)
(* to those who listen to the debug topics.                                *)
(***************************************************************************)
EXTENDS CommunicationManager, TLAPS, WellFoundedInduction, FiniteSetTheorems,
        SequenceTheorems

-----------------------------------------------------------------------------
(* Induction, and the lists it is about.                                   *)

\* A set of naturals that has an element has a least one.
LEMMA LeastNat ==
    ASSUME NEW T \in SUBSET Nat, T # {}
    PROVE  \E m \in T : \A n \in T : m <= n
<1> DEFINE R == {ss \in Nat \X Nat : ss[1] < ss[2]}
<1>1. IsWellFoundedOn(R, Nat)
  <2>1. OpToRel(<, Nat) = R
    BY DEF OpToRel
  <2> QED BY <2>1, NatLessThanWellFounded
<1>2. PICK m \in T : \A n \in T : <<n, m>> \notin R
  BY <1>1, WFMin
<1>3. \A n \in T : ~(n < m)
  BY <1>2
<1> QED BY <1>2, <1>3

\* g keeps the members of S among the first n of s.
Keeps(g, s, S, X, n) ==
    /\ g \in [0 .. n -> Seq(X)]
    /\ \A k \in 0 .. n : g[k] = IF k = 0 THEN <<>>
                                ELSE IF s[k] \in S THEN Append(g[k - 1], s[k]) ELSE g[k - 1]

LEMMA KeepsExists ==
    ASSUME NEW X, NEW s \in Seq(X), NEW S
    PROVE  \A n \in 0 .. Len(s) : \E g : Keeps(g, s, S, X, n)
<1> DEFINE T == {n \in 0 .. Len(s) : ~ \E g : Keeps(g, s, S, X, n)}
<1> SUFFICES ASSUME T # {} PROVE FALSE
  OBVIOUS
<1>1. T \in SUBSET Nat
  OBVIOUS
<1> HIDE DEF T
<1>2. PICK m \in T : \A n \in T : m <= n
  BY <1>1, LeastNat
<1>3. m \in 0 .. Len(s) /\ (~ \E g : Keeps(g, s, S, X, m)) /\ Len(s) \in Nat
  BY <1>2 DEF T
<1>4. CASE m = 0
  <2>1. Keeps([k \in 0 .. 0 |-> <<>>], s, S, X, 0)
    BY DEF Keeps
  <2> QED BY <1>3, <1>4, <2>1
<1>5. CASE m # 0
  <2>1. m - 1 \in 0 .. Len(s) /\ m - 1 \notin T /\ m \in 1 .. Len(s)
    BY <1>2, <1>3, <1>5
  <2>2. PICK g : Keeps(g, s, S, X, m - 1)
    BY <2>1 DEF T
  <2>3. PICK last : last = IF s[m] \in S THEN Append(g[m - 1], s[m]) ELSE g[m - 1]
    OBVIOUS
  <2>4. last \in Seq(X)
    <3>1. g[m - 1] \in Seq(X) /\ s[m] \in X
      BY <2>1, <2>2 DEF Keeps
    <3> QED BY <2>3, <3>1
  <2> DEFINE h == [k \in 0 .. m |-> IF k = m THEN last ELSE g[k]]
  <2>5. h \in [0 .. m -> Seq(X)]
    BY <1>3, <2>2, <2>4 DEF Keeps
  <2>6. ASSUME NEW k \in 0 .. m
        PROVE  h[k] = IF k = 0 THEN <<>>
                      ELSE IF s[k] \in S THEN Append(h[k - 1], s[k]) ELSE h[k - 1]
    <3>1. CASE k = m
      BY <1>3, <1>5, <2>3, <3>1
    <3>2. CASE k # m
      <4>1. k \in 0 .. m - 1 /\ (k # 0 => k - 1 \in 0 .. m /\ k - 1 # m)
        BY <1>3, <3>2
      <4> QED BY <2>2, <4>1, <3>2 DEF Keeps
    <3> QED BY <3>1, <3>2
  <2>7. Keeps(h, s, S, X, m)
    <3> HIDE DEF h
    <3> QED BY <2>5, <2>6 DEF Keeps
  <2> QED BY <1>3, <2>7
<1> QED BY <1>4, <1>5

\* The recursion of Within() is such a function.
LEMMA WithinKeeps ==
    ASSUME NEW X, NEW s \in Seq(X), NEW S
    PROVE  \E g : Keeps(g, s, S, X, Len(s)) /\ Within(s, S) = g[Len(s)]
<1> DEFINE kept[n \in 0 .. Len(s)] ==
            IF n = 0 THEN <<>>
            ELSE IF s[n] \in S THEN Append(kept[n - 1], s[n]) ELSE kept[n - 1]
<1>1. Len(s) \in Nat /\ Len(s) \in 0 .. Len(s)
  OBVIOUS
<1>2. PICK g : Keeps(g, s, S, X, Len(s))
  BY <1>1, KeepsExists
<1>3. g = [n \in 0 .. Len(s) |-> IF n = 0 THEN <<>>
            ELSE IF s[n] \in S THEN Append(g[n - 1], s[n]) ELSE g[n - 1]]
  BY <1>2 DEF Keeps
<1>4. kept = [n \in 0 .. Len(s) |-> IF n = 0 THEN <<>>
            ELSE IF s[n] \in S THEN Append(kept[n - 1], s[n]) ELSE kept[n - 1]]
  BY <1>3
<1>5. Within(s, S) = kept[Len(s)]
  BY DEF Within
<1> HIDE DEF kept
<1>6. \A n \in 0 .. Len(s) : kept[n] = IF n = 0 THEN <<>>
            ELSE IF s[n] \in S THEN Append(kept[n - 1], s[n]) ELSE kept[n - 1]
  BY <1>4
<1>7. \A n \in 0 .. Len(s) : kept[n] = g[n]
  <2> DEFINE T == {n \in 0 .. Len(s) : kept[n] # g[n]}
  <2> SUFFICES ASSUME T # {} PROVE FALSE
    OBVIOUS
  <2>1. T \in SUBSET Nat
    OBVIOUS
  <2> HIDE DEF T
  <2>2. PICK m \in T : \A n \in T : m <= n
    BY <2>1, LeastNat
  <2>3. m \in 0 .. Len(s) /\ kept[m] # g[m]
    BY <2>2 DEF T
  <2>4. m # 0 /\ m - 1 \in 0 .. Len(s) /\ m - 1 \notin T
    BY <1>1, <1>2, <1>6, <2>2, <2>3 DEF Keeps
  <2>5. kept[m - 1] = g[m - 1]
    BY <2>4 DEF T
  <2> QED BY <1>2, <1>6, <2>3, <2>4, <2>5 DEF Keeps
<1> QED BY <1>1, <1>2, <1>5, <1>7

Ascending(s) == \A i, j \in DOMAIN s : i < j => s[i] < s[j]

\* What Within() returns: the members of S, in the order they had.
LEMMA WithinProperties ==
    ASSUME NEW X, X \subseteq Nat, NEW s \in Seq(X), NEW S
    PROVE  /\ Within(s, S) \in Seq(X)
           /\ ToSet(Within(s, S)) = ToSet(s) \cap S
           /\ Ascending(s) => Ascending(Within(s, S))
<1>1. PICK g : Keeps(g, s, S, X, Len(s)) /\ Within(s, S) = g[Len(s)]
  BY WithinKeeps
<1>2. Len(s) \in Nat /\ \A n \in 1 .. Len(s) : s[n] \in X
  OBVIOUS
<1> DEFINE Good(n) == /\ g[n] \in Seq(X)
                      /\ ToSet(g[n]) = {s[i] : i \in 1 .. n} \cap S
                      /\ Ascending(s) => Ascending(g[n])
<1>3. \A n \in 0 .. Len(s) : Good(n)
  <2> DEFINE T == {n \in 0 .. Len(s) : ~Good(n)}
  <2> SUFFICES ASSUME T # {} PROVE FALSE
    OBVIOUS
  <2>1. T \in SUBSET Nat
    OBVIOUS
  <2> HIDE DEF T
  <2>2. PICK m \in T : \A n \in T : m <= n
    BY <2>1, LeastNat
  <2>3. m \in 0 .. Len(s) /\ ~Good(m)
    BY <2>2 DEF T
  <2>4. CASE m = 0
    <3>1. g[0] = <<>>
      BY <1>1, <1>2 DEF Keeps
    <3>2. Good(0)
      BY <3>1 DEF ToSet, Ascending
    <3> QED BY <2>3, <2>4, <3>2
  <2>5. CASE m # 0
    <3>1. m - 1 \in 0 .. Len(s) /\ m \in 1 .. Len(s) /\ m - 1 \notin T
      BY <1>2, <2>2, <2>3, <2>5
    <3>2. Good(m - 1)
      BY <3>1 DEF T
    <3>3. PICK p \in Seq(X) : p = g[m - 1]
      BY <3>2
    <3>4. g[m] = IF s[m] \in S THEN Append(p, s[m]) ELSE p
      BY <1>1, <2>3, <2>5, <3>3 DEF Keeps
    <3>5. {s[i] : i \in 1 .. m} = {s[i] : i \in 1 .. m - 1} \cup {s[m]}
      <4>1. \A i : i \in 1 .. m <=> i \in 1 .. m - 1 \/ i = m
        BY <3>1
      <4> QED BY <4>1
    <3>6. s[m] \in X /\ s[m] \in Nat
      BY <1>2, <3>1
    <3>7. ToSet(p) = {s[i] : i \in 1 .. m - 1} \cap S /\ (Ascending(s) => Ascending(p))
      BY <3>2, <3>3
    <3>8. CASE s[m] \notin S
      BY <2>3, <3>3, <3>4, <3>5, <3>7, <3>8
    <3>9. CASE s[m] \in S
      <4>0. PICK x \in X : x = s[m]
        BY <3>6
      <4>a. Append(p, x) \in Seq(X) /\ Len(p) \in Nat /\ DOMAIN p = 1 .. Len(p)
        BY <3>3, <4>0
      <4>b. /\ Len(Append(p, x)) = Len(p) + 1
            /\ DOMAIN Append(p, x) = 1 .. Len(p) + 1
            /\ \A i \in 1 .. Len(p) : Append(p, x)[i] = p[i]
            /\ Append(p, x)[Len(p) + 1] = x
        BY <4>a, AppendProperties
      <4>c. \A i \in 1 .. Len(p) : p[i] \in Nat
        <5>1. \A i \in 1 .. Len(p) : p[i] \in X
          BY <4>a, ElementOfSeq
        <5> QED BY <5>1
      <4>1. /\ Append(p, s[m]) \in Seq(X) /\ Len(p) \in Nat
            /\ DOMAIN p = 1 .. Len(p)
            /\ DOMAIN Append(p, s[m]) = 1 .. Len(p) + 1
            /\ \A i \in 1 .. Len(p) : Append(p, s[m])[i] = p[i] /\ p[i] \in Nat
            /\ Append(p, s[m])[Len(p) + 1] = s[m]
        BY <4>0, <4>a, <4>b, <4>c
      <4>2. \A i : i \in 1 .. Len(p) + 1 <=> i \in 1 .. Len(p) \/ i = Len(p) + 1
        BY <4>1
      <4>3. ToSet(Append(p, s[m])) = ToSet(p) \cup {s[m]}
        BY <4>1, <4>2 DEF ToSet
      <4>4. ASSUME Ascending(s) PROVE Ascending(Append(p, s[m]))
        <5>1. \A i \in 1 .. Len(p) : p[i] < s[m]
          <6> SUFFICES ASSUME NEW i \in 1 .. Len(p) PROVE p[i] < s[m]
            OBVIOUS
          <6>1. p[i] \in {s[n] : n \in 1 .. m - 1}
            BY <3>7, <4>1 DEF ToSet
          <6>2. PICK n \in 1 .. m - 1 : p[i] = s[n]
            BY <6>1
          <6>3. n \in DOMAIN s /\ m \in DOMAIN s /\ n < m
            BY <1>2, <3>1
          <6> QED BY <4>4, <6>2, <6>3 DEF Ascending
        <5>2. Ascending(p)
          BY <3>7, <4>4
        <5> QED BY <4>1, <4>2, <5>1, <5>2 DEF Ascending
      <4>5. Good(m)
        BY <3>4, <3>5, <3>7, <3>9, <4>1, <4>3, <4>4
      <4> QED BY <2>3, <4>5
    <3> QED BY <3>8, <3>9
  <2> QED BY <2>4, <2>5
<1>4. Good(Len(s))
  <2>1. Len(s) \in 0 .. Len(s)
    BY <1>2
  <2> HIDE DEF Good
  <2> QED BY <1>3, <2>1
<1>5. ToSet(s) = {s[i] : i \in 1 .. Len(s)}
  BY DEF ToSet
<1> QED BY <1>1, <1>4, <1>5

-----------------------------------------------------------------------------
(* The inductive invariant.                                                *)

Reports == [topic : Topics, about : Nat]

Frames ==
    [op : {"change", "emit", "handle", "debug", "call"}, step : {"report", "found", "inside"},
     key : Keys \cup {NoKey}, pins : SUBSET Entries, todo : Seq(Ids), about : Nat,
     born : Nat, reports : Seq(Reports)]

\* What everything but the calls ranges over.
NamesTyped ==
    /\ table \in [Keys -> {None} \cup Entries]
    /\ list \in [Entries -> Seq(Ids)]
    /\ nextEntry \in 1 .. MaxEntries + 1 /\ nextId \in 1 .. MaxIds + 1
    /\ subKey \in [Ids -> Events \cup {NoKey}]
    /\ subOwner \in [Ids -> Owners \cup {Nobody}]
    /\ entryOwner \in [Entries -> Owners \cup {Nobody}]
    /\ handle \in [key : Keys \cup {NoKey}, entry : {None} \cup Entries]

\* Inv without the types: names, lists and ids agree.
BooksInv ==
    /\ \A k \in Events :
          /\ table[k] = None => Live(k) = {}
          /\ table[k] # None => Live(k) = ToSet(list[table[k]]) /\ Live(k) # {}
    /\ \A e \in Entries : (\A k \in Events : table[k] # e) => list[e] = <<>>
    /\ \A e \in Entries : Ascending(list[e])

\* An entry has one name, and never one it has not been given.
TableInv ==
    /\ \A k \in Keys : table[k] < nextEntry
    /\ \A j, k \in Keys : table[j] = table[k] /\ table[j] # None => j = k
    /\ \A i \in Ids : subKey[i] # NoKey => i < nextId

\* What is held of a name, by a handle or an emission, is an entry that has
\* had that name; no other name leads to it.
Names(e, key) == e < nextEntry /\ \A k \in Keys : table[k] = e => k = key

HandleInv == handle.entry # None => handle.key \in Keys /\ Names(handle.entry, handle.key)

\* An emission that has found its entry will see every subscription made
\* before it began that is still there.
FoundOne(f) ==
    \E e \in Entries :
       /\ f.pins = {e} /\ f.key \in Events /\ Names(e, f.key) /\ f.born <= nextId
       /\ f.op # "handle" => {i \in Live(f.key) : i < f.born} \subseteq ToSet(list[e])

FrameInv(f) ==
    /\ f.op = "change" <=> f.step = "report"
    /\ f.step = "inside" /\ f.op # "call" => f.todo # <<>>
    /\ f.step = "found" => FoundOne(f)

Calls == {f \in Frames : FrameInv(f)}

\* Only the innermost call of a thread is not waiting for a callback, or for
\* the report it is making.
Nested(s) == \A i \in DOMAIN s : i < Len(s) => s[i].step \in {"report", "inside"}

StackInv == stack \in [Threads -> Seq(Calls)] /\ \A t \in Threads : Nested(stack[t])

IInv == NamesTyped /\ BooksInv /\ TableInv /\ HandleInv /\ StackInv

LEMMA InvFollows ==
    IInv => Inv
<1> SUFFICES ASSUME IInv PROVE Inv
  OBVIOUS
<1>1. ASSUME NEW t \in Threads, NEW i \in DOMAIN stack[t]
      PROVE  /\ stack[t][i].op \in {"change", "emit", "handle", "debug", "call"}
             /\ stack[t][i].step \in {"report", "found", "inside"}
             /\ stack[t][i].op = "change" <=> stack[t][i].step = "report"
             /\ stack[t][i].pins \subseteq Entries
             /\ stack[t][i].todo \in Seq(Ids)
             /\ i < Len(stack[t]) => stack[t][i].step \in {"report", "inside"}
  <2>1. stack[t] \in Seq(Calls) /\ Nested(stack[t])
    BY DEF IInv, StackInv
  <2>2. stack[t][i] \in Calls
    BY <2>1
  <2>3. stack[t][i] \in Frames /\ FrameInv(stack[t][i])
    BY <2>2 DEF Calls
  <2> QED BY <2>1, <2>3 DEF Nested, FrameInv, Frames
<1>2. TypeOK
  BY <1>1 DEF IInv, NamesTyped, TypeOK
<1> QED BY <1>2 DEF IInv, BooksInv, Ascending, Inv

LEMMA Start ==
    Init => IInv
<1> SUFFICES ASSUME Init PROVE IInv
  OBVIOUS
<1> USE CommunicationAssumption
<1>1. NamesTyped
  BY DEF Init, NamesTyped, Entries, Ids, None, NoKey
<1>2. BooksInv
  BY DEF Init, BooksInv, Entries, Ids, None, NoKey, Live, Ascending, Keys
<1>3. TableInv /\ HandleInv
  BY DEF Init, TableInv, HandleInv, Names, None, NoKey, Keys, Ids
<1>4. StackInv
  BY DEF Init, StackInv, Nested
<1> QED BY <1>1, <1>2, <1>3, <1>4 DEF IInv

-----------------------------------------------------------------------------
(* Stacks of calls.                                                        *)

\* A thread makes calls beyond the ones it is inside.
LEMMA StackGrows ==
    ASSUME NEW S, stack \in [Threads -> Seq(S)], NEW t \in Threads, NEW fs \in Seq(S),
           stack' = [stack EXCEPT ![t] = @ \o fs]
    PROVE  stack' \in [Threads -> Seq(S)]
BY ConcatProperties

\* The calls in fs take the place of the innermost one.
LEMMA StackTurns ==
    ASSUME NEW S, stack \in [Threads -> Seq(S)], NEW t \in Threads, NEW fs \in Seq(S),
           Inside(t), Becomes(t, fs)
    PROVE  /\ Front(stack[t]) \in Seq(S)
           /\ Len(stack[t]) \in Nat \ {0} /\ Len(Front(stack[t])) = Len(stack[t]) - 1
           /\ \A i \in 1 .. Len(stack[t]) - 1 : Front(stack[t])[i] = stack[t][i]
           /\ Top(t) = stack[t][Len(stack[t])] /\ Top(t) \in S
           /\ stack' \in [Threads -> Seq(S)]
           /\ stack'[t] = Front(stack[t]) \o fs
           /\ \A u \in Threads \ {t} : stack'[u] = stack[u]
<1>1. stack[t] \in Seq(S) /\ stack[t] # <<>>
  BY DEF Inside
<1>2. Len(stack[t]) \in Nat \ {0}
  BY <1>1, EmptySeq
<1>3. \A i \in 1 .. Len(stack[t]) : stack[t][i] \in S
  BY <1>1, ElementOfSeq
<1>4. /\ Front(stack[t]) \in Seq(S)
      /\ Len(Front(stack[t])) = Len(stack[t]) - 1
      /\ \A i \in 1 .. Len(stack[t]) - 1 : Front(stack[t])[i] = stack[t][i]
  <2>1. /\ SubSeq(stack[t], 1, Len(stack[t]) - 1) \in Seq(S)
        /\ Len(SubSeq(stack[t], 1, Len(stack[t]) - 1)) = Len(stack[t]) - 1
        /\ \A i \in 1 .. Len(stack[t]) - 1 : SubSeq(stack[t], 1, Len(stack[t]) - 1)[i] = stack[t][i]
    <3>1. Len(stack[t]) - 1 \in Int /\ 1 \in Int /\ Len(stack[t]) - 1 - 1 + 1 = Len(stack[t]) - 1
      BY <1>2
    <3>2. \A i \in 1 .. Len(stack[t]) - 1 : stack[t][i] \in S
      BY <1>2, <1>3
    <3>3. PICK n \in Int : n = Len(stack[t]) - 1
      BY <3>1
    <3>4. /\ SubSeq(stack[t], 1, n) \in Seq(S)
          /\ Len(SubSeq(stack[t], 1, n)) = IF 1 <= n THEN n - 1 + 1 ELSE 0
          /\ \A i \in 1 .. n - 1 + 1 : SubSeq(stack[t], 1, n)[i] = stack[t][1 + i - 1]
      BY <3>1, <3>2, <3>3, SubSeqProperties
    <3>5. n \in Nat
      BY <1>2, <3>3
    <3> QED BY <3>3, <3>4, <3>5
  <2> QED BY <2>1 DEF Front
<1>5. Front(stack[t]) \o fs \in Seq(S)
  BY <1>4, ConcatProperties
<1>6. Top(t) = stack[t][Len(stack[t])] /\ Top(t) \in S
  BY <1>2, <1>3 DEF Top, Last
<1>7. stack' = [stack EXCEPT ![t] = Front(stack[t]) \o fs]
  BY DEF Becomes
<1> QED BY <1>2, <1>4, <1>5, <1>6, <1>7

LEMMA NestedOn ==
    ASSUME NEW S, NEW s \in Seq(S), NEW fs \in Seq(S),
           \A i \in 1 .. Len(s) : s[i].step \in {"report", "inside"} \/ (i = Len(s) /\ fs = <<>>),
           Nested(fs)
    PROVE  Nested(s \o fs)
<1>1. /\ s \o fs \in Seq(S)
      /\ Len(s \o fs) = Len(s) + Len(fs) /\ Len(s) \in Nat /\ Len(fs) \in Nat
      /\ \A i \in 1 .. Len(s) + Len(fs) : (s \o fs)[i] = IF i <= Len(s) THEN s[i] ELSE fs[i - Len(s)]
  BY ConcatProperties, LenProperties
<1>2. DOMAIN (s \o fs) = 1 .. Len(s) + Len(fs) /\ DOMAIN fs = 1 .. Len(fs)
  BY <1>1, LenProperties
<1> SUFFICES ASSUME NEW i \in 1 .. Len(s) + Len(fs), i < Len(s) + Len(fs)
             PROVE  (s \o fs)[i].step \in {"report", "inside"}
  BY <1>1, <1>2 DEF Nested
<1>3. CASE i <= Len(s)
  <2>1. i \in 1 .. Len(s) /\ (s \o fs)[i] = s[i]
    BY <1>1, <1>3
  <2>2. fs = <<>> => Len(fs) = 0
    BY EmptySeq
  <2> QED BY <1>1, <2>1, <2>2
<1>4. CASE ~(i <= Len(s))
  <2>1. i - Len(s) \in 1 .. Len(fs) /\ i - Len(s) < Len(fs) /\ (s \o fs)[i] = fs[i - Len(s)]
    BY <1>1, <1>4
  <2> QED BY <1>2, <2>1 DEF Nested
<1> QED BY <1>3, <1>4

-----------------------------------------------------------------------------
(* What changes to the books preserve.                                     *)

\* Calls that are under way stay as they should be if what they found does.
LEMMA CallsStay ==
    ASSUME \A f \in Frames : FoundOne(f) => FoundOne(f)'
    PROVE  Calls \subseteq Calls'
<1> SUFFICES ASSUME NEW f \in Calls PROVE f \in Calls'
  OBVIOUS
<1>1. f \in Frames /\ FrameInv(f)
  BY DEF Calls
<1>2. FrameInv(f)'
  BY <1>1 DEF FrameInv
<1>3. f \in Frames'
  BY <1>1 DEF Frames, Keys, Entries, Ids, Reports
<1> QED BY <1>2, <1>3 DEF Calls

LEMMA EmptyList ==
    ASSUME NEW X, NEW s \in Seq(X)
    PROVE  ToSet(s) = {} <=> s = <<>>
<1>1. s = <<>> => ToSet(s) = {}
  BY DEF ToSet
<1>2. ASSUME s # <<>> PROVE ToSet(s) # {}
  <2>1. Len(s) \in Nat \ {0} /\ DOMAIN s = 1 .. Len(s)
    BY <1>2, EmptySeq, LenProperties
  <2>2. 1 \in DOMAIN s
    BY <2>1
  <2>3. s[1] \in ToSet(s)
    BY <2>2 DEF ToSet
  <2> QED BY <2>3
<1> QED BY <1>1, <1>2

LEMMA ListsTyped ==
    ASSUME IInv, NEW e \in Entries
    PROVE  /\ list[e] \in Seq(Ids) /\ ToSet(list[e]) \subseteq Ids
           /\ ToSet(list[e]) = {} <=> list[e] = <<>>
<1>1. list[e] \in Seq(Ids)
  BY DEF IInv, NamesTyped
<1>2. ToSet(list[e]) \subseteq Ids
  BY <1>1 DEF ToSet
<1> QED BY <1>1, <1>2, EmptyList

\* Taking subscriptions out of the lists.
LEMMA TakenOut ==
    ASSUME IInv, NEW ids, TakeOut(ids)
    PROVE  /\ list' \in [Entries -> Seq(Ids)]
           /\ \A e \in Entries : ToSet(list'[e]) = ToSet(list[e]) \ ids /\ Ascending(list'[e])
<1>1. Ids \subseteq Nat
  BY CommunicationAssumption DEF Ids
<1>2. ASSUME NEW e \in Entries
      PROVE  /\ list'[e] = Within(list[e], Ids \ ids) /\ list'[e] \in Seq(Ids)
             /\ ToSet(list'[e]) = ToSet(list[e]) \ ids /\ Ascending(list'[e])
  <2>1. list'[e] = Within(list[e], Ids \ ids)
    BY DEF TakeOut
  <2>2. list[e] \in Seq(Ids) /\ ToSet(list[e]) \subseteq Ids
    BY ListsTyped
  <2>3. Ascending(list[e])
    BY DEF IInv, BooksInv
  <2>4. /\ Within(list[e], Ids \ ids) \in Seq(Ids)
        /\ ToSet(Within(list[e], Ids \ ids)) = ToSet(list[e]) \cap (Ids \ ids)
        /\ Ascending(Within(list[e], Ids \ ids))
    BY <1>1, <2>2, <2>3, WithinProperties
  <2> QED BY <2>1, <2>2, <2>4
<1>3. list' = [e \in Entries |-> list'[e]]
  BY DEF TakeOut
<1> QED BY <1>2, <1>3

\* Subscriptions leave, and with the last one of an entry its name; names of
\* handlers may go as well.
LEMMA Leaving ==
    ASSUME IInv, NEW ids, NEW gone,
           list' \in [Entries -> Seq(Ids)],
           \A e \in Entries : ToSet(list'[e]) = ToSet(list[e]) \ ids /\ Ascending(list'[e]),
           subKey' = [i \in Ids |-> IF i \in ids THEN NoKey ELSE subKey[i]],
           table' = [k \in Keys |-> IF k \in gone THEN None ELSE table[k]],
           \A k \in Events : k \in gone \/ table[k] = None
                                <=> table[k] = None \/ ToSet(list[table[k]]) \subseteq ids,
           UNCHANGED <<nextEntry, nextId, handle>>
    PROVE  BooksInv' /\ TableInv' /\ HandleInv' /\ Calls \subseteq Calls'
<1> USE CommunicationAssumption DEF IInv
<1>1. \A k \in Keys : table[k] \in {None} \cup Entries
  BY DEF NamesTyped
<1>2. \A k \in Keys : table'[k] = IF k \in gone THEN None ELSE table[k]
  OBVIOUS
<1>3. \A k \in Events : k \in Keys /\ k # NoKey
  BY DEF Keys, NoKey
<1>4. \A k \in Events : Live(k)' = Live(k) \ ids
  BY <1>3 DEF Live
<1>5. None \notin Entries
  BY DEF None, Entries
<1>6. BooksInv'
  <2>1. ASSUME NEW k \in Events
        PROVE  /\ table'[k] = None => Live(k)' = {}
               /\ table'[k] # None => Live(k)' = ToSet(list'[table'[k]]) /\ Live(k)' # {}
    <3>1. CASE table[k] = None
      <4>1. Live(k) = {} /\ table'[k] = None
        BY <1>2, <1>3, <3>1 DEF BooksInv
      <4> QED BY <1>4, <4>1
    <3>2. CASE table[k] # None
      <4>1. table[k] \in Entries /\ Live(k) = ToSet(list[table[k]])
        BY <1>1, <1>3, <3>2 DEF BooksInv
      <4>2. ToSet(list'[table[k]]) = Live(k)'
        BY <1>4, <4>1
      <4>3. table'[k] = None <=> Live(k)' = {}
        BY <1>2, <1>3, <1>4, <1>5, <3>2, <4>1
      <4> QED BY <1>2, <1>3, <4>2, <4>3
    <3> QED BY <3>1, <3>2
  <2>2. ASSUME NEW e \in Entries, \A k \in Events : table'[k] # e
        PROVE  list'[e] = <<>>
    <3>1. ToSet(list'[e]) = {}
      <4>1. CASE \A k \in Events : table[k] # e
        <5>1. ToSet(list[e]) = {}
          BY <4>1, ListsTyped DEF BooksInv
        <5> QED BY <5>1
      <4>2. CASE \E k \in Events : table[k] = e
        <5>1. PICK k \in Events : table[k] = e
          BY <4>2
        <5>2. ToSet(list[e]) \subseteq ids
          BY <1>2, <1>3, <1>5, <2>2, <5>1
        <5> QED BY <5>2
      <4> QED BY <4>1, <4>2
    <3>2. list'[e] \in Seq(Ids)
      OBVIOUS
    <3> QED BY <3>1, <3>2, EmptyList
  <2>3. \A e \in Entries : Ascending(list[e])'
    BY DEF Ascending
  <2> QED BY <2>1, <2>2, <2>3 DEF BooksInv
<1>7. nextEntry \in Nat \ {0} /\ \A k \in Keys : table[k] < nextEntry
  BY DEF TableInv, NamesTyped
<1>8. TableInv'
  <2>1. \A k \in Keys : table'[k] < nextEntry'
    BY <1>2, <1>7 DEF None
  <2>2. \A j, k \in Keys : table'[j] = table'[k] /\ table'[j] # None => j = k
    BY <1>2 DEF TableInv
  <2>3. \A i \in Ids : subKey'[i] # NoKey => i < nextId'
    BY DEF TableInv
  <2> QED BY <2>1, <2>2, <2>3 DEF TableInv
<1>9. \A e \in Entries, key \in Keys : Names(e, key) => Names(e, key)'
  BY <1>2, <1>5 DEF Names
<1>10. HandleInv'
  BY <1>9 DEF HandleInv, NamesTyped
<1>11. ASSUME NEW f \in Frames, FoundOne(f) PROVE FoundOne(f)'
  <2>1. PICK e \in Entries :
           /\ f.pins = {e} /\ f.key \in Events /\ Names(e, f.key) /\ f.born <= nextId
           /\ f.op # "handle" => {i \in Live(f.key) : i < f.born} \subseteq ToSet(list[e])
    BY <1>11 DEF FoundOne
  <2>2. Names(e, f.key)'
    BY <1>3, <1>9, <2>1
  <2>3. f.op # "handle" => {i \in Live(f.key)' : i < f.born} \subseteq ToSet(list'[e])
    BY <1>4, <2>1
  <2> QED BY <2>1, <2>2, <2>3 DEF FoundOne
<1>12. Calls \subseteq Calls'
  BY <1>11, CallsStay
<1> QED BY <1>6, <1>8, <1>10, <1>12

\* A name is given to a handler.
LEMMA Naming ==
    ASSUME IInv, NEW t \in Threads, NEW k \in Handlers, NEW o \in Owners, RegisterHandler(t, k, o)
    PROVE  BooksInv' /\ TableInv' /\ HandleInv' /\ Calls \subseteq Calls'
<1> USE CommunicationAssumption DEF IInv
<1>1. /\ table[k] = None /\ nextEntry' = nextEntry + 1 /\ handle' = handle
      /\ UNCHANGED <<list, nextId, subKey>>
      /\ \A j \in Keys : table'[j] = IF j = k THEN nextEntry ELSE table[j]
  BY DEF RegisterHandler, NamesTyped, Keys, Changed
<1>2. /\ nextEntry \in Nat \ {0} /\ \A j \in Keys : table[j] < nextEntry /\ table[j] \in Nat
      /\ k \in Keys /\ k \notin Events /\ Events \subseteq Keys
  BY DEF NamesTyped, TableInv, Keys, None, Entries
<1>3. BooksInv'
  <2>1. \A j \in Events : table'[j] = table[j] /\ Live(j)' = Live(j)
    BY <1>1, <1>2 DEF Live
  <2>2. \A e \in Entries : (\A j \in Events : table'[j] # e) => list'[e] = <<>>
    BY <1>1, <2>1 DEF BooksInv
  <2>3. \A e \in Entries : Ascending(list[e])'
    BY <1>1 DEF BooksInv, Ascending
  <2> QED BY <1>1, <2>1, <2>2, <2>3 DEF BooksInv
<1>4. TableInv'
  <2>1. \A j \in Keys : table'[j] < nextEntry'
    BY <1>1, <1>2
  <2>2. \A i, j \in Keys : table'[i] = table'[j] /\ table'[i] # None => i = j
    BY <1>1, <1>2 DEF TableInv
  <2> QED BY <1>1, <2>1, <2>2 DEF TableInv
<1>5. \A e \in Entries, key \in Keys : Names(e, key) => Names(e, key)'
  <2> SUFFICES ASSUME NEW e \in Entries, NEW key \in Keys, Names(e, key) PROVE Names(e, key)'
    OBVIOUS
  <2>1. e \in Nat /\ e < nextEntry
    BY DEF Entries, Names
  <2> QED BY <1>1, <1>2, <2>1 DEF Names
<1>6. HandleInv'
  BY <1>1, <1>5 DEF HandleInv, NamesTyped
<1>7. ASSUME NEW f \in Frames, FoundOne(f) PROVE FoundOne(f)'
  <2>1. Live(f.key)' = Live(f.key)
    BY <1>1 DEF Live
  <2> QED BY <1>1, <1>2, <1>5, <1>7, <2>1 DEF FoundOne
<1>8. Calls \subseteq Calls'
  BY <1>7, CallsStay
<1> QED BY <1>3, <1>4, <1>6, <1>8

\* What a list holds has been given out already.
LEMMA GivenOut ==
    ASSUME IInv
    PROVE  /\ nextId \in Nat
           /\ \A e \in Entries : \A i \in ToSet(list[e]) :
                 i \in Ids /\ i < nextId /\ \E k \in Events : table[k] = e /\ subKey[i] = k
           /\ \A i \in Ids : i >= nextId => subKey[i] = NoKey
<1>1. nextId \in Nat /\ Ids \subseteq Nat
  BY CommunicationAssumption DEF IInv, NamesTyped, Ids
<1>2. ASSUME NEW e \in Entries, NEW i \in ToSet(list[e])
      PROVE  i \in Ids /\ i < nextId /\ \E k \in Events : table[k] = e /\ subKey[i] = k
  <2>1. list[e] # <<>>
    BY ListsTyped
  <2>2. PICK k \in Events : table[k] = e
    BY <2>1 DEF IInv, BooksInv
  <2>3. i \in Live(k)
    <3>1. table[k] # None
      BY <2>2 DEF Entries, None
    <3> QED BY <2>2, <3>1 DEF IInv, BooksInv
  <2>4. i \in Ids /\ subKey[i] = k /\ k # NoKey
    BY <2>3, CommunicationAssumption DEF Live, NoKey
  <2> QED BY <2>2, <2>4 DEF IInv, TableInv
<1>3. \A i \in Ids : i >= nextId => subKey[i] = NoKey
  BY <1>1 DEF IInv, TableInv
<1> QED BY <1>1, <1>2, <1>3

\* A subscription is made.
LEMMA Entering ==
    ASSUME IInv, NEW t \in Threads, NEW k \in Events, NEW o \in Owners, Register(t, k, o)
    PROVE  /\ BooksInv' /\ TableInv' /\ HandleInv' /\ Calls \subseteq Calls'
           /\ list' \in [Entries -> Seq(Ids)] /\ nextEntry' \in 1 .. MaxEntries + 1
           /\ table' \in [Keys -> {None} \cup Entries]
<1> USE CommunicationAssumption DEF IInv
<1> DEFINE e == IF table[k] = None THEN nextEntry ELSE table[k]
<1>1. /\ nextEntry \in Nat \ {0} /\ \A j \in Keys : table[j] < nextEntry /\ table[j] \in Nat
      /\ k \in Keys /\ k \notin Handlers /\ Events \subseteq Keys /\ k # NoKey
      /\ MaxEntries \in Nat /\ nextEntry <= MaxEntries + 1
  BY DEF NamesTyped, TableInv, Keys, None, Entries, NoKey
<1>2. e \in Entries /\ e \in Nat \ {0} /\ e <= nextEntry /\ e <= MaxEntries
  BY <1>1 DEF Register, NamesTyped, None, Entries
<1>3. nextId \in Ids /\ nextId \in Nat /\ subKey[nextId] = NoKey
  <2>1. nextId \in Ids /\ nextId \in Nat
    BY DEF Register, NamesTyped, Ids
  <2> QED BY <2>1, GivenOut
<1>4. /\ table' = [table EXCEPT ![k] = e]
      /\ list' = [list EXCEPT ![e] = Append(@, nextId)]
      /\ nextEntry' = (IF e = nextEntry THEN nextEntry + 1 ELSE nextEntry)
      /\ subKey' = [subKey EXCEPT ![nextId] = k]
      /\ nextId' = nextId + 1 /\ handle' = handle
  BY DEF Register, Changed
<1>5. \A j \in Keys : table[j] = e => j = k
  BY <1>1 DEF TableInv, None
<1>6. table[k] = None => list[e] = <<>>
  BY <1>1, <1>2 DEF BooksInv
<1>7. e < nextEntry' /\ nextEntry <= nextEntry' /\ nextEntry' \in 1 .. MaxEntries + 1
  BY <1>1, <1>2, <1>4
<1>8. list[e] \in Seq(Ids) /\ \A i \in ToSet(list[e]) : i \in Nat /\ i < nextId
  <2>1. Ids \subseteq Nat
    BY DEF Ids
  <2> QED BY <1>2, <2>1, ListsTyped, GivenOut
<1> HIDE DEF e
<1>9. /\ \A j \in Keys : table'[j] = IF j = k THEN e ELSE table[j]
      /\ \A d \in Entries : list'[d] = IF d = e THEN Append(list[e], nextId) ELSE list[d]
      /\ \A i \in Ids : subKey'[i] = IF i = nextId THEN k ELSE subKey[i]
  BY <1>1, <1>2, <1>3, <1>4 DEF NamesTyped
<1>10. /\ Append(list[e], nextId) \in Seq(Ids)
       /\ ToSet(Append(list[e], nextId)) = ToSet(list[e]) \cup {nextId}
       /\ Ascending(Append(list[e], nextId))
  <2>1. PICK p \in Seq(Ids) : p = list[e]
    BY <1>8
  <2>2. PICK x \in Ids : x = nextId
    BY <1>3
  <2>3. /\ Append(p, x) \in Seq(Ids) /\ Len(p) \in Nat /\ DOMAIN p = 1 .. Len(p)
        /\ Len(Append(p, x)) = Len(p) + 1
        /\ \A i \in 1 .. Len(p) : Append(p, x)[i] = p[i]
        /\ Append(p, x)[Len(p) + 1] = x
    BY AppendProperties, LenProperties
  <2>4. DOMAIN Append(p, x) = 1 .. Len(p) + 1
    BY <2>3, LenProperties
  <2>5. \A i : i \in 1 .. Len(p) + 1 <=> i \in 1 .. Len(p) \/ i = Len(p) + 1
    BY <2>3
  <2>6. ToSet(Append(p, x)) = ToSet(p) \cup {x}
    BY <2>3, <2>4, <2>5 DEF ToSet
  <2>7. Ascending(p)
    BY <1>2, <2>1 DEF BooksInv
  <2>8. \A i \in 1 .. Len(p) : p[i] \in ToSet(p)
    BY <2>3 DEF ToSet
  <2>9. \A i \in 1 .. Len(p) : p[i] < x
    BY <1>8, <2>1, <2>2, <2>8
  <2>10. Ascending(Append(p, x))
    BY <2>3, <2>4, <2>5, <2>7, <2>9 DEF Ascending
  <2> QED BY <2>1, <2>2, <2>3, <2>6, <2>10
<1>11. list' \in [Entries -> Seq(Ids)] /\ table' \in [Keys -> {None} \cup Entries]
  BY <1>2, <1>4, <1>10 DEF NamesTyped
<1>12. \A j \in Events : Live(j)' = IF j = k THEN Live(j) \cup {nextId} ELSE Live(j)
  <2>1. \A j \in Events : j # NoKey
    BY DEF NoKey
  <2> QED BY <1>3, <1>9, <2>1 DEF Live
<1>13. BooksInv'
  <2>1. ASSUME NEW j \in Events
        PROVE  /\ table'[j] = None => Live(j)' = {}
               /\ table'[j] # None => Live(j)' = ToSet(list'[table'[j]]) /\ Live(j)' # {}
    <3>1. CASE j = k
      <4>1. table'[k] = e /\ e # None
        BY <1>1, <1>2, <1>9 DEF None
      <4>2. Live(k) = ToSet(list[e])
        <5>1. CASE table[k] = None
          <6>1. ToSet(list[e]) = {}
            BY <1>6, <5>1 DEF ToSet
          <6> QED BY <5>1, <6>1 DEF BooksInv
        <5>2. CASE table[k] # None
          BY <5>2 DEF BooksInv, e
        <5> QED BY <5>1, <5>2
      <4> QED BY <1>2, <1>9, <1>10, <1>12, <3>1, <4>1, <4>2
    <3>2. CASE j # k
      <4>1. table'[j] = table[j] /\ Live(j)' = Live(j) /\ table[j] # e
        BY <1>1, <1>5, <1>9, <1>12, <3>2
      <4>2. table[j] # None => table[j] \in Entries
        BY <1>1 DEF NamesTyped
      <4>3. table[j] # None => list'[table[j]] = list[table[j]]
        BY <1>9, <4>1, <4>2
      <4> QED BY <4>1, <4>3 DEF BooksInv
    <3> QED BY <3>1, <3>2
  <2>2. ASSUME NEW d \in Entries, \A j \in Events : table'[j] # d PROVE list'[d] = <<>>
    <3>1. d # e
      BY <1>1, <1>9, <2>2
    <3>2. \A j \in Events : table[j] # d
      <4> SUFFICES ASSUME NEW j \in Events, table[j] = d PROVE FALSE
        OBVIOUS
      <4>1. j = k
        BY <1>1, <1>9, <2>2
      <4>2. table[k] # None
        BY <4>1 DEF None, Entries
      <4> QED BY <3>1, <4>1, <4>2 DEF e
    <3> QED BY <1>9, <3>1, <3>2 DEF BooksInv
  <2>3. ASSUME NEW d \in Entries PROVE Ascending(list[d])'
    <3>1. Ascending(list'[d])
      BY <1>9, <1>10 DEF BooksInv
    <3> QED BY <3>1 DEF Ascending
  <2> QED BY <2>1, <2>2, <2>3 DEF BooksInv
<1>14. TableInv'
  <2>1. \A j \in Keys : table'[j] < nextEntry'
    <3>1. ASSUME NEW j \in Keys PROVE table'[j] < nextEntry'
      <4>1. table[j] < nextEntry /\ table[j] \in Nat /\ nextEntry' \in Nat
        BY <1>1, <1>7
      <4> QED BY <1>1, <1>7, <1>9, <4>1
    <3> QED BY <3>1
  <2>2. \A i, j \in Keys : table'[i] = table'[j] /\ table'[i] # None => i = j
    BY <1>5, <1>9 DEF TableInv
  <2>3. ASSUME NEW i \in Ids, subKey'[i] # NoKey PROVE i < nextId'
    <3>1. i \in Nat
      BY DEF Ids
    <3>2. i = nextId \/ i < nextId
      BY <1>9, <2>3 DEF TableInv
    <3> QED BY <1>3, <1>4, <3>1, <3>2
  <2> QED BY <2>1, <2>2, <2>3 DEF TableInv
<1>15. ASSUME NEW d \in Entries, NEW key \in Keys, Names(d, key) PROVE Names(d, key)'
  <2>1. d \in Nat /\ d < nextEntry /\ nextEntry' \in Nat
    BY <1>7, <1>15 DEF Entries, Names
  <2>2. d < nextEntry'
    BY <1>1, <1>7, <2>1
  <2>3. ASSUME NEW j \in Keys, table'[j] = d PROVE j = key
    <3>1. CASE j # k
      BY <1>9, <1>15, <2>3, <3>1 DEF Names
    <3>2. CASE j = k
      <4>1. e = d
        BY <1>9, <2>3, <3>2
      <4>2. table[k] = e
        BY <1>1, <2>1, <4>1 DEF e
      <4> QED BY <1>1, <1>15, <3>2, <4>1, <4>2 DEF Names
    <3> QED BY <3>1, <3>2
  <2> QED BY <2>2, <2>3 DEF Names
<1>16. HandleInv'
  BY <1>4, <1>15 DEF HandleInv, NamesTyped
<1>17. ASSUME NEW f \in Frames, FoundOne(f) PROVE FoundOne(f)'
  <2>1. PICK d \in Entries :
           /\ f.pins = {d} /\ f.key \in Events /\ Names(d, f.key) /\ f.born <= nextId
           /\ f.op # "handle" => {i \in Live(f.key) : i < f.born} \subseteq ToSet(list[d])
    BY <1>17 DEF FoundOne
  <2>2. f.born \in Nat
    BY DEF Frames
  <2>3. Names(d, f.key)' /\ f.born <= nextId'
    BY <1>1, <1>3, <1>4, <1>15, <2>1, <2>2
  <2>4. ToSet(list[d]) \subseteq ToSet(list'[d])
    BY <1>9, <1>10
  <2>5. \A i \in Live(f.key)' : i < f.born => i \in Live(f.key)
    <3>1. ~(nextId < f.born)
      BY <1>3, <2>1, <2>2
    <3> QED BY <1>12, <2>1, <3>1
  <2>6. f.op # "handle" => {i \in Live(f.key)' : i < f.born} \subseteq ToSet(list'[d])
    BY <2>1, <2>4, <2>5
  <2> QED BY <2>1, <2>3, <2>6 DEF FoundOne
<1>18. Calls \subseteq Calls'
  BY <1>17, CallsStay
<1> QED BY <1>7, <1>11, <1>13, <1>14, <1>16, <1>18

-----------------------------------------------------------------------------
(* What a change reports.                                                  *)

\* A list that has nothing twice.
Single(s) == \A i, j \in DOMAIN s : s[i] = s[j] => i = j

LEMMA Joined ==
    ASSUME NEW X, NEW a \in Seq(X), NEW b \in Seq(X)
    PROVE  /\ a \o b \in Seq(X)
           /\ ToSet(a \o b) = ToSet(a) \cup ToSet(b)
           /\ Single(a) /\ Single(b) /\ ToSet(a) \cap ToSet(b) = {} => Single(a \o b)
<1>1. /\ a \o b \in Seq(X) /\ Len(a) \in Nat /\ Len(b) \in Nat
      /\ DOMAIN a = 1 .. Len(a) /\ DOMAIN b = 1 .. Len(b)
      /\ Len(a \o b) = Len(a) + Len(b)
      /\ \A i \in 1 .. Len(a) + Len(b) : (a \o b)[i] = IF i <= Len(a) THEN a[i] ELSE b[i - Len(a)]
  BY ConcatProperties, LenProperties
<1>2. DOMAIN (a \o b) = 1 .. Len(a) + Len(b)
  BY <1>1, LenProperties
<1> DEFINE c == a \o b
<1>3. /\ DOMAIN c = 1 .. Len(a) + Len(b)
      /\ \A i \in 1 .. Len(a) : i \in DOMAIN c /\ c[i] = a[i]
      /\ \A i \in 1 .. Len(b) : i + Len(a) \in DOMAIN c /\ c[i + Len(a)] = b[i]
      /\ \A i \in DOMAIN c : i \in 1 .. Len(a) \/ (i - Len(a) \in 1 .. Len(b) /\ c[i] = b[i - Len(a)])
  BY <1>1, <1>2
<1> HIDE DEF c
<1>4. ToSet(c) = ToSet(a) \cup ToSet(b)
  <2>1. ASSUME NEW x \in ToSet(c) PROVE x \in ToSet(a) \cup ToSet(b)
    <3>1. PICK i \in DOMAIN c : x = c[i]
      BY DEF ToSet
    <3>2. CASE i \in 1 .. Len(a)
      BY <1>1, <1>3, <3>1, <3>2 DEF ToSet
    <3>3. CASE i - Len(a) \in 1 .. Len(b) /\ c[i] = b[i - Len(a)]
      BY <1>1, <3>1, <3>3 DEF ToSet
    <3> QED BY <1>3, <3>2, <3>3
  <2>2. ASSUME NEW x \in ToSet(a) PROVE x \in ToSet(c)
    <3>1. PICK i \in 1 .. Len(a) : x = a[i]
      BY <1>1 DEF ToSet
    <3> QED BY <1>3, <3>1 DEF ToSet
  <2>3. ASSUME NEW x \in ToSet(b) PROVE x \in ToSet(c)
    <3>1. PICK i \in 1 .. Len(b) : x = b[i]
      BY <1>1 DEF ToSet
    <3> QED BY <1>3, <3>1 DEF ToSet
  <2> QED BY <2>1, <2>2, <2>3
<1>5. ASSUME Single(a), Single(b), ToSet(a) \cap ToSet(b) = {},
             NEW i \in DOMAIN c, NEW j \in DOMAIN c, c[i] = c[j]
      PROVE  i = j
  <2>0. i \in Nat /\ j \in Nat
    BY <1>1, <1>3
  <2>1. CASE i \in 1 .. Len(a) /\ j \in 1 .. Len(a)
    BY <1>1, <1>3, <1>5, <2>1 DEF Single
  <2>2. CASE i \in 1 .. Len(a) /\ j \notin 1 .. Len(a)
    <3>1. c[i] \in ToSet(a) /\ c[j] \in ToSet(b)
      BY <1>1, <1>3, <2>2 DEF ToSet
    <3> QED BY <1>5, <3>1
  <2>3. CASE i \notin 1 .. Len(a) /\ j \in 1 .. Len(a)
    <3>1. c[j] \in ToSet(a) /\ c[i] \in ToSet(b)
      BY <1>1, <1>3, <2>3 DEF ToSet
    <3> QED BY <1>5, <3>1
  <2>4. CASE i \notin 1 .. Len(a) /\ j \notin 1 .. Len(a)
    <3>1. /\ i - Len(a) \in DOMAIN b /\ j - Len(a) \in DOMAIN b
          /\ b[i - Len(a)] = b[j - Len(a)]
      BY <1>1, <1>3, <1>5, <2>4
    <3>2. i - Len(a) = j - Len(a)
      BY <1>5, <3>1 DEF Single
    <3> QED BY <1>1, <2>0, <3>2
  <2> QED BY <2>1, <2>2, <2>3, <2>4
<1>6. Single(a) /\ Single(b) /\ ToSet(a) \cap ToSet(b) = {} => Single(c)
  BY <1>5 DEF Single
<1> QED BY <1>1, <1>4, <1>6 DEF c

\* g joins the first n lists of ss.
Joins(g, ss, X, n) ==
    /\ g \in [1 .. n -> Seq(X)]
    /\ \A k \in 1 .. n : g[k] = IF k = 1 THEN ss[1] ELSE g[k - 1] \o ss[k]

LEMMA JoinsExists ==
    ASSUME NEW X, NEW ss \in Seq(Seq(X))
    PROVE  \A n \in 1 .. Len(ss) : \E g : Joins(g, ss, X, n)
<1> DEFINE T == {n \in 1 .. Len(ss) : ~ \E g : Joins(g, ss, X, n)}
<1> SUFFICES ASSUME T # {} PROVE FALSE
  OBVIOUS
<1>0. Len(ss) \in Nat /\ \A n \in 1 .. Len(ss) : ss[n] \in Seq(X)
  BY LenProperties, ElementOfSeq
<1>1. T \in SUBSET Nat
  OBVIOUS
<1> HIDE DEF T
<1>2. PICK m \in T : \A n \in T : m <= n
  BY <1>1, LeastNat
<1>3. m \in 1 .. Len(ss) /\ ~ \E g : Joins(g, ss, X, m)
  BY <1>2 DEF T
<1>4. CASE m = 1
  <2>1. Joins([k \in 1 .. 1 |-> ss[1]], ss, X, 1)
    BY <1>0, <1>3, <1>4 DEF Joins
  <2> QED BY <1>3, <1>4, <2>1
<1>5. CASE m # 1
  <2>1. m - 1 \in 1 .. Len(ss) /\ m - 1 \notin T
    BY <1>0, <1>2, <1>3, <1>5
  <2>2. PICK g : Joins(g, ss, X, m - 1)
    BY <2>1 DEF T
  <2>3. PICK last : last = g[m - 1] \o ss[m]
    OBVIOUS
  <2>4. last \in Seq(X)
    <3>1. g[m - 1] \in Seq(X) /\ ss[m] \in Seq(X)
      BY <1>0, <1>3, <2>1, <2>2 DEF Joins
    <3> QED BY <2>3, <3>1, ConcatProperties
  <2> DEFINE h == [k \in 1 .. m |-> IF k = m THEN last ELSE g[k]]
  <2>5. h \in [1 .. m -> Seq(X)]
    BY <1>0, <1>3, <2>2, <2>4 DEF Joins
  <2>6. ASSUME NEW k \in 1 .. m
        PROVE  h[k] = IF k = 1 THEN ss[1] ELSE h[k - 1] \o ss[k]
    <3>1. CASE k = m
      <4>1. m \in 1 .. m /\ m - 1 \in 1 .. m /\ m - 1 # m
        BY <1>0, <1>3, <2>1
      <4>2. h[m] = last /\ h[m - 1] = g[m - 1]
        BY <4>1
      <4> HIDE DEF h
      <4> QED BY <1>5, <2>3, <3>1, <4>2
    <3>2. CASE k # m
      <4>1. k \in 1 .. m - 1 /\ (k # 1 => k - 1 \in 1 .. m /\ k - 1 # m)
        BY <1>0, <1>3, <3>2
      <4> QED BY <2>2, <4>1, <3>2 DEF Joins
    <3> QED BY <3>1, <3>2
  <2>7. Joins(h, ss, X, m)
    <3> HIDE DEF h
    <3> QED BY <2>5, <2>6 DEF Joins
  <2> QED BY <1>3, <2>7
<1> QED BY <1>4, <1>5

\* The recursion of FlattenSeq() is such a function.
LEMMA FlattenJoins ==
    ASSUME NEW X, NEW ss \in Seq(Seq(X)), ss # <<>>
    PROVE  \E g : Joins(g, ss, X, Len(ss)) /\ FlattenSeq(ss) = g[Len(ss)]
<1> DEFINE flatten[i \in 1 .. Len(ss)] ==
            IF i = 1 THEN ss[i] ELSE flatten[i - 1] \o ss[i]
<1>1. Len(ss) \in Nat \ {0} /\ Len(ss) \in 1 .. Len(ss)
  BY EmptySeq
<1>2. PICK g : Joins(g, ss, X, Len(ss))
  BY <1>1, JoinsExists
<1>3. g = [i \in 1 .. Len(ss) |-> IF i = 1 THEN ss[i] ELSE g[i - 1] \o ss[i]]
  BY <1>2 DEF Joins
<1>4. flatten = [i \in 1 .. Len(ss) |-> IF i = 1 THEN ss[i] ELSE flatten[i - 1] \o ss[i]]
  BY <1>3
<1>5. FlattenSeq(ss) = flatten[Len(ss)]
  BY <1>1 DEF FlattenSeq
<1> HIDE DEF flatten
<1>6. \A i \in 1 .. Len(ss) : flatten[i] = IF i = 1 THEN ss[i] ELSE flatten[i - 1] \o ss[i]
  BY <1>4
<1>7. \A n \in 1 .. Len(ss) : flatten[n] = g[n]
  <2> DEFINE T == {n \in 1 .. Len(ss) : flatten[n] # g[n]}
  <2> SUFFICES ASSUME T # {} PROVE FALSE
    OBVIOUS
  <2>1. T \in SUBSET Nat
    OBVIOUS
  <2> HIDE DEF T
  <2>2. PICK m \in T : \A n \in T : m <= n
    BY <2>1, LeastNat
  <2>3. m \in 1 .. Len(ss) /\ flatten[m] # g[m]
    BY <2>2 DEF T
  <2>4. m # 1
    BY <1>2, <1>6, <2>3 DEF Joins
  <2>5. m - 1 \in 1 .. Len(ss) /\ m - 1 \notin T
    BY <1>1, <2>2, <2>3, <2>4
  <2>6. flatten[m - 1] = g[m - 1]
    BY <2>5 DEF T
  <2> QED BY <1>2, <1>6, <2>3, <2>4, <2>6 DEF Joins
<1> QED BY <1>1, <1>2, <1>5, <1>7

\* What lists make when they are joined: everything they hold, and nothing
\* twice if no two of them share anything.
LEMMA Flattened ==
    ASSUME NEW X, NEW ss \in Seq(Seq(X))
    PROVE  /\ FlattenSeq(ss) \in Seq(X)
           /\ \A x : x \in ToSet(FlattenSeq(ss)) <=> \E i \in DOMAIN ss : x \in ToSet(ss[i])
           /\ (\A i \in DOMAIN ss : Single(ss[i]))
              /\ (\A i, j \in DOMAIN ss : i # j => ToSet(ss[i]) \cap ToSet(ss[j]) = {})
              => Single(FlattenSeq(ss))
<1>0. /\ Len(ss) \in Nat /\ DOMAIN ss = 1 .. Len(ss)
      /\ \A n \in 1 .. Len(ss) : ss[n] \in Seq(X)
  BY LenProperties, ElementOfSeq
<1>1. CASE ss = <<>>
  <2>1. FlattenSeq(ss) = <<>> /\ DOMAIN ss = {} /\ <<>> \in Seq(X)
    BY <1>1 DEF FlattenSeq
  <2> QED BY <1>1, <2>1 DEF ToSet, Single
<1>2. CASE ss # <<>>
  <2>1. PICK g : Joins(g, ss, X, Len(ss)) /\ FlattenSeq(ss) = g[Len(ss)]
    BY <1>2, FlattenJoins
  <2>2. Len(ss) \in 1 .. Len(ss)
    BY <1>2, EmptySeq
  <2> DEFINE Apart == /\ \A i \in DOMAIN ss : Single(ss[i])
                      /\ \A i, j \in DOMAIN ss : i # j => ToSet(ss[i]) \cap ToSet(ss[j]) = {}
             Good(n) == /\ \A x : x \in ToSet(g[n]) <=> \E i \in 1 .. n : x \in ToSet(ss[i])
                        /\ Apart => Single(g[n])
  <2>3. \A n \in 1 .. Len(ss) : Good(n)
    <3> DEFINE T == {n \in 1 .. Len(ss) : ~Good(n)}
    <3> SUFFICES ASSUME T # {} PROVE FALSE
      OBVIOUS
    <3>1. T \in SUBSET Nat
      OBVIOUS
    <3> HIDE DEF T
    <3>2. PICK m \in T : \A n \in T : m <= n
      BY <3>1, LeastNat
    <3>3. m \in 1 .. Len(ss) /\ ~Good(m)
      BY <3>2 DEF T
    <3>4. CASE m = 1
      <4>1. g[1] = ss[1]
        BY <2>1, <3>3, <3>4 DEF Joins
      <4>2. \A i : i \in 1 .. 1 <=> i = 1
        OBVIOUS
      <4>3. Apart => Single(ss[1])
        BY <1>0, <3>3, <3>4
      <4> QED BY <3>3, <3>4, <4>1, <4>2, <4>3
    <3>5. CASE m # 1
      <4>1. m - 1 \in 1 .. Len(ss) /\ m - 1 \notin T
        BY <1>0, <3>2, <3>3, <3>5
      <4>2. Good(m - 1)
        BY <4>1 DEF T
      <4>3. g[m - 1] \in Seq(X) /\ ss[m] \in Seq(X) /\ g[m] = g[m - 1] \o ss[m]
        BY <1>0, <2>1, <3>3, <3>5, <4>1 DEF Joins
      <4>4. \A i : i \in 1 .. m <=> i \in 1 .. m - 1 \/ i = m
        BY <1>0, <3>3
      <4>5. Apart => ToSet(g[m - 1]) \cap ToSet(ss[m]) = {} /\ Single(ss[m])
        <5> SUFFICES ASSUME Apart PROVE ToSet(g[m - 1]) \cap ToSet(ss[m]) = {} /\ Single(ss[m])
          OBVIOUS
        <5>1. \A i \in 1 .. m - 1 : ToSet(ss[i]) \cap ToSet(ss[m]) = {}
          <6>1. \A i \in 1 .. m - 1 : i \in DOMAIN ss /\ m \in DOMAIN ss /\ i # m
            BY <1>0, <3>3
          <6> QED BY <6>1
        <5>2. ToSet(g[m - 1]) \cap ToSet(ss[m]) = {}
          BY <4>2, <5>1
        <5> QED BY <1>0, <3>3, <5>2
      <4>6. /\ ToSet(g[m]) = ToSet(g[m - 1]) \cup ToSet(ss[m])
            /\ Single(g[m - 1]) /\ Single(ss[m]) /\ ToSet(g[m - 1]) \cap ToSet(ss[m]) = {}
                  => Single(g[m])
        BY <4>3, Joined
      <4>7. Good(m)
        <5> HIDE DEF Apart
        <5>1. \A x : x \in ToSet(g[m - 1]) <=> \E i \in 1 .. m - 1 : x \in ToSet(ss[i])
          BY <4>2
        <5>2. \A x : x \in ToSet(g[m]) <=> \E i \in 1 .. m : x \in ToSet(ss[i])
          BY <4>4, <4>6, <5>1
        <5>3. Apart => Single(g[m])
          BY <4>2, <4>5, <4>6
        <5> QED BY <5>2, <5>3
      <4> QED BY <3>3, <4>7
    <3> QED BY <3>4, <3>5
  <2>4. Good(Len(ss))
    <3> HIDE DEF Good
    <3> QED BY <2>2, <2>3
  <2>5. FlattenSeq(ss) \in Seq(X)
    BY <2>1, <2>2 DEF Joins
  <2> QED BY <1>0, <2>1, <2>4, <2>5
<1> QED BY <1>1, <1>2

\* The parts of a change as the calls of a thread show it.
LEMMA ChangeFrame ==
    ASSUME NEW pins \in SUBSET Entries, NEW reports \in Seq(Reports)
    PROVE  /\ Change(pins, reports) \in Seq(Calls) /\ Nested(Change(pins, reports))
           /\ \/ Change(pins, reports) = <<>> /\ pins = {} /\ reports = <<>>
              \/ \E f \in Calls : /\ Change(pins, reports) = <<f>> /\ f.op = "change"
                                  /\ f.step = "report" /\ f.reports = reports /\ f.pins = pins
<1> DEFINE f == [op |-> "change", step |-> "report", key |-> NoKey, pins |-> pins, todo |-> <<>>,
                 about |-> 0, born |-> 0, reports |-> reports]
<1>1. [Frame("change", "report", NoKey, pins) EXCEPT !.reports = reports] = f
  BY DEF Frame
<1>2. f \in Frames
  <2>1. <<>> \in Seq(Ids) /\ 0 \in Nat
    OBVIOUS
  <2> QED BY <2>1 DEF Frames
<1>3. f \in Calls
  BY <1>2 DEF Calls, FrameInv
<1>4. /\ f.op = "change" /\ f.step = "report" /\ f.reports = reports /\ f.pins = pins
  OBVIOUS
<1>5. \/ Change(pins, reports) = <<>> /\ pins = {} /\ reports = <<>>
      \/ Change(pins, reports) = <<f>>
  BY <1>1 DEF Change
<1> HIDE DEF f
<1>6. <<>> \in Seq(Calls) /\ <<f>> \in Seq(Calls) /\ Nested(<<>>) /\ Nested(<<f>>)
  BY <1>3 DEF Nested
<1> QED BY <1>3, <1>4, <1>5, <1>6

\* A change of the books whose effects are in order keeps the invariant.
LEMMA Changing ==
    ASSUME IInv, NEW t \in Threads, MayCall(t),
           NamesTyped', BooksInv', TableInv', HandleInv', Calls \subseteq Calls',
           NEW pins \in SUBSET Entries, NEW reports \in Seq(Reports), Changed(t, pins, reports)
    PROVE  IInv'
<1> DEFINE fs == Change(pins, reports)
<1>1. fs \in Seq(Calls) /\ Nested(fs)
  BY ChangeFrame
<1>2. stack' = [stack EXCEPT ![t] = @ \o fs]
  BY DEF Changed, Announced
<1> HIDE DEF fs
<1>3. stack \in [Threads -> Seq(Calls)] /\ \A u \in Threads : Nested(stack[u])
  BY DEF IInv, StackInv
<1>4. stack' \in [Threads -> Seq(Calls)]
  BY <1>1, <1>2, <1>3, StackGrows
<1>5. stack' \in [Threads -> Seq(Calls')]
  <2>1. Seq(Calls) \subseteq Seq(Calls')
    BY SeqMonotonic
  <2> QED BY <1>4, <2>1
<1>6. ASSUME NEW u \in Threads PROVE Nested(stack'[u])
  <2>1. CASE u # t
    BY <1>2, <1>3, <2>1
  <2>2. CASE u = t
    <3>1. stack[t] \in Seq(Calls) /\ stack'[t] = stack[t] \o fs
      BY <1>2, <1>3
    <3>2. \A i \in 1 .. Len(stack[t]) : stack[t][i].step \in {"report", "inside"}
      <4> SUFFICES ASSUME NEW i \in 1 .. Len(stack[t])
                   PROVE  stack[t][i].step \in {"report", "inside"}
        OBVIOUS
      <4>1. Len(stack[t]) \in Nat /\ DOMAIN stack[t] = 1 .. Len(stack[t])
        BY <3>1, LenProperties
      <4>2. CASE i < Len(stack[t])
        BY <1>3, <4>1, <4>2 DEF Nested
      <4>3. CASE i = Len(stack[t])
        <5>1. stack[t] # <<>>
          BY <3>1, <4>1, <4>3, EmptySeq
        <5> QED BY <4>3, <5>1 DEF MayCall, Inside, Top, Last
      <4> QED BY <4>1, <4>2, <4>3
    <3>3. Nested(stack[t] \o fs)
      BY <1>1, <3>1, <3>2, NestedOn
    <3> QED BY <2>2, <3>1, <3>3
  <2> QED BY <2>1, <2>2
<1>7. StackInv'
  BY <1>5, <1>6 DEF StackInv, Nested
<1> QED BY <1>7 DEF IInv

\* One report.
LEMMA OneReport ==
    ASSUME NEW topic \in Topics, NEW about \in Nat
    PROVE  /\ Report(topic, about) \in Reports
           /\ <<Report(topic, about)>> \in Seq(Reports)
           /\ \A k : Reported(k, Report(topic, about)) \in Seq(Reports)
<1>1. Report(topic, about) \in Reports
  BY DEF Report, Reports
<1>2. <<Report(topic, about)>> \in Seq(Reports) /\ <<>> \in Seq(Reports)
  BY <1>1
<1> QED BY <1>1, <1>2 DEF Reported

LEMMA Subjects ==
    ASSUME IInv
    PROVE  /\ \A k : Subscribed(k) \in Topics /\ Unsubscribed(k) \in Topics
           /\ Entries \subseteq Nat /\ Ids \subseteq Nat
           /\ \A k \in Keys : table[k] # None => table[k] \in Entries
BY DEF Subscribed, Unsubscribed, Topics, Entries, Ids, IInv, NamesTyped

LEMMA RegisterHandlerKeeps ==
    ASSUME IInv, NEW t \in Threads, NEW k \in Handlers, NEW o \in Owners, RegisterHandler(t, k, o)
    PROVE  IInv'
<1>1. BooksInv' /\ TableInv' /\ HandleInv' /\ Calls \subseteq Calls'
  BY Naming
<1>2. nextEntry \in Entries /\ nextEntry + 1 \in 1 .. MaxEntries + 1 /\ Entries \subseteq Nat
  BY CommunicationAssumption DEF RegisterHandler, IInv, NamesTyped, Entries
<1>3. NamesTyped'
  BY <1>2 DEF RegisterHandler, Changed, IInv, NamesTyped, Keys, Entries, Ids
<1>4. <<Report("handler_registered", nextEntry)>> \in Seq(Reports)
  BY <1>2, OneReport DEF Topics
<1>5. Changed(t, {nextEntry}, <<Report("handler_registered", nextEntry)>>)
  BY DEF RegisterHandler
<1>6. MayCall(t) /\ {nextEntry} \in SUBSET Entries
  BY <1>2 DEF RegisterHandler
<1> QED BY <1>1, <1>3, <1>4, <1>5, <1>6, Changing

LEMMA RegisterKeeps ==
    ASSUME IInv, NEW t \in Threads, NEW k \in Events, NEW o \in Owners, Register(t, k, o)
    PROVE  IInv'
<1>1. /\ BooksInv' /\ TableInv' /\ HandleInv' /\ Calls \subseteq Calls'
      /\ list' \in [Entries -> Seq(Ids)] /\ nextEntry' \in 1 .. MaxEntries + 1
      /\ table' \in [Keys -> {None} \cup Entries]
  BY Entering
<1>2. nextId \in Ids /\ nextId \in Nat /\ nextId + 1 \in 1 .. MaxIds + 1
  BY CommunicationAssumption DEF Register, IInv, NamesTyped, Ids
<1>3. NamesTyped'
  <2>1. /\ subKey' = [subKey EXCEPT ![nextId] = k] /\ subOwner' = [subOwner EXCEPT ![nextId] = o]
        /\ nextId' = nextId + 1 /\ UNCHANGED <<entryOwner, handle>>
    BY DEF Register, Changed
  <2> QED BY <1>1, <1>2, <2>1 DEF IInv, NamesTyped, Keys, Entries, Ids
<1>4. Reported(k, Report(Subscribed(k), nextId)) \in Seq(Reports)
  BY <1>2, OneReport, Subjects
<1>5. Changed(t, {}, Reported(k, Report(Subscribed(k), nextId)))
  BY DEF Register
<1>6. MayCall(t) /\ {} \in SUBSET Entries
  BY DEF Register
<1> QED BY <1>1, <1>3, <1>4, <1>5, <1>6, Changing

LEMMA UnregisterHandlerKeeps ==
    ASSUME IInv, NEW t \in Threads, NEW k \in Handlers, UnregisterHandler(t, k)
    PROVE  IInv'
<1>0. /\ MayCall(t) /\ table[k] # None /\ table' = [table EXCEPT ![k] = None]
      /\ Changed(t, {table[k]}, <<Report("handler_unregistered", table[k])>>)
      /\ entryOwner' = [e \in Entries |-> IF e \in {table[k]} THEN Nobody ELSE entryOwner[e]]
      /\ UNCHANGED <<list, nextEntry, nextId, subKey, subOwner, handle>>
  BY DEF UnregisterHandler, Disown, Changed
<1>1. k \in Keys /\ table[k] \in Entries /\ table[k] \in Nat
  BY <1>0, Subjects DEF Keys
<1> DEFINE nobody == {}
           gone == {k}
<1>2. /\ subKey' = [i \in Ids |-> IF i \in nobody THEN NoKey ELSE subKey[i]]
      /\ table' = [j \in Keys |-> IF j \in gone THEN None ELSE table[j]]
  BY <1>0 DEF IInv, NamesTyped
<1>3. \A j \in Events : j \in gone \/ table[j] = None
                            <=> table[j] = None \/ ToSet(list[table[j]]) \subseteq nobody
  <2> SUFFICES ASSUME NEW j \in Events, table[j] # None
               PROVE  j # k /\ ~(ToSet(list[table[j]]) \subseteq {})
    OBVIOUS
  <2>1. j # k
    BY CommunicationAssumption
  <2>2. Live(j) = ToSet(list[table[j]]) /\ Live(j) # {}
    BY DEF IInv, BooksInv
  <2> QED BY <2>1, <2>2
<1>4. /\ list' \in [Entries -> Seq(Ids)]
      /\ \A e \in Entries : ToSet(list'[e]) = ToSet(list[e]) \ nobody /\ Ascending(list'[e])
  BY <1>0 DEF IInv, NamesTyped, BooksInv
<1> HIDE DEF nobody, gone
<1>5. BooksInv' /\ TableInv' /\ HandleInv' /\ Calls \subseteq Calls'
  BY <1>0, <1>2, <1>3, <1>4, Leaving
<1>6. NamesTyped'
  BY <1>0 DEF IInv, NamesTyped, Keys, Entries, Ids
<1>7. <<Report("handler_unregistered", table[k])>> \in Seq(Reports)
  BY <1>1, OneReport DEF Topics
<1>8. {table[k]} \in SUBSET Entries
  BY <1>1
<1> QED BY <1>0, <1>5, <1>6, <1>7, <1>8, Changing

\* Which entries are left without subscribers.
LEMMA LastLeaves ==
    ASSUME IInv, NEW ids \in SUBSET Ids, NEW k \in Events
    PROVE  /\ Emptied(ids, k) => table[k] # None
           /\ Emptied(ids, k) \/ table[k] = None
                 <=> table[k] = None \/ ToSet(list[table[k]]) \subseteq ids
<1>1. Live(k) = {i \in Ids : subKey[i] = k}
  BY DEF Live
<1>2. /\ table[k] = None => Live(k) = {}
      /\ table[k] # None => Live(k) = ToSet(list[table[k]]) /\ Live(k) # {}
  BY DEF IInv, BooksInv
<1>3. ASSUME table[k] # None, ToSet(list[table[k]]) \subseteq ids PROVE Touched(ids, k)
  BY <1>1, <1>2, <1>3 DEF Touched
<1>4. Touched(ids, k) => table[k] # None
  BY <1>1, <1>2 DEF Touched
<1> QED BY <1>3, <1>4 DEF Emptied

\* What forgetting subscriptions leaves typed.
LEMMA Forgotten ==
    ASSUME IInv, NEW ids, Forget(ids)
    PROVE  /\ subKey' = [i \in Ids |-> IF i \in ids THEN NoKey ELSE subKey[i]]
           /\ subKey' \in [Ids -> Events \cup {NoKey}]
           /\ subOwner' \in [Ids -> Owners \cup {Nobody}]
BY DEF Forget, IInv, NamesTyped

LEMMA UnregisterKeeps ==
    ASSUME IInv, NEW t \in Threads, NEW id \in Ids, Unregister(t, id)
    PROVE  IInv'
<1> DEFINE k == subKey[id]
           gone == IF Emptied({id}, k) THEN {k} ELSE {}
           pins == IF Emptied({id}, k) THEN {table[k]} ELSE {}
<1>0. /\ MayCall(t) /\ k # NoKey /\ TakeOut({id}) /\ Forget({id})
      /\ table' = IF Emptied({id}, k) THEN [table EXCEPT ![k] = None] ELSE table
      /\ Changed(t, pins, Reported(k, Report(Unsubscribed(k), id)))
      /\ UNCHANGED <<nextEntry, nextId, entryOwner, handle>>
  BY DEF Unregister, Changed
<1>1. k \in Events /\ k \in Keys /\ table \in [Keys -> {None} \cup Entries]
  BY <1>0 DEF IInv, NamesTyped, Keys
<1>2. table' = [j \in Keys |-> IF j \in gone THEN None ELSE table[j]]
  BY <1>0, <1>1
<1>3. ASSUME NEW j \in Events
      PROVE  j \in gone \/ table[j] = None
                <=> table[j] = None \/ ToSet(list[table[j]]) \subseteq {id}
  <2>1. CASE j = k
    BY <1>1, <2>1, LastLeaves
  <2>2. CASE j # k
    <3> SUFFICES ASSUME table[j] # None, ToSet(list[table[j]]) \subseteq {id} PROVE FALSE
      BY <2>2
    <3>1. Live(j) = ToSet(list[table[j]]) /\ Live(j) # {}
      BY DEF IInv, BooksInv
    <3> QED BY <2>2, <3>1 DEF Live
  <2> QED BY <2>1, <2>2
<1>4. /\ list' \in [Entries -> Seq(Ids)]
      /\ \A e \in Entries : ToSet(list'[e]) = ToSet(list[e]) \ {id} /\ Ascending(list'[e])
  BY <1>0, TakenOut
<1>5. /\ subKey' = [i \in Ids |-> IF i \in {id} THEN NoKey ELSE subKey[i]]
      /\ subKey' \in [Ids -> Events \cup {NoKey}]
      /\ subOwner' \in [Ids -> Owners \cup {Nobody}]
  BY <1>0, Forgotten
<1>6. pins \in SUBSET Entries
  <2>1. Emptied({id}, k) => table[k] # None
    BY <1>1, LastLeaves
  <2> QED BY <1>1, <2>1
<1> HIDE DEF gone, pins
<1>7. BooksInv' /\ TableInv' /\ HandleInv' /\ Calls \subseteq Calls'
  BY <1>0, <1>2, <1>3, <1>4, <1>5, Leaving
<1>8. NamesTyped'
  BY <1>0, <1>1, <1>2, <1>4, <1>5 DEF IInv, NamesTyped, Keys, Entries, Ids
<1>9. Reported(k, Report(Unsubscribed(k), id)) \in Seq(Reports)
  <2>1. id \in Nat
    BY Subjects
  <2> QED BY <2>1, OneReport, Subjects
<1> QED BY <1>0, <1>6, <1>7, <1>8, <1>9, Changing

-----------------------------------------------------------------------------
(* What unregisterOwner() reports.                                         *)

\* The reports about one endpoint: of the handler, or of the subscriptions
\* that go, each once.
LEMMA OneEndpoint ==
    ASSUME IInv, NEW ids \in SUBSET Ids, NEW k \in Keys, table[k] # None
    PROVE  /\ OwnerReports(k, ids) \in Seq(Reports) /\ Single(OwnerReports(k, ids))
           /\ \A r \in ToSet(OwnerReports(k, ids)) :
                 \/ k \in Handlers /\ r = Report("handler_unregistered", table[k])
                 \/ /\ k \in Events \ Topics /\ r.topic = Unsubscribed(k)
                    /\ r.about \in ids /\ subKey[r.about] = k
<1>1. table[k] \in Entries /\ Entries \subseteq Nat /\ Ids \subseteq Nat /\ Unsubscribed(k) \in Topics
  BY Subjects
<1>2. CASE k \in Handlers
  <2>1. OwnerReports(k, ids) = <<Report("handler_unregistered", table[k])>>
    BY <1>2 DEF OwnerReports
  <2>2. Report("handler_unregistered", table[k]) \in Reports
    BY <1>1, OneReport DEF Topics
  <2> QED BY <1>2, <2>1, <2>2 DEF ToSet, Single
<1>3. CASE k \notin Handlers /\ k \in Topics
  <2>1. OwnerReports(k, ids) = <<>>
    BY <1>3 DEF OwnerReports
  <2> QED BY <2>1 DEF ToSet, Single
<1>4. CASE k \notin Handlers /\ k \notin Topics
  <2>1. k \in Events
    BY <1>4 DEF Keys
  <2> DEFINE removed == Within(list[table[k]], ids)
             reports == [n \in DOMAIN removed |-> Report(Unsubscribed(k), removed[n])]
  <2>2. OwnerReports(k, ids) = reports
    BY <1>4 DEF OwnerReports
  <2>3. list[table[k]] \in Seq(Ids) /\ Ascending(list[table[k]])
    BY <1>1, ListsTyped DEF IInv, BooksInv
  <2>4. /\ removed \in Seq(Ids) /\ ToSet(removed) = ToSet(list[table[k]]) \cap ids
        /\ Ascending(removed)
    BY <1>1, <2>3, WithinProperties
  <2>5. ToSet(list[table[k]]) = Live(k)
    BY <2>1 DEF IInv, BooksInv
  <2> HIDE DEF removed
  <2>6. Len(removed) \in Nat /\ DOMAIN removed = 1 .. Len(removed)
    BY <2>4, LenProperties
  <2>7. \A n \in DOMAIN removed : /\ removed[n] \in ids /\ removed[n] \in Nat
                                  /\ subKey[removed[n]] = k
                                  /\ reports[n] = Report(Unsubscribed(k), removed[n])
    <3>1. \A n \in DOMAIN removed : removed[n] \in ToSet(removed)
      BY DEF ToSet
    <3> QED BY <1>1, <2>4, <2>5, <3>1 DEF Live
  <2>8. \A n \in DOMAIN removed : reports[n] \in Reports
    BY <1>1, <2>7, OneReport
  <2>9. DOMAIN reports = DOMAIN removed
    OBVIOUS
  <2> HIDE DEF reports
  <2>10. reports \in Seq(Reports)
    <3>1. reports \in [1 .. Len(removed) -> Reports]
      BY <2>2, <2>6, <2>8, <2>9 DEF reports
    <3> QED BY <2>6, <3>1
  <2>11. Single(reports)
    <3> SUFFICES ASSUME NEW i \in DOMAIN removed, NEW j \in DOMAIN removed, reports[i] = reports[j]
                 PROVE  i = j
      BY <2>9 DEF Single
    <3>1. removed[i] = removed[j]
      <4>0. \A a, x : Report(a, x).about = x
        BY DEF Report
      <4>a. reports[i] = Report(Unsubscribed(k), removed[i]) /\ reports[j] = Report(Unsubscribed(k), removed[j])
        BY <2>7
      <4>1. reports[i].about = removed[i] /\ reports[j].about = removed[j]
        BY <4>0, <4>a
      <4> QED BY <4>1
    <3>2. removed[i] \in Nat /\ i \in Nat /\ j \in Nat
      BY <2>6, <2>7
    <3> QED BY <2>4, <3>1, <3>2 DEF Ascending
  <2>12. \A r \in ToSet(reports) : r.topic = Unsubscribed(k) /\ r.about \in ids /\ subKey[r.about] = k
    BY <2>7, <2>9 DEF ToSet, Report
  <2> QED BY <1>4, <2>1, <2>2, <2>10, <2>11, <2>12
<1> QED BY <1>2, <1>3, <1>4

\* The reports about several: no two endpoints share any.
LEMMA Endpoints ==
    ASSUME IInv, NEW ids \in SUBSET Ids, NEW keys \in Seq(Keys), Single(keys),
           \A k \in ToSet(keys) : table[k] # None,
           NEW all, all = FlattenSeq([n \in DOMAIN keys |-> OwnerReports(keys[n], ids)])
    PROVE  /\ all \in Seq(Reports) /\ Single(all)
           /\ \A r \in ToSet(all) : \E k \in ToSet(keys) : r \in ToSet(OwnerReports(k, ids))
<1> DEFINE ss == [i \in DOMAIN keys |-> OwnerReports(keys[i], ids)]
<1>1. PICK n \in Nat : n = Len(keys)
  BY LenProperties
<1>2. /\ DOMAIN keys = 1 .. n /\ \A i \in 1 .. n : keys[i] \in Keys /\ table[keys[i]] # None
      /\ \A i, j \in 1 .. n : i # j => keys[i] # keys[j]
  BY <1>1, LenProperties, ElementOfSeq DEF Single, ToSet
<1>3. DOMAIN ss = 1 .. n
  BY <1>2
<1>4. \A i \in 1 .. n : /\ ss[i] = OwnerReports(keys[i], ids)
                        /\ ss[i] \in Seq(Reports) /\ Single(ss[i])
  BY <1>2, <1>3, OneEndpoint
<1>5. ss \in Seq(Seq(Reports))
  <2>1. ss \in [1 .. n -> Seq(Reports)]
    BY <1>3, <1>4
  <2> QED BY <1>1, <2>1
<1>6. ASSUME NEW i \in 1 .. n, NEW j \in 1 .. n, i # j
      PROVE  ToSet(ss[i]) \cap ToSet(ss[j]) = {}
  <2> SUFFICES ASSUME NEW r \in ToSet(ss[i]), r \in ToSet(ss[j]) PROVE FALSE
    OBVIOUS
  <2>1. /\ keys[i] \in Keys /\ keys[j] \in Keys /\ keys[i] # keys[j]
        /\ table[keys[i]] # None /\ table[keys[j]] # None
        /\ r \in ToSet(OwnerReports(keys[i], ids)) /\ r \in ToSet(OwnerReports(keys[j], ids))
    BY <1>2, <1>4, <1>6
  <2>2. \/ keys[i] \in Handlers /\ r = Report("handler_unregistered", table[keys[i]])
        \/ /\ keys[i] \in Events \ Topics /\ r.topic = Unsubscribed(keys[i])
           /\ r.about \in ids /\ subKey[r.about] = keys[i]
    BY <2>1, OneEndpoint
  <2>3. \/ keys[j] \in Handlers /\ r = Report("handler_unregistered", table[keys[j]])
        \/ /\ keys[j] \in Events \ Topics /\ r.topic = Unsubscribed(keys[j])
           /\ r.about \in ids /\ subKey[r.about] = keys[j]
    BY <2>1, OneEndpoint
  <2>4. \A k, e : Unsubscribed(k) # "handler_unregistered"
                  /\ Report("handler_unregistered", e).topic = "handler_unregistered"
                  /\ Report("handler_unregistered", e).about = e
    BY DEF Unsubscribed, Report
  <2>5. table[keys[i]] # table[keys[j]]
    BY <2>1 DEF IInv, TableInv
  <2> QED BY <2>1, <2>2, <2>3, <2>4, <2>5
<1>7. all = FlattenSeq(ss)
  OBVIOUS
<1> HIDE DEF ss
<1>8. /\ FlattenSeq(ss) \in Seq(Reports)
      /\ \A x : x \in ToSet(FlattenSeq(ss)) <=> \E i \in DOMAIN ss : x \in ToSet(ss[i])
      /\ (\A i \in DOMAIN ss : Single(ss[i]))
         /\ (\A i, j \in DOMAIN ss : i # j => ToSet(ss[i]) \cap ToSet(ss[j]) = {})
         => Single(FlattenSeq(ss))
  BY <1>5, Flattened
<1>9. Single(all)
  BY <1>3, <1>4, <1>6, <1>7, <1>8
<1>10. ASSUME NEW r \in ToSet(all)
       PROVE  \E k \in ToSet(keys) : r \in ToSet(OwnerReports(k, ids))
  <2>1. PICK i \in 1 .. n : r \in ToSet(ss[i])
    BY <1>3, <1>7, <1>8
  <2>2. keys[i] \in ToSet(keys)
    BY <1>2 DEF ToSet
  <2> QED BY <1>4, <2>1, <2>2
<1> QED BY <1>7, <1>8, <1>9, <1>10

LEMMA NamesFinite ==
    ASSUME IInv, NEW K \in SUBSET Keys, \A k \in K : table[k] # None
    PROVE  IsFiniteSet(K)
<1> DEFINE f == [k \in K |-> table[k]]
<1>1. \A k \in K : table[k] \in Entries
  BY Subjects
<1>2. f \in [K -> Entries]
  BY <1>1
<1>3. \A j, k \in K : f[j] = f[k] => j = k
  BY DEF IInv, TableInv
<1> HIDE DEF f
<1>4. f \in Injection(K, Entries)
  BY <1>2, <1>3 DEF Injection, IsInjective
<1>5. IsFiniteSet(Entries)
  <2>1. 1 \in Int /\ MaxEntries \in Int
    BY CommunicationAssumption
  <2> QED BY <2>1, FS_Interval DEF Entries
<1> QED BY <1>4, <1>5, FS_Injection

\* An order of a finite set of names.
LEMMA AnOrder ==
    ASSUME NEW K \in SUBSET Keys, IsFiniteSet(K), NEW s \in SetToSeqs(K)
    PROVE  s \in Seq(Keys) /\ Single(s) /\ ToSet(s) \subseteq K
<1>1. PICK n \in Nat : n = Cardinality(K)
  BY FS_CardinalityType
<1>2. s \in [1 .. n -> K] /\ \A i, j \in 1 .. n : i # j => s[i] # s[j]
  BY <1>1 DEF SetToSeqs
<1>3. s \in Seq(Keys)
  BY <1>2
<1> QED BY <1>2, <1>3 DEF Single, ToSet

\* What unregisterOwner() does, and the reports it makes: a summary, and one
\* of each handler and each subscription of the owner.
LEMMA OwnerSteps ==
    ASSUME IInv, NEW t \in Threads, NEW o \in Owners, UnregisterOwner(t, o)
    PROVE  \E ids \in SUBSET Ids, mine \in SUBSET Handlers, pins \in SUBSET Entries,
              all \in Seq(Reports) :
              /\ \A k \in mine : table[k] # None
              /\ MayCall(t) /\ TakeOut(ids) /\ Forget(ids) /\ Changed(t, pins, all)
              /\ table' = [k \in Keys |-> IF k \in mine \cup {j \in Events : Emptied(ids, j)}
                                          THEN None ELSE table[k]]
              /\ entryOwner' \in [Entries -> Owners \cup {Nobody}]
              /\ UNCHANGED <<nextEntry, nextId>>
              /\ Single(all)
              /\ \A r \in ToSet(all) :
                    \/ r = Report("owner_unregistered", 0)
                    \/ \E k \in mine : r = Report("handler_unregistered", table[k])
                    \/ \E k \in Events \ Topics : /\ r.topic = Unsubscribed(k) /\ r.about \in ids
                                                  /\ subKey[r.about] = k
<1> DEFINE ids  == {i \in Ids : subKey[i] # NoKey /\ subOwner[i] = o}
           mine == {k \in Handlers : table[k] # None /\ entryOwner[table[k]] = o}
           gone == mine \cup {k \in Events : Emptied(ids, k)}
           pins == {table[k] : k \in gone}
           P    == {k \in Events \ Handled : Touched(ids, k)}
           Q    == {k \in Handled : Touched(ids, k)}
           reports(keys) == FlattenSeq([n \in DOMAIN keys |-> OwnerReports(keys[n], ids)])
           summary == <<Report("owner_unregistered", 0)>>
<1>1. PICK h \in SetToSeqs(mine), p \in SetToSeqs(P), q \in SetToSeqs(Q) :
         Changed(t, pins, reports(h \o p \o q) \o summary)
  BY Zenon DEF UnregisterOwner
<1>2. /\ MayCall(t) /\ TakeOut(ids) /\ Forget(ids) /\ UNCHANGED <<nextEntry, nextId>>
      /\ table' = [k \in Keys |-> IF k \in gone THEN None ELSE table[k]]
      /\ entryOwner' = [e \in Entries |-> IF e \in {table[k] : k \in mine} THEN Nobody ELSE entryOwner[e]]
  BY Zenon DEF UnregisterOwner, Disown
<1>3. ids \in SUBSET Ids /\ mine \in SUBSET Handlers /\ Handlers \subseteq Keys /\ Events \subseteq Keys
      /\ Handled \subseteq Events
  BY CommunicationAssumption DEF Keys
<1>4. \A k \in Events : Touched(ids, k) => table[k] # None
  <2> SUFFICES ASSUME NEW k \in Events, Touched(ids, k) PROVE table[k] # None
    OBVIOUS
  <2>1. Live(k) # {}
    BY DEF Touched, Live
  <2> QED BY <2>1 DEF IInv, BooksInv
<1>5. /\ mine \in SUBSET Keys /\ \A k \in mine : table[k] # None
      /\ P \in SUBSET Keys /\ \A k \in P : table[k] # None
      /\ Q \in SUBSET Keys /\ \A k \in Q : table[k] # None
      /\ mine \cap P = {} /\ mine \cap Q = {} /\ P \cap Q = {}
      /\ P \subseteq Events /\ Q \subseteq Events
  BY <1>3, <1>4, CommunicationAssumption
<1>6. pins \in SUBSET Entries
  <2>1. \A k \in gone : k \in Keys /\ table[k] # None
    BY <1>3, <1>4, <1>5 DEF Emptied
  <2> QED BY <2>1, Subjects
<1>7. entryOwner' \in [Entries -> Owners \cup {Nobody}]
  BY <1>2 DEF IInv, NamesTyped
<1> HIDE DEF ids, mine, gone, pins, P, Q
<1>8. /\ h \in Seq(Keys) /\ Single(h) /\ ToSet(h) \subseteq mine
      /\ p \in Seq(Keys) /\ Single(p) /\ ToSet(p) \subseteq P
      /\ q \in Seq(Keys) /\ Single(q) /\ ToSet(q) \subseteq Q
  BY <1>1, <1>5, NamesFinite, AnOrder
<1> DEFINE keys == h \o p \o q
<1>9. keys \in Seq(Keys) /\ Single(keys) /\ ToSet(keys) \subseteq mine \cup P \cup Q
  <2>1. /\ h \o p \in Seq(Keys) /\ ToSet(h \o p) = ToSet(h) \cup ToSet(p)
        /\ Single(h) /\ Single(p) /\ ToSet(h) \cap ToSet(p) = {} => Single(h \o p)
    BY <1>8, Joined
  <2>2. Single(h \o p) /\ ToSet(h \o p) \cap ToSet(q) = {}
    BY <1>5, <1>8, <2>1
  <2>3. /\ keys \in Seq(Keys) /\ ToSet(keys) = ToSet(h \o p) \cup ToSet(q)
        /\ Single(h \o p) /\ Single(q) /\ ToSet(h \o p) \cap ToSet(q) = {} => Single(keys)
    <3>1. PICK a \in Seq(Keys) : a = h \o p
      BY <2>1
    <3>2. /\ a \o q \in Seq(Keys) /\ ToSet(a \o q) = ToSet(a) \cup ToSet(q)
          /\ Single(a) /\ Single(q) /\ ToSet(a) \cap ToSet(q) = {} => Single(a \o q)
      BY <1>8, Joined
    <3>3. a \o q = keys
      BY <3>1
    <3> HIDE DEF keys
    <3> QED BY <3>1, <3>2, <3>3
  <2> QED BY <1>8, <2>1, <2>2, <2>3
<1> HIDE DEF keys
<1>10. \A k \in ToSet(keys) : k \in Keys /\ table[k] # None
  BY <1>3, <1>5, <1>9
<1> DEFINE batch == FlattenSeq([n \in DOMAIN keys |-> OwnerReports(keys[n], ids)])
<1>11. /\ batch \in Seq(Reports) /\ Single(batch)
       /\ \A r \in ToSet(batch) : \E k \in ToSet(keys) : r \in ToSet(OwnerReports(k, ids))
  BY <1>3, <1>9, <1>10, Endpoints
<1>12. Changed(t, pins, batch \o summary)
  BY <1>1 DEF keys
<1> HIDE DEF batch
<1>13. ASSUME NEW r \in ToSet(batch)
       PROVE  \/ \E k \in mine : r = Report("handler_unregistered", table[k])
              \/ \E k \in Events \ Topics : /\ r.topic = Unsubscribed(k) /\ r.about \in ids
                                            /\ subKey[r.about] = k
  <2>1. PICK k \in ToSet(keys) : r \in ToSet(OwnerReports(k, ids))
    BY <1>11
  <2>2. \/ k \in Handlers /\ r = Report("handler_unregistered", table[k])
        \/ /\ k \in Events \ Topics /\ r.topic = Unsubscribed(k)
           /\ r.about \in ids /\ subKey[r.about] = k
    BY <1>3, <1>10, <2>1, OneEndpoint
  <2>3. k \in Handlers => k \in mine
    BY <1>5, <1>9, CommunicationAssumption
  <2> QED BY <2>2, <2>3
<1>14. /\ summary \in Seq(Reports) /\ Single(summary) /\ ToSet(summary) = {Report("owner_unregistered", 0)}
  <2>1. summary \in Seq(Reports)
    BY OneReport DEF Topics
  <2> QED BY <2>1 DEF Single, ToSet
<1> HIDE DEF summary
<1>15. ToSet(batch) \cap ToSet(summary) = {}
  <2> SUFFICES ASSUME NEW r \in ToSet(batch), r = Report("owner_unregistered", 0) PROVE FALSE
    BY <1>14
  <2>1. r.topic = "owner_unregistered"
    BY DEF Report
  <2>2. \A e, k : Report("handler_unregistered", e).topic = "handler_unregistered"
                  /\ Unsubscribed(k) # "owner_unregistered"
    BY DEF Report, Unsubscribed
  <2> QED BY <1>13, <2>1, <2>2
<1> DEFINE all == batch \o summary
<1>16. /\ all \in Seq(Reports) /\ ToSet(all) = ToSet(batch) \cup ToSet(summary) /\ Single(all)
  BY <1>11, <1>14, <1>15, Joined
<1>17. Changed(t, pins, all)
  BY <1>12
<1> HIDE DEF all
<1>18. \A r \in ToSet(all) :
          \/ r = Report("owner_unregistered", 0)
          \/ \E k \in mine : r = Report("handler_unregistered", table[k])
          \/ \E k \in Events \ Topics : /\ r.topic = Unsubscribed(k) /\ r.about \in ids
                                        /\ subKey[r.about] = k
  BY <1>13, <1>14, <1>16
<1>19. table' = [k \in Keys |-> IF k \in mine \cup {j \in Events : Emptied(ids, j)}
                                THEN None ELSE table[k]]
  BY <1>2 DEF gone
<1> QED BY <1>2, <1>3, <1>5, <1>6, <1>7, <1>16, <1>17, <1>18, <1>19

LEMMA UnregisterOwnerKeeps ==
    ASSUME IInv, NEW t \in Threads, NEW o \in Owners, UnregisterOwner(t, o)
    PROVE  IInv'
<1>1. PICK ids \in SUBSET Ids, mine \in SUBSET Handlers, pins \in SUBSET Entries,
           all \in Seq(Reports) :
           /\ MayCall(t) /\ TakeOut(ids) /\ Forget(ids) /\ Changed(t, pins, all)
           /\ table' = [k \in Keys |-> IF k \in mine \cup {j \in Events : Emptied(ids, j)}
                                       THEN None ELSE table[k]]
           /\ entryOwner' \in [Entries -> Owners \cup {Nobody}]
           /\ UNCHANGED <<nextEntry, nextId>>
  BY OwnerSteps
<1> DEFINE gone == mine \cup {j \in Events : Emptied(ids, j)}
<1>2. handle' = handle
  BY <1>1 DEF Changed
<1>3. /\ list' \in [Entries -> Seq(Ids)]
      /\ \A e \in Entries : ToSet(list'[e]) = ToSet(list[e]) \ ids /\ Ascending(list'[e])
  BY <1>1, TakenOut
<1>4. /\ subKey' = [i \in Ids |-> IF i \in ids THEN NoKey ELSE subKey[i]]
      /\ subKey' \in [Ids -> Events \cup {NoKey}]
      /\ subOwner' \in [Ids -> Owners \cup {Nobody}]
  BY <1>1, Forgotten
<1>5. \A k \in Events : k \in gone \/ table[k] = None
                           <=> table[k] = None \/ ToSet(list[table[k]]) \subseteq ids
  <2>1. \A k \in Events : k \in gone <=> Emptied(ids, k)
    BY CommunicationAssumption
  <2> QED BY <2>1, LastLeaves
<1>6. table' = [k \in Keys |-> IF k \in gone THEN None ELSE table[k]]
  BY <1>1
<1> HIDE DEF gone
<1>7. BooksInv' /\ TableInv' /\ HandleInv' /\ Calls \subseteq Calls'
  BY <1>1, <1>2, <1>3, <1>4, <1>5, <1>6, Leaving
<1>8. NamesTyped'
  BY <1>1, <1>2, <1>3, <1>4, <1>6 DEF IInv, NamesTyped, Keys, Entries, Ids
<1> QED BY <1>1, <1>7, <1>8, Changing

-----------------------------------------------------------------------------
(* What calls preserve.                                                    *)

LEMMA CallsSame ==
    ASSUME UNCHANGED names
    PROVE  Calls' = Calls
<1>1. \A f : FoundOne(f)' <=> FoundOne(f)
  BY DEF names, FoundOne, Names, Live
<1>2. \A f : FrameInv(f)' <=> FrameInv(f)
  BY <1>1 DEF FrameInv
<1>3. Frames' = Frames
  BY DEF Frames, Keys, Entries, Ids, Reports
<1> QED BY <1>2, <1>3 DEF Calls

\* With the books as they are, only the calls may go wrong.
LEMMA BooksStay ==
    ASSUME IInv, UNCHANGED names, handle' = handle, StackInv'
    PROVE  IInv'
<1>1. NamesTyped'
  BY DEF IInv, NamesTyped, names, Keys, Entries, Ids
<1>2. BooksInv'
  BY DEF IInv, BooksInv, names, Live, Ascending
<1>3. TableInv' /\ HandleInv'
  BY DEF IInv, TableInv, HandleInv, Names, names
<1> QED BY <1>1, <1>2, <1>3 DEF IInv

\* Calls in their place of the innermost one.
LEMMA Turning ==
    ASSUME IInv, UNCHANGED names, handle' = handle, NEW t \in Threads, Inside(t),
           NEW fs \in Seq(Calls), Nested(fs), Becomes(t, fs)
    PROVE  IInv'
<1>1. stack \in [Threads -> Seq(Calls)] /\ \A u \in Threads : Nested(stack[u])
  BY DEF IInv, StackInv
<1>2. /\ Front(stack[t]) \in Seq(Calls)
      /\ Len(stack[t]) \in Nat \ {0} /\ Len(Front(stack[t])) = Len(stack[t]) - 1
      /\ \A i \in 1 .. Len(stack[t]) - 1 : Front(stack[t])[i] = stack[t][i]
      /\ stack' \in [Threads -> Seq(Calls)]
      /\ stack'[t] = Front(stack[t]) \o fs
      /\ \A u \in Threads \ {t} : stack'[u] = stack[u]
  BY <1>1, StackTurns
<1>3. \A i \in 1 .. Len(Front(stack[t])) : Front(stack[t])[i].step \in {"report", "inside"}
  <2>1. stack[t] \in Seq(Calls) /\ DOMAIN stack[t] = 1 .. Len(stack[t])
    BY <1>1, LenProperties
  <2>2. \A i \in 1 .. Len(stack[t]) - 1 : i \in DOMAIN stack[t] /\ i < Len(stack[t])
    BY <1>2, <2>1
  <2> QED BY <1>1, <1>2, <2>2 DEF Nested
<1>4. Nested(Front(stack[t]) \o fs)
  BY <1>2, <1>3, NestedOn
<1>5. \A u \in Threads : Nested(stack'[u])
  BY <1>1, <1>2, <1>4
<1>6. StackInv'
  BY <1>2, <1>5, CallsSame DEF StackInv, Nested
<1> QED BY <1>6, BooksStay

\* One more call.
LEMMA Pushing ==
    ASSUME IInv, UNCHANGED names, handle' = handle, NEW t \in Threads, MayCall(t),
           NEW f \in Calls, Push(t, f)
    PROVE  IInv'
<1>1. stack \in [Threads -> Seq(Calls)] /\ \A u \in Threads : Nested(stack[u])
  BY DEF IInv, StackInv
<1>2. <<f>> \in Seq(Calls) /\ Nested(<<f>>)
  BY DEF Nested
<1>3. stack[t] \in Seq(Calls) /\ Append(stack[t], f) = stack[t] \o <<f>>
  BY <1>1, AppendIsConcat
<1>4. stack' = [stack EXCEPT ![t] = stack[t] \o <<f>>]
  BY <1>3 DEF Push
<1>5. stack' \in [Threads -> Seq(Calls)]
  BY <1>1, <1>2, <1>4, StackGrows
<1>6. \A i \in 1 .. Len(stack[t]) : stack[t][i].step \in {"report", "inside"}
  <2> SUFFICES ASSUME NEW i \in 1 .. Len(stack[t])
               PROVE  stack[t][i].step \in {"report", "inside"}
    OBVIOUS
  <2>1. Len(stack[t]) \in Nat /\ DOMAIN stack[t] = 1 .. Len(stack[t])
    BY <1>3, LenProperties
  <2>2. CASE i < Len(stack[t])
    BY <1>1, <2>1, <2>2 DEF Nested
  <2>3. CASE i = Len(stack[t])
    <3>1. stack[t] # <<>>
      BY <1>3, <2>1, <2>3, EmptySeq
    <3> QED BY <2>3, <3>1 DEF MayCall, Inside, Top, Last
  <2> QED BY <2>1, <2>2, <2>3
<1>7. Nested(stack[t] \o <<f>>)
  BY <1>2, <1>3, <1>6, NestedOn
<1>8. \A u \in Threads : Nested(stack'[u])
  BY <1>1, <1>4, <1>7
<1>9. StackInv'
  BY <1>5, <1>8, CallsSame DEF StackInv, Nested
<1> QED BY <1>9, BooksStay

\* The innermost call.
LEMMA TopCall ==
    ASSUME IInv, NEW t \in Threads, Inside(t)
    PROVE  Top(t) \in Calls /\ Top(t) \in Frames /\ FrameInv(Top(t))
<1>1. stack[t] \in Seq(Calls) /\ stack[t] # <<>>
  BY DEF IInv, StackInv, Inside
<1>2. Len(stack[t]) \in 1 .. Len(stack[t])
  BY <1>1, EmptySeq
<1>3. Top(t) \in Calls
  BY <1>1, <1>2, ElementOfSeq DEF Top, Last
<1> QED BY <1>3 DEF Calls

\* An emission that found the entry of a name in the table.
Found(op, key, e, about) ==
    [op |-> op, step |-> "found", key |-> key, pins |-> {e}, todo |-> <<>>,
     about |-> about, born |-> nextId, reports |-> <<>>]

LEMMA EmissionFinds ==
    ASSUME NEW op, NEW k, NEW e, NEW about
    PROVE  /\ Emission(op, k, e) = Found(op, k, e, 0)
           /\ [Emission(op, k, e) EXCEPT !.about = about] = Found(op, k, e, about)
<1>1. PICK pins : pins = {e}
  OBVIOUS
<1> DEFINE f(a, b) == [op |-> op, step |-> "found", key |-> k, pins |-> pins, todo |-> <<>>,
                       about |-> a, born |-> b, reports |-> <<>>]
<1>2. [f(0, 0) EXCEPT !.born = nextId] = f(0, nextId)
  OBVIOUS
<1>3. [f(0, nextId) EXCEPT !.about = about] = f(about, nextId)
  OBVIOUS
<1>4. Frame(op, "found", k, {e}) = f(0, 0)
  BY <1>1 DEF Frame
<1>5. Found(op, k, e, 0) = f(0, nextId) /\ Found(op, k, e, about) = f(about, nextId)
  BY <1>1 DEF Found
<1> HIDE DEF f
<1>6. Emission(op, k, e) = f(0, nextId)
  BY <1>2, <1>4 DEF Emission
<1> QED BY <1>3, <1>5, <1>6

LEMMA FoundCall ==
    ASSUME IInv, NEW op \in {"emit", "debug"}, NEW k \in Events, table[k] # None, NEW about \in Nat
    PROVE  Found(op, k, table[k], about) \in Calls
<1> DEFINE f == Found(op, k, table[k], about)
<1>1. table[k] \in Entries /\ k \in Keys
  BY Subjects DEF Keys
<1>2. nextId \in Nat
  BY DEF IInv, NamesTyped
<1>3. f \in Frames
  <2>1. <<>> \in Seq(Ids) /\ <<>> \in Seq(Reports)
    OBVIOUS
  <2> QED BY <1>1, <1>2, <2>1 DEF Frames, Found
<1>4. Names(table[k], k)
  BY <1>1 DEF IInv, TableInv, Names
<1>5. Live(k) = ToSet(list[table[k]])
  BY DEF IInv, BooksInv
<1>6. f.pins = {table[k]} /\ f.key = k /\ f.born = nextId /\ f.op = op /\ f.step = "found"
  BY DEF Found
<1> HIDE DEF f
<1>7. FoundOne(f)
  BY <1>1, <1>2, <1>4, <1>5, <1>6 DEF FoundOne
<1>8. FrameInv(f)
  BY <1>6, <1>7 DEF FrameInv
<1> QED BY <1>3, <1>8 DEF Calls, f

LEMMA ReportNextKeeps ==
    ASSUME IInv, NEW t \in Threads, ReportNext(t)
    PROVE  IInv'
<1> DEFINE f    == Top(t)
           r    == Head(f.reports)
           rest == Change(f.pins, Tail(f.reports))
           fs   == rest \o (IF Listeners(r.topic) = {} THEN <<>>
                            ELSE <<[Emission("debug", r.topic, table[r.topic]) EXCEPT !.about = r.about]>>)
<1>1. /\ Inside(t) /\ f.step = "report" /\ f.reports # <<>> /\ Becomes(t, fs)
      /\ UNCHANGED names /\ handle' = handle
  BY DEF ReportNext, At
<1>2. f \in Frames
  BY <1>1, TopCall
<1>3. f.pins \in SUBSET Entries /\ f.reports \in Seq(Reports)
  BY <1>2 DEF Frames
<1>4. r \in Reports /\ Tail(f.reports) \in Seq(Reports)
  BY <1>1, <1>3, HeadTailProperties
<1> HIDE DEF r
<1>5. /\ rest \in Seq(Calls) /\ Nested(rest)
      /\ rest = <<>> \/ \E c \in Calls : rest = <<c>> /\ c.step = "report"
  <2>1. PICK pins \in SUBSET Entries : pins = f.pins
    BY <1>3
  <2>2. PICK tail \in Seq(Reports) : tail = Tail(f.reports)
    BY <1>4
  <2>3. rest = Change(pins, tail)
    BY <2>1, <2>2
  <2>4. /\ Change(pins, tail) \in Seq(Calls) /\ Nested(Change(pins, tail))
        /\ \/ Change(pins, tail) = <<>>
           \/ \E c \in Calls : Change(pins, tail) = <<c>> /\ c.step = "report"
    BY ChangeFrame
  <2> HIDE DEF rest
  <2> QED BY <2>3, <2>4
<1>6. CASE Listeners(r.topic) = {}
  <2>1. fs = rest
    BY <1>5, <1>6, ConcatEmptySeq
  <2> HIDE DEF fs, rest, f
  <2> QED BY <1>1, <1>5, <2>1, Turning
<1>7. CASE Listeners(r.topic) # {}
  <2>1. r.topic \in Events /\ table[r.topic] # None /\ r.about \in Nat
    BY <1>4, <1>7 DEF Listeners, Reports
  <2> DEFINE d == Found("debug", r.topic, table[r.topic], r.about)
  <2>2. d \in Calls
    BY <2>1, FoundCall
  <2>3. [Emission("debug", r.topic, table[r.topic]) EXCEPT !.about = r.about] = d
    BY EmissionFinds
  <2>4. fs = rest \o <<d>>
    BY <1>7, <2>3
  <2> HIDE DEF d, fs, rest, f
  <2>5. <<d>> \in Seq(Calls) /\ Nested(<<d>>)
    BY <2>2 DEF Nested
  <2>6. \A i \in 1 .. Len(rest) : rest[i].step \in {"report", "inside"}
    BY <1>5
  <2>7. fs \in Seq(Calls) /\ Nested(fs)
    BY <1>5, <2>4, <2>5, <2>6, NestedOn, ConcatProperties
  <2> QED BY <1>1, <2>7, Turning
<1> QED BY <1>6, <1>7

LEMMA Popped ==
    ASSUME IInv, NEW t \in Threads, Inside(t), UNCHANGED names, handle' = handle, Pop(t)
    PROVE  IInv'
<1>1. <<>> \in Seq(Calls) /\ Nested(<<>>)
  BY DEF Nested
<1> QED BY <1>1, Turning DEF Pop

\* A call with its subscribers still to be called.
Going(f, todo) ==
    [op |-> f.op, step |-> "inside", key |-> f.key, pins |-> f.pins, todo |-> todo,
     about |-> f.about, born |-> 0, reports |-> f.reports]

LEMMA GoingOn ==
    ASSUME IInv, NEW t \in Threads, Inside(t), Top(t).op # "change",
           NEW todo \in Seq(Ids), GoOn(t, Top(t), todo)
    PROVE  \/ todo = <<>> /\ Pop(t) /\ UNCHANGED <<heard, again>>
           \/ /\ todo # <<>> /\ Going(Top(t), todo) \in Calls
              /\ Becomes(t, <<Going(Top(t), todo)>>)
              /\ IF Top(t).op = "debug" /\ Top(t).about # 0
                 THEN /\ heard' = heard \cup {<<Head(todo), Top(t).about>>}
                      /\ again' = again \cup (heard \cap {<<Head(todo), Top(t).about>>})
                 ELSE UNCHANGED <<heard, again>>
<1>1. PICK f \in Frames : f = Top(t)
  BY TopCall
<1>2. [f EXCEPT !.step = "inside", !.todo = todo, !.born = 0] = Going(f, todo)
  <2>1. f = [op |-> f.op, step |-> f.step, key |-> f.key, pins |-> f.pins, todo |-> f.todo,
             about |-> f.about, born |-> f.born, reports |-> f.reports]
    BY DEF Frames
  <2> DEFINE r(s, l, b) == [op |-> f.op, step |-> s, key |-> f.key, pins |-> f.pins, todo |-> l,
                            about |-> f.about, born |-> b, reports |-> f.reports]
  <2>2. [f EXCEPT !.step = "inside", !.todo = todo, !.born = 0]
          = [[[f EXCEPT !.step = "inside"] EXCEPT !.todo = todo] EXCEPT !.born = 0]
    BY <2>1
  <2>3. [r(f.step, f.todo, f.born) EXCEPT !.step = "inside"] = r("inside", f.todo, f.born)
    OBVIOUS
  <2>4. [r("inside", f.todo, f.born) EXCEPT !.todo = todo] = r("inside", todo, f.born)
    OBVIOUS
  <2>5. [r("inside", todo, f.born) EXCEPT !.born = 0] = r("inside", todo, 0)
    OBVIOUS
  <2>6. f = r(f.step, f.todo, f.born) /\ Going(f, todo) = r("inside", todo, 0)
    BY <2>1 DEF Going
  <2> HIDE DEF r
  <2>7. [f EXCEPT !.step = "inside"] = r("inside", f.todo, f.born)
    BY <2>3, <2>6
  <2> QED BY <2>2, <2>4, <2>5, <2>6, <2>7
<1>3. Going(f, todo) \in Frames
  BY DEF Frames, Going
<1>4. todo # <<>> => FrameInv(Going(f, todo))
  BY <1>1 DEF FrameInv, Going
<1>5. todo # <<>> => Going(f, todo) \in Calls
  BY <1>3, <1>4 DEF Calls
<1> QED BY <1>1, <1>2, <1>5 DEF GoOn

LEMMA GoOnKeeps ==
    ASSUME IInv, NEW t \in Threads, Inside(t), Top(t).op # "change",
           NEW todo \in Seq(Ids), GoOn(t, Top(t), todo), UNCHANGED names, handle' = handle
    PROVE  IInv'
<1>1. CASE todo = <<>> /\ Pop(t)
  BY <1>1, Popped
<1>2. CASE Going(Top(t), todo) \in Calls /\ Becomes(t, <<Going(Top(t), todo)>>)
  <2>1. PICK g \in Calls : g = Going(Top(t), todo)
    BY <1>2
  <2>2. <<g>> \in Seq(Calls) /\ Nested(<<g>>)
    BY DEF Nested
  <2> QED BY <1>2, <2>1, <2>2, Turning
<1> QED BY <1>1, <1>2, GoingOn

\* What a snapshot takes.
LEMMA Copied ==
    ASSUME IInv, NEW t \in Threads, Snapshot(t)
    PROVE  \E e \in Entries :
              /\ Inside(t) /\ Top(t).op # "change" /\ Top(t).step = "found"
              /\ Top(t).pins = {e} /\ Top(t).key \in Events /\ Names(e, Top(t).key)
              /\ Top(t).op # "handle" => {i \in Live(Top(t).key) : i < Top(t).born} \subseteq ToSet(list[e])
              /\ list[e] \in Seq(Ids) /\ GoOn(t, Top(t), list[e])
              /\ UNCHANGED <<names, handle, owed, cut>>
<1>1. /\ Inside(t) /\ Top(t).step = "found" /\ UNCHANGED <<names, handle, owed, cut>>
      /\ \E e \in Top(t).pins : GoOn(t, Top(t), list[e])
  BY DEF Snapshot, At
<1>2. FrameInv(Top(t))
  BY <1>1, TopCall
<1>3. PICK e \in Entries :
         /\ Top(t).pins = {e} /\ Top(t).key \in Events /\ Names(e, Top(t).key)
         /\ Top(t).op # "handle" => {i \in Live(Top(t).key) : i < Top(t).born} \subseteq ToSet(list[e])
  BY <1>1, <1>2 DEF FrameInv, FoundOne
<1>4. Top(t).op # "change"
  BY <1>1, <1>2 DEF FrameInv
<1> QED BY <1>1, <1>3, <1>4, ListsTyped

\* What is left as a callback returns.
LEMMA Returned ==
    ASSUME IInv, NEW t \in Threads, Return(t)
    PROVE  /\ Inside(t) /\ Top(t).op # "change" /\ Top(t).step = "inside"
           /\ UNCHANGED <<names, handle, owed, cut>>
           /\ \E todo \in Seq(Ids) :
                 /\ GoOn(t, Top(t), todo)
                 /\ Top(t).op = "call" => todo = <<>>
                 /\ Top(t).op # "call" => Top(t).todo # <<>> /\ todo = Tail(Top(t).todo)
<1>1. /\ Inside(t) /\ Top(t).step = "inside" /\ UNCHANGED <<names, handle, owed, cut>>
      /\ GoOn(t, Top(t), IF Top(t).op = "call" THEN <<>> ELSE Tail(Top(t).todo))
  BY DEF Return, At
<1>2. FrameInv(Top(t)) /\ Top(t) \in Frames
  BY <1>1, TopCall
<1>3. Top(t).op # "change"
  BY <1>1, <1>2 DEF FrameInv
<1>4. CASE Top(t).op = "call"
  <2>1. <<>> \in Seq(Ids) /\ GoOn(t, Top(t), <<>>)
    BY <1>1, <1>4
  <2> QED BY <1>1, <1>3, <1>4, <2>1
<1>5. CASE Top(t).op # "call"
  <2>1. Top(t).todo # <<>> /\ Top(t).todo \in Seq(Ids)
    BY <1>1, <1>2, <1>5 DEF FrameInv, Frames
  <2>2. Tail(Top(t).todo) \in Seq(Ids)
    BY <2>1, HeadTailProperties
  <2> QED BY <1>1, <1>3, <1>5, <2>1, <2>2
<1> QED BY <1>4, <1>5

LEMMA EmitKeeps ==
    ASSUME IInv, NEW t \in Threads, NEW k \in Events, Emit(t, k)
    PROVE  IInv'
<1>1. /\ MayCall(t) /\ table[k] # None /\ Push(t, Emission("emit", k, table[k]))
      /\ UNCHANGED names /\ handle' = handle
  BY DEF Emit
<1>2. Emission("emit", k, table[k]) = Found("emit", k, table[k], 0)
  BY EmissionFinds
<1>3. Found("emit", k, table[k], 0) \in Calls
  BY <1>1, FoundCall
<1> QED BY <1>1, <1>2, <1>3, Pushing

LEMMA GetHandleKeeps ==
    ASSUME IInv, NEW t \in Threads, NEW k \in Keys, GetHandle(t, k)
    PROVE  IInv'
<1>1. /\ table[k] # None /\ handle' = [key |-> k, entry |-> table[k]] /\ UNCHANGED <<names, stack>>
  BY DEF GetHandle
<1>2. table[k] \in Entries
  BY <1>1, Subjects
<1>3. NamesTyped'
  BY <1>1, <1>2 DEF IInv, NamesTyped, names, Keys, Entries, Ids
<1>4. BooksInv' /\ TableInv'
  BY <1>1 DEF IInv, BooksInv, TableInv, names, Live, Ascending
<1>5. HandleInv'
  BY <1>1 DEF IInv, HandleInv, TableInv, Names, names
<1>6. StackInv'
  BY <1>1, CallsSame DEF IInv, StackInv, Nested
<1> QED BY <1>3, <1>4, <1>5, <1>6 DEF IInv

LEMMA CallHandleKeeps ==
    ASSUME IInv, NEW t \in Threads, CallHandle(t)
    PROVE  IInv'
<1> DEFINE k == handle.key
           e == handle.entry
<1>1. /\ MayCall(t) /\ e # None /\ UNCHANGED names /\ handle' = handle
      /\ Push(t, IF k \in Handlers THEN Frame("call", "inside", k, {e})
                 ELSE Emission("handle", k, e))
  BY DEF CallHandle
<1>2. k \in Keys /\ Names(e, k) /\ e \in Entries
  BY <1>1 DEF IInv, HandleInv, NamesTyped
<1> HIDE DEF k, e
<1>3. CASE k \in Handlers
  <2> DEFINE f == Frame("call", "inside", k, {e})
  <2>1. f \in Frames
    <3>1. <<>> \in Seq(Ids) /\ <<>> \in Seq(Reports) /\ 0 \in Nat
      OBVIOUS
    <3> QED BY <1>2, <3>1 DEF Frames, Frame
  <2>2. f \in Calls
    BY <2>1 DEF Calls, FrameInv, Frame
  <2> HIDE DEF f
  <2>3. Push(t, f)
    BY <1>1, <1>3 DEF f
  <2> QED BY <1>1, <2>2, <2>3, Pushing
<1>4. CASE k \notin Handlers
  <2> DEFINE f == Found("handle", k, e, 0)
  <2>0. k \in Events /\ nextId \in Nat
    BY <1>2, <1>4 DEF Keys, IInv, NamesTyped
  <2>1. f \in Frames
    <3>1. <<>> \in Seq(Ids) /\ <<>> \in Seq(Reports) /\ 0 \in Nat
      OBVIOUS
    <3> QED BY <1>2, <2>0, <3>1 DEF Frames, Found
  <2>2. f.pins = {e} /\ f.key = k /\ f.born = nextId /\ f.op = "handle" /\ f.step = "found"
    BY DEF Found
  <2>3. Push(t, f)
    BY <1>1, <1>4, EmissionFinds
  <2> HIDE DEF f
  <2>4. FoundOne(f)
    BY <1>2, <2>0, <2>2 DEF FoundOne
  <2>5. f \in Calls
    BY <2>1, <2>2, <2>4 DEF Calls, FrameInv
  <2> QED BY <1>1, <2>3, <2>5, Pushing
<1> QED BY <1>3, <1>4

LEMMA Steps ==
    ASSUME IInv, [Next]_vars
    PROVE  IInv'
<1>1. CASE UNCHANGED vars
  <2>1. UNCHANGED names /\ handle' = handle /\ stack' = stack
    BY <1>1 DEF vars
  <2>2. StackInv'
    BY <2>1, CallsSame DEF IInv, StackInv, Nested
  <2> QED BY <2>1, <2>2, BooksStay
<1>2. ASSUME NEW t \in Threads, Step(t) PROVE IInv'
  <2>1. ASSUME NEW k \in Handlers, NEW o \in Owners, RegisterHandler(t, k, o) PROVE IInv'
    BY <2>1, RegisterHandlerKeeps
  <2>2. ASSUME NEW k \in Handlers, UnregisterHandler(t, k) PROVE IInv'
    BY <2>2, UnregisterHandlerKeeps
  <2>3. ASSUME NEW k \in Events, NEW o \in Owners, Register(t, k, o) PROVE IInv'
    BY <2>3, RegisterKeeps
  <2>4. ASSUME NEW id \in Ids, Unregister(t, id) PROVE IInv'
    BY <2>4, UnregisterKeeps
  <2>5. ASSUME NEW o \in Owners, UnregisterOwner(t, o) PROVE IInv'
    BY <2>5, UnregisterOwnerKeeps
  <2>6. CASE ReportNext(t)
    BY <2>6, ReportNextKeeps
  <2>7. CASE ChangeDone(t)
    BY <2>7, Popped DEF ChangeDone, At
  <2>8. ASSUME NEW k \in Events, Emit(t, k) PROVE IInv'
    BY <2>8, EmitKeeps
  <2>9. CASE Snapshot(t)
    <3>1. PICK e \in Entries : /\ Inside(t) /\ Top(t).op # "change" /\ list[e] \in Seq(Ids)
                               /\ GoOn(t, Top(t), list[e]) /\ UNCHANGED <<names, handle, owed, cut>>
      BY <2>9, Copied
    <3>2. UNCHANGED names /\ handle' = handle
      BY <3>1
    <3> QED BY <3>1, <3>2, GoOnKeeps
  <2>10. CASE Return(t)
    <3>1. PICK todo \in Seq(Ids) : /\ Inside(t) /\ Top(t).op # "change"
                                   /\ GoOn(t, Top(t), todo) /\ UNCHANGED <<names, handle, owed, cut>>
      BY <2>10, Returned
    <3>2. UNCHANGED names /\ handle' = handle
      BY <3>1
    <3> QED BY <3>1, <3>2, GoOnKeeps
  <2>11. CASE Throw(t)
    BY <2>11, Popped DEF Throw, At
  <2>12. ASSUME NEW k \in Keys, GetHandle(t, k) PROVE IInv'
    BY <2>12, GetHandleKeeps
  <2>13. CASE CallHandle(t)
    BY <2>13, CallHandleKeeps
  <2> QED BY <1>2, <2>1, <2>2, <2>3, <2>4, <2>5, <2>6, <2>7, <2>8, <2>9, <2>10, <2>11, <2>12, <2>13
          DEF Step
<1> QED BY <1>1, <1>2 DEF Next

\* Theorem: in every state the table, the lists and the ids agree, and every
\* emission under way holds a list it may go on with, for any number of names,
\* owners, threads and nested calls.
THEOREM BooksInvariant == Spec => []IInv
<1>1. Init => IInv
  BY Start
<1>2. IInv /\ [Next]_vars => IInv'
  BY Steps
<1> QED BY <1>1, <1>2, PTL DEF Spec

\* Theorem: a subscription is known by its id exactly if the entry its name
\* leads to lists it, an entry in the table has subscribers, and lists are in
\* the order of subscription.
THEOREM Subscriptions == Spec => []Inv
BY BooksInvariant, InvFollows, PTL

-----------------------------------------------------------------------------
(* What an emission takes.                                                 *)

LEMMA OwnStack ==
    ASSUME NEW t \in Threads, Step(t), stack \in [Threads -> Seq(Calls)],
           NEW u \in Threads, u # t
    PROVE  stack'[u] = stack[u]
<1>1. ASSUME NEW pins, NEW reports, Changed(t, pins, reports) PROVE stack'[u] = stack[u]
  BY <1>1 DEF Changed
<1>2. ASSUME NEW fs, Becomes(t, fs) PROVE stack'[u] = stack[u]
  BY <1>2 DEF Becomes
<1>3. ASSUME NEW f, Push(t, f) PROVE stack'[u] = stack[u]
  BY <1>3 DEF Push
<1>4. ASSUME NEW f, NEW todo, GoOn(t, f, todo) PROVE stack'[u] = stack[u]
  BY <1>2, <1>4 DEF GoOn, Pop
<1>5. ASSUME NEW k \in Handlers, NEW o \in Owners, RegisterHandler(t, k, o) PROVE stack'[u] = stack[u]
  BY <1>1, <1>5 DEF RegisterHandler
<1>6. ASSUME NEW k \in Handlers, UnregisterHandler(t, k) PROVE stack'[u] = stack[u]
  BY <1>1, <1>6 DEF UnregisterHandler
<1>7. ASSUME NEW k \in Events, NEW o \in Owners, Register(t, k, o) PROVE stack'[u] = stack[u]
  BY <1>1, <1>7 DEF Register
<1>8. ASSUME NEW id \in Ids, Unregister(t, id) PROVE stack'[u] = stack[u]
  BY <1>1, <1>8 DEF Unregister
<1>9. ASSUME NEW o \in Owners, UnregisterOwner(t, o) PROVE stack'[u] = stack[u]
  <2>1. \E pins, reports : Changed(t, pins, reports)
    BY <1>9, Zenon DEF UnregisterOwner
  <2> QED BY <1>1, <2>1
<1>10. CASE ReportNext(t)
  BY <1>2, <1>10, Zenon DEF ReportNext
<1>11. CASE ChangeDone(t) \/ Throw(t)
  BY <1>2, <1>11 DEF ChangeDone, Throw, Pop
<1>12. ASSUME NEW k \in Events, Emit(t, k) PROVE stack'[u] = stack[u]
  BY <1>3, <1>12 DEF Emit
<1>13. CASE Snapshot(t)
  BY <1>4, <1>13, Zenon DEF Snapshot
<1>14. CASE Return(t)
  BY <1>4, <1>14, Zenon DEF Return
<1>15. ASSUME NEW k \in Keys, GetHandle(t, k) PROVE stack'[u] = stack[u]
  BY <1>15 DEF GetHandle
<1>16. CASE CallHandle(t)
  BY <1>3, <1>16, Zenon DEF CallHandle
<1> QED BY <1>5, <1>6, <1>7, <1>8, <1>9, <1>10, <1>11, <1>12, <1>13, <1>14, <1>15, <1>16 DEF Step

\* An emission that has found its entry does nothing but copy its list.
LEMMA FoundCopies ==
    ASSUME NEW t \in Threads, Step(t), At(t, "found"), stack' # stack
    PROVE  Snapshot(t)
<1>1. ~MayCall(t) /\ ~At(t, "report") /\ ~At(t, "inside")
  BY DEF At, MayCall
<1>2. \A k \in Handlers, o \in Owners : ~RegisterHandler(t, k, o)
  BY <1>1 DEF RegisterHandler
<1>3. \A k \in Handlers : ~UnregisterHandler(t, k)
  BY <1>1 DEF UnregisterHandler
<1>4. \A k \in Events, o \in Owners : ~Register(t, k, o)
  BY <1>1 DEF Register
<1>5. \A id \in Ids : ~Unregister(t, id)
  BY <1>1 DEF Unregister
<1>6. \A o \in Owners : ~UnregisterOwner(t, o)
  BY <1>1, Zenon DEF UnregisterOwner
<1>7. ~ReportNext(t) /\ ~ChangeDone(t) /\ ~Return(t) /\ ~Throw(t)
  BY <1>1 DEF ReportNext, ChangeDone, Return, Throw
<1>8. \A k \in Events : ~Emit(t, k)
  BY <1>1 DEF Emit
<1>9. \A k \in Keys : ~GetHandle(t, k)
  BY <1>1 DEF GetHandle
<1>10. ~CallHandle(t)
  BY <1>1 DEF CallHandle
<1> QED BY <1>2, <1>3, <1>4, <1>5, <1>6, <1>7, <1>8, <1>9, <1>10 DEF Step

\* What it copies is who is subscribed, and nobody who was before it began is
\* missing.
LEMMA Exactly ==
    ASSUME IInv, NEW t \in Threads, Snapshot(t)
    PROVE  LET f     == Top(t)
               taken == IF Len(stack'[t]) < Len(stack[t]) THEN {}
                        ELSE ToSet(Last(stack'[t]).todo)
           IN  /\ taken \subseteq Live(f.key)
               /\ f.op # "handle" => {i \in Live(f.key) : i < f.born} \subseteq taken
<1> DEFINE taken == IF Len(stack'[t]) < Len(stack[t]) THEN {} ELSE ToSet(Last(stack'[t]).todo)
<1>1. PICK e \in Entries :
         /\ Inside(t) /\ Top(t).op # "change"
         /\ Top(t).key \in Events /\ Names(e, Top(t).key)
         /\ Top(t).op # "handle" => {i \in Live(Top(t).key) : i < Top(t).born} \subseteq ToSet(list[e])
         /\ list[e] \in Seq(Ids) /\ GoOn(t, Top(t), list[e])
  BY Copied
<1>2. stack \in [Threads -> Seq(Calls)]
  BY DEF IInv, StackInv
<1>3. taken = ToSet(list[e])
  <2>1. CASE list[e] = <<>> /\ Pop(t)
    <3>1. PICK fs \in Seq(Calls) : fs = <<>>
      <4>1. <<>> \in Seq(Calls)
        OBVIOUS
      <4> QED BY <4>1
    <3>2. /\ Front(stack[t]) \in Seq(Calls) /\ stack'[t] = Front(stack[t]) \o fs
          /\ Len(stack[t]) \in Nat \ {0} /\ Len(Front(stack[t])) = Len(stack[t]) - 1
      <4>1. Becomes(t, fs)
        BY <2>1, <3>1 DEF Pop
      <4> QED BY <1>1, <1>2, <4>1, StackTurns
    <3>3. Len(stack'[t]) < Len(stack[t])
      <4>1. stack'[t] = Front(stack[t])
        BY <3>1, <3>2, ConcatEmptySeq
      <4> QED BY <3>2, <4>1
    <3>4. ToSet(list[e]) = {}
      BY <2>1 DEF ToSet
    <3> QED BY <3>3, <3>4
  <2>2. CASE Going(Top(t), list[e]) \in Calls /\ Becomes(t, <<Going(Top(t), list[e])>>)
    <3>1. PICK g \in Calls : g = Going(Top(t), list[e])
      BY <2>2
    <3>2. PICK fs \in Seq(Calls) : fs = <<g>> /\ Len(fs) = 1 /\ fs[1] = g
      <4>1. <<g>> \in Seq(Calls) /\ Len(<<g>>) = 1 /\ <<g>>[1] = g
        OBVIOUS
      <4> QED BY <4>1
    <3>3. /\ Front(stack[t]) \in Seq(Calls) /\ stack'[t] = Front(stack[t]) \o fs
          /\ Len(stack[t]) \in Nat \ {0} /\ Len(Front(stack[t])) = Len(stack[t]) - 1
      <4>1. Becomes(t, fs)
        BY <2>2, <3>1, <3>2
      <4> QED BY <1>1, <1>2, <4>1, StackTurns
    <3>4. Len(stack'[t]) = Len(stack[t]) /\ stack'[t][Len(stack[t])] = g
      <4>1. PICK s \in Seq(Calls) : s = Front(stack[t])
        BY <3>3
      <4>2. /\ Len(s \o fs) = Len(s) + Len(fs) /\ Len(s) = Len(stack[t]) - 1 /\ Len(s) \in Nat
            /\ \A i \in 1 .. Len(s) + Len(fs) : (s \o fs)[i] = IF i <= Len(s) THEN s[i] ELSE fs[i - Len(s)]
        BY <3>3, <4>1, ConcatProperties
      <4>3. stack'[t] = s \o fs
        BY <3>3, <4>1
      <4>4. Len(s) + Len(fs) = Len(stack[t]) /\ ~(Len(stack[t]) <= Len(s)) /\ Len(stack[t]) - Len(s) = 1
            /\ Len(stack[t]) \in 1 .. Len(s) + Len(fs)
        BY <3>2, <3>3, <4>2
      <4> QED BY <3>2, <4>2, <4>3, <4>4
    <3>5. ~(Len(stack'[t]) < Len(stack[t])) /\ Last(stack'[t]) = g
      BY <3>3, <3>4 DEF Last
    <3>6. g.todo = list[e]
      BY <3>1 DEF Going
    <3> QED BY <3>5, <3>6
  <2> QED BY <1>1, <2>1, <2>2, GoingOn
<1>4. ToSet(list[e]) \subseteq Live(Top(t).key)
  <2>1. CASE list[e] = <<>>
    BY <2>1 DEF ToSet
  <2>2. CASE list[e] # <<>>
    <3>1. PICK k \in Events : table[k] = e
      BY <2>2 DEF IInv, BooksInv
    <3>2. k = Top(t).key /\ table[k] # None
      BY <1>1, <3>1 DEF Names, Keys, Entries, None
    <3>3. Live(k) = ToSet(list[e])
      BY <3>1, <3>2 DEF IInv, BooksInv
    <3> QED BY <3>2, <3>3
  <2> QED BY <2>1, <2>2
<1> QED BY <1>1, <1>3, <1>4

\* Theorem: no emission takes a subscription removed before it began, or
\* misses one that was made before it began and is still there.
THEOREM ExactSnapshots == Spec => SnapshotExact
<1> DEFINE A == \A t \in Threads : At(t, "found") /\ stack'[t] # stack[t] =>
                   LET f     == Top(t)
                       taken == IF Len(stack'[t]) < Len(stack[t]) THEN {}
                                ELSE ToSet(Last(stack'[t]).todo)
                   IN  /\ taken \subseteq Live(f.key)
                       /\ f.op # "handle" => {i \in Live(f.key) : i < f.born} \subseteq taken
<1>1. IInv /\ [Next]_vars => [A]_vars
  <2> SUFFICES ASSUME IInv, Next PROVE A
    OBVIOUS
  <2>1. PICK u \in Threads : Step(u)
    BY DEF Next
  <2> SUFFICES ASSUME NEW t \in Threads, At(t, "found"), stack'[t] # stack[t]
               PROVE  LET f     == Top(t)
                          taken == IF Len(stack'[t]) < Len(stack[t]) THEN {}
                                   ELSE ToSet(Last(stack'[t]).todo)
                      IN  /\ taken \subseteq Live(f.key)
                          /\ f.op # "handle" => {i \in Live(f.key) : i < f.born} \subseteq taken
    OBVIOUS
  <2>2. u = t
    BY <2>1, OwnStack DEF IInv, StackInv
  <2>3. Snapshot(t)
    BY <2>1, <2>2, FoundCopies
  <2> QED BY <2>3, Exactly
<1>2. Spec => SnapshotExact
  BY <1>1, BooksInvariant, PTL DEF Spec, SnapshotExact
<1> QED BY <1>2

-----------------------------------------------------------------------------
(* What the debug topics tell: every change is told to each listener the   *)
(* topic had, once, however the calls of the threads, and the ones         *)
(* listeners make themselves, meet.                                        *)

(* The inductive invariant.                                                *)

\* A change that has been made.
Past(topic, about) ==
    \/ topic = "handler_registered" /\ about \in Entries /\ about < nextEntry
    \/ /\ topic = "handler_unregistered" /\ about \in Entries /\ about < nextEntry
       /\ \A k \in Keys : table[k] # about
    \/ /\ topic \in {"event_subscribed", "handled_event_subscribed"}
       /\ about \in Ids /\ about < nextId
    \/ /\ topic \in {"event_unsubscribed", "handled_event_unsubscribed"}
       /\ about \in Ids /\ about < nextId /\ subKey[about] = NoKey

\* The changes a call is still to tell of, or is telling of.
Says(f) ==
    IF f.op = "change" THEN {<<r.topic, r.about>> : r \in {x \in ToSet(f.reports) : x.about # 0}}
    ELSE IF f.op = "debug" /\ f.about # 0 THEN {<<f.key, f.about>>}
    ELSE {}

\* A listener is being told.
Telling(f) == f.op = "debug" /\ f.step = "inside"

\* A listener of the topic has not heard of the change,
Unheard(topic, about) == \A l \in Ids : subKey[l] = topic => <<l, about>> \notin heard

\* and one whose turn is still to come has not, subscribed as he may be or not.
Untold(f) == \A n \in DOMAIN f.todo : n > 1 => <<f.todo[n], f.about>> \notin heard

ReportInv(f) ==
    /\ f.op = "change" => Single(f.reports)
    /\ f.op = "debug" => f.key \in Topics
    /\ Telling(f) => /\ Single(f.todo)
                     /\ \A l \in ToSet(f.todo) : l < nextId /\ subKey[l] \in {f.key, NoKey}
    /\ \A p \in Says(f) : /\ Past(p[1], p[2])
                          /\ f.step # "inside" => Unheard(p[1], p[2])
                          /\ f.step = "inside" => Untold(f)

\* No two calls tell of one change, and nobody is called by two topics.
Distinct(f, g) ==
    /\ Says(f) \cap Says(g) = {}
    /\ Telling(f) /\ Telling(g) /\ ToSet(f.todo) \cap ToSet(g.todo) # {} => f.key = g.key

ReportsInv == \A t \in Threads : \A i \in DOMAIN stack[t] : ReportInv(stack[t][i])

DistinctInv ==
    \A t, u \in Threads : \A i \in DOMAIN stack[t], j \in DOMAIN stack[u] :
       t # u \/ i # j => Distinct(stack[t][i], stack[u][j])

HeardInv ==
    \A p \in heard : /\ p[1] \in Ids /\ p[1] < nextId
                     /\ subKey[p[1]] # NoKey => Past(subKey[p[1]], p[2])

\* The call is still to tell p[1] of p[2].
Will(f, p) ==
    /\ <<subKey[p[1]], p[2]>> \in Says(f)
    /\ f.step = "found" => p[1] < f.born
    /\ f.step = "inside" => \E n \in DOMAIN f.todo : n > 1 /\ f.todo[n] = p[1]

OwedInv ==
    \A p \in owed :
       /\ p[1] \in Ids /\ p[1] < nextId
       /\ subKey[p[1]] # NoKey /\ <<subKey[p[1]], p[2]>> \notin cut =>
             p \in heard \/ \E t \in Threads : \E i \in DOMAIN stack[t] : Will(stack[t][i], p)

\* What heard and owed are made of.
Pairs == heard \in SUBSET (Ids \X Nat) /\ owed \in SUBSET (Ids \X Nat)

RInv ==
    /\ IInv /\ Pairs /\ again = {}
    /\ ReportsInv /\ DistinctInv /\ HeardInv /\ OwedInv

LEMMA RStart ==
    Init => RInv
<1> SUFFICES ASSUME Init PROVE RInv
  OBVIOUS
<1>1. \A t \in Threads : DOMAIN stack[t] = {}
  BY DEF Init
<1>2. heard = {} /\ owed = {} /\ again = {}
  BY DEF Init
<1> QED BY <1>1, <1>2, Start DEF RInv, Pairs, ReportsInv, DistinctInv, HeardInv, OwedInv

LEMMA ReportedFollows ==
    RInv => DebugReported
<1> SUFFICES ASSUME RInv PROVE DebugReported
  OBVIOUS
<1>1. ASSUME \A t \in Threads : ~Inside(t)
      PROVE  \A t \in Threads : DOMAIN stack[t] = {}
  BY <1>1 DEF Inside
<1> QED BY <1>1 DEF RInv, OwedInv, DebugReported

LEMMA DistinctBack ==
    ASSUME NEW f, NEW g, Distinct(f, g)
    PROVE  Distinct(g, f)
BY DEF Distinct

-----------------------------------------------------------------------------
(* Stacks: which calls stay and which come.                                *)

\* On t's stack the calls in base stay, and those in fs come.
Turned(t, base, fs) ==
    /\ base \in Seq(Calls) /\ fs \in Seq(Calls)
    /\ \A i \in DOMAIN base : i \in DOMAIN stack[t] /\ base[i] = stack[t][i]
    /\ stack'[t] = base \o fs
    /\ \A u \in Threads \ {t} : stack'[u] = stack[u]

\* A call that stays.
Stays(t, base, u, j) == j \in DOMAIN stack[u] /\ (u = t => j \in DOMAIN base)

LEMMA Placed ==
    ASSUME NEW t \in Threads, NEW base, NEW fs, Turned(t, base, fs)
    PROVE  /\ \A u \in Threads : \A j \in DOMAIN stack'[u] :
                 \/ Stays(t, base, u, j) /\ stack'[u][j] = stack[u][j]
                 \/ u = t /\ \E i \in DOMAIN fs : j = Len(base) + i /\ stack'[u][j] = fs[i]
           /\ \A u \in Threads : \A j : Stays(t, base, u, j) =>
                 j \in DOMAIN stack'[u] /\ stack'[u][j] = stack[u][j]
           /\ \A i \in DOMAIN fs : Len(base) + i \in DOMAIN stack'[t] /\ stack'[t][Len(base) + i] = fs[i]
<1>1. /\ base \o fs \in Seq(Calls) /\ Len(base) \in Nat /\ Len(fs) \in Nat
      /\ DOMAIN base = 1 .. Len(base) /\ DOMAIN fs = 1 .. Len(fs)
      /\ Len(base \o fs) = Len(base) + Len(fs)
      /\ \A i \in 1 .. Len(base) + Len(fs) : (base \o fs)[i] = IF i <= Len(base) THEN base[i] ELSE fs[i - Len(base)]
  BY ConcatProperties, LenProperties DEF Turned
<1>2. DOMAIN (base \o fs) = 1 .. Len(base) + Len(fs)
  BY <1>1, LenProperties
<1>3. /\ DOMAIN stack'[t] = 1 .. Len(base) + Len(fs)
      /\ \A i \in 1 .. Len(base) + Len(fs) : stack'[t][i] = IF i <= Len(base) THEN base[i] ELSE fs[i - Len(base)]
  BY <1>1, <1>2 DEF Turned
<1>4. ASSUME NEW j \in DOMAIN stack'[t]
      PROVE  \/ Stays(t, base, t, j) /\ stack'[t][j] = stack[t][j]
             \/ \E i \in DOMAIN fs : j = Len(base) + i /\ stack'[t][j] = fs[i]
  <2>1. CASE j <= Len(base)
    <3>1. j \in DOMAIN base /\ stack'[t][j] = base[j]
      BY <1>1, <1>3, <2>1
    <3> QED BY <3>1 DEF Turned, Stays
  <2>2. CASE ~(j <= Len(base))
    <3>1. j - Len(base) \in DOMAIN fs /\ j = Len(base) + (j - Len(base)) /\ stack'[t][j] = fs[j - Len(base)]
      BY <1>1, <1>3, <2>2
    <3> QED BY <3>1
  <2> QED BY <2>1, <2>2
<1>5. ASSUME NEW j, Stays(t, base, t, j) PROVE j \in DOMAIN stack'[t] /\ stack'[t][j] = stack[t][j]
  <2>1. j \in 1 .. Len(base) /\ base[j] = stack[t][j]
    BY <1>1, <1>5 DEF Turned, Stays
  <2> QED BY <1>1, <1>3, <2>1
<1>6. ASSUME NEW i \in DOMAIN fs PROVE Len(base) + i \in DOMAIN stack'[t] /\ stack'[t][Len(base) + i] = fs[i]
  <2>1. Len(base) + i \in 1 .. Len(base) + Len(fs) /\ ~(Len(base) + i <= Len(base)) /\ Len(base) + i - Len(base) = i
    BY <1>1
  <2> QED BY <1>3, <2>1
<1>7. ASSUME NEW u \in Threads, u # t
      PROVE  stack'[u] = stack[u] /\ \A j : Stays(t, base, u, j) <=> j \in DOMAIN stack[u]
  BY <1>7 DEF Turned, Stays
<1> QED BY <1>4, <1>5, <1>6, <1>7

\* All stay when a call is made or a change begins to report,
LEMMA GrowthTurns ==
    ASSUME stack \in [Threads -> Seq(Calls)], NEW t \in Threads, NEW fs \in Seq(Calls),
           stack' = [stack EXCEPT ![t] = @ \o fs]
    PROVE  Turned(t, stack[t], fs) /\ \A u, j : Stays(t, stack[t], u, j) <=> j \in DOMAIN stack[u]
BY DEF Turned, Stays

\* and all but the innermost otherwise.
LEMMA TopTurns ==
    ASSUME stack \in [Threads -> Seq(Calls)], NEW t \in Threads, NEW fs \in Seq(Calls),
           Inside(t), Becomes(t, fs)
    PROVE  /\ Turned(t, Front(stack[t]), fs)
           /\ Len(stack[t]) \in DOMAIN stack[t] /\ Top(t) = stack[t][Len(stack[t])]
           /\ \A u, j : Stays(t, Front(stack[t]), u, j)
                           <=> j \in DOMAIN stack[u] /\ (u # t \/ j # Len(stack[t]))
<1>1. /\ Front(stack[t]) \in Seq(Calls)
      /\ Len(stack[t]) \in Nat \ {0} /\ Len(Front(stack[t])) = Len(stack[t]) - 1
      /\ \A i \in 1 .. Len(stack[t]) - 1 : Front(stack[t])[i] = stack[t][i]
      /\ Top(t) = stack[t][Len(stack[t])]
      /\ stack'[t] = Front(stack[t]) \o fs
      /\ \A u \in Threads \ {t} : stack'[u] = stack[u]
  <2>1. PICK S : S = Calls
    OBVIOUS
  <2>2. stack \in [Threads -> Seq(S)] /\ fs \in Seq(S)
    BY <2>1
  <2>3. /\ Front(stack[t]) \in Seq(S)
        /\ Len(stack[t]) \in Nat \ {0} /\ Len(Front(stack[t])) = Len(stack[t]) - 1
        /\ \A i \in 1 .. Len(stack[t]) - 1 : Front(stack[t])[i] = stack[t][i]
        /\ Top(t) = stack[t][Len(stack[t])] /\ Top(t) \in S
        /\ stack' \in [Threads -> Seq(S)]
        /\ stack'[t] = Front(stack[t]) \o fs
        /\ \A u \in Threads \ {t} : stack'[u] = stack[u]
    BY <2>2, StackTurns
  <2> QED BY <2>1, <2>3
<1>2. stack[t] \in Seq(Calls) /\ DOMAIN stack[t] = 1 .. Len(stack[t])
  BY LenProperties
<1>3. DOMAIN Front(stack[t]) = 1 .. Len(stack[t]) - 1
  BY <1>1, LenProperties
<1>4. \A i \in DOMAIN Front(stack[t]) : i \in DOMAIN stack[t] /\ Front(stack[t])[i] = stack[t][i]
  BY <1>1, <1>2, <1>3
<1>5. \A j : j \in DOMAIN Front(stack[t]) <=> j \in DOMAIN stack[t] /\ j # Len(stack[t])
  BY <1>1, <1>2, <1>3
<1>6. Len(stack[t]) \in DOMAIN stack[t]
  BY <1>1, <1>2
<1> QED BY <1>1, <1>4, <1>5, <1>6 DEF Turned, Stays

\* If the calls that stay and those that come are in order, all are.
LEMMA AllInOrder ==
    ASSUME DistinctInv, NEW t \in Threads, NEW base, NEW fs, Turned(t, base, fs),
           \A u \in Threads : \A j : Stays(t, base, u, j) => ReportInv(stack[u][j])',
           \A i \in DOMAIN fs : ReportInv(fs[i])',
           \A i \in DOMAIN fs : \A u \in Threads : \A j :
              Stays(t, base, u, j) => Distinct(fs[i], stack[u][j]),
           \A i, j \in DOMAIN fs : i # j => Distinct(fs[i], fs[j])
    PROVE  ReportsInv' /\ DistinctInv'
<1>1. /\ \A u \in Threads : \A j \in DOMAIN stack'[u] :
            \/ Stays(t, base, u, j) /\ stack'[u][j] = stack[u][j]
            \/ u = t /\ \E i \in DOMAIN fs : j = Len(base) + i /\ stack'[u][j] = fs[i]
  BY Placed
<1>2. ASSUME NEW u \in Threads, NEW j \in DOMAIN stack'[u] PROVE ReportInv(stack[u][j])'
  <2>1. CASE Stays(t, base, u, j) /\ stack'[u][j] = stack[u][j]
    BY <2>1 DEF ReportInv, Past, Unheard, Untold, Telling, Says, Keys, Entries, Ids
  <2>2. CASE \E i \in DOMAIN fs : stack'[u][j] = fs[i]
    BY <2>2 DEF ReportInv, Past, Unheard, Untold, Telling, Says, Keys, Entries, Ids
  <2> QED BY <1>1, <2>1, <2>2
<1>3. ASSUME NEW u \in Threads, NEW v \in Threads, NEW i \in DOMAIN stack'[u], NEW j \in DOMAIN stack'[v],
             u # v \/ i # j
      PROVE  Distinct(stack'[u][i], stack'[v][j])
  <2>1. CASE /\ Stays(t, base, u, i) /\ stack'[u][i] = stack[u][i]
             /\ Stays(t, base, v, j) /\ stack'[v][j] = stack[v][j]
    BY <1>3, <2>1 DEF DistinctInv, Stays
  <2>2. CASE /\ u = t /\ \E n \in DOMAIN fs : i = Len(base) + n /\ stack'[u][i] = fs[n]
             /\ Stays(t, base, v, j) /\ stack'[v][j] = stack[v][j]
    BY <2>2
  <2>3. CASE /\ Stays(t, base, u, i) /\ stack'[u][i] = stack[u][i]
             /\ v = t /\ \E n \in DOMAIN fs : j = Len(base) + n /\ stack'[v][j] = fs[n]
    BY <2>3, DistinctBack
  <2>4. CASE /\ u = t /\ \E n \in DOMAIN fs : i = Len(base) + n /\ stack'[u][i] = fs[n]
             /\ v = t /\ \E n \in DOMAIN fs : j = Len(base) + n /\ stack'[v][j] = fs[n]
    BY <1>3, <2>4
  <2>5. /\ \/ Stays(t, base, u, i) /\ stack'[u][i] = stack[u][i]
           \/ u = t /\ \E n \in DOMAIN fs : i = Len(base) + n /\ stack'[u][i] = fs[n]
        /\ \/ Stays(t, base, v, j) /\ stack'[v][j] = stack[v][j]
           \/ v = t /\ \E n \in DOMAIN fs : j = Len(base) + n /\ stack'[v][j] = fs[n]
    BY <1>1
  <2> QED BY <2>1, <2>2, <2>3, <2>4, <2>5
<1>4. DistinctInv'
  BY <1>3 DEF DistinctInv, Distinct, Says, Telling
<1> QED BY <1>2, <1>4 DEF ReportsInv

-----------------------------------------------------------------------------
(* What changes do to what is told.                                        *)

\* What has been made stays made; names that listeners left are not used again.
Onward ==
    /\ \A topic, about : Past(topic, about) => Past(topic, about)'
    /\ nextId' \in Nat /\ nextId <= nextId'
    /\ \A i \in Ids : i < nextId => subKey'[i] \in {subKey[i], NoKey}

LEMMA SaysTopics ==
    ASSUME NEW f, NEW p \in Says(f), Past(p[1], p[2])
    PROVE  p[1] # NoKey
BY DEF Past, NoKey

\* A call that a step leaves alone stays in order.
LEMMA StaysInOrder ==
    ASSUME RInv, Onward, heard' = heard, NEW f \in Calls, ReportInv(f)
    PROVE  ReportInv(f)'
<1>1. ASSUME Telling(f), NEW l \in ToSet(f.todo)
      PROVE  l < nextId' /\ subKey'[l] \in {f.key, NoKey}
  <2>1. f.todo \in Seq(Ids)
    BY DEF Calls, Frames
  <2>2. l \in Ids
    BY <2>1 DEF ToSet
  <2>3. l \in Nat /\ nextId \in Nat
    BY <2>2 DEF Ids, RInv, IInv, NamesTyped
  <2>4. l < nextId /\ subKey[l] \in {f.key, NoKey}
    BY <1>1 DEF ReportInv
  <2> QED BY <2>2, <2>3, <2>4 DEF Onward
<1>2. ASSUME NEW p \in Says(f)
      PROVE  /\ Past(p[1], p[2])'
             /\ f.step # "inside" => Unheard(p[1], p[2])'
             /\ f.step = "inside" => Untold(f)'
  <2>1. /\ Past(p[1], p[2])
        /\ f.step # "inside" => Unheard(p[1], p[2])
        /\ f.step = "inside" => Untold(f)
    BY DEF ReportInv
  <2>2. Past(p[1], p[2])'
    BY <2>1 DEF Onward, Past, Entries, Ids, Keys
  <2>3. Untold(f) => Untold(f)'
    BY DEF Untold
  <2>4. ASSUME Unheard(p[1], p[2]) PROVE Unheard(p[1], p[2])'
    <3> SUFFICES ASSUME NEW l \in Ids, subKey'[l] = p[1], <<l, p[2]>> \in heard PROVE FALSE
      BY DEF Unheard
    <3>1. l < nextId
      BY DEF RInv, HeardInv
    <3>2. p[1] # NoKey
      BY <2>1, SaysTopics
    <3>3. subKey[l] = p[1]
      BY <3>1, <3>2 DEF Onward
    <3> QED BY <2>4, <3>3 DEF Unheard
  <2>5. f.step # "inside" => Unheard(p[1], p[2])'
    BY <2>1, <2>4
  <2>6. f.step = "inside" => Untold(f)'
    BY <2>1, <2>3
  <2> QED BY <2>2, <2>5, <2>6
<1>3. Says(f)' = Says(f) /\ Telling(f)' = Telling(f)
  BY DEF Says, Telling
<1>4. f.op = "change" => Single(f.reports)
  BY DEF ReportInv
<1>5. f.op = "debug" => f.key \in Topics
  BY DEF ReportInv
<1>6. Telling(f) => Single(f.todo)
  BY DEF ReportInv
<1> QED BY <1>1, <1>2, <1>3, <1>4, <1>5, <1>6 DEF ReportInv, Says, Telling, Past, Unheard, Untold, Ids, Entries, Keys

LEMMA StackElements ==
    ASSUME IInv, NEW u \in Threads, NEW j \in DOMAIN stack[u]
    PROVE  stack[u][j] \in Calls /\ stack[u][j] \in Frames
<1>1. stack[u] \in Seq(Calls)
  BY DEF IInv, StackInv
<1>2. stack[u][j] \in Calls
  BY <1>1
<1> QED BY <1>2 DEF Calls

\* Whoever listens to a topic is subscribed to it.
LEMMA ListensTo ==
    ASSUME IInv, NEW topic, NEW l \in Listeners(topic)
    PROVE  l \in Ids /\ l < nextId /\ subKey[l] = topic
<1>1. topic \in Events /\ table[topic] # None /\ l \in ToSet(list[table[topic]]) /\ topic \in Keys
  BY DEF Listeners, Keys
<1>2. table[topic] \in Entries
  BY <1>1, Subjects
<1>3. l \in Ids /\ l < nextId /\ \E k \in Events : table[k] = table[topic] /\ subKey[l] = k
  BY <1>1, <1>2, GivenOut
<1> QED BY <1>1, <1>3 DEF IInv, TableInv, Keys

\* A change that is new, and is made as it is reported, is in order.
LEMMA NewsInOrder ==
    ASSUME RInv, IInv', Onward, NEW t \in Threads, NEW pins \in SUBSET Entries,
           NEW reports \in Seq(Reports), Single(reports), Changed(t, pins, reports),
           \A r \in ToSet(reports) : r.about # 0 =>
              ~Past(r.topic, r.about) /\ Past(r.topic, r.about)'
    PROVE  RInv'
<1> DEFINE fs == Change(pins, reports)
<1>1. /\ fs \in Seq(Calls)
      /\ \/ fs = <<>> /\ reports = <<>>
         \/ \E f \in Calls : /\ fs = <<f>> /\ f.op = "change" /\ f.step = "report" /\ f.reports = reports
  BY ChangeFrame
<1>2. /\ stack' = [stack EXCEPT ![t] = @ \o fs]
      /\ owed' = owed \cup UNION {{<<l, r.about>> : l \in Listeners(r.topic)} :
                                      r \in {x \in ToSet(reports) : x.about # 0}}
      /\ heard' = heard /\ again' = again /\ cut' = cut
  BY DEF Changed, Announced
<1> HIDE DEF fs
<1>3. IInv /\ stack \in [Threads -> Seq(Calls)] /\ DistinctInv
  BY DEF RInv, IInv, StackInv
<1>4. Turned(t, stack[t], fs) /\ \A u, j : Stays(t, stack[t], u, j) <=> j \in DOMAIN stack[u]
  BY <1>1, <1>2, <1>3, GrowthTurns
<1>5. PICK base : base = stack[t]
  OBVIOUS
<1>6. Turned(t, base, fs) /\ \A u, j : Stays(t, base, u, j) <=> j \in DOMAIN stack[u]
  BY <1>4, <1>5
<1>7. PICK gs : gs = fs
  OBVIOUS
<1>8. Turned(t, base, gs)
  BY <1>6, <1>7
<1>9. \A u \in Threads : \A j : Stays(t, base, u, j) => j \in DOMAIN stack[u] /\ stack'[u][j] = stack[u][j]
  BY <1>6, <1>8, Placed
<1>10. ASSUME NEW i \in DOMAIN gs
       PROVE  /\ gs[i] \in Calls /\ gs = <<gs[i]>> /\ gs[i].op = "change" /\ gs[i].step = "report"
              /\ gs[i].reports = reports /\ i = 1
              /\ \A p \in Says(gs[i]) : \E r \in ToSet(reports) : p = <<r.topic, r.about>> /\ r.about # 0
              /\ \A r \in ToSet(reports) : r.about # 0 => <<r.topic, r.about>> \in Says(gs[i])
  <2>1. PICK f \in Calls : gs = <<f>> /\ f.op = "change" /\ f.step = "report" /\ f.reports = reports
    BY <1>1, <1>7
  <2>2. i = 1 /\ gs[i] = f
    BY <2>1
  <2> QED BY <2>1, <2>2 DEF Says
<1>11. ASSUME NEW u \in Threads, NEW j, Stays(t, base, u, j) PROVE ReportInv(stack[u][j])'
  <2>1. PICK f \in Calls : f = stack[u][j] /\ f = stack'[u][j]
    BY <1>3, <1>9, <1>11, StackElements
  <2>2. ReportInv(f)
    BY <1>9, <1>11, <2>1 DEF RInv, ReportsInv
  <2>3. ReportInv(f)'
    BY <1>2, <2>2, StaysInOrder
  <2> QED BY <2>1, <2>3 DEF ReportInv, Past, Unheard, Untold, Telling, Says
<1>12. ASSUME NEW i \in DOMAIN gs PROVE ReportInv(gs[i])'
  <2>1. ASSUME NEW p \in Says(gs[i]) PROVE Past(p[1], p[2])' /\ Unheard(p[1], p[2])'
    <3>1. PICK r \in ToSet(reports) : p = <<r.topic, r.about>> /\ r.about # 0
      BY <1>10
    <3>2. ~Past(p[1], p[2]) /\ Past(p[1], p[2])'
      BY <3>1
    <3>3. p[1] # NoKey
      BY <3>2 DEF Past, NoKey
    <3>4. Unheard(p[1], p[2])'
      <4> SUFFICES ASSUME NEW l \in Ids, subKey'[l] = p[1], <<l, p[2]>> \in heard PROVE FALSE
        BY <1>2 DEF Unheard
      <4>1. l < nextId /\ (subKey[l] # NoKey => Past(subKey[l], p[2]))
        BY DEF RInv, HeardInv
      <4>2. subKey[l] = p[1]
        BY <3>3, <4>1 DEF Onward
      <4> QED BY <3>2, <3>3, <4>1, <4>2
    <3> QED BY <3>2, <3>4
  <2>2. Says(gs[i])' = Says(gs[i]) /\ ~Telling(gs[i])'
    BY <1>10 DEF Says, Telling
  <2> QED BY <1>10, <2>1, <2>2 DEF ReportInv
<1>13. ASSUME NEW i \in DOMAIN gs, NEW u \in Threads, NEW j, Stays(t, base, u, j)
       PROVE  Distinct(gs[i], stack[u][j])
  <2>1. ReportInv(stack[u][j])
    BY <1>9, <1>13 DEF RInv, ReportsInv
  <2>2. \A p \in Says(stack[u][j]) : Past(p[1], p[2])
    BY <2>1 DEF ReportInv
  <2>3. \A p \in Says(gs[i]) : ~Past(p[1], p[2])
    BY <1>10
  <2>4. ~Telling(gs[i])
    BY <1>10 DEF Telling
  <2> QED BY <2>2, <2>3, <2>4 DEF Distinct
<1>14. \A i, j \in DOMAIN gs : i # j => Distinct(gs[i], gs[j])
  BY <1>10
<1>15. ReportsInv' /\ DistinctInv'
  BY <1>3, <1>8, <1>11, <1>12, <1>13, <1>14, AllInOrder
<1>16. HeardInv'
  <2>1. ASSUME NEW p \in heard
        PROVE  /\ p[1] \in Ids /\ p[1] < nextId'
               /\ (subKey[p[1]] # NoKey => Past(subKey[p[1]], p[2]))'
    <3>1. /\ p[1] \in Ids /\ p[1] < nextId
          /\ subKey[p[1]] # NoKey => Past(subKey[p[1]], p[2])
      BY DEF RInv, HeardInv
    <3>2. p[1] \in Nat /\ nextId \in Nat
      BY <1>3, <3>1 DEF Ids, IInv, NamesTyped
    <3>3. p[1] < nextId' /\ subKey'[p[1]] \in {subKey[p[1]], NoKey}
      BY <3>1, <3>2 DEF Onward
    <3>4. (subKey[p[1]] # NoKey => Past(subKey[p[1]], p[2]))'
      <4> SUFFICES ASSUME subKey'[p[1]] # NoKey PROVE Past(subKey[p[1]], p[2])'
        OBVIOUS
      <4>1. PICK topic : topic = subKey[p[1]] /\ topic = subKey'[p[1]]
        BY <3>3
      <4>2. PICK about : about = p[2]
        OBVIOUS
      <4>3. Past(topic, about)
        BY <3>1, <4>1, <4>2
      <4>4. Past(topic, about)'
        BY <4>3 DEF Onward
      <4> QED BY <4>1, <4>2, <4>4 DEF Past
    <3> QED BY <3>1, <3>3, <3>4
  <2> QED BY <1>2, <2>1 DEF HeardInv, Ids
<1>17. ASSUME NEW p \in owed'
       PROVE  /\ p[1] \in Ids /\ p[1] < nextId' /\ p \in Ids \X Nat
              /\ subKey'[p[1]] # NoKey /\ <<subKey'[p[1]], p[2]>> \notin cut' =>
                    p \in heard' \/ \E u \in Threads : \E i \in DOMAIN stack'[u] : Will(stack[u][i], p)'
  <2>1. CASE p \in owed
    <3>1. /\ p[1] \in Ids /\ p[1] < nextId /\ p \in Ids \X Nat
          /\ subKey[p[1]] # NoKey /\ <<subKey[p[1]], p[2]>> \notin cut =>
                p \in heard \/ \E u \in Threads : \E i \in DOMAIN stack[u] : Will(stack[u][i], p)
      BY <2>1 DEF RInv, OwedInv, Pairs
    <3>2. p[1] \in Nat /\ nextId \in Nat
      BY <1>3, <3>1 DEF Ids, IInv, NamesTyped
    <3>3. p[1] < nextId' /\ subKey'[p[1]] \in {subKey[p[1]], NoKey}
      BY <3>1, <3>2 DEF Onward
    <3>4. ASSUME subKey'[p[1]] # NoKey, <<subKey'[p[1]], p[2]>> \notin cut', p \notin heard'
          PROVE  \E u \in Threads : \E i \in DOMAIN stack'[u] : Will(stack[u][i], p)'
      <4>0. PICK u \in Threads : \E i \in DOMAIN stack[u] : Will(stack[u][i], p)
        BY <1>2, <3>1, <3>3, <3>4
      <4>1. PICK i \in DOMAIN stack[u] : Will(stack[u][i], p)
        BY <4>0
      <4>2. i \in DOMAIN stack'[u] /\ stack'[u][i] = stack[u][i]
        BY <1>6, <1>8, <4>1, Placed
      <4>3. Will(stack[u][i], p)'
        BY <3>3, <3>4, <4>1, <4>2 DEF Will, Says
      <4> QED BY <4>2, <4>3
    <3> QED BY <3>1, <3>3, <3>4
  <2>2. CASE p \notin owed
    <3>1. PICK r \in ToSet(reports) : r.about # 0 /\ p \in {<<l, r.about>> : l \in Listeners(r.topic)}
      BY <1>2, <2>2
    <3>2. PICK l \in Listeners(r.topic) : p = <<l, r.about>>
      BY <3>1
    <3>3. l \in Ids /\ l < nextId /\ subKey[l] = r.topic /\ p[1] = l /\ p[2] = r.about
      BY <1>3, <3>2, ListensTo
    <3>4. l \in Nat /\ nextId \in Nat /\ r \in Reports
      BY <1>3, <3>3, <3>1 DEF Ids, IInv, NamesTyped, ToSet
    <3>5. l < nextId' /\ subKey'[l] \in {r.topic, NoKey} /\ p \in Ids \X Nat
      BY <3>2, <3>3, <3>4 DEF Onward, Reports
    <3>6. ASSUME subKey'[l] # NoKey
          PROVE  \E u \in Threads : \E i \in DOMAIN stack'[u] : Will(stack[u][i], p)'
      <4>1. DOMAIN gs # {}
        <5>1. reports # <<>>
          BY <3>1 DEF ToSet
        <5>2. PICK f \in Calls : gs = <<f>>
          BY <1>1, <1>7, <5>1
        <5>3. 1 \in DOMAIN <<f>>
          OBVIOUS
        <5> QED BY <5>2, <5>3
      <4>2. PICK i \in DOMAIN gs : TRUE
        BY <4>1
      <4>3. Len(base) + i \in DOMAIN stack'[t] /\ stack'[t][Len(base) + i] = gs[i]
        BY <1>8, Placed
      <4>4. <<r.topic, r.about>> \in Says(gs[i]) /\ gs[i].step = "report"
        BY <1>10, <3>1
      <4>5. PICK m : m = Len(base) + i
        OBVIOUS
      <4>6. Will(stack[t][m], p)'
        BY <3>3, <3>5, <3>6, <4>3, <4>4, <4>5 DEF Will, Says
      <4> QED BY <4>3, <4>5, <4>6
    <3> QED BY <3>3, <3>5, <3>6
  <2> QED BY <2>1, <2>2
<1>18. OwedInv'
  BY <1>17 DEF OwedInv, Ids
<1>19. Pairs' /\ again' = {}
  BY <1>2, <1>17 DEF RInv, Pairs, Ids
<1> QED BY <1>15, <1>16, <1>18, <1>19 DEF RInv

-----------------------------------------------------------------------------
(* The changes: each is reported as it is made, and none was before.        *)

\* Names are given to new entries only, and taken away.
LEMMA GoesOnward ==
    ASSUME IInv, nextEntry' \in Nat, nextEntry <= nextEntry', nextId' \in Nat, nextId <= nextId',
           \A i \in Ids : i < nextId => subKey'[i] \in {subKey[i], NoKey},
           \A k \in Keys : table'[k] \in {table[k], None, nextEntry}
    PROVE  Onward
<1>1. nextEntry \in Nat /\ nextId \in Nat /\ nextEntry >= 1
  BY CommunicationAssumption DEF IInv, NamesTyped
<1>2. Entries \subseteq Nat \ {0} /\ Ids \subseteq Nat
  BY DEF Entries, Ids
<1>3. ASSUME NEW topic, NEW about, Past(topic, about) PROVE Past(topic, about)'
  <2>1. CASE topic = "handler_registered"
    BY <1>1, <1>2, <1>3, <2>1 DEF Past, Entries
  <2>2. CASE topic = "handler_unregistered"
    <3>1. about \in Entries /\ about < nextEntry /\ \A k \in Keys : table[k] # about
      BY <1>3, <2>2 DEF Past
    <3>2. about \in Nat \ {0} /\ about < nextEntry'
      BY <1>1, <1>2, <3>1
    <3>3. \A k \in Keys : table'[k] # about
      BY <1>1, <3>1, <3>2 DEF None
    <3> QED BY <2>2, <3>1, <3>2, <3>3 DEF Past, Entries, Keys
  <2>3. CASE topic \in {"event_subscribed", "handled_event_subscribed"}
    BY <1>1, <1>2, <1>3, <2>3 DEF Past, Ids
  <2>4. CASE topic \in {"event_unsubscribed", "handled_event_unsubscribed"}
    <3>1. about \in Ids /\ about < nextId /\ subKey[about] = NoKey
      BY <1>3, <2>4 DEF Past
    <3>2. about < nextId' /\ subKey'[about] = NoKey
      BY <1>1, <1>2, <3>1
    <3> QED BY <2>4, <3>1, <3>2 DEF Past, Ids
  <2> QED BY <1>3, <2>1, <2>2, <2>3, <2>4 DEF Past
<1> QED BY <1>3 DEF Onward

\* One report is a list without repetition.
LEMMA OnlyOne ==
    ASSUME NEW r, NEW reports, reports \in {<<>>, <<r>>}
    PROVE  Single(reports) /\ \A x \in ToSet(reports) : x = r
BY DEF Single, ToSet

LEMMA RegisterHandlerTells ==
    ASSUME RInv, NEW t \in Threads, NEW k \in Handlers, NEW o \in Owners, RegisterHandler(t, k, o)
    PROVE  RInv'
<1>1. IInv /\ IInv'
  BY RegisterHandlerKeeps DEF RInv
<1>2. /\ nextEntry <= MaxEntries /\ table' = [table EXCEPT ![k] = nextEntry]
      /\ nextEntry' = nextEntry + 1 /\ nextId' = nextId /\ subKey' = subKey
      /\ Changed(t, {nextEntry}, <<Report("handler_registered", nextEntry)>>)
  BY DEF RegisterHandler
<1>3. nextEntry \in Nat /\ nextEntry >= 1 /\ nextId \in Nat /\ nextEntry \in Entries /\ k \in Keys
  BY <1>1, <1>2, CommunicationAssumption DEF IInv, NamesTyped, Entries, Keys
<1>4. Onward
  <2>1. \A j \in Keys : table'[j] \in {table[j], None, nextEntry}
    BY <1>1, <1>2 DEF IInv, NamesTyped
  <2> QED BY <1>1, <1>2, <1>3, <2>1, GoesOnward
<1>5. PICK r : r = Report("handler_registered", nextEntry)
  OBVIOUS
<1>6. PICK reports : reports = <<r>>
  OBVIOUS
<1>7. PICK pins : pins = {nextEntry}
  OBVIOUS
<1>8. reports \in Seq(Reports) /\ pins \in SUBSET Entries
  BY <1>3, <1>5, <1>6, <1>7, OneReport DEF Topics
<1>9. Single(reports) /\ \A x \in ToSet(reports) : x = r
  BY <1>6, OnlyOne
<1>10. r.topic = "handler_registered" /\ r.about = nextEntry
  BY <1>5 DEF Report
<1>11. ~Past(r.topic, r.about)
  BY <1>3, <1>10 DEF Past
<1>12. Past(r.topic, r.about)'
  <2>1. r.about < nextEntry'
    BY <1>2, <1>3, <1>10
  <2> QED BY <1>3, <1>10, <2>1 DEF Past, Entries
<1>13. \A x \in ToSet(reports) : x.about # 0 => ~Past(x.topic, x.about) /\ Past(x.topic, x.about)'
  BY <1>9, <1>11, <1>12
<1>14. Changed(t, pins, reports)
  BY <1>2, <1>5, <1>6, <1>7
<1> QED BY <1>1, <1>4, <1>8, <1>9, <1>13, <1>14, NewsInOrder

LEMMA UnregisterHandlerTells ==
    ASSUME RInv, NEW t \in Threads, NEW k \in Handlers, UnregisterHandler(t, k)
    PROVE  RInv'
<1>1. IInv /\ IInv'
  BY UnregisterHandlerKeeps DEF RInv
<1>2. /\ table[k] # None /\ table' = [table EXCEPT ![k] = None]
      /\ nextEntry' = nextEntry /\ nextId' = nextId /\ subKey' = subKey
      /\ Changed(t, {table[k]}, <<Report("handler_unregistered", table[k])>>)
  BY DEF UnregisterHandler
<1>3. /\ nextEntry \in Nat /\ nextEntry >= 1 /\ nextId \in Nat /\ k \in Keys
      /\ table[k] \in Entries /\ table[k] \in Nat \ {0}
  BY <1>1, <1>2, CommunicationAssumption DEF IInv, NamesTyped, Entries, Keys, None
<1>4. Onward
  <2>1. \A j \in Keys : table'[j] \in {table[j], None, nextEntry}
    BY <1>1, <1>2 DEF IInv, NamesTyped
  <2> QED BY <1>1, <1>2, <1>3, <2>1, GoesOnward
<1>5. PICK r : r = Report("handler_unregistered", table[k])
  OBVIOUS
<1>6. PICK reports : reports = <<r>>
  OBVIOUS
<1>7. PICK pins : pins = {table[k]}
  OBVIOUS
<1>8. reports \in Seq(Reports) /\ pins \in SUBSET Entries
  BY <1>3, <1>5, <1>6, <1>7, OneReport DEF Topics
<1>9. Single(reports) /\ \A x \in ToSet(reports) : x = r
  BY <1>6, OnlyOne
<1>10. r.topic = "handler_unregistered" /\ r.about = table[k]
  BY <1>5 DEF Report
<1>11. ~Past(r.topic, r.about)
  BY <1>3, <1>10 DEF Past
<1>12. Past(r.topic, r.about)'
  <2>1. r.about < nextEntry'
    BY <1>1, <1>2, <1>3, <1>10 DEF IInv, TableInv
  <2>2. \A j \in Keys : table'[j] # r.about
    BY <1>1, <1>2, <1>3, <1>10 DEF IInv, TableInv, NamesTyped, None
  <2> QED BY <1>3, <1>10, <2>1, <2>2 DEF Past, Entries, Keys
<1>13. \A x \in ToSet(reports) : x.about # 0 => ~Past(x.topic, x.about) /\ Past(x.topic, x.about)'
  BY <1>9, <1>11, <1>12
<1>14. Changed(t, pins, reports)
  BY <1>2, <1>5, <1>6, <1>7
<1> QED BY <1>1, <1>4, <1>8, <1>9, <1>13, <1>14, NewsInOrder

LEMMA RegisterTells ==
    ASSUME RInv, NEW t \in Threads, NEW k \in Events, NEW o \in Owners, Register(t, k, o)
    PROVE  RInv'
<1>1. IInv /\ IInv'
  BY RegisterKeeps DEF RInv
<1>2. PICK e : e = IF table[k] = None THEN nextEntry ELSE table[k]
  OBVIOUS
<1>3. /\ nextId <= MaxIds /\ table' = [table EXCEPT ![k] = e]
      /\ nextEntry' = (IF e = nextEntry THEN nextEntry + 1 ELSE nextEntry)
      /\ nextId' = nextId + 1 /\ subKey' = [subKey EXCEPT ![nextId] = k]
      /\ Changed(t, {}, Reported(k, Report(Subscribed(k), nextId)))
  BY <1>2 DEF Register
<1>4. nextEntry \in Nat /\ nextEntry >= 1 /\ nextId \in Nat /\ nextId \in Ids /\ nextId >= 1
  BY <1>1, <1>3, CommunicationAssumption DEF IInv, NamesTyped, Ids
<1>5. Onward
  <2>1. \A j \in Keys : table'[j] \in {table[j], None, nextEntry}
    BY <1>1, <1>2, <1>3 DEF IInv, NamesTyped
  <2>2. \A i \in Ids : i < nextId => subKey'[i] \in {subKey[i], NoKey}
    BY <1>1, <1>3, <1>4 DEF IInv, NamesTyped
  <2>3. nextEntry' \in Nat /\ nextEntry <= nextEntry' /\ nextId' \in Nat /\ nextId <= nextId'
    BY <1>3, <1>4
  <2> QED BY <1>1, <2>1, <2>2, <2>3, GoesOnward
<1>6. PICK r : r = Report(Subscribed(k), nextId)
  OBVIOUS
<1>7. PICK reports : reports = Reported(k, r)
  OBVIOUS
<1>8. reports \in Seq(Reports)
  BY <1>1, <1>4, <1>6, <1>7, Subjects, OneReport
<1>9. Single(reports) /\ \A x \in ToSet(reports) : x = r
  BY <1>7, OnlyOne DEF Reported
<1>10. r.topic \in {"event_subscribed", "handled_event_subscribed"} /\ r.about = nextId
  BY <1>6 DEF Report, Subscribed
<1>11. ~Past(r.topic, r.about)
  BY <1>4, <1>10 DEF Past
<1>12. Past(r.topic, r.about)'
  <2>1. r.about < nextId'
    BY <1>3, <1>4, <1>10
  <2> QED BY <1>4, <1>10, <2>1 DEF Past, Ids
<1>13. \A x \in ToSet(reports) : x.about # 0 => ~Past(x.topic, x.about) /\ Past(x.topic, x.about)'
  BY <1>9, <1>11, <1>12
<1>14. Changed(t, {}, reports)
  BY <1>3, <1>6, <1>7
<1> QED BY <1>1, <1>5, <1>8, <1>9, <1>13, <1>14, NewsInOrder

LEMMA UnregisterTells ==
    ASSUME RInv, NEW t \in Threads, NEW id \in Ids, Unregister(t, id)
    PROVE  RInv'
<1>1. IInv /\ IInv'
  BY UnregisterKeeps DEF RInv
<1>2. PICK k : k = subKey[id]
  OBVIOUS
<1>3. PICK pins : pins = IF Emptied({id}, k) THEN {table[k]} ELSE {}
  OBVIOUS
<1>4. /\ k # NoKey /\ Forget({id}) /\ nextEntry' = nextEntry /\ nextId' = nextId
      /\ table' = (IF Emptied({id}, k) THEN [table EXCEPT ![k] = None] ELSE table)
      /\ Changed(t, pins, Reported(k, Report(Unsubscribed(k), id)))
  BY Zenon, <1>2, <1>3 DEF Unregister
<1>5. k \in Events
  BY <1>1, <1>2, <1>4 DEF IInv, NamesTyped
<1>6. /\ nextEntry \in Nat /\ nextEntry >= 1 /\ nextId \in Nat /\ id \in Nat \ {0} /\ id < nextId
  BY <1>1, <1>2, <1>4, CommunicationAssumption DEF IInv, NamesTyped, Ids, TableInv
<1>7. subKey' = [i \in Ids |-> IF i \in {id} THEN NoKey ELSE subKey[i]]
  BY <1>4 DEF Forget
<1>8. Onward
  <2>1. \A j \in Keys : table'[j] \in {table[j], None, nextEntry}
    BY <1>1, <1>4 DEF IInv, NamesTyped
  <2>2. \A i \in Ids : subKey'[i] \in {subKey[i], NoKey}
    BY <1>7
  <2> QED BY <1>1, <1>4, <1>6, <2>1, <2>2, GoesOnward
<1>9. PICK r : r = Report(Unsubscribed(k), id)
  OBVIOUS
<1>10. PICK reports : reports = Reported(k, r)
  OBVIOUS
<1>11. reports \in Seq(Reports)
  BY <1>1, <1>6, <1>9, <1>10, Subjects, OneReport
<1>12. Single(reports) /\ \A x \in ToSet(reports) : x = r
  BY <1>10, OnlyOne DEF Reported
<1>13. r.topic \in {"event_unsubscribed", "handled_event_unsubscribed"} /\ r.about = id
  BY <1>9 DEF Report, Unsubscribed
<1>14. ~Past(r.topic, r.about)
  BY <1>2, <1>4, <1>13 DEF Past
<1>15. Past(r.topic, r.about)'
  <2>1. subKey'[r.about] = NoKey /\ r.about < nextId'
    BY <1>4, <1>6, <1>7, <1>13
  <2> QED BY <1>13, <2>1 DEF Past, Ids
<1>16. \A x \in ToSet(reports) : x.about # 0 => ~Past(x.topic, x.about) /\ Past(x.topic, x.about)'
  BY <1>12, <1>14, <1>15
<1>17. Changed(t, pins, reports)
  BY <1>4, <1>9, <1>10
<1>18. pins \in SUBSET Entries
  <2>1. Emptied({id}, k) => table[k] \in Entries
    BY <1>1, <1>5, LastLeaves, Subjects DEF Keys
  <2> QED BY <1>3, <2>1
<1> QED BY <1>1, <1>8, <1>11, <1>12, <1>16, <1>17, <1>18, NewsInOrder

LEMMA UnregisterOwnerTells ==
    ASSUME RInv, NEW t \in Threads, NEW o \in Owners, UnregisterOwner(t, o)
    PROVE  RInv'
<1>1. IInv /\ IInv'
  BY UnregisterOwnerKeeps DEF RInv
<1>2. PICK ids \in SUBSET Ids, mine \in SUBSET Handlers, pins \in SUBSET Entries, all \in Seq(Reports) :
         /\ \A k \in mine : table[k] # None
         /\ Forget(ids) /\ Changed(t, pins, all)
         /\ table' = [k \in Keys |-> IF k \in mine \cup {j \in Events : Emptied(ids, j)}
                                     THEN None ELSE table[k]]
         /\ UNCHANGED <<nextEntry, nextId>>
         /\ Single(all)
         /\ \A r \in ToSet(all) :
               \/ r = Report("owner_unregistered", 0)
               \/ \E k \in mine : r = Report("handler_unregistered", table[k])
               \/ \E k \in Events \ Topics : /\ r.topic = Unsubscribed(k) /\ r.about \in ids
                                             /\ subKey[r.about] = k
  BY <1>1, OwnerSteps
<1>3. /\ nextEntry \in Nat /\ nextEntry >= 1 /\ nextId \in Nat
      /\ nextEntry' = nextEntry /\ nextId' = nextId
  BY <1>1, <1>2, CommunicationAssumption DEF IInv, NamesTyped
<1>4. subKey' = [i \in Ids |-> IF i \in ids THEN NoKey ELSE subKey[i]]
  BY <1>2 DEF Forget
<1>5. Onward
  <2>1. \A j \in Keys : table'[j] \in {table[j], None, nextEntry}
    BY <1>1, <1>2 DEF IInv, NamesTyped
  <2>2. \A i \in Ids : subKey'[i] \in {subKey[i], NoKey}
    BY <1>4
  <2> QED BY <1>1, <1>3, <2>1, <2>2, GoesOnward
<1>6. ASSUME NEW r \in ToSet(all), r.about # 0
      PROVE  ~Past(r.topic, r.about) /\ Past(r.topic, r.about)'
  <2>1. CASE r = Report("owner_unregistered", 0)
    BY <1>6, <2>1 DEF Report
  <2>2. CASE \E k \in mine : r = Report("handler_unregistered", table[k])
    <3>1. PICK k \in mine : r = Report("handler_unregistered", table[k])
      BY <2>2
    <3>2. k \in Keys /\ table[k] # None /\ r.topic = "handler_unregistered" /\ r.about = table[k]
      BY <1>2, <3>1 DEF Report, Keys
    <3>3. table[k] \in Entries /\ table[k] \in Nat \ {0} /\ table[k] < nextEntry
      BY <1>1, <3>2, Subjects DEF IInv, TableInv, None
    <3>4. ~Past(r.topic, r.about)
      BY <3>2 DEF Past
    <3>5. \A j \in Keys : table'[j] # r.about
      <4>1. table'[k] = None
        BY <1>2, <3>2
      <4>2. \A j \in Keys : j # k => table[j] # table[k]
        BY <1>1, <3>2 DEF IInv, TableInv
      <4> QED BY <1>2, <3>2, <3>3, <4>1, <4>2 DEF None
    <3> QED BY <1>3, <3>2, <3>3, <3>4, <3>5 DEF Past, Entries, Keys
  <2>3. CASE \E k \in Events \ Topics : /\ r.topic = Unsubscribed(k) /\ r.about \in ids
                                        /\ subKey[r.about] = k
    <3>1. PICK k \in Events \ Topics : /\ r.topic = Unsubscribed(k) /\ r.about \in ids
                                       /\ subKey[r.about] = k
      BY <2>3
    <3>2. k # NoKey /\ r.about \in Ids
      BY <3>1, CommunicationAssumption DEF NoKey
    <3>3. r.topic \in {"event_unsubscribed", "handled_event_unsubscribed"}
      BY <3>1 DEF Unsubscribed
    <3>4. r.about < nextId /\ subKey'[r.about] = NoKey
      BY <1>1, <1>4, <3>1, <3>2 DEF IInv, TableInv
    <3>5. ~Past(r.topic, r.about)
      BY <3>1, <3>2, <3>3 DEF Past
    <3> QED BY <1>3, <3>2, <3>3, <3>4, <3>5 DEF Past, Ids
  <2> QED BY <1>2, <2>1, <2>2, <2>3
<1>7. \A r \in ToSet(all) : r.about # 0 => ~Past(r.topic, r.about) /\ Past(r.topic, r.about)'
  BY <1>6
<1> QED BY <1>1, <1>2, <1>5, <1>7, NewsInOrder
-----------------------------------------------------------------------------
(* The calls: each change is told, to everyone in turn.                    *)

\* A call turns into others: if they and the ones that stay are in order, and
\* what the one that goes had to tell is told or left to them, all is well.
LEMMA TurnInOrder ==
    ASSUME RInv, IInv', UNCHANGED names, owed' = owed, again' = {}, cut \subseteq cut',
           heard \subseteq heard', heard' \in SUBSET (Ids \X Nat),
           NEW t \in Threads, NEW base, NEW fs, Turned(t, base, fs),
           \A u \in Threads : \A j : Stays(t, base, u, j) => ReportInv(stack[u][j])',
           \A i \in DOMAIN fs : ReportInv(fs[i])',
           \A i \in DOMAIN fs : \A u \in Threads : \A j :
              Stays(t, base, u, j) => Distinct(fs[i], stack[u][j]),
           \A i, j \in DOMAIN fs : i # j => Distinct(fs[i], fs[j]),
           \A p \in heard' \ heard : /\ p[1] < nextId
                                     /\ subKey[p[1]] # NoKey => Past(subKey[p[1]], p[2]),
           \A p \in owed : \A u \in Threads : \A j \in DOMAIN stack[u] :
              /\ ~Stays(t, base, u, j) /\ Will(stack[u][j], p)
              /\ subKey[p[1]] # NoKey /\ <<subKey[p[1]], p[2]>> \notin cut' /\ p \notin heard'
              => \E i \in DOMAIN fs : Will(fs[i], p)
    PROVE  RInv'
<1>1. ReportsInv' /\ DistinctInv'
  BY AllInOrder DEF RInv
<1>2. nextEntry' = nextEntry /\ nextId' = nextId /\ subKey' = subKey /\ table' = table
  BY DEF names
<1>3. HeardInv'
  <2>1. ASSUME NEW p \in heard'
        PROVE  /\ p[1] \in Ids /\ p[1] < nextId
               /\ subKey[p[1]] # NoKey => Past(subKey[p[1]], p[2])
    <3>1. CASE p \in heard
      BY <3>1 DEF RInv, HeardInv
    <3>2. CASE p \notin heard
      BY <3>2
    <3> QED BY <3>1, <3>2
  <2> QED BY <1>2, <2>1 DEF HeardInv, Past, Ids, Entries, Keys
<1>4. OwedInv'
  <2>1. ASSUME NEW p \in owed, subKey[p[1]] # NoKey, <<subKey[p[1]], p[2]>> \notin cut', p \notin heard'
        PROVE  \E u \in Threads : \E i \in DOMAIN stack'[u] : Will(stack[u][i], p)'
    <3>1. PICK u \in Threads : \E i \in DOMAIN stack[u] : Will(stack[u][i], p)
      BY <2>1 DEF RInv, OwedInv
    <3>2. PICK i \in DOMAIN stack[u] : Will(stack[u][i], p)
      BY <3>1
    <3>3. CASE Stays(t, base, u, i)
      <4>1. i \in DOMAIN stack'[u] /\ stack'[u][i] = stack[u][i]
        BY <3>3, Placed
      <4>2. Will(stack[u][i], p)'
        BY <1>2, <3>2, <4>1 DEF Will, Says
      <4> QED BY <4>1, <4>2
    <3>4. CASE ~Stays(t, base, u, i)
      <4>1. PICK n \in DOMAIN fs : Will(fs[n], p)
        BY <2>1, <3>2, <3>4
      <4>2. PICK m : m = Len(base) + n
        OBVIOUS
      <4>3. m \in DOMAIN stack'[t] /\ stack'[t][m] = fs[n]
        BY <4>2, Placed
      <4>4. Will(stack[t][m], p)'
        BY <1>2, <4>1, <4>3 DEF Will, Says
      <4> QED BY <4>3, <4>4
    <3> QED BY <3>3, <3>4
  <2>2. \A p \in owed : p[1] \in Ids /\ p[1] < nextId
    BY DEF RInv, OwedInv
  <2>3. ASSUME NEW p \in owed'
        PROVE  (subKey[p[1]] # NoKey /\ <<subKey[p[1]], p[2]>> \notin cut =>
                  p \in heard \/ \E u \in Threads : \E i \in DOMAIN stack[u] : Will(stack[u][i], p))'
    <3> SUFFICES ASSUME subKey'[p[1]] # NoKey, <<subKey'[p[1]], p[2]>> \notin cut', p \notin heard'
                 PROVE  \E u \in Threads : \E i \in DOMAIN stack'[u] : Will(stack[u][i], p)'
      OBVIOUS
    <3> QED BY <1>2, <2>1
  <2> QED BY <1>2, <2>2, <2>3 DEF OwedInv, Ids
<1>5. Pairs'
  BY DEF RInv, Pairs, Ids
<1> QED BY <1>1, <1>3, <1>4, <1>5 DEF RInv

\* Nothing is made by a call.
LEMMA MakesNothing ==
    ASSUME IInv, UNCHANGED names
    PROVE  Onward
<1>1. nextEntry \in Nat /\ nextId \in Nat
  BY CommunicationAssumption DEF IInv, NamesTyped
<1>2. nextEntry' = nextEntry /\ nextId' = nextId /\ subKey' = subKey /\ table' = table
  BY DEF names
<1> QED BY <1>1, <1>2, GoesOnward

\* Where nobody is told, what stays is in order.
LEMMA QuietStays ==
    ASSUME RInv, UNCHANGED names, heard' = heard, NEW u \in Threads, NEW j \in DOMAIN stack[u],
           stack'[u][j] = stack[u][j]
    PROVE  ReportInv(stack[u][j])'
<1>1. IInv /\ Onward
  BY MakesNothing DEF RInv
<1>2. PICK f \in Calls : f = stack[u][j] /\ f = stack'[u][j]
  BY <1>1, StackElements
<1>3. ReportInv(f)
  BY <1>2 DEF RInv, ReportsInv
<1>4. ReportInv(f)'
  BY <1>1, <1>3, StaysInOrder
<1> QED BY <1>2, <1>4 DEF ReportInv, Past, Unheard, Untold, Telling, Says

\* A call that tells nothing.
LEMMA SaysNothing ==
    ASSUME NEW f \in Calls, f.op \in {"emit", "handle", "call"} \/ (f.op = "change" /\ f.reports = <<>>)
    PROVE  /\ Says(f) = {} /\ ~Telling(f) /\ ReportInv(f)'
           /\ \A g : Distinct(f, g)
           /\ \A p : ~Will(f, p)
<1>1. Says(f) = {} /\ ~Telling(f)
  <2>1. CASE f.op \in {"emit", "handle", "call"}
    BY <2>1 DEF Says, Telling
  <2>2. CASE f.op = "change" /\ f.reports = <<>>
    <3>1. ToSet(f.reports) = {}
      BY <2>2 DEF ToSet
    <3> QED BY <2>2, <3>1 DEF Says, Telling
  <2> QED BY <2>1, <2>2
<1>2. f.op = "change" => Single(f.reports)
  BY DEF Single
<1>3. ReportInv(f)'
  BY <1>1, <1>2 DEF ReportInv, Says, Telling
<1> QED BY <1>1, <1>3 DEF Distinct, Will

\* One more call, of subscribers or of a handler.
LEMMA PushInOrder ==
    ASSUME RInv, IInv', UNCHANGED names, UNCHANGED hvars, NEW t \in Threads,
           NEW f \in Calls, f.op \in {"emit", "handle", "call"}, Push(t, f)
    PROVE  RInv'
<1>1. stack \in [Threads -> Seq(Calls)] /\ DistinctInv /\ IInv
  BY DEF RInv, IInv, StackInv
<1>2. owed' = owed /\ heard' = heard /\ again' = again /\ cut' = cut
  BY DEF hvars
<1>3. PICK fs : fs = <<f>>
  OBVIOUS
<1>4. fs \in Seq(Calls) /\ DOMAIN fs = {1} /\ fs[1] = f
  BY <1>3
<1>5. stack' = [stack EXCEPT ![t] = @ \o fs]
  <2>1. Append(stack[t], f) = stack[t] \o fs
    BY <1>1, <1>3, AppendIsConcat
  <2> QED BY <1>1, <2>1 DEF Push
<1>6. PICK base : base = stack[t]
  OBVIOUS
<1>7. Turned(t, base, fs) /\ \A u, j : Stays(t, base, u, j) <=> j \in DOMAIN stack[u]
  BY <1>1, <1>4, <1>5, <1>6, GrowthTurns
<1>8. \A u \in Threads : \A j : Stays(t, base, u, j) => stack'[u][j] = stack[u][j]
  BY <1>7, Placed
<1>9. \A u \in Threads : \A j : Stays(t, base, u, j) => ReportInv(stack[u][j])'
  BY <1>2, <1>7, <1>8, QuietStays
<1>10. \A i \in DOMAIN fs : ReportInv(fs[i])'
  BY <1>4, SaysNothing
<1>11. \A i \in DOMAIN fs : \A g : Distinct(fs[i], g)
  BY <1>4, SaysNothing
<1>12. again' = {} /\ heard' \in SUBSET (Ids \X Nat)
  BY <1>2 DEF RInv, Pairs
<1> QED BY <1>2, <1>7, <1>9, <1>10, <1>11, <1>12, TurnInOrder

\* A handle is taken.
LEMMA GetHandleTells ==
    ASSUME RInv, NEW t \in Threads, NEW k \in Keys, GetHandle(t, k)
    PROVE  RInv'
<1>1. IInv'
  BY GetHandleKeeps DEF RInv
<1>2. UNCHANGED names /\ stack' = stack /\ UNCHANGED hvars
  BY DEF GetHandle
<1>3. owed' = owed /\ heard' = heard /\ again' = again /\ cut' = cut
  BY <1>2 DEF hvars
<1>4. stack \in [Threads -> Seq(Calls)] /\ DistinctInv /\ IInv
  BY DEF RInv, IInv, StackInv
<1>5. PICK fs : fs = <<>>
  OBVIOUS
<1>6. fs \in Seq(Calls) /\ DOMAIN fs = {}
  BY <1>5
<1>7. stack' = [stack EXCEPT ![t] = @ \o fs]
  BY <1>2, <1>4, <1>5, ConcatEmptySeq
<1>8. PICK base : base = stack[t]
  OBVIOUS
<1>9. Turned(t, base, fs) /\ \A u, j : Stays(t, base, u, j) <=> j \in DOMAIN stack[u]
  BY <1>4, <1>6, <1>7, <1>8, GrowthTurns
<1>10. \A u \in Threads : \A j : Stays(t, base, u, j) => ReportInv(stack[u][j])'
  BY <1>2, <1>3, <1>9, QuietStays
<1>11. again' = {} /\ heard' \in SUBSET (Ids \X Nat)
  BY <1>3 DEF RInv, Pairs
<1> QED BY <1>1, <1>2, <1>3, <1>6, <1>9, <1>10, <1>11, TurnInOrder

LEMMA EmitTells ==
    ASSUME RInv, NEW t \in Threads, NEW k \in Events, Emit(t, k)
    PROVE  RInv'
<1>1. IInv /\ IInv'
  BY EmitKeeps DEF RInv
<1>2. table[k] # None /\ Push(t, Emission("emit", k, table[k])) /\ UNCHANGED names /\ UNCHANGED hvars
  BY DEF Emit
<1>3. PICK f : f = Found("emit", k, table[k], 0)
  OBVIOUS
<1>4. f \in Calls /\ Push(t, f)
  BY <1>1, <1>2, <1>3, EmissionFinds, FoundCall
<1>5. f.op = "emit"
  BY <1>3 DEF Found
<1> QED BY <1>1, <1>2, <1>4, <1>5, PushInOrder

LEMMA CallHandleTells ==
    ASSUME RInv, NEW t \in Threads, CallHandle(t)
    PROVE  RInv'
<1> DEFINE k == handle.key
           e == handle.entry
<1>1. IInv /\ IInv'
  BY CallHandleKeeps DEF RInv
<1>2. /\ e # None /\ UNCHANGED names /\ UNCHANGED hvars
      /\ Push(t, IF k \in Handlers THEN Frame("call", "inside", k, {e})
                 ELSE Emission("handle", k, e))
  BY DEF CallHandle
<1>3. k \in Keys /\ Names(e, k) /\ e \in Entries
  BY <1>1, <1>2 DEF IInv, HandleInv, NamesTyped
<1> HIDE DEF k, e
<1>4. CASE k \in Handlers
  <2>1. PICK f : f = Frame("call", "inside", k, {e})
    OBVIOUS
  <2>2. f \in Frames
    <3>1. <<>> \in Seq(Ids) /\ <<>> \in Seq(Reports) /\ 0 \in Nat
      OBVIOUS
    <3> QED BY <1>3, <2>1, <3>1 DEF Frames, Frame
  <2>3. f \in Calls /\ f.op = "call"
    BY <2>1, <2>2 DEF Calls, FrameInv, Frame
  <2>4. Push(t, f)
    BY <1>2, <1>4, <2>1
  <2> QED BY <1>1, <1>2, <2>3, <2>4, PushInOrder
<1>5. CASE k \notin Handlers
  <2>1. PICK f : f = Found("handle", k, e, 0)
    OBVIOUS
  <2>2. k \in Events /\ nextId \in Nat
    BY <1>1, <1>3, <1>5 DEF Keys, IInv, NamesTyped
  <2>3. f \in Frames
    <3>1. <<>> \in Seq(Ids) /\ <<>> \in Seq(Reports) /\ 0 \in Nat
      OBVIOUS
    <3> QED BY <1>3, <2>1, <2>2, <3>1 DEF Frames, Found
  <2>4. f.pins = {e} /\ f.key = k /\ f.born = nextId /\ f.op = "handle" /\ f.step = "found"
    BY <2>1 DEF Found
  <2>5. Push(t, f)
    BY <1>2, <1>5, <2>1, EmissionFinds
  <2>6. FoundOne(f)
    BY <1>3, <2>2, <2>4 DEF FoundOne
  <2>7. f \in Calls
    BY <2>3, <2>4, <2>6 DEF Calls, FrameInv
  <2> QED BY <1>1, <1>2, <2>4, <2>5, <2>7, PushInOrder
<1> QED BY <1>4, <1>5

\* The innermost call is not one that stays, and is in order.
LEMMA TopInOrder ==
    ASSUME RInv, NEW t \in Threads, Inside(t), NEW f, f = Top(t)
    PROVE  /\ f \in Calls /\ FrameInv(f) /\ f \in Frames
           /\ Len(stack[t]) \in DOMAIN stack[t] /\ f = stack[t][Len(stack[t])]
           /\ ReportInv(f)
           /\ \A u \in Threads : \A j \in DOMAIN stack[u] :
                 u # t \/ j # Len(stack[t]) => Distinct(f, stack[u][j])
<1>1. IInv
  BY DEF RInv
<1>2. f \in Calls /\ FrameInv(f) /\ f \in Frames
  BY <1>1, TopCall
<1>3. stack[t] \in Seq(Calls) /\ stack[t] # <<>>
  BY <1>1 DEF IInv, StackInv, Inside
<1>4. Len(stack[t]) \in DOMAIN stack[t] /\ f = stack[t][Len(stack[t])]
  BY <1>3, LenProperties DEF Top, Last
<1> QED BY <1>2, <1>4 DEF RInv, ReportsInv, DistinctInv

\* The innermost call turns into others, and nobody is told.
LEMMA QuietTurn ==
    ASSUME RInv, IInv', UNCHANGED names, UNCHANGED <<owed, heard, again>>, cut \subseteq cut',
           NEW t \in Threads, NEW fs \in Seq(Calls), Inside(t), Becomes(t, fs), NEW f, f = Top(t),
           \A i \in DOMAIN fs : ReportInv(fs[i])',
           \A i \in DOMAIN fs : \A g : Distinct(f, g) => Distinct(fs[i], g),
           \A i, j \in DOMAIN fs : i # j => Distinct(fs[i], fs[j]),
           \A p \in owed : /\ Will(f, p) /\ subKey[p[1]] # NoKey
                           /\ <<subKey[p[1]], p[2]>> \notin cut' /\ p \notin heard
                           => \E i \in DOMAIN fs : Will(fs[i], p)
    PROVE  RInv'
<1>1. stack \in [Threads -> Seq(Calls)]
  BY DEF RInv, IInv, StackInv
<1>2. PICK base : base = Front(stack[t])
  OBVIOUS
<1>3. /\ Turned(t, base, fs)
      /\ \A u, j : Stays(t, base, u, j) <=> j \in DOMAIN stack[u] /\ (u # t \/ j # Len(stack[t]))
  BY <1>1, <1>2, TopTurns
<1>4. \A u \in Threads : \A j : Stays(t, base, u, j) => stack'[u][j] = stack[u][j]
  BY <1>3, Placed
<1>5. \A u \in Threads : \A j : Stays(t, base, u, j) => ReportInv(stack[u][j])'
  BY <1>3, <1>4, QuietStays
<1>6. /\ f = stack[t][Len(stack[t])]
      /\ \A u \in Threads : \A j \in DOMAIN stack[u] :
            u # t \/ j # Len(stack[t]) => Distinct(f, stack[u][j])
  BY TopInOrder
<1>7. \A i \in DOMAIN fs : \A u \in Threads : \A j : Stays(t, base, u, j) => Distinct(fs[i], stack[u][j])
  BY <1>3, <1>6
<1>8. \A p \in owed : \A u \in Threads : \A j \in DOMAIN stack[u] :
         /\ ~Stays(t, base, u, j) /\ Will(stack[u][j], p)
         /\ subKey[p[1]] # NoKey /\ <<subKey[p[1]], p[2]>> \notin cut' /\ p \notin heard'
         => \E i \in DOMAIN fs : Will(fs[i], p)
  <2> SUFFICES ASSUME NEW p \in owed, NEW u \in Threads, NEW j \in DOMAIN stack[u],
                      ~Stays(t, base, u, j), Will(stack[u][j], p),
                      subKey[p[1]] # NoKey, <<subKey[p[1]], p[2]>> \notin cut', p \notin heard'
               PROVE  \E i \in DOMAIN fs : Will(fs[i], p)
    OBVIOUS
  <2>1. u = t /\ j = Len(stack[t])
    BY <1>3
  <2>2. Will(f, p)
    BY <1>6, <2>1
  <2> QED BY <2>2
<1>9. again' = {} /\ heard' \in SUBSET (Ids \X Nat) /\ owed' = owed /\ heard' = heard
  BY DEF RInv, Pairs
<1> QED BY <1>3, <1>5, <1>7, <1>8, <1>9, TurnInOrder

\* A call that has nothing to tell anybody ends,
LEMMA EndInOrder ==
    ASSUME RInv, IInv', UNCHANGED names, UNCHANGED <<owed, heard, again>>, cut \subseteq cut',
           NEW t \in Threads, Inside(t), Pop(t), NEW f, f = Top(t),
           \A p \in owed : Will(f, p) /\ subKey[p[1]] # NoKey => <<subKey[p[1]], p[2]>> \in cut'
    PROVE  RInv'
<1>1. PICK fs : fs = <<>>
  OBVIOUS
<1>2. fs \in Seq(Calls) /\ DOMAIN fs = {} /\ Becomes(t, fs)
  BY <1>1 DEF Pop
<1> QED BY <1>2, QuietTurn

\* a change that has reported everything does,
LEMMA ChangeDoneTells ==
    ASSUME RInv, NEW t \in Threads, ChangeDone(t)
    PROVE  RInv'
<1>1. /\ Inside(t) /\ Top(t).step = "report" /\ Top(t).reports = <<>> /\ Pop(t)
      /\ UNCHANGED names /\ handle' = handle /\ UNCHANGED hvars
  BY DEF ChangeDone, At
<1>2. IInv'
  BY <1>1, Popped DEF RInv
<1>3. PICK f : f = Top(t)
  OBVIOUS
<1>4. f \in Calls /\ FrameInv(f)
  BY <1>1, <1>3, TopInOrder
<1>5. f.op = "change"
  BY <1>1, <1>3, <1>4 DEF FrameInv
<1>6. \A p : ~Will(f, p)
  BY <1>1, <1>3, <1>4, <1>5, SaysNothing
<1>7. UNCHANGED <<owed, heard, again>> /\ cut' = cut
  BY <1>1 DEF hvars
<1> QED BY <1>1, <1>2, <1>3, <1>6, <1>7, EndInOrder

\* and so does one whose listener throws: the change is cut.
LEMMA ThrowTells ==
    ASSUME RInv, NEW t \in Threads, Throw(t)
    PROVE  RInv'
<1>1. /\ Inside(t) /\ Top(t).step = "inside" /\ Pop(t)
      /\ UNCHANGED names /\ handle' = handle /\ UNCHANGED <<owed, heard, again>>
      /\ cut' = IF Top(t).op = "debug" THEN cut \cup {<<Top(t).key, Top(t).about>>} ELSE cut
  BY DEF Throw, At
<1>2. IInv'
  BY <1>1, Popped DEF RInv
<1>3. PICK f : f = Top(t)
  OBVIOUS
<1>4. f \in Calls /\ FrameInv(f)
  BY <1>1, <1>3, TopInOrder
<1>5. f.op # "change"
  BY <1>1, <1>3, <1>4 DEF FrameInv
<1>6. ASSUME NEW p \in owed, Will(f, p) PROVE <<subKey[p[1]], p[2]>> \in cut'
  <2>1. f.op = "debug" /\ <<subKey[p[1]], p[2]>> = <<f.key, f.about>>
    BY <1>5, <1>6 DEF Will, Says
  <2> QED BY <1>1, <1>3, <2>1
<1>7. cut \subseteq cut'
  BY <1>1
<1> QED BY <1>1, <1>2, <1>3, <1>6, <1>7, EndInOrder

\* The next report: its topic, if it has listeners, is told of it, and the
\* other changes are left to report.
LEMMA ReportNextTells ==
    ASSUME RInv, NEW t \in Threads, ReportNext(t)
    PROVE  RInv'
<1>1. IInv /\ IInv'
  BY ReportNextKeeps DEF RInv
<1>2. PICK f : f = Top(t)
  OBVIOUS
<1>3. PICK r : r = Head(f.reports)
  OBVIOUS
<1>4. PICK tail : tail = Tail(f.reports)
  OBVIOUS
<1>5. PICK rest : rest = Change(f.pins, tail)
  OBVIOUS
<1>6. PICK fs : fs = rest \o (IF Listeners(r.topic) = {} THEN <<>>
                              ELSE <<[Emission("debug", r.topic, table[r.topic]) EXCEPT !.about = r.about]>>)
  OBVIOUS
<1>7. /\ Inside(t) /\ f.step = "report" /\ f.reports # <<>> /\ Becomes(t, fs)
      /\ UNCHANGED names /\ UNCHANGED hvars
  BY <1>2, <1>3, <1>4, <1>5, <1>6 DEF ReportNext, At
<1>8. f \in Calls /\ FrameInv(f) /\ f \in Frames /\ ReportInv(f)
  BY <1>2, <1>7, TopInOrder
<1>9. f.pins \in SUBSET Entries /\ f.reports \in Seq(Reports) /\ f.op = "change"
  BY <1>7, <1>8 DEF Frames, FrameInv
<1>10. r \in Reports /\ tail \in Seq(Reports) /\ Len(tail) \in Nat /\ Len(f.reports) = Len(tail) + 1
       /\ r = f.reports[1] /\ \A n \in 1 .. Len(tail) : tail[n] = f.reports[n + 1]
  BY <1>3, <1>4, <1>7, <1>9, HeadTailProperties, LenProperties
<1>11. DOMAIN f.reports = 1 .. Len(tail) + 1 /\ DOMAIN tail = 1 .. Len(tail)
  BY <1>9, <1>10, LenProperties
<1>12. Single(f.reports)
  BY <1>8, <1>9 DEF ReportInv
<1>13. /\ Single(tail) /\ r \notin ToSet(tail) /\ ToSet(f.reports) = {r} \cup ToSet(tail)
  <2>1. Single(tail)
    <3> SUFFICES ASSUME NEW i \in 1 .. Len(tail), NEW j \in 1 .. Len(tail), tail[i] = tail[j]
                 PROVE  i = j
      BY <1>11 DEF Single
    <3>1. i + 1 \in DOMAIN f.reports /\ j + 1 \in DOMAIN f.reports
      BY <1>10, <1>11
    <3>2. f.reports[i + 1] = f.reports[j + 1]
      BY <1>10
    <3>3. i + 1 = j + 1
      BY <1>12, <3>1, <3>2 DEF Single
    <3> QED BY <1>10, <3>3
  <2>2. r \notin ToSet(tail)
    <3> SUFFICES ASSUME NEW n \in 1 .. Len(tail), r = tail[n] PROVE FALSE
      BY <1>11 DEF ToSet
    <3>1. n + 1 \in DOMAIN f.reports /\ 1 \in DOMAIN f.reports
      BY <1>10, <1>11
    <3>2. f.reports[n + 1] = f.reports[1]
      BY <1>10
    <3>3. n + 1 = 1
      BY <1>12, <3>1, <3>2 DEF Single
    <3> QED BY <1>10, <3>3
  <2>3. ASSUME NEW x \in ToSet(f.reports) PROVE x = r \/ x \in ToSet(tail)
    <3>1. PICK n \in 1 .. Len(tail) + 1 : x = f.reports[n]
      BY <1>11 DEF ToSet
    <3>2. CASE n = 1
      BY <1>10, <3>1, <3>2
    <3>3. CASE n # 1
      <4>1. n - 1 \in 1 .. Len(tail) /\ (n - 1) + 1 = n
        BY <1>10, <3>3
      <4>2. tail[n - 1] = x
        BY <1>10, <3>1, <4>1
      <4> QED BY <1>11, <4>1, <4>2 DEF ToSet
    <3> QED BY <3>2, <3>3
  <2>4. ToSet(tail) \subseteq ToSet(f.reports) /\ r \in ToSet(f.reports)
    BY <1>10, <1>11 DEF ToSet
  <2> QED BY <2>1, <2>2, <2>3, <2>4
<1>14. Says(f) = {<<x.topic, x.about>> : x \in {y \in ToSet(f.reports) : y.about # 0}}
  BY <1>9 DEF Says
<1>15. ToSet(tail) \subseteq Reports
  BY <1>10 DEF ToSet
\* What is left of the change.
<1>16. /\ rest \in Seq(Calls)
       /\ \/ rest = <<>> /\ tail = <<>>
          \/ \E c \in Calls : /\ rest = <<c>> /\ c.op = "change" /\ c.step = "report"
                              /\ c.reports = tail
  BY <1>5, <1>9, <1>10, ChangeFrame
<1>17. ASSUME NEW c \in Calls, c.op = "change", c.step = "report", c.reports = tail
       PROVE  /\ Says(c) \subseteq Says(f) /\ ~Telling(c) /\ ReportInv(c)'
              /\ \A g : Distinct(f, g) => Distinct(c, g)
              /\ \A x \in ToSet(tail) : x.about # 0 => <<x.topic, x.about>> \in Says(c)
              /\ \A p \in Says(c) : \E x \in ToSet(tail) : p = <<x.topic, x.about>>
  <2>1. Says(c) = {<<x.topic, x.about>> : x \in {y \in ToSet(tail) : y.about # 0}}
    BY <1>17 DEF Says
  <2>2. Says(c) \subseteq Says(f) /\ ~Telling(c)
    BY <1>13, <1>14, <1>17, <2>1 DEF Telling
  <2>3. ReportInv(c)
    BY <1>7, <1>8, <1>13, <1>17, <2>2 DEF ReportInv
  <2>4. Onward /\ heard' = heard
    BY <1>1, <1>7, MakesNothing DEF hvars
  <2>5. ReportInv(c)'
    BY <2>3, <2>4, StaysInOrder
  <2> QED BY <2>1, <2>2, <2>5 DEF Distinct
\* The topic that is told.
<1>18. ASSUME Listeners(r.topic) # {}, NEW d, d = Found("debug", r.topic, table[r.topic], r.about)
       PROVE  /\ d \in Calls /\ d.op = "debug" /\ d.step = "found" /\ d.born = nextId
              /\ Says(d) = (IF r.about # 0 THEN {<<r.topic, r.about>>} ELSE {})
              /\ Says(d) \subseteq Says(f) /\ ~Telling(d) /\ ReportInv(d)'
              /\ \A g : Distinct(f, g) => Distinct(d, g)
  <2>1. r.topic \in Events /\ table[r.topic] # None /\ r.about \in Nat
    BY <1>10, <1>18 DEF Listeners, Reports
  <2>2. d \in Calls
    BY <1>1, <1>18, <2>1, FoundCall
  <2>3. d.op = "debug" /\ d.step = "found" /\ d.born = nextId /\ d.key = r.topic /\ d.about = r.about
    BY <1>18 DEF Found
  <2>4. Says(d) = (IF r.about # 0 THEN {<<r.topic, r.about>>} ELSE {})
    BY <2>3 DEF Says
  <2>5. Says(d) \subseteq Says(f) /\ ~Telling(d)
    BY <1>13, <1>14, <2>3, <2>4 DEF Telling
  <2>6. d.key \in Topics
    BY <1>10, <2>3 DEF Reports
  <2>7. ReportInv(d)
    BY <1>7, <1>8, <2>3, <2>5, <2>6 DEF ReportInv
  <2>8. Onward /\ heard' = heard
    BY <1>1, <1>7, MakesNothing DEF hvars
  <2>9. ReportInv(d)'
    BY <2>2, <2>7, <2>8, StaysInOrder
  <2> QED BY <2>2, <2>3, <2>4, <2>5, <2>9 DEF Distinct
\* One report is not another.
<1>19. \A x \in ToSet(tail) : <<x.topic, x.about>> # <<r.topic, r.about>>
  <2> SUFFICES ASSUME NEW x \in ToSet(tail), x.topic = r.topic, x.about = r.about PROVE FALSE
    OBVIOUS
  <2>1. x = r
    <3>1. x \in Reports /\ r \in Reports
      BY <1>10, <1>15
    <3>2. x = [topic |-> x.topic, about |-> x.about] /\ r = [topic |-> r.topic, about |-> r.about]
      BY <3>1 DEF Reports
    <3> QED BY <3>2
  <2> QED BY <1>13, <2>1
\* Whom the change is owed to is told by one or the other.
<1>20. ASSUME NEW p \in owed, Will(f, p), subKey[p[1]] # NoKey
       PROVE  \/ \E x \in ToSet(tail) : x.about # 0 /\ <<subKey[p[1]], p[2]>> = <<x.topic, x.about>>
              \/ /\ r.about # 0 /\ <<subKey[p[1]], p[2]>> = <<r.topic, r.about>>
                 /\ Listeners(r.topic) # {} /\ p[1] < nextId
  <2>1. PICK x \in ToSet(f.reports) : x.about # 0 /\ <<subKey[p[1]], p[2]>> = <<x.topic, x.about>>
    BY <1>14, <1>20 DEF Will
  <2>2. CASE x = r
    <3>1. p[1] \in Ids /\ p[1] < nextId
      BY DEF RInv, OwedInv
    <3>2. subKey[p[1]] = r.topic /\ r.topic \in Events /\ p[1] \in Live(r.topic)
      BY <1>1, <1>20, <2>1, <2>2, <3>1 DEF IInv, NamesTyped, Live
    <3>3. table[r.topic] # None /\ Live(r.topic) = ToSet(list[table[r.topic]])
      BY <1>1, <3>2 DEF IInv, BooksInv
    <3> QED BY <2>1, <2>2, <3>1, <3>2, <3>3 DEF Listeners
  <2> QED BY <1>13, <2>1, <2>2
<1>21. UNCHANGED <<owed, heard, again>> /\ cut' = cut
  BY <1>7 DEF hvars
<1>22. CASE Listeners(r.topic) = {}
  <2>1. fs = rest
    BY <1>6, <1>16, <1>22, ConcatEmptySeq
  <2>2. CASE rest = <<>> /\ tail = <<>>
    <3>1. fs \in Seq(Calls) /\ DOMAIN fs = {} /\ ToSet(tail) = {}
      BY <2>1, <2>2 DEF ToSet
    <3>2. \A p \in owed : ~(Will(f, p) /\ subKey[p[1]] # NoKey)
      BY <1>20, <1>22, <3>1
    <3> QED BY <1>1, <1>2, <1>7, <1>21, <3>1, <3>2, QuietTurn
  <2>3. ASSUME NEW c \in Calls, rest = <<c>>, c.op = "change", c.step = "report", c.reports = tail
        PROVE  RInv'
    <3>1. fs \in Seq(Calls) /\ DOMAIN fs = {1} /\ fs[1] = c
      BY <2>1, <2>3
    <3>2. /\ ReportInv(c)' /\ \A g : Distinct(f, g) => Distinct(c, g)
          /\ \A x \in ToSet(tail) : x.about # 0 => <<x.topic, x.about>> \in Says(c)
      BY <1>17, <2>3
    <3>3. \A p \in owed : Will(f, p) /\ subKey[p[1]] # NoKey => \E i \in DOMAIN fs : Will(fs[i], p)
      BY <1>20, <1>22, <2>3, <3>1, <3>2 DEF Will
    <3>4. \A i \in DOMAIN fs : ReportInv(fs[i])'
      BY <3>1, <3>2
    <3>5. \A i \in DOMAIN fs : \A g : Distinct(f, g) => Distinct(fs[i], g)
      BY <3>1, <3>2
    <3>6. \A i, j \in DOMAIN fs : i # j => Distinct(fs[i], fs[j])
      BY <3>1
    <3> QED BY <1>1, <1>2, <1>7, <1>21, <3>1, <3>3, <3>4, <3>5, <3>6, QuietTurn
  <2> QED BY <1>16, <2>2, <2>3
<1>23. CASE Listeners(r.topic) # {}
  <2>1. PICK d : d = Found("debug", r.topic, table[r.topic], r.about)
    OBVIOUS
  <2>2. /\ d \in Calls /\ d.op = "debug" /\ d.step = "found" /\ d.born = nextId
        /\ Says(d) = (IF r.about # 0 THEN {<<r.topic, r.about>>} ELSE {})
        /\ ~Telling(d) /\ ReportInv(d)'
        /\ \A g : Distinct(f, g) => Distinct(d, g)
    BY <1>18, <1>23, <2>1
  <2>3. fs = rest \o <<d>>
    <3>1. [Emission("debug", r.topic, table[r.topic]) EXCEPT !.about = r.about] = d
      BY <2>1, EmissionFinds
    <3> QED BY <1>6, <1>23, <3>1
  <2>4. CASE rest = <<>> /\ tail = <<>>
    <3>1. fs = <<d>> /\ ToSet(tail) = {}
      BY <2>2, <2>3, <2>4 DEF ToSet
    <3>2. fs \in Seq(Calls) /\ DOMAIN fs = {1} /\ fs[1] = d
      BY <2>2, <3>1
    <3>3. ASSUME NEW p \in owed, Will(f, p), subKey[p[1]] # NoKey
          PROVE  \E i \in DOMAIN fs : Will(fs[i], p)
      <4>1. r.about # 0 /\ <<subKey[p[1]], p[2]>> = <<r.topic, r.about>> /\ p[1] < nextId
        BY <1>20, <3>1, <3>3
      <4>2. Will(d, p)
        BY <2>2, <4>1 DEF Will
      <4> QED BY <3>2, <4>2
    <3>4. \A i \in DOMAIN fs : ReportInv(fs[i])'
      BY <2>2, <3>2
    <3>5. \A i \in DOMAIN fs : \A g : Distinct(f, g) => Distinct(fs[i], g)
      BY <2>2, <3>2
    <3>6. \A i, j \in DOMAIN fs : i # j => Distinct(fs[i], fs[j])
      BY <3>2
    <3> QED BY <1>1, <1>2, <1>7, <1>21, <3>2, <3>3, <3>4, <3>5, <3>6, QuietTurn
  <2>5. ASSUME NEW c \in Calls, rest = <<c>>, c.op = "change", c.step = "report", c.reports = tail
        PROVE  RInv'
    <3>1. fs = <<c>> \o <<d>> /\ <<c>> \in Seq(Calls) /\ <<d>> \in Seq(Calls)
      BY <2>2, <2>3, <2>5
    <3>2. fs \in Seq(Calls) /\ DOMAIN fs = {1, 2} /\ fs[1] = c /\ fs[2] = d
      <4>1. /\ fs \in Seq(Calls) /\ Len(fs) = 2 /\ fs[1] = c /\ fs[2] = d
        BY <3>1, ConcatProperties
      <4> QED BY <4>1, LenProperties
    <3>3. /\ ReportInv(c)' /\ ~Telling(c) /\ \A g : Distinct(f, g) => Distinct(c, g)
          /\ \A x \in ToSet(tail) : x.about # 0 => <<x.topic, x.about>> \in Says(c)
          /\ \A p \in Says(c) : \E x \in ToSet(tail) : p = <<x.topic, x.about>>
      BY <1>17, <2>5
    <3>4. ASSUME NEW p \in owed, Will(f, p), subKey[p[1]] # NoKey
          PROVE  \E i \in DOMAIN fs : Will(fs[i], p)
      <4>1. CASE \E x \in ToSet(tail) : x.about # 0 /\ <<subKey[p[1]], p[2]>> = <<x.topic, x.about>>
        <5>1. Will(c, p)
          BY <2>5, <3>3, <4>1 DEF Will
        <5> QED BY <3>2, <5>1
      <4>2. CASE /\ r.about # 0 /\ <<subKey[p[1]], p[2]>> = <<r.topic, r.about>>
                 /\ p[1] < nextId
        <5>1. Will(d, p)
          BY <2>2, <4>2 DEF Will
        <5> QED BY <3>2, <5>1
      <4> QED BY <1>20, <3>4, <4>1, <4>2
    <3>5. \A i \in DOMAIN fs : ReportInv(fs[i])'
      BY <2>2, <3>2, <3>3
    <3>6. \A i \in DOMAIN fs : \A g : Distinct(f, g) => Distinct(fs[i], g)
      BY <2>2, <3>2, <3>3
    <3>7. Distinct(c, d)
      <4>1. Says(c) \cap Says(d) = {}
        BY <1>19, <2>2, <3>3
      <4> QED BY <2>2, <4>1 DEF Distinct
    <3>8. \A i, j \in DOMAIN fs : i # j => Distinct(fs[i], fs[j])
      BY <3>2, <3>7, DistinctBack
    <3> QED BY <1>1, <1>2, <1>7, <1>21, <3>2, <3>4, <3>5, <3>6, <3>8, QuietTurn
  <2> QED BY <1>16, <2>4, <2>5
<1> QED BY <1>22, <1>23

\* An emission goes on with todo: everyone in it is still to be told, once,
\* and it has everyone the call has to tell.
LEMMA GoesOnTelling ==
    ASSUME RInv, IInv', NEW t \in Threads, Inside(t), NEW f, f = Top(t), f.op # "change",
           NEW todo \in Seq(Ids), GoOn(t, f, todo), UNCHANGED <<names, handle, owed, cut>>,
           f.op = "debug" => Single(todo),
           f.op = "debug" => \A l \in ToSet(todo) : l < nextId /\ subKey[l] \in {f.key, NoKey},
           f.op = "debug" /\ f.about # 0 => \A l \in ToSet(todo) : <<l, f.about>> \notin heard,
           f.op = "debug" => \A u \in Threads : \A j \in DOMAIN stack[u] :
              /\ u # t \/ j # Len(stack[t])
              /\ Telling(stack[u][j]) /\ ToSet(todo) \cap ToSet(stack[u][j].todo) # {}
              => f.key = stack[u][j].key,
           \A p \in owed : Will(f, p) /\ subKey[p[1]] = f.key => p[1] \in ToSet(todo)
    PROVE  RInv'
<1>1. /\ f \in Calls /\ FrameInv(f) /\ f \in Frames /\ ReportInv(f)
      /\ f = stack[t][Len(stack[t])] /\ Len(stack[t]) \in DOMAIN stack[t]
      /\ \A u \in Threads : \A j \in DOMAIN stack[u] :
            u # t \/ j # Len(stack[t]) => Distinct(f, stack[u][j])
  BY TopInOrder
<1>2. IInv /\ UNCHANGED names
  BY DEF RInv
<1>3. nextEntry' = nextEntry /\ nextId' = nextId /\ subKey' = subKey /\ table' = table
  BY <1>2 DEF names
<1>4. PICK g : g = Going(f, todo)
  OBVIOUS
<1>5. \/ todo = <<>> /\ Pop(t) /\ UNCHANGED <<heard, again>>
      \/ /\ todo # <<>> /\ g \in Calls
         /\ Becomes(t, <<g>>)
         /\ IF f.op = "debug" /\ f.about # 0
            THEN /\ heard' = heard \cup {<<Head(todo), f.about>>}
                 /\ again' = again \cup (heard \cap {<<Head(todo), f.about>>})
            ELSE UNCHANGED <<heard, again>>
  BY <1>2, <1>4, GoingOn
<1>6. ASSUME NEW p, Will(f, p)
      PROVE  f.op = "debug" /\ f.about # 0 /\ subKey[p[1]] = f.key /\ p[2] = f.about
  BY <1>6 DEF Will, Says
<1>7. CASE todo = <<>> /\ Pop(t) /\ UNCHANGED <<heard, again>>
  <2>1. ToSet(todo) = {}
    BY <1>7 DEF ToSet
  <2>2. \A p \in owed : ~Will(f, p)
    BY <1>6, <2>1
  <2> QED BY <1>2, <1>7, <2>2, EndInOrder
<1>8. CASE /\ todo # <<>> /\ g \in Calls /\ Becomes(t, <<g>>)
           /\ IF f.op = "debug" /\ f.about # 0
              THEN /\ heard' = heard \cup {<<Head(todo), f.about>>}
                   /\ again' = again \cup (heard \cap {<<Head(todo), f.about>>})
              ELSE UNCHANGED <<heard, again>>
  <2>1. /\ g.op = f.op /\ g.step = "inside" /\ g.key = f.key /\ g.todo = todo /\ g.about = f.about
        /\ g.reports = f.reports
    BY <1>4 DEF Going
  <2>2. Says(g) = Says(f)
    BY <2>1 DEF Says
  <2>3. PICK l : l = Head(todo)
    OBVIOUS
  <2>4. /\ l = todo[1] /\ l \in ToSet(todo) /\ l \in Ids /\ DOMAIN todo = 1 .. Len(todo)
        /\ Len(todo) \in Nat \ {0}
    BY <1>8, <2>3, EmptySeq, LenProperties, HeadTailProperties DEF ToSet
  <2>5. PICK fs : fs = <<g>>
    OBVIOUS
  <2>6. fs \in Seq(Calls) /\ DOMAIN fs = {1} /\ fs[1] = g /\ Becomes(t, fs)
    BY <1>8, <2>5
  <2>7. PICK base : base = Front(stack[t])
    OBVIOUS
  <2>8. /\ Turned(t, base, fs)
        /\ \A u, j : Stays(t, base, u, j) <=> j \in DOMAIN stack[u] /\ (u # t \/ j # Len(stack[t]))
    <3>1. stack \in [Threads -> Seq(Calls)]
      BY <1>2 DEF IInv, StackInv
    <3> QED BY <2>6, <2>7, <3>1, TopTurns
  <2>9. \A u \in Threads : \A j : Stays(t, base, u, j) => stack'[u][j] = stack[u][j]
    BY <2>8, Placed
  \* Nobody else is told what this call tells.
  <2>10. ASSUME NEW u \in Threads, NEW j, Stays(t, base, u, j) PROVE Distinct(g, stack[u][j])
    <3>1. j \in DOMAIN stack[u] /\ (u # t \/ j # Len(stack[t]))
      BY <2>8, <2>10
    <3>2. Distinct(f, stack[u][j])
      BY <1>1, <3>1
    <3>3. Says(g) \cap Says(stack[u][j]) = {}
      BY <2>2, <3>2 DEF Distinct
    <3>4. Telling(g) => f.op = "debug"
      BY <2>1 DEF Telling
    <3>5. /\ Telling(g) /\ Telling(stack[u][j]) /\ ToSet(g.todo) \cap ToSet(stack[u][j].todo) # {}
          => g.key = stack[u][j].key
      BY <2>1, <3>1, <3>4
    <3> QED BY <3>3, <3>5 DEF Distinct
  <2>11. ASSUME NEW p \in owed, Will(f, p), p \notin heard' PROVE Will(g, p)
    <3>1. f.op = "debug" /\ f.about # 0 /\ subKey[p[1]] = f.key /\ p[2] = f.about
      BY <1>6, <2>11
    <3>2. p[1] \in ToSet(todo)
      BY <2>11, <3>1
    <3>3. PICK n \in DOMAIN todo : todo[n] = p[1]
      BY <3>2 DEF ToSet
    <3>4. p = <<p[1], p[2]>>
      BY DEF RInv, Pairs
    <3>5. n # 1
      BY <1>8, <2>3, <2>4, <2>11, <3>1, <3>3, <3>4
    <3>6. n \in DOMAIN g.todo /\ n > 1 /\ g.todo[n] = p[1]
      BY <2>1, <2>4, <3>3, <3>5
    <3>7. <<subKey[p[1]], p[2]>> \in Says(g)
      BY <2>2, <2>11 DEF Will
    <3> QED BY <2>1, <3>6, <3>7 DEF Will
  <2>12. \A p \in owed : \A u \in Threads : \A j \in DOMAIN stack[u] :
            /\ ~Stays(t, base, u, j) /\ Will(stack[u][j], p)
            /\ subKey[p[1]] # NoKey /\ <<subKey[p[1]], p[2]>> \notin cut' /\ p \notin heard'
            => \E i \in DOMAIN fs : Will(fs[i], p)
    <3> SUFFICES ASSUME NEW p \in owed, NEW u \in Threads, NEW j \in DOMAIN stack[u],
                        ~Stays(t, base, u, j), Will(stack[u][j], p), p \notin heard'
                 PROVE  \E i \in DOMAIN fs : Will(fs[i], p)
      OBVIOUS
    <3>1. u = t /\ j = Len(stack[t])
      BY <2>8
    <3>2. Will(g, p)
      BY <1>1, <2>11, <3>1
    <3> QED BY <2>6, <3>2
  <2>13. \A i \in DOMAIN fs : \A u \in Threads : \A j :
            Stays(t, base, u, j) => Distinct(fs[i], stack[u][j])
    BY <2>6, <2>10
  <2>14. \A i, j \in DOMAIN fs : i # j => Distinct(fs[i], fs[j])
    BY <2>6
  <2>15. /\ f.op = "debug" => f.key \in Topics
         /\ f.op = "debug" /\ f.about # 0 => Past(f.key, f.about)
    <3>1. f.op = "debug" /\ f.about # 0 => <<f.key, f.about>> \in Says(f)
      BY DEF Says
    <3>2. f.op = "debug" /\ f.about # 0 => Past(<<f.key, f.about>>[1], <<f.key, f.about>>[2])
      BY <1>1, <3>1 DEF ReportInv
    <3> QED BY <1>1, <3>2 DEF ReportInv
  <2>16. Says(g)' = Says(g) /\ Telling(g)' = Telling(g)
    BY DEF Says, Telling
  \* One who is told nothing yet, or nothing at all.
  <2>17. CASE ~(f.op = "debug" /\ f.about # 0)
    <3>1. UNCHANGED <<heard, again>>
      BY <1>8, <2>17
    <3>2. Says(g) = {}
      BY <2>1, <2>17 DEF Says
    <3>3. ReportInv(g)'
      BY <1>3, <2>1, <2>15, <2>16, <3>2 DEF ReportInv, Telling
    <3>4. \A u \in Threads : \A j : Stays(t, base, u, j) => ReportInv(stack[u][j])'
      BY <1>2, <2>8, <2>9, <3>1, QuietStays
    <3>5. again' = {} /\ heard' \in SUBSET (Ids \X Nat) /\ heard' = heard
      BY <3>1 DEF RInv, Pairs
    <3>6. \A i \in DOMAIN fs : ReportInv(fs[i])'
      BY <2>6, <3>3
    <3> QED BY <1>2, <2>8, <2>12, <2>13, <2>14, <3>4, <3>5, <3>6, TurnInOrder
  \* One who is told.
  <2>18. CASE f.op = "debug" /\ f.about # 0
    <3>1. heard' = heard \cup {<<l, f.about>>} /\ again' = again \cup (heard \cap {<<l, f.about>>})
      BY <1>8, <2>3, <2>18
    <3>2. <<l, f.about>> \notin heard /\ l < nextId /\ subKey[l] \in {f.key, NoKey} /\ f.about \in Nat
      BY <1>1, <2>4, <2>18 DEF Frames
    <3>3. again' = {} /\ heard' \in SUBSET (Ids \X Nat) /\ heard \subseteq heard'
      BY <2>4, <3>1, <3>2 DEF RInv, Pairs
    <3>4. <<f.key, f.about>> \in Says(f) /\ Past(f.key, f.about)
      BY <2>15, <2>18 DEF Says
    <3>5. Untold(g)'
      <4> SUFFICES ASSUME NEW n \in DOMAIN todo, n > 1 PROVE <<todo[n], f.about>> \notin heard'
        BY <2>1 DEF Untold
      <4>1. <<todo[n], f.about>> \notin heard
        BY <2>18 DEF ToSet
      <4>2. todo[n] # todo[1] /\ 1 \in DOMAIN todo
        BY <2>4, <2>18 DEF Single
      <4> QED BY <2>4, <3>1, <4>1, <4>2
    <3>6. ReportInv(g)'
      <4>1. \A p \in Says(g) : p = <<f.key, f.about>>
        BY <2>1, <2>18 DEF Says
      <4>2. Past(f.key, f.about)'
        BY <1>3, <3>4 DEF Past, Entries, Ids, Keys
      <4>3. \A p \in Says(g) : Past(p[1], p[2])'
        <5> SUFFICES ASSUME NEW p \in Says(g) PROVE Past(p[1], p[2])'
          OBVIOUS
        <5>1. p[1] = f.key /\ p[2] = f.about
          BY <4>1
        <5> QED BY <4>2, <5>1 DEF Past
      <4> QED BY <1>3, <2>1, <2>15, <2>16, <2>18, <3>5, <4>3 DEF ReportInv, Telling
    <3>7. ASSUME NEW u \in Threads, NEW j, Stays(t, base, u, j) PROVE ReportInv(stack[u][j])'
      <4>1. PICK h \in Calls : h = stack[u][j] /\ h = stack'[u][j]
        BY <1>2, <2>8, <2>9, <3>7, StackElements
      <4>2. ReportInv(h) /\ Distinct(g, h)
        BY <2>8, <2>10, <3>7, <4>1 DEF RInv, ReportsInv
      <4>3. ASSUME NEW p \in Says(h)
            PROVE  /\ Past(p[1], p[2])'
                   /\ h.step # "inside" => Unheard(p[1], p[2])'
                   /\ h.step = "inside" => Untold(h)'
        <5>1. /\ Past(p[1], p[2])
              /\ h.step # "inside" => Unheard(p[1], p[2])
              /\ h.step = "inside" => Untold(h)
          BY <4>2 DEF ReportInv
        <5>2. Past(p[1], p[2])' /\ p[1] # NoKey
          BY <1>3, <5>1 DEF Past, Entries, Ids, Keys, NoKey
        <5>3. p # <<f.key, f.about>>
          BY <2>2, <3>4, <4>2 DEF Distinct
        <5>4. \E a, b : p = <<a, b>>
          BY DEF Says
        <5>5. ASSUME h.step # "inside" PROVE Unheard(p[1], p[2])'
          <6> SUFFICES ASSUME NEW i \in Ids, subKey[i] = p[1], <<i, p[2]>> \in heard' PROVE FALSE
            BY <1>3 DEF Unheard, Ids
          <6>1. <<i, p[2]>> \notin heard
            BY <5>1, <5>5 DEF Unheard
          <6>2. i = l /\ p[2] = f.about
            BY <3>1, <6>1
          <6>3. p[1] = f.key
            BY <3>2, <5>2, <6>2
          <6> QED BY <5>3, <5>4, <6>2, <6>3
        <5>6. ASSUME h.step = "inside" PROVE Untold(h)'
          <6>1. h.op = "debug" /\ p = <<h.key, h.about>>
            <7>1. h.op # "change"
              BY <4>1, <5>6 DEF Calls, FrameInv
            <7> QED BY <7>1 DEF Says
          <6> SUFFICES ASSUME NEW n \in DOMAIN h.todo, n > 1, <<h.todo[n], h.about>> \in heard'
                       PROVE  FALSE
            BY DEF Untold
          <6>2. <<h.todo[n], h.about>> \notin heard
            BY <5>1, <5>6 DEF Untold
          <6>3. h.todo[n] = l /\ h.about = f.about
            BY <3>1, <6>2
          <6>4. l \in ToSet(h.todo) /\ Telling(h) /\ Telling(g)
            BY <2>1, <2>18, <5>6, <6>1, <6>3 DEF ToSet, Telling
          <6>5. g.key = h.key
            BY <2>1, <2>4, <4>2, <6>4 DEF Distinct
          <6> QED BY <2>1, <5>3, <6>1, <6>3, <6>5
        <5> QED BY <5>2, <5>5, <5>6
      <4>4. /\ h.op = "change" => Single(h.reports)
            /\ h.op = "debug" => h.key \in Topics
            /\ Telling(h) => /\ Single(h.todo)
                             /\ \A i \in ToSet(h.todo) : i < nextId /\ subKey[i] \in {h.key, NoKey}
        BY <4>2 DEF ReportInv
      <4>5. Says(h)' = Says(h) /\ Telling(h)' = Telling(h)
        BY DEF Says, Telling
      <4>6. ReportInv(h)'
        BY <1>3, <4>3, <4>4, <4>5 DEF ReportInv, Says, Telling, Past, Unheard, Untold, Ids, Entries, Keys
      <4> QED BY <4>1, <4>6 DEF ReportInv, Past, Unheard, Untold, Telling, Says
    <3>8. \A i \in DOMAIN fs : ReportInv(fs[i])'
      BY <2>6, <3>6
    <3>9. \A p \in heard' \ heard : /\ p[1] < nextId
                                    /\ subKey[p[1]] # NoKey => Past(subKey[p[1]], p[2])
      <4> SUFFICES ASSUME NEW p \in heard', p \notin heard
                   PROVE  p[1] < nextId /\ (subKey[p[1]] # NoKey => Past(subKey[p[1]], p[2]))
        OBVIOUS
      <4>1. p[1] = l /\ p[2] = f.about
        BY <3>1
      <4>2. subKey[p[1]] # NoKey => subKey[p[1]] = f.key
        BY <3>2, <4>1
      <4> QED BY <3>2, <3>4, <4>1, <4>2
    <3> QED BY <1>2, <2>8, <2>12, <2>13, <2>14, <3>3, <3>7, <3>8, <3>9, TurnInOrder
  <2> QED BY <2>17, <2>18
<1> QED BY <1>5, <1>7, <1>8

\* An emission copies its list: nobody on it has been told,
LEMMA SnapshotTells ==
    ASSUME RInv, NEW t \in Threads, Snapshot(t)
    PROVE  RInv'
<1>1. IInv
  BY DEF RInv
<1>2. PICK f : f = Top(t)
  OBVIOUS
<1>3. PICK e \in Entries :
         /\ Inside(t) /\ f.op # "change" /\ f.step = "found"
         /\ f.pins = {e} /\ f.key \in Events /\ Names(e, f.key)
         /\ f.op # "handle" => {i \in Live(f.key) : i < f.born} \subseteq ToSet(list[e])
         /\ list[e] \in Seq(Ids) /\ GoOn(t, f, list[e])
         /\ UNCHANGED <<names, handle, owed, cut>>
  BY <1>1, <1>2, Copied
<1>4. PICK todo : todo = list[e]
  OBVIOUS
<1>5. todo \in Seq(Ids) /\ GoOn(t, f, todo)
  BY <1>3, <1>4
<1>6. IInv'
  BY <1>1, <1>2, <1>3, <1>5, GoOnKeeps
<1>7. f.key # NoKey
  BY <1>3, CommunicationAssumption DEF NoKey
<1>8. /\ f \in Calls /\ ReportInv(f)
      /\ \A u \in Threads : \A j \in DOMAIN stack[u] :
            u # t \/ j # Len(stack[t]) => Distinct(f, stack[u][j])
  BY <1>2, <1>3, TopInOrder
<1>9. Single(todo)
  <2>1. Ascending(todo)
    BY <1>1, <1>4 DEF IInv, BooksInv
  <2>2. DOMAIN todo \subseteq Nat /\ \A i \in DOMAIN todo : todo[i] \in Nat
    <3>1. Len(todo) \in Nat /\ DOMAIN todo = 1 .. Len(todo) /\ \A i \in DOMAIN todo : todo[i] \in Ids
      BY <1>5, LenProperties
    <3> QED BY <3>1 DEF Ids
  <2> QED BY <2>1, <2>2 DEF Ascending, Single
<1>10. \A l \in ToSet(todo) : l \in Ids /\ l < nextId /\ subKey[l] = f.key
  <2> SUFFICES ASSUME NEW l \in ToSet(list[e]) PROVE l \in Ids /\ l < nextId /\ subKey[l] = f.key
    BY <1>4
  <2>1. PICK k \in Events : table[k] = e /\ subKey[l] = k /\ l \in Ids /\ l < nextId
    BY <1>1, GivenOut
  <2>2. k = f.key
    BY <1>3, <2>1 DEF Names, Keys
  <2> QED BY <2>1, <2>2
<1>11. ASSUME f.op = "debug", f.about # 0, NEW l \in ToSet(todo)
       PROVE  <<l, f.about>> \notin heard
  <2>1. <<f.key, f.about>> \in Says(f)
    BY <1>11 DEF Says
  <2>2. Unheard(<<f.key, f.about>>[1], <<f.key, f.about>>[2])
    BY <1>3, <1>8, <2>1 DEF ReportInv
  <2> QED BY <1>10, <2>2 DEF Unheard
<1>12. ASSUME f.op = "debug", NEW u \in Threads, NEW j \in DOMAIN stack[u],
              Telling(stack[u][j]), ToSet(todo) \cap ToSet(stack[u][j].todo) # {}
       PROVE  f.key = stack[u][j].key
  <2>1. PICK l \in ToSet(todo) : l \in ToSet(stack[u][j].todo)
    BY <1>12
  <2>2. ReportInv(stack[u][j])
    BY DEF RInv, ReportsInv
  <2>3. subKey[l] \in {stack[u][j].key, NoKey}
    BY <1>12, <2>1, <2>2 DEF ReportInv
  <2> QED BY <1>7, <1>10, <2>3
<1>13. ASSUME NEW p \in owed, Will(f, p), subKey[p[1]] = f.key PROVE p[1] \in ToSet(todo)
  <2>1. p[1] \in Ids /\ p[1] < f.born
    BY <1>3, <1>13 DEF Will, RInv, OwedInv
  <2>2. f.op # "handle"
    BY <1>13 DEF Will, Says
  <2> QED BY <1>3, <1>4, <1>13, <2>1, <2>2 DEF Live
<1> QED BY <1>2, <1>3, <1>5, <1>6, <1>9, <1>10, <1>11, <1>12, <1>13, GoesOnTelling

\* and, as a listener returns, nobody after him has.
LEMMA ReturnTells ==
    ASSUME RInv, NEW t \in Threads, Return(t)
    PROVE  RInv'
<1>1. IInv
  BY DEF RInv
<1>2. PICK f : f = Top(t)
  OBVIOUS
<1>3. /\ Inside(t) /\ f.op # "change" /\ f.step = "inside"
      /\ UNCHANGED <<names, handle, owed, cut>>
  BY <1>1, <1>2, Returned
<1>4. PICK todo \in Seq(Ids) :
         /\ GoOn(t, f, todo)
         /\ f.op = "call" => todo = <<>>
         /\ f.op # "call" => f.todo # <<>> /\ todo = Tail(f.todo)
  BY <1>1, <1>2, Returned
<1>5. IInv'
  BY <1>1, <1>2, <1>3, <1>4, GoOnKeeps
<1>6. /\ f \in Calls /\ f \in Frames /\ ReportInv(f)
      /\ \A u \in Threads : \A j \in DOMAIN stack[u] :
            u # t \/ j # Len(stack[t]) => Distinct(f, stack[u][j])
  BY <1>2, <1>3, TopInOrder
<1>7. f.todo \in Seq(Ids)
  BY <1>6 DEF Frames
\* Where the ones that are left were.
<1>8. ASSUME f.op = "debug"
      PROVE  /\ Len(todo) \in Nat /\ DOMAIN todo = 1 .. Len(todo) /\ DOMAIN f.todo = 1 .. Len(todo) + 1
             /\ \A n \in 1 .. Len(todo) : todo[n] = f.todo[n + 1]
  BY <1>4, <1>7, <1>8, HeadTailProperties, LenProperties
<1>9. ASSUME f.op = "debug", NEW l \in ToSet(todo)
      PROVE  \E n \in DOMAIN f.todo : n > 1 /\ f.todo[n] = l
  <2>1. PICK n \in DOMAIN todo : todo[n] = l
    BY DEF ToSet
  <2>2. n + 1 \in DOMAIN f.todo /\ n + 1 > 1 /\ f.todo[n + 1] = l
    BY <1>8, <1>9, <2>1
  <2> QED BY <2>2
<1>10. ASSUME f.op = "debug" PROVE Telling(f) /\ ToSet(todo) \subseteq ToSet(f.todo)
  BY <1>3, <1>9, <1>10 DEF Telling, ToSet
<1>11. f.op = "debug" => Single(todo)
  <2> SUFFICES ASSUME f.op = "debug", NEW i \in DOMAIN todo, NEW j \in DOMAIN todo, todo[i] = todo[j]
               PROVE  i = j
    BY DEF Single
  <2>1. Single(f.todo)
    BY <1>6, <1>10 DEF ReportInv
  <2>2. /\ i \in Nat /\ j \in Nat /\ i + 1 \in DOMAIN f.todo /\ j + 1 \in DOMAIN f.todo
        /\ f.todo[i + 1] = f.todo[j + 1]
    BY <1>8
  <2>3. i + 1 = j + 1
    BY <2>1, <2>2 DEF Single
  <2> QED BY <2>2, <2>3
<1>12. f.op = "debug" => \A l \in ToSet(todo) : l < nextId /\ subKey[l] \in {f.key, NoKey}
  BY <1>6, <1>10 DEF ReportInv
<1>13. ASSUME f.op = "debug", f.about # 0, NEW l \in ToSet(todo)
       PROVE  <<l, f.about>> \notin heard
  <2>1. <<f.key, f.about>> \in Says(f)
    BY <1>13 DEF Says
  <2>2. Untold(f)
    BY <1>3, <1>6, <2>1 DEF ReportInv
  <2> QED BY <1>9, <1>13, <2>2 DEF Untold
<1>14. ASSUME f.op = "debug", NEW u \in Threads, NEW j \in DOMAIN stack[u],
              u # t \/ j # Len(stack[t]),
              Telling(stack[u][j]), ToSet(todo) \cap ToSet(stack[u][j].todo) # {}
       PROVE  f.key = stack[u][j].key
  <2>1. Distinct(f, stack[u][j])
    BY <1>6, <1>14
  <2> QED BY <1>10, <1>14, <2>1 DEF Distinct
<1>15. ASSUME NEW p \in owed, Will(f, p) PROVE p[1] \in ToSet(todo)
  <2>1. f.op = "debug"
    BY <1>3, <1>15 DEF Will, Says
  <2>2. PICK n \in DOMAIN f.todo : n > 1 /\ f.todo[n] = p[1]
    BY <1>3, <1>15 DEF Will
  <2>3. n - 1 \in DOMAIN todo /\ (n - 1) + 1 = n
    BY <1>8, <2>1, <2>2
  <2>4. todo[n - 1] = p[1]
    BY <1>8, <2>1, <2>2, <2>3
  <2> QED BY <2>3, <2>4 DEF ToSet
<1> QED BY <1>2, <1>3, <1>4, <1>5, <1>11, <1>12, <1>13, <1>14, <1>15, GoesOnTelling

-----------------------------------------------------------------------------
(* The results.                                                            *)

LEMMA ReportSteps ==
    ASSUME RInv, [Next]_vars
    PROVE  RInv'
<1>1. ASSUME NEW t \in Threads, Step(t) PROVE RInv'
  <2>1. CASE \E k \in Handlers : \E o \in Owners : RegisterHandler(t, k, o)
    BY <2>1, RegisterHandlerTells
  <2>2. CASE \E k \in Handlers : UnregisterHandler(t, k)
    BY <2>2, UnregisterHandlerTells
  <2>3. CASE \E k \in Events, o \in Owners : Register(t, k, o)
    BY <2>3, RegisterTells
  <2>4. CASE \E id \in Ids : Unregister(t, id)
    BY <2>4, UnregisterTells
  <2>5. CASE \E o \in Owners : UnregisterOwner(t, o)
    BY <2>5, UnregisterOwnerTells
  <2>6. CASE ReportNext(t)
    BY <2>6, ReportNextTells
  <2>7. CASE ChangeDone(t)
    BY <2>7, ChangeDoneTells
  <2>8. CASE \E k \in Events : Emit(t, k)
    BY <2>8, EmitTells
  <2>9. CASE Snapshot(t)
    BY <2>9, SnapshotTells
  <2>10. CASE Return(t)
    BY <2>10, ReturnTells
  <2>11. CASE Throw(t)
    BY <2>11, ThrowTells
  <2>12. CASE \E k \in Keys : GetHandle(t, k)
    BY <2>12, GetHandleTells
  <2>13. CASE CallHandle(t)
    BY <2>13, CallHandleTells
  <2> QED BY <1>1, <2>1, <2>2, <2>3, <2>4, <2>5, <2>6, <2>7, <2>8, <2>9, <2>10, <2>11, <2>12, <2>13 DEF Step
<1>2. ASSUME UNCHANGED vars PROVE RInv'
  <2>1. UNCHANGED names /\ handle' = handle /\ stack' = stack
        /\ owed' = owed /\ heard' = heard /\ again' = again /\ cut' = cut
    BY <1>2 DEF vars, hvars
  <2>2. IInv'
    BY <1>2, Steps DEF RInv
  <2>3. CASE Threads = {}
    BY <2>1, <2>2, <2>3 DEF RInv, Pairs, ReportsInv, DistinctInv, HeardInv, OwedInv, Past, names, Ids, Entries, Keys
  <2>4. CASE Threads # {}
    <3>1. PICK t \in Threads : TRUE
      BY <2>4
    <3>2. stack \in [Threads -> Seq(Calls)] /\ DistinctInv /\ IInv
      BY DEF RInv, IInv, StackInv
    <3>3. PICK fs : fs = <<>>
      OBVIOUS
    <3>4. fs \in Seq(Calls) /\ DOMAIN fs = {}
      BY <3>3
    <3>5. stack' = [stack EXCEPT ![t] = @ \o fs]
      BY <2>1, <3>2, <3>3, ConcatEmptySeq
    <3>6. PICK base : base = stack[t]
      OBVIOUS
    <3>7. Turned(t, base, fs) /\ \A u, j : Stays(t, base, u, j) <=> j \in DOMAIN stack[u]
      BY <3>2, <3>4, <3>5, <3>6, GrowthTurns
    <3>8. \A u \in Threads : \A j : Stays(t, base, u, j) => ReportInv(stack[u][j])'
      BY <2>1, <3>7, QuietStays
    <3>9. again' = {} /\ heard' \in SUBSET (Ids \X Nat)
      BY <2>1 DEF RInv, Pairs
    <3> QED BY <2>1, <2>2, <3>4, <3>7, <3>8, <3>9, TurnInOrder
  <2> QED BY <2>3, <2>4
<1> QED BY <1>1, <1>2 DEF Next

\* Theorem: in every state the calls that report changes agree with what has
\* been told and what is owed, for any nesting of the calls of any threads.
THEOREM ReportsInvariant == Spec => []RInv
<1>1. Init => RInv
  BY RStart
<1>2. RInv /\ [Next]_vars => RInv'
  BY ReportSteps
<1> QED BY <1>1, <1>2, PTL DEF Spec

\* Theorem: no listener of a debug topic hears of a change twice, and once
\* every call has returned, every listener has heard of every change made
\* while it was subscribed, but those another listener threw on.
THEOREM AllReported == Spec => []DebugReported
<1>1. RInv => DebugReported
  BY ReportedFollows
<1> QED BY <1>1, ReportsInvariant, PTL
=============================================================================
