------------------------ MODULE ModuleManager_proofs ------------------------
(***************************************************************************)
(* Proofs about ModuleManager, for any finite set of modules, any graphs   *)
(* of dependencies, any module that throws or is registered late, and any  *)
(* sequence of calls.                                                      *)
(***************************************************************************)
EXTENDS ModuleManager, SequenceTheorems, FiniteSetTheorems, FunctionTheorems, TLAPS

\* The states between an onInit and its onShutdown.
Between == {"Initialized", "Started", "Stopped"}
Owes(m) == state[m] \in Between

In(m, s) == \E i \in 1 .. Len(s) : s[i] = m
Once(s)  == \A i, j \in 1 .. Len(s) : s[i] = s[j] => i = j

\* What reload() has put up out of order is up; the rest is as it should be.
Sound(m) == m \notin early \cup loose

\* The recorded order: dependencies come first, nobody comes twice, and
\* whoever is owed an onShutdown is there, or is loose.
OrderInv ==
    /\ Once(startOrder)
    /\ \A i, j \in 1 .. Len(startOrder) : startOrder[j] \in deps[startOrder[i]] => j < i
    /\ \A m \in Modules : Owes(m) => m \in loose \/ In(m, startOrder)
    /\ \A m \in Modules : ~Owes(m) => Sound(m)

\* The rest of a pass.
TodoInv ==
    /\ Once(order) /\ Once(todo)
    /\ \A m \in Modules : In(m, todo) => In(m, order)
    /\ call = "none" => todo = <<>> /\ \A m \in Modules : state[m] # "Stopped"

\* Modules of the order the pass has been through.
Done(m) == In(m, order) /\ ~In(m, todo)

\* startAll(): dependencies have their turn first, a skipped module takes
\* along what depends on it and nothing else, and what has had its turn
\* without being skipped is up.
StartInv ==
    call = "startAll" =>
        /\ pass \in {"init", "start"} /\ order = startOrder
        /\ loose = {} /\ early = {}
        /\ \A m \in Modules : In(m, order) => m \in Known /\ \A d \in deps[m] : In(d, order)
        /\ \A i, j \in 1 .. Len(todo) : todo[j] \in deps[todo[i]] => j < i
        /\ \A m \in Modules : In(m, order) /\ deps[m] \cap skipped # {} => m \in skipped
        /\ \A m \in skipped : m \in threw \/ deps[m] \cap skipped # {}
        /\ \A m \in skipped : state[m] # "Started"
        /\ \A m \in Modules : state[m] # "Stopped"
        /\ pass = "init" =>
              /\ \A m \in Modules : state[m] # "Started"
              /\ \A m \in Modules : In(m, todo) => ~Owes(m)
              /\ \A m \in Modules : Done(m) => m \in skipped \/ state[m] = "Initialized"
        /\ pass = "start" =>
              /\ \A m \in Modules : In(m, todo) => m \in skipped \/ state[m] = "Initialized"
              /\ \A m \in Modules : Done(m) => m \in skipped \/ state[m] = "Started"

\* stopAll(): dependents have their turn first, and whoever of its order has
\* not had it is still to come.
StopInv ==
    call = "stopAll" =>
        /\ pass \in {"stop", "shutdown"}
        /\ startOrder # <<>> => order = startOrder
        /\ startOrder = <<>> => \A m \in Modules : Owes(m) => In(m, order)
        /\ \A m \in Modules : state[m] = "Stopped" => In(m, order)
        /\ \A i, j \in 1 .. Len(todo) :
              Owes(todo[i]) /\ Sound(todo[i]) /\ todo[j] \in deps[todo[i]] => i < j
        /\ pass = "stop" =>
              \A m \in Modules : state[m] = "Started" /\ In(m, order) => In(m, todo)
        /\ pass = "shutdown" =>
              \A m \in Modules : In(m, order) => state[m] # "Started" /\ (Owes(m) => In(m, todo))

\* unload() and reload() of one module that nobody who is up depends on.
\* The state of a module, before and after its turn in each pass.
Turns(p, before, after, m) ==
    pass = p => state[m] \in IF todo = <<>> THEN after ELSE before

Down == {"Registered", "Initialized", "ShutDown"}

Unloading(m) ==
    /\ pass \in {"stop", "shutdown", "erase"}
    /\ Turns("stop", Down \cup {"Started"}, Down \cup {"Stopped"}, m)
    /\ Turns("shutdown", Down \cup {"Stopped"}, Down, m)
    /\ Turns("erase", Down, {}, m)

\* Once its onInit has run, m is early or may call what it depends on.
Ready(m) == m \in early \/ \A d \in deps[m] : d # m /\ state[d] = "Started"

Reloading(m) ==
    /\ pass \in {"stop", "shutdown", "init", "start"}
    /\ Turns("stop", Down \cup {"Started"}, Down \cup {"Stopped"}, m)
    /\ Turns("shutdown", Down \cup {"Stopped"}, Down, m)
    /\ Turns("init", Down, {"Initialized"}, m)
    /\ Turns("start", {"Initialized"}, {"Started"}, m)
    /\ (pass = "start" \/ (pass = "init" /\ todo = <<>>)) => Ready(m)

OnlyOne(m) ==
    /\ order = <<m>>
    /\ todo = <<m>> \/ todo = <<>>
    /\ \A n \in Modules \ {m} : state[n] # "Stopped" /\ (Owes(n) => m \notin deps[n])
    /\ call = "unload" => Unloading(m)
    /\ call = "reload" => Reloading(m)

OneInv == call \in {"unload", "reload"} => \E m \in Known : OnlyOne(m)

IInv ==
    /\ Inv /\ DependenciesStarted /\ DependenciesOutlive
    /\ OrderInv /\ TodoInv /\ StartInv /\ StopInv /\ OneInv

-----------------------------------------------------------------------------
(* Sequences of modules.                                                   *)

LEMMA SeqFacts ==
    ASSUME NEW s \in Seq(Modules)
    PROVE  /\ Len(s) \in Nat
           /\ \A i \in 1 .. Len(s) : s[i] \in Modules
           /\ s = <<>> <=> Len(s) = 0
           /\ \A x : In(x, s) => x \in Modules
<1>1. Len(s) \in Nat /\ \A i \in 1 .. Len(s) : s[i] \in Modules
  BY LenProperties, ElementOfSeq
<1>2. s = <<>> <=> Len(s) = 0
  BY EmptySeq
<1> QED
  BY <1>1, <1>2 DEF In

LEMMA EmptyFacts ==
    <<>> \in Seq(Modules) /\ Len(<<>>) = 0 /\ Once(<<>>) /\ \A x : ~In(x, <<>>)
BY EmptySeq DEF Once, In

LEMMA SingleFacts ==
    ASSUME NEW m \in Modules
    PROVE  /\ <<m>> \in Seq(Modules) /\ <<m>> # <<>> /\ Len(<<m>>) = 1 /\ <<m>>[1] = m
           /\ Head(<<m>>) = m /\ Tail(<<m>>) = <<>>
           /\ Once(<<m>>) /\ \A x : In(x, <<m>>) <=> x = m
BY DEF Once, In

LEMMA TailFacts ==
    ASSUME NEW s \in Seq(Modules), s # <<>>
    PROVE  /\ Tail(s) \in Seq(Modules) /\ Head(s) \in Modules
           /\ Head(s) = s[1] /\ 1 \in 1 .. Len(s) /\ Len(Tail(s)) \in Nat
           /\ \A i \in 1 .. Len(Tail(s)) : i + 1 \in 1 .. Len(s) /\ Tail(s)[i] = s[i + 1]
           /\ \A x : In(x, s) <=> x = Head(s) \/ In(x, Tail(s))
           /\ Once(s) => Once(Tail(s)) /\ ~In(Head(s), Tail(s))
<1>1. /\ Len(s) \in Nat /\ Len(s) # 0 /\ Tail(s) \in Seq(Modules) /\ Head(s) \in Modules
      /\ Head(s) = s[1] /\ Len(Tail(s)) = Len(s) - 1
      /\ \A i \in 1 .. Len(Tail(s)) : Tail(s)[i] = s[i + 1]
  BY HeadTailProperties, SeqFacts
<1>2. \A i \in 1 .. Len(Tail(s)) : i + 1 \in 1 .. Len(s) /\ Tail(s)[i] = s[i + 1]
  BY <1>1
<1>3. 1 \in 1 .. Len(s) /\ Len(Tail(s)) \in Nat
  BY <1>1
<1>4. \A i \in 1 .. Len(s) : i # 1 => i - 1 \in 1 .. Len(Tail(s)) /\ Tail(s)[i - 1] = s[i]
  <2> TAKE i \in 1 .. Len(s)
  <2> HAVE i # 1
  <2>1. i - 1 \in 1 .. Len(Tail(s)) /\ (i - 1) + 1 = i
    BY <1>1
  <2> QED
    BY <1>1, <2>1
<1>5. \A x : In(x, s) <=> x = Head(s) \/ In(x, Tail(s))
  <2>1. ASSUME NEW i \in 1 .. Len(s)
        PROVE  s[i] = Head(s) \/ In(s[i], Tail(s))
    BY <1>1, <1>4 DEF In
  <2>2. ASSUME NEW i \in 1 .. Len(Tail(s))
        PROVE  In(Tail(s)[i], s)
    BY <1>2 DEF In
  <2>3. In(Head(s), s)
    BY <1>1, <1>3 DEF In
  <2>4. TAKE x
  <2>5. In(x, s) => x = Head(s) \/ In(x, Tail(s))
    BY <2>1 DEF In
  <2>6. In(x, Tail(s)) => In(x, s)
    BY <2>2 DEF In
  <2> QED
    BY <2>3, <2>5, <2>6
<1>6. ASSUME Once(s)
      PROVE  Once(Tail(s)) /\ ~In(Head(s), Tail(s))
  <2>1. ASSUME NEW i \in 1 .. Len(Tail(s)), NEW j \in 1 .. Len(Tail(s)), Tail(s)[i] = Tail(s)[j]
        PROVE  i = j
    <3>1. i + 1 = j + 1
      BY <1>2, <1>6, <2>1 DEF Once
    <3> QED
      BY <3>1
  <2>2. ASSUME NEW i \in 1 .. Len(Tail(s)), Tail(s)[i] = Head(s)
        PROVE  FALSE
    <3>1. i + 1 = 1
      BY <1>1, <1>2, <1>3, <1>6, <2>2 DEF Once
    <3> QED
      BY <3>1
  <2> QED
    BY <2>1, <2>2 DEF Once, In
<1> QED
  BY <1>1, <1>2, <1>3, <1>5, <1>6

LEMMA ReverseFacts ==
    ASSUME NEW s \in Seq(Modules)
    PROVE  /\ Reverse(s) \in Seq(Modules) /\ Len(Reverse(s)) = Len(s)
           /\ \A i \in 1 .. Len(s) : /\ Len(s) - i + 1 \in 1 .. Len(s)
                                    /\ Reverse(s)[i] = s[Len(s) - i + 1]
           /\ \A x : In(x, Reverse(s)) <=> In(x, s)
           /\ Once(s) => Once(Reverse(s))
<1>1. Len(s) \in Nat /\ \A i \in 1 .. Len(s) : s[i] \in Modules
  BY SeqFacts
<1>2. \A i \in 1 .. Len(s) : Len(s) - i + 1 \in 1 .. Len(s)
  BY <1>1
<1>3. Reverse(s) \in [1 .. Len(s) -> Modules]
  BY <1>1, <1>2 DEF Reverse
<1>4. Reverse(s) \in Seq(Modules) /\ Len(Reverse(s)) = Len(s)
  BY <1>1, <1>3
<1>5. \A i \in 1 .. Len(s) : Reverse(s)[i] = s[Len(s) - i + 1]
  BY DEF Reverse
<1>6. \A x : In(x, Reverse(s)) <=> In(x, s)
  <2>1. ASSUME NEW i \in 1 .. Len(s)
        PROVE  \E j \in 1 .. Len(s) : Reverse(s)[j] = s[i]
    <3>1. Len(s) - i + 1 \in 1 .. Len(s) /\ Len(s) - (Len(s) - i + 1) + 1 = i
      BY <1>1
    <3> QED
      BY <1>5, <3>1
  <2> QED
    BY <1>2, <1>4, <1>5, <2>1 DEF In
<1>7. Once(s) => Once(Reverse(s))
  <2> SUFFICES ASSUME Once(s), NEW i \in 1 .. Len(s), NEW j \in 1 .. Len(s),
                      Reverse(s)[i] = Reverse(s)[j]
               PROVE  i = j
    BY <1>4 DEF Once
  <2>1. Len(s) - i + 1 = Len(s) - j + 1
    BY <1>2, <1>5 DEF Once
  <2> QED
    BY <1>1, <2>1
<1> QED
  BY <1>2, <1>4, <1>5, <1>6, <1>7

LEMMA OrdersFacts ==
    ASSUME NEW S \in SUBSET Modules, NEW o \in Orders(S)
    PROVE  /\ o \in Seq(Modules) /\ Once(o) /\ \A i \in 1 .. Len(o) : o[i] \in S
           /\ \A m \in S : In(m, o)
<1>1. IsFiniteSet(S) /\ Cardinality(S) \in Nat
  BY ModuleAssumption, FS_Subset, FS_CardinalityType
<1>2. /\ o \in [1 .. Cardinality(S) -> S]
      /\ \A i, j \in 1 .. Cardinality(S) : i # j => o[i] # o[j]
  BY DEF Orders, SetToSeqs
<1>3. o \in Seq(S) /\ Len(o) = Cardinality(S)
  BY <1>1, <1>2
<1>4. o \in Seq(Modules)
  BY <1>3, SeqMonotonic
<1>5. \A m \in S : In(m, o)
  <2>1. o \in Injection(1 .. Cardinality(S), S)
    BY <1>2, Fun_IsInj
  <2>2. Cardinality(1 .. Cardinality(S)) = Cardinality(S)
    BY <1>1, FS_Interval
  <2>3. o \in Surjection(1 .. Cardinality(S), S)
    BY <1>1, <2>1, <2>2, FS_Injection
  <2> QED
    BY <1>3, <2>3 DEF Surjection, In
<1> QED
  BY <1>2, <1>3, <1>4, <1>5 DEF Once

\* The set of modules skipTransitively() skips is closed, and least.
LEMMA SkipFacts ==
    ASSUME NEW S \in SUBSET Modules
    PROVE  /\ DependentsOf(S) \in SUBSET (S \cup Known)
           /\ S \subseteq DependentsOf(S)
           /\ \A k \in Known : deps[k] \cap DependentsOf(S) # {} => k \in DependentsOf(S)
           /\ \A k \in DependentsOf(S) : k \in S \/ deps[k] \cap DependentsOf(S) # {}
           /\ \A T \in SUBSET (S \cup Known) :
                 S \subseteq T /\ TakesAlong(T) => DependentsOf(S) \subseteq T
<1> DEFINE D == DependentsOf(S)
<1>1. D \subseteq S \cup Known /\ S \subseteq D
  BY DEF DependentsOf
<1>2. ASSUME NEW k \in Known, NEW d \in deps[k] \cap D
      PROVE  k \in D
  BY <1>2 DEF DependentsOf, TakesAlong
<1>3. ASSUME NEW k \in D, k \notin S, deps[k] \cap D = {}
      PROVE  FALSE
  <2> DEFINE T == D \ {k}
  <2>1. T \in SUBSET (S \cup Known) /\ S \subseteq T
    BY <1>1, <1>3
  <2>2. TakesAlong(T)
    <3> SUFFICES ASSUME NEW j \in Known, deps[j] \cap T # {}
                 PROVE  j \in T
      BY DEF TakesAlong
    <3>1. j \in D
      BY <1>2
    <3>2. j # k
      BY <1>3
    <3> QED
      BY <3>1, <3>2
  <2>3. k \in T
    BY <1>3, <2>1, <2>2 DEF DependentsOf
  <2> QED
    BY <2>3
<1>4. \A T \in SUBSET (S \cup Known) : S \subseteq T /\ TakesAlong(T) => D \subseteq T
  BY DEF DependentsOf
<1> QED
  BY <1>1, <1>2, <1>3, <1>4

\* unload() takes the module out of the recorded order and keeps the rest.
LEMMA ForgetFacts ==
    ASSUME startOrder \in Seq(Modules), Once(startOrder), NEW m \in Modules,
           \A i, j \in 1 .. Len(startOrder) : startOrder[j] \in deps[startOrder[i]] => j < i
    PROVE  /\ Forget(m) \in Seq(Modules) /\ Once(Forget(m))
           /\ \A i, j \in 1 .. Len(Forget(m)) : Forget(m)[j] \in deps[Forget(m)[i]] => j < i
           /\ \A x : x # m /\ In(x, startOrder) => In(x, Forget(m))
<1> DEFINE at == {i \in DOMAIN startOrder : startOrder[i] = m}
           n == Len(startOrder)
           new == Forget(m)
<1>0. n \in Nat /\ DOMAIN startOrder = 1 .. n /\ \A i \in 1 .. n : startOrder[i] \in Modules
  BY LenProperties, ElementOfSeq
<1>1. CASE at = {}
  <2>1. new = startOrder
    BY <1>1 DEF Forget
  <2> QED
    BY <2>1
<1>2. CASE at # {}
  <2> DEFINE k == CHOOSE i \in at : TRUE
  <2>1. k \in 1 .. n /\ startOrder[k] = m
    BY <1>0, <1>2
  <2>2. new = SubSeq(startOrder, 1, k - 1) \o SubSeq(startOrder, k + 1, n)
    BY <1>2 DEF Forget, RemoveAt
  <2> HIDE DEF k, at, new, n
  <2>3. /\ SubSeq(startOrder, 1, k - 1) \in Seq(Modules)
        /\ Len(SubSeq(startOrder, 1, k - 1)) = k - 1
        /\ \A i \in 1 .. k - 1 : SubSeq(startOrder, 1, k - 1)[i] = startOrder[i]
    <3>1. \A i \in 1 .. k - 1 : startOrder[i] \in Modules
      BY <1>0, <2>1
    <3>2. 1 \in Int /\ k - 1 \in Int /\ k - 1 - 1 + 1 = k - 1 /\ \A i \in 1 .. k - 1 : 1 + i - 1 = i
      BY <1>0, <2>1
    <3> QED
      BY <1>0, <2>1, <3>1, <3>2, SubSeqProperties
  <2>4. /\ SubSeq(startOrder, k + 1, n) \in Seq(Modules)
        /\ Len(SubSeq(startOrder, k + 1, n)) = n - k
        /\ \A i \in 1 .. n - k : SubSeq(startOrder, k + 1, n)[i] = startOrder[k + i]
    <3>1. \A i \in k + 1 .. n : startOrder[i] \in Modules
      BY <1>0, <2>1
    <3>2. /\ k + 1 \in Int /\ n \in Int /\ n - (k + 1) + 1 = n - k
          /\ \A i \in 1 .. n - k : (k + 1) + i - 1 = k + i
      BY <1>0, <2>1
    <3> QED
      BY <1>0, <2>1, <3>1, <3>2, SubSeqProperties
  <2>5. /\ new \in Seq(Modules) /\ Len(new) = n - 1
        /\ \A i \in 1 .. n - 1 : new[i] = IF i < k THEN startOrder[i] ELSE startOrder[i + 1]
    <3>1. /\ new \in Seq(Modules) /\ Len(new) = (k - 1) + (n - k)
          /\ \A i \in 1 .. (k - 1) + (n - k) :
                new[i] = IF i <= k - 1 THEN SubSeq(startOrder, 1, k - 1)[i]
                         ELSE SubSeq(startOrder, k + 1, n)[i - (k - 1)]
      <4> DEFINE a == SubSeq(startOrder, 1, k - 1)
                 b == SubSeq(startOrder, k + 1, n)
      <4>1. a \in Seq(Modules) /\ b \in Seq(Modules) /\ Len(a) = k - 1 /\ Len(b) = n - k
        BY <2>3, <2>4
      <4>2. new = a \o b
        BY <2>2
      <4> HIDE DEF a, b
      <4>3. /\ a \o b \in Seq(Modules) /\ Len(a \o b) = Len(a) + Len(b)
            /\ \A i \in 1 .. Len(a) + Len(b) :
                  (a \o b)[i] = IF i <= Len(a) THEN a[i] ELSE b[i - Len(a)]
        BY <4>1, ConcatProperties
      <4>4. /\ new \in Seq(Modules) /\ Len(new) = (k - 1) + (n - k)
            /\ \A i \in 1 .. (k - 1) + (n - k) :
                  new[i] = IF i <= k - 1 THEN a[i] ELSE b[i - (k - 1)]
        <5>1. Len(a) + Len(b) = (k - 1) + (n - k)
          BY <4>1
        <5> QED
          BY <4>1, <4>2, <4>3, <5>1
      <4> QED
        BY <4>4 DEF a, b
    <3>2. (k - 1) + (n - k) = n - 1
      BY <1>0, <2>1
    <3>3. ASSUME NEW i \in 1 .. n - 1
          PROVE  new[i] = IF i < k THEN startOrder[i] ELSE startOrder[i + 1]
      <4>1. CASE i < k
        <5>1. i \in 1 .. k - 1
          BY <1>0, <2>1, <4>1
        <5> QED
          BY <1>0, <2>1, <2>3, <3>1, <3>2, <4>1, <5>1
      <4>2. CASE ~(i < k)
        <5>1. i - (k - 1) \in 1 .. n - k /\ k + (i - (k - 1)) = i + 1 /\ ~(i <= k - 1)
          BY <1>0, <2>1, <4>2
        <5>2. SubSeq(startOrder, k + 1, n)[i - (k - 1)] = startOrder[k + (i - (k - 1))]
          BY <2>4, <5>1
        <5> QED
          BY <3>1, <3>2, <4>2, <5>1, <5>2
      <4> QED
        BY <4>1, <4>2
    <3> QED
      BY <3>1, <3>2, <3>3
  <2> DEFINE from(i) == IF i < k THEN i ELSE i + 1
  <2>6. \A i \in 1 .. n - 1 : from(i) \in 1 .. n /\ new[i] = startOrder[from(i)]
    BY <1>0, <2>1, <2>5
  <2>7. \A i, j \in 1 .. n - 1 : (from(i) = from(j) => i = j) /\ (from(j) < from(i) => j < i)
    BY <1>0, <2>1
  <2>8. \A i \in 1 .. n : i # k => \E j \in 1 .. n - 1 : from(j) = i
    <3> TAKE i \in 1 .. n
    <3> HAVE i # k
    <3>1. CASE i < k
      <4>1. i \in 1 .. n - 1 /\ from(i) = i
        BY <1>0, <2>1, <3>1
      <4> QED
        BY <4>1
    <3>2. CASE ~(i < k)
      <4>1. i - 1 \in 1 .. n - 1 /\ from(i - 1) = i
        BY <1>0, <2>1, <3>2
      <4> QED
        BY <4>1
    <3> QED
      BY <3>1, <3>2
  <2> HIDE DEF from
  <2>9. Once(new)
    BY <2>5, <2>6, <2>7 DEF Once, n
  <2>10. \A i, j \in 1 .. Len(new) : new[j] \in deps[new[i]] => j < i
    BY <2>5, <2>6, <2>7 DEF n
  <2>11. \A x : x # m /\ In(x, startOrder) => In(x, new)
    <3> SUFFICES ASSUME NEW i \in 1 .. n, startOrder[i] # m
                 PROVE  In(startOrder[i], new)
      BY DEF In, n
    <3>1. PICK j \in 1 .. n - 1 : from(j) = i
      BY <2>1, <2>8
    <3> QED
      BY <2>5, <2>6, <3>1 DEF In
  <2> QED
    BY <2>5, <2>9, <2>10, <2>11 DEF new
<1> QED
  BY <1>1, <1>2

\* The passes of the calls, and which follows which.
LEMMA PassFacts ==
    /\ Passes["startAll"][1] = "init" /\ Passes["stopAll"][1] = "stop"
    /\ Passes["unload"][1] = "stop" /\ Passes["reload"][1] = "stop"
    /\ NextPass /\ TypeOK =>
          \/ call = "startAll" /\ pass = "init" /\ StartPass("start", order)
          \/ call = "stopAll" /\ pass = "stop" /\ StartPass("shutdown", order)
          \/ call = "unload" /\ pass = "stop" /\ StartPass("shutdown", order)
          \/ call = "unload" /\ pass = "shutdown" /\ StartPass("erase", order)
          \/ call = "reload" /\ pass = "stop" /\ StartPass("shutdown", order)
          \/ call = "reload" /\ pass = "shutdown" /\ StartPass("init", order)
          \/ call = "reload" /\ pass = "init" /\ StartPass("start", order)
    /\ Return /\ TypeOK =>
          \/ call = "startAll" /\ pass = "start"
          \/ call = "stopAll" /\ pass = "shutdown"
          \/ call = "unload" /\ pass = "erase"
          \/ call = "reload" /\ pass = "start"
<1>1. /\ Passes["startAll"] = <<"init", "start">>
      /\ Passes["stopAll"] = <<"stop", "shutdown">>
      /\ Passes["unload"] = <<"stop", "shutdown", "erase">>
      /\ Passes["reload"] = <<"stop", "shutdown", "init", "start">>
  BY DEF Passes
<1>2. ASSUME NextPass, TypeOK
      PROVE  \/ call = "startAll" /\ pass = "init" /\ StartPass("start", order)
             \/ call = "stopAll" /\ pass = "stop" /\ StartPass("shutdown", order)
             \/ call = "unload" /\ pass = "stop" /\ StartPass("shutdown", order)
             \/ call = "unload" /\ pass = "shutdown" /\ StartPass("erase", order)
             \/ call = "reload" /\ pass = "stop" /\ StartPass("shutdown", order)
             \/ call = "reload" /\ pass = "shutdown" /\ StartPass("init", order)
             \/ call = "reload" /\ pass = "init" /\ StartPass("start", order)
  <2>1. PICK i \in 1 .. (Len(Passes[call]) - 1) :
           pass = Passes[call][i] /\ StartPass(Passes[call][i + 1], order)
    BY <1>2 DEF NextPass
  <2>2. call \in {"startAll", "stopAll", "unload", "reload"}
    BY <1>2 DEF NextPass, TypeOK
  <2>3. CASE call = "startAll"
    <3>1. Len(Passes[call]) = 2
      BY <1>1, <2>3
    <3>2. i = 1
      BY <2>1, <3>1
    <3> QED
      BY <1>1, <2>1, <2>3, <3>2
  <2>4. CASE call = "stopAll"
    <3>1. Len(Passes[call]) = 2
      BY <1>1, <2>4
    <3>2. i = 1
      BY <2>1, <3>1
    <3> QED
      BY <1>1, <2>1, <2>4, <3>2
  <2>5. CASE call = "unload"
    <3>0. Len(Passes[call]) = 3
      BY <1>1, <2>5
    <3>1. i = 1 \/ i = 2
      BY <2>1, <3>0
    <3>2. CASE i = 1
      BY <1>1, <2>1, <2>5, <3>2
    <3>3. CASE i = 2
      BY <1>1, <2>1, <2>5, <3>3
    <3> QED
      BY <3>1, <3>2, <3>3
  <2>6. CASE call = "reload"
    <3>0. Len(Passes[call]) = 4
      BY <1>1, <2>6
    <3>1. i = 1 \/ i = 2 \/ i = 3
      BY <2>1, <3>0
    <3>2. CASE i = 1
      BY <1>1, <2>1, <2>6, <3>2
    <3>3. CASE i = 2
      BY <1>1, <2>1, <2>6, <3>3
    <3>4. CASE i = 3
      BY <1>1, <2>1, <2>6, <3>4
    <3> QED
      BY <3>1, <3>2, <3>3, <3>4
  <2> QED
    BY <2>2, <2>3, <2>4, <2>5, <2>6
<1>3. /\ Last(<<"init", "start">>) = "start"
      /\ Last(<<"stop", "shutdown">>) = "shutdown"
      /\ Last(<<"stop", "shutdown", "erase">>) = "erase"
      /\ Last(<<"stop", "shutdown", "init", "start">>) = "start"
  BY DEF Last
<1>4. ASSUME Return, TypeOK
      PROVE  \/ call = "startAll" /\ pass = "start"
             \/ call = "stopAll" /\ pass = "shutdown"
             \/ call = "unload" /\ pass = "erase"
             \/ call = "reload" /\ pass = "start"
  <2>1. call \in {"startAll", "stopAll", "unload", "reload"} /\ pass = Last(Passes[call])
    BY <1>4 DEF Return, TypeOK
  <2> QED
    BY <1>1, <1>3, <2>1
<1> QED
  BY <1>1, <1>2, <1>4

-----------------------------------------------------------------------------
(* The bookkeeping between the callbacks.                                  *)

LEMMA OwedFacts ==
    ASSUME Inv, NEW m \in Modules
    PROVE  /\ owed[m] > lost[m] <=> Owes(m)
           /\ Owes(m) <=> state[m] \in {"Initialized", "Started", "Stopped"}
           /\ m \in Known <=> state[m] # "absent"
           /\ owed[m] = lost[m] + (IF Owes(m) THEN 1 ELSE 0)
BY DEF Inv, TypeOK, MustShutDown, Owes, Between, Known

LEMMA InitStep == Init => IInv
<1> SUFFICES ASSUME Init PROVE IInv
  OBVIOUS
<1>1. Inv
  BY ModuleAssumption, EmptyFacts DEF Init, Inv, TypeOK, MustShutDown
<1>2. OrderInv /\ TodoInv
  BY EmptyFacts DEF Init, OrderInv, TodoInv, Owes, Between, Sound
<1>3. DependenciesStarted /\ DependenciesOutlive /\ StartInv /\ StopInv /\ OneInv
  BY DEF Init, DependenciesStarted, DependenciesOutlive, StartInv, StopInv, OneInv
<1> QED
  BY <1>1, <1>2, <1>3 DEF IInv

LEMMA RegisterStep ==
    ASSUME IInv, NEW m \in Modules, Register(m)
    PROVE  IInv'
<1>1. /\ deps' = deps /\ startOrder' = startOrder /\ call' = call /\ pass' = pass
      /\ order' = order /\ todo' = todo /\ skipped' = skipped /\ threw' = threw /\ owed' = owed
      /\ lost' = lost /\ loose' = loose /\ early' = early
      /\ state[m] = "absent" /\ state' = [state EXCEPT ![m] = "Registered"]
  BY DEF Register, lvars, ups
<1>2. Inv /\ TypeOK /\ state \in [Modules -> {"absent", "Registered", "Initialized",
                                        "Started", "Stopped", "ShutDown"}]
  BY DEF IInv, Inv, TypeOK
<1>3. \A n \in Modules : state'[n] = IF n = m THEN "Registered" ELSE state[n]
  BY <1>1, <1>2
<1>4. /\ \A n \in Modules : Owes(n)' <=> Owes(n)
      /\ \A n \in Modules : n \in Known => n \in Known'
      /\ m \notin Known
  BY <1>1, <1>3 DEF Owes, Between, Known
<1>5. Inv'
  BY <1>1, <1>2, <1>3 DEF Inv, TypeOK, MustShutDown
<1>6. DependenciesStarted' /\ DependenciesOutlive'
  <2>1. deps \in [Modules -> SUBSET Modules]
    BY <1>2, ModuleAssumption DEF TypeOK
  <2> QED
    BY <1>1, <1>3, <2>1 DEF IInv, DependenciesStarted, DependenciesOutlive
<1>7. OrderInv'
  BY <1>1, <1>4 DEF IInv, OrderInv, Sound
<1>8. TodoInv'
  BY <1>1, <1>3 DEF IInv, TodoInv
<1>9. StartInv'
  <2> SUFFICES ASSUME call = "startAll"
               PROVE  StartInv'
    BY <1>1 DEF StartInv
  <2>1. ~In(m, order) /\ ~In(m, todo)
    BY <1>4 DEF IInv, StartInv, TodoInv
  <2>2. \A n \in Modules : Done(n)' <=> Done(n)
    BY <1>1 DEF Done
  <2>3. \A n \in Modules : Done(n) => n # m
    BY <2>1 DEF Done
  <2> QED
    BY <1>1, <1>2, <1>3, <1>4, <2>1, <2>2, <2>3 DEF IInv, StartInv, TypeOK
<1>10. StopInv'
  <2>1. \A i \in 1 .. Len(todo) : todo[i] \in Modules
    BY <1>2, SeqFacts DEF TypeOK
  <2> QED
    BY <1>1, <1>3, <1>4, <2>1 DEF IInv, StopInv, Sound
<1>11. OneInv'
  <2> SUFFICES ASSUME call \in {"unload", "reload"}
               PROVE  OneInv'
    BY <1>1 DEF OneInv
  <2>1. PICK k \in Known : OnlyOne(k)
    BY DEF IInv, OneInv
  <2>2. k \in Modules /\ k # m /\ k \in Known'
    BY <1>4, <2>1 DEF Known
  <2>3. deps[k] \subseteq Modules
    BY <1>2, <2>2, ModuleAssumption DEF TypeOK
  <2>4. \A p, b, a : Turns(p, b, a, k)' <=> Turns(p, b, a, k)
    BY <1>1, <1>3, <2>2 DEF Turns
  <2>5. Unloading(k) => Unloading(k)'
    BY <1>1, <2>4 DEF Unloading
  <2>6. Reloading(k) => Reloading(k)'
    BY <1>1, <1>3, <2>3, <2>4 DEF Reloading, Ready
  <2>7. OnlyOne(k)'
    BY <1>1, <1>3, <1>4, <2>1, <2>5, <2>6 DEF OnlyOne
  <2> QED
    BY <2>2, <2>7 DEF OneInv
<1> QED
  BY <1>5, <1>6, <1>7, <1>8, <1>9, <1>10, <1>11 DEF IInv

\* What a step that changes neither state nor deps nor the books leaves alone.
LEMMA StillFacts ==
    ASSUME IInv, UNCHANGED <<deps, state, owed, ups>>
    PROVE  /\ DependenciesStarted'
           /\ skipped \subseteq skipped' => DependenciesOutlive'
           /\ startOrder' = startOrder => OrderInv'
           /\ \A m \in Modules : Owes(m)' <=> Owes(m)
           /\ Known' = Known
<1>1. DependenciesStarted'
  BY DEF IInv, DependenciesStarted, ups
<1>2. skipped \subseteq skipped' => DependenciesOutlive'
  BY DEF IInv, DependenciesOutlive, ups
<1>3. /\ \A m \in Modules : Owes(m)' <=> Owes(m)
      /\ Known' = Known
  BY DEF Owes, Known
<1>4. startOrder' = startOrder => OrderInv'
  BY <1>3 DEF IInv, OrderInv, Sound, ups
<1> QED
  BY <1>1, <1>2, <1>3, <1>4

LEMMA StartAllStep ==
    ASSUME IInv, StartAll
    PROVE  IInv'
<1>1. PICK o \in Resolved(Known) : startOrder' = o /\ Begin("startAll", o)
  BY DEF StartAll
<1>2. /\ call' = "startAll" /\ order' = o /\ pass' = "init" /\ todo' = o /\ startOrder' = o
      /\ skipped' = {} /\ threw' = {} /\ UNCHANGED <<deps, state, owed>>
      /\ lost' = lost /\ loose' = loose /\ early' = early
      /\ \A m \in Modules : state[m] \in {"absent", "Registered", "ShutDown"}
  BY <1>1, PassFacts DEF StartAll, Begin, StartPass, Along, ups
<1>3. /\ o \in Seq(Modules) /\ Once(o) /\ \A i \in 1 .. Len(o) : o[i] \in Known
      /\ \A i \in 1 .. Len(o) : deps[o[i]] \subseteq {o[j] : j \in 1 .. (i - 1)}
  <2>1. o \in Orders(Known) /\ Known \in SUBSET Modules
    BY <1>1 DEF Resolved, Known
  <2>2. o \in Seq(Modules) /\ Once(o) /\ \A i \in 1 .. Len(o) : o[i] \in Known
    BY <2>1, OrdersFacts
  <2> QED
    BY <1>1, <2>2 DEF Resolved
<1>4. /\ Inv /\ TypeOK /\ \A m \in Modules : ~Owes(m) /\ state[m] \notin {"Started", "Stopped"}
      /\ \A m \in Modules : ~(owed[m] > lost[m])
  BY <1>2, OwedFacts DEF IInv, Inv, Owes, Between
<1>0. loose = {} /\ early = {}
  BY <1>4 DEF IInv, OrderInv, Sound, TypeOK
<1>5. \A i, j \in 1 .. Len(o) : o[j] \in deps[o[i]] => j < i
  <2> SUFFICES ASSUME NEW i \in 1 .. Len(o), NEW j \in 1 .. Len(o), o[j] \in deps[o[i]]
               PROVE  j < i
    OBVIOUS
  <2>1. Len(o) \in Nat
    BY <1>3, SeqFacts
  <2>2. PICK k \in 1 .. (i - 1) : o[k] = o[j]
    BY <1>3
  <2>3. k \in 1 .. Len(o)
    BY <2>1
  <2>4. k = j
    BY <1>3, <2>2, <2>3 DEF Once
  <2> QED
    BY <2>4
<1>6. \A m \in Modules : In(m, o) => m \in Known /\ \A d \in deps[m] : In(d, o)
  <2> SUFFICES ASSUME NEW i \in 1 .. Len(o)
               PROVE  o[i] \in Known /\ \A d \in deps[o[i]] : In(d, o)
    BY DEF In
  <2>1. Len(o) \in Nat
    BY <1>3, SeqFacts
  <2>2. 1 .. (i - 1) \subseteq 1 .. Len(o)
    BY <2>1
  <2> QED
    BY <1>3, <2>2 DEF In
<1>7. Inv'
  BY <1>2, <1>3, <1>4 DEF Inv, TypeOK, MustShutDown
<1>8. DependenciesStarted' /\ DependenciesOutlive'
  BY <1>2, <1>4 DEF DependenciesStarted, DependenciesOutlive
<1>9. OrderInv' /\ TodoInv'
  <2>1. \A m \in Modules : Owes(m)' <=> Owes(m)
    BY <1>2 DEF Owes
  <2> QED
    BY <1>0, <1>2, <1>3, <1>4, <1>5, <2>1 DEF OrderInv, TodoInv, Sound
<1>10. StartInv'
  <2>1. /\ \A m \in Modules : Owes(m)' <=> Owes(m)
        /\ Known' = Known
        /\ \A m : ~Done(m)'
    BY <1>2 DEF Owes, Known, Done
  <2> QED
    BY <1>0, <1>2, <1>4, <1>5, <1>6, <2>1 DEF StartInv
<1>11. StopInv' /\ OneInv'
  BY <1>2 DEF StopInv, OneInv
<1> QED
  BY <1>7, <1>8, <1>9, <1>10, <1>11 DEF IInv

\* A pass backwards through the recorded order: dependents have their turn
\* first.
LEMMA BackwardsFacts ==
    ASSUME OrderInv, startOrder \in Seq(Modules)
    PROVE  \A i, j \in 1 .. Len(Reverse(startOrder)) :
              Reverse(startOrder)[j] \in deps[Reverse(startOrder)[i]] => i < j
<1> DEFINE n == Len(startOrder)
           r == Reverse(startOrder)
<1>1. n \in Nat /\ Len(r) = n
  BY SeqFacts, ReverseFacts
<1>2. \A i \in 1 .. n : n - i + 1 \in 1 .. n /\ r[i] = startOrder[n - i + 1]
  BY ReverseFacts
<1> HIDE DEF r
<1>3. ASSUME NEW i \in 1 .. n, NEW j \in 1 .. n, r[j] \in deps[r[i]]
      PROVE  i < j
  <2>1. n - j + 1 < n - i + 1
    BY <1>2, <1>3 DEF OrderInv
  <2> QED
    BY <1>1, <2>1
<1> QED
  BY <1>1, <1>3 DEF r

LEMMA StopAllStep ==
    ASSUME IInv, StopAll
    PROVE  IInv'
<1>1. PICK o \in StopOrders : Begin("stopAll", o)
  BY DEF StopAll
<1>2. /\ call = "none" /\ call' = "stopAll" /\ order' = o /\ pass' = "stop"
      /\ todo' = Reverse(o) /\ startOrder' = startOrder
      /\ skipped' = skipped /\ threw' = threw /\ UNCHANGED <<deps, state, owed, ups>>
      /\ lost' = lost /\ loose' = loose /\ early' = early
  BY <1>1, PassFacts DEF StopAll, Begin, StartPass, Along, ups
<1>3. Inv /\ TypeOK /\ startOrder \in Seq(Modules) /\ OrderInv /\ TodoInv
  BY DEF IInv, Inv, TypeOK
<1>4. /\ o \in Seq(Modules) /\ Once(o) /\ (startOrder # <<>> => o = startOrder)
      /\ startOrder = <<>> => \A m \in Known : In(m, o)
  <2>1. CASE startOrder = <<>>
    <3>1. o \in Orders(Known) /\ Known \in SUBSET Modules
      BY <1>1, <2>1 DEF StopOrders, Known
    <3> QED
      BY <2>1, <3>1, OrdersFacts
  <2>2. CASE startOrder # <<>>
    <3>1. o = startOrder
      BY <1>1, <2>2 DEF StopOrders
    <3> QED
      BY <1>3, <2>2, <3>1 DEF OrderInv
  <2> QED
    BY <2>1, <2>2
<1>5. /\ Reverse(o) \in Seq(Modules) /\ Once(Reverse(o))
      /\ \A x : In(x, Reverse(o)) <=> In(x, o)
  BY <1>4, ReverseFacts
<1>6. /\ \A m \in Modules : Owes(m) /\ Sound(m) => startOrder # <<>> /\ o = startOrder /\ In(m, o)
      /\ startOrder = <<>> => \A m \in Modules : Owes(m) => In(m, o)
      /\ \A m \in Modules : state[m] # "Stopped"
  <2>1. \A m \in Modules : Owes(m) => m \in Known
    BY DEF Owes, Between, Known
  <2>2. \A m \in Modules : state[m] # "Stopped"
    BY <1>2, <1>3 DEF TodoInv
  <2>3. \A m \in Modules : Owes(m) /\ Sound(m) => In(m, startOrder)
    BY <1>3 DEF OrderInv, Sound
  <2> QED
    BY <1>4, <2>1, <2>2, <2>3, EmptyFacts
<1>7. Inv'
  BY <1>2, <1>3, <1>4, <1>5 DEF Inv, TypeOK, MustShutDown
<1>8. /\ DependenciesStarted' /\ DependenciesOutlive' /\ OrderInv'
      /\ \A m \in Modules : Owes(m)' <=> Owes(m)
  BY <1>2, StillFacts
<1>9. TodoInv'
  BY <1>2, <1>4, <1>5 DEF TodoInv
<1>10. StartInv' /\ OneInv'
  BY <1>2 DEF StartInv, OneInv
<1>11. StopInv'
  <2>1. ASSUME NEW i \in 1 .. Len(Reverse(o)), NEW j \in 1 .. Len(Reverse(o)),
               Owes(Reverse(o)[i]), Sound(Reverse(o)[i]),
               Reverse(o)[j] \in deps[Reverse(o)[i]]
        PROVE  i < j
    <3>1. Reverse(o)[i] \in Modules
      BY <1>5, SeqFacts
    <3>2. o = startOrder
      BY <1>6, <2>1, <3>1
    <3> QED
      BY <1>3, <2>1, <3>2, BackwardsFacts
  <2>2. \A i \in 1 .. Len(Reverse(o)) : Owes(Reverse(o)[i])' <=> Owes(Reverse(o)[i])
    BY <1>5, <1>8, SeqFacts
  <2>3. \A m \in Modules : state[m] = "Started" /\ In(m, o) => In(m, Reverse(o))
    BY <1>5
  <2>4. /\ startOrder' # <<>> => order' = startOrder'
        /\ startOrder' = <<>> => \A m \in Modules : Owes(m)' => In(m, order')
        /\ \A m \in Modules : state'[m] = "Stopped" => In(m, order')
    BY <1>2, <1>4, <1>6, <1>8
  <2>5. /\ \A i, j \in 1 .. Len(todo') :
              Owes(todo[i])' /\ Sound(todo[i])' /\ todo'[j] \in deps'[todo'[i]] => i < j
        /\ \A m \in Modules : state'[m] = "Started" /\ In(m, order') => In(m, todo')
    BY <1>2, <2>1, <2>2, <2>3 DEF Owes, Sound
  <2> QED
    BY <1>2, <2>4, <2>5 DEF StopInv
<1> QED
  BY <1>7, <1>8, <1>9, <1>10, <1>11 DEF IInv

LEMMA AlongOne ==
    ASSUME NEW m \in Modules, NEW p
    PROVE  Along(p, <<m>>) = <<m>>
<1>1. /\ Reverse(<<m>>) \in Seq(Modules) /\ Len(Reverse(<<m>>)) = 1
      /\ Reverse(<<m>>)[1] = m
  <2>1. <<m>> \in Seq(Modules) /\ Len(<<m>>) = 1 /\ <<m>>[1] = m
    BY SingleFacts
  <2>2. Len(<<m>>) - 1 + 1 = 1 /\ 1 \in 1 .. Len(<<m>>)
    BY <2>1
  <2> QED
    BY <2>1, <2>2, ReverseFacts
<1>2. Reverse(<<m>>) = <<m>>
  BY <1>1
<1> QED
  BY <1>2 DEF Along

\* The steps between the callbacks of unload() and reload().
LEMMA OneBegins ==
    ASSUME IInv, NEW m \in Modules, Unload(m) \/ Reload(m)
    PROVE  IInv'
<1>1. /\ call = "none" /\ m \in Known /\ NoDependents(m)
      /\ call' \in {"unload", "reload"} /\ order' = <<m>> /\ pass' = "stop" /\ todo' = <<m>>
      /\ startOrder' = startOrder /\ skipped' = skipped /\ threw' = threw
      /\ UNCHANGED <<deps, state, owed, ups>>
      /\ lost' = lost /\ loose' = loose /\ early' = early
  <2>1. Along("stop", <<m>>) = <<m>>
    BY AlongOne
  <2>2. CASE Unload(m)
    BY <2>1, <2>2, PassFacts DEF Unload, Begin, StartPass, ups
  <2>3. CASE Reload(m)
    BY <2>1, <2>3, PassFacts DEF Reload, Begin, StartPass, ups
  <2> QED
    BY <2>2, <2>3
<1>2. Inv /\ TypeOK /\ OrderInv /\ TodoInv
  BY DEF IInv, Inv
<1>3. Inv'
  BY <1>1, <1>2, SingleFacts DEF Inv, TypeOK, MustShutDown
<1>4. /\ DependenciesStarted' /\ DependenciesOutlive' /\ OrderInv'
      /\ \A n \in Modules : Owes(n)' <=> Owes(n)
      /\ Known' = Known
  BY <1>1, StillFacts
<1>5. TodoInv'
  BY <1>1, SingleFacts DEF TodoInv
<1>6. StartInv' /\ StopInv'
  BY <1>1 DEF StartInv, StopInv
<1>7. /\ \A n \in Modules \ {m} : state[n] # "Stopped" /\ (Owes(n) => m \notin deps[n])
      /\ state[m] # "Stopped"
  BY <1>1, <1>2 DEF TodoInv, NoDependents, Up, Owes, Between
<1>8. state[m] \in Down \cup {"Started"}
  BY <1>1, <1>2, <1>7 DEF TypeOK, Known, Down
<1>9. Unloading(m)' /\ Reloading(m)'
  BY <1>1, <1>8, SingleFacts DEF Unloading, Reloading, Turns
<1>10. OnlyOne(m)'
  BY <1>1, <1>4, <1>7, <1>9 DEF OnlyOne
<1>11. OneInv'
  BY <1>1, <1>4, <1>10 DEF OneInv
<1> QED
  BY <1>3, <1>4, <1>5, <1>6, <1>11 DEF IInv

LEMMA NextPassStep ==
    ASSUME IInv, NextPass
    PROVE  IInv'
<1>1. /\ call # "none" /\ todo = <<>> /\ call' = call /\ order' = order
      /\ startOrder' = startOrder /\ skipped' = skipped /\ threw' = threw
      /\ UNCHANGED <<deps, state, owed, ups>>
      /\ lost' = lost /\ loose' = loose /\ early' = early
  BY DEF NextPass, ups
<1>2. Inv /\ TypeOK /\ OrderInv /\ TodoInv
  BY DEF IInv, Inv
<1>3. order \in Seq(Modules) /\ startOrder \in Seq(Modules) /\ Once(order)
  BY <1>2 DEF TypeOK, TodoInv
<1>4. /\ DependenciesStarted' /\ DependenciesOutlive' /\ OrderInv'
      /\ \A n \in Modules : Owes(n)' <=> Owes(n)
      /\ Known' = Known
  BY <1>1, StillFacts
<1>5. PICK p \in {"start", "shutdown", "erase", "init"} : StartPass(p, order)
  BY <1>2, PassFacts
<1>6. pass' = p /\ todo' = Along(p, order)
  BY <1>5 DEF StartPass
<1>7. todo' \in Seq(Modules) /\ Once(todo') /\ \A x : In(x, todo') <=> In(x, order)
  BY <1>3, <1>6, ReverseFacts DEF Along
<1>8. Inv'
  BY <1>1, <1>2, <1>6, <1>7 DEF Inv, TypeOK, MustShutDown
<1>9. TodoInv'
  BY <1>1, <1>3, <1>7 DEF TodoInv
<1>10. StartInv'
  <2> SUFFICES ASSUME call = "startAll"
               PROVE  StartInv'
    BY <1>1 DEF StartInv
  <2>1. StartPass("start", order) /\ pass = "init"
    BY <1>2, PassFacts
  <2>2. pass' = "start" /\ todo' = order
    BY <2>1 DEF StartPass, Along
  <2>3. \A m : Done(m) <=> In(m, order)
    BY <1>1, EmptyFacts DEF Done
  <2>4. \A m : ~Done(m)'
    BY <1>1, <2>2 DEF Done
  <2>5. \A m \in Modules : In(m, order) => m \in skipped \/ state[m] = "Initialized"
    BY <2>1, <2>3 DEF IInv, StartInv
  <2>6. \A i, j \in 1 .. Len(order) : order[j] \in deps[order[i]] => j < i
    BY <1>2 DEF IInv, StartInv, OrderInv
  <2> QED
    BY <1>1, <1>4, <2>2, <2>4, <2>5, <2>6 DEF IInv, StartInv
<1>11. StopInv'
  <2> SUFFICES ASSUME call = "stopAll"
               PROVE  StopInv'
    BY <1>1 DEF StopInv
  <2>1. StartPass("shutdown", order) /\ pass = "stop"
    BY <1>2, PassFacts
  <2>2. pass' = "shutdown" /\ todo' = Reverse(order)
    BY <2>1 DEF StartPass, Along
  <2>3. \A m \in Modules :
           Owes(m) /\ Sound(m) => startOrder # <<>> /\ order = startOrder /\ In(m, order)
    BY <1>2, EmptyFacts DEF OrderInv, IInv, StopInv, Sound
  <2>4. ASSUME NEW i \in 1 .. Len(Reverse(order)), NEW j \in 1 .. Len(Reverse(order)),
               Owes(Reverse(order)[i]), Sound(Reverse(order)[i]),
               Reverse(order)[j] \in deps[Reverse(order)[i]]
        PROVE  i < j
    <3>1. Reverse(order)[i] \in Modules
      BY <1>7, <2>2, SeqFacts
    <3>2. order = startOrder
      BY <2>3, <2>4, <3>1
    <3> QED
      BY <1>2, <1>3, <2>4, <3>2, BackwardsFacts
  <2>6. \A m \in Modules : In(m, order) => state[m] # "Started"
    BY <1>1, <2>1, EmptyFacts DEF IInv, StopInv
  <2>7. \A i, j \in 1 .. Len(todo') :
              Owes(todo[i])' /\ Sound(todo[i])' /\ todo'[j] \in deps'[todo'[i]] => i < j
    BY <1>1, <2>2, <2>4 DEF Owes, Sound
  <2>8. /\ startOrder' # <<>> => order' = startOrder'
        /\ startOrder' = <<>> => \A m \in Modules : Owes(m)' => In(m, order')
        /\ \A m \in Modules : state'[m] = "Stopped" => In(m, order')
    BY <1>1, <1>4 DEF IInv, StopInv
  <2>9. \A m \in Modules :
           In(m, order') => state'[m] # "Started" /\ (Owes(m)' => In(m, todo'))
    BY <1>1, <1>4, <1>7, <2>6
  <2> QED
    BY <1>1, <2>2, <2>7, <2>8, <2>9 DEF StopInv
<1>12. OneInv'
  <2> SUFFICES ASSUME call \in {"unload", "reload"}
               PROVE  OneInv'
    BY <1>1 DEF OneInv
  <2>1. PICK m \in Known : OnlyOne(m)
    BY DEF IInv, OneInv
  <2>2. m \in Modules /\ order = <<m>> /\ <<m>> # <<>>
    BY <2>1, SingleFacts DEF OnlyOne, Known
  <2>3. todo' = <<m>>
    BY <1>6, <2>2, AlongOne
  <2>4. ASSUME call = "unload"
        PROVE  Unloading(m)'
    <3>0. \/ pass = "stop" /\ StartPass("shutdown", order)
          \/ pass = "shutdown" /\ StartPass("erase", order)
      BY <1>2, <2>4, PassFacts
    <3>1. Unloading(m)
      BY <2>1, <2>4 DEF OnlyOne
    <3>2. \/ pass = "stop" /\ p = "shutdown"
          \/ pass = "shutdown" /\ p = "erase"
      BY <1>6, <3>0 DEF StartPass
    <3> QED
      BY <1>1, <1>6, <2>2, <2>3, <3>1, <3>2 DEF Unloading, Turns
  <2>5. ASSUME call = "reload"
        PROVE  Reloading(m)'
    <3>0. \/ pass = "stop" /\ StartPass("shutdown", order)
          \/ pass = "shutdown" /\ StartPass("init", order)
          \/ pass = "init" /\ StartPass("start", order)
      BY <1>2, <2>5, PassFacts
    <3>1. Reloading(m)
      BY <2>1, <2>5 DEF OnlyOne
    <3>2. \/ pass = "stop" /\ p = "shutdown"
          \/ pass = "shutdown" /\ p = "init"
          \/ pass = "init" /\ p = "start"
      BY <1>6, <3>0 DEF StartPass
    <3> QED
      BY <1>1, <1>6, <2>2, <2>3, <3>1, <3>2 DEF Reloading, Turns, Ready
  <2>6. OnlyOne(m)'
    BY <1>1, <1>4, <2>1, <2>2, <2>3, <2>4, <2>5 DEF OnlyOne
  <2> QED
    BY <1>4, <2>1, <2>6 DEF OneInv
<1> QED
  BY <1>4, <1>8, <1>9, <1>10, <1>11, <1>12 DEF IInv

\* The call returns, or a callback throws and the call with it.
LEMMA LeaveFacts ==
    ASSUME IInv, Leave, UNCHANGED <<deps, state, skipped, threw, owed, ups>>,
           startOrder' # startOrder =>
               (startOrder' = <<>> /\ \A m \in Modules : Owes(m) => m \in loose),
           \A m \in Modules : state[m] # "Stopped"
    PROVE  IInv'
<1>1. Inv /\ TypeOK
  BY DEF IInv, Inv
<1>2. /\ call' = "none" /\ order' = <<>> /\ pass' = "init" /\ todo' = <<>>
      /\ startOrder' \in Seq(Modules)
  BY <1>1, EmptyFacts DEF Leave, TypeOK
<1>3. Inv'
  BY <1>1, <1>2, EmptyFacts DEF Inv, TypeOK, MustShutDown, ups
<1>4. /\ DependenciesStarted' /\ DependenciesOutlive'
      /\ startOrder' = startOrder => OrderInv'
      /\ \A n \in Modules : Owes(n)' <=> Owes(n)
  BY StillFacts
<1>5. OrderInv'
  <2>1. loose' = loose /\ early' = early
    BY DEF ups
  <2>2. \A n \in Modules : ~Owes(n) => Sound(n)
    BY DEF IInv, OrderInv
  <2> QED
    BY <1>4, <2>1, <2>2, EmptyFacts DEF OrderInv, Sound
<1>6. TodoInv'
  BY <1>2, EmptyFacts DEF TodoInv
<1>7. StartInv' /\ StopInv' /\ OneInv'
  BY <1>2 DEF StartInv, StopInv, OneInv
<1> QED
  BY <1>3, <1>4, <1>5, <1>6, <1>7 DEF IInv

LEMMA ReturnStep ==
    ASSUME IInv, Return
    PROVE  IInv'
<1>1. /\ call # "none" /\ todo = <<>> /\ Leave /\ UNCHANGED <<deps, state, skipped, threw, owed, ups>>
      /\ startOrder' = IF call = "stopAll" THEN <<>> ELSE startOrder
  BY DEF Return
<1>2. Inv /\ TypeOK
  BY DEF IInv, Inv
<1>3. CASE call = "startAll"
  <2>1. \A m \in Modules : state[m] # "Stopped"
    BY <1>3 DEF IInv, StartInv
  <2>2. startOrder' = startOrder
    BY <1>1, <1>3
  <2> QED
    BY <1>1, <2>1, <2>2, LeaveFacts
<1>4. CASE call = "stopAll"
  <2>1. pass = "shutdown"
    BY <1>2, <1>4, PassFacts
  <2>2. /\ \A m \in Modules : In(m, order) => ~Owes(m)
        /\ \A m \in Modules : state[m] = "Stopped" => In(m, order)
        /\ \A m \in Modules : Owes(m) => m \in loose \/ In(m, order)
    BY <1>1, <1>4, <2>1, EmptyFacts DEF IInv, StopInv, OrderInv
  <2>3. \A m \in Modules : state[m] # "Stopped"
    BY <2>2 DEF Owes, Between
  <2> QED
    BY <1>1, <1>4, <2>2, <2>3, LeaveFacts
<1>5. CASE call \in {"unload", "reload"}
  <2>1. PICK m \in Known : OnlyOne(m)
    BY <1>5 DEF IInv, OneInv
  <2>2. (call = "unload" /\ pass = "erase") \/ (call = "reload" /\ pass = "start")
    <3>1. \/ call = "startAll" /\ pass = "start"
          \/ call = "stopAll" /\ pass = "shutdown"
          \/ call = "unload" /\ pass = "erase"
          \/ call = "reload" /\ pass = "start"
      BY <1>2, PassFacts
    <3> QED
      BY <1>5, <3>1
  <2>3. state[m] # "Stopped"
    BY <1>1, <2>1, <2>2 DEF OnlyOne, Unloading, Reloading, Turns
  <2>4. \A n \in Modules : state[n] # "Stopped"
    BY <2>1, <2>3 DEF OnlyOne
  <2>5. startOrder' = startOrder
    BY <1>1, <1>5
  <2> QED
    BY <1>1, <2>4, <2>5, LeaveFacts
<1> QED
  BY <1>1, <1>2, <1>3, <1>4, <1>5 DEF TypeOK

LEMMA EraseStep ==
    ASSUME IInv, NEW m \in Modules, Erase(m)
    PROVE  IInv'
<1>1. /\ call # "none" /\ pass = "erase" /\ todo # <<>> /\ m = Head(todo)
      /\ state' = [state EXCEPT ![m] = "absent"] /\ startOrder' = Forget(m)
      /\ call' = "none" /\ order' = <<>> /\ pass' = "init" /\ todo' = <<>>
      /\ UNCHANGED <<deps, skipped, threw, owed>>
      /\ lost' = IF state[m] = "Initialized" THEN [lost EXCEPT ![m] = @ + 1] ELSE lost
      /\ loose' = loose \ {m} /\ early' = early \ {m}
  BY DEF Erase, At, Leave
<1>2. Inv /\ TypeOK /\ OrderInv
  BY DEF IInv, Inv
<1>3. call = "unload"
  BY <1>1, <1>2 DEF IInv, StartInv, StopInv, OneInv, OnlyOne, Reloading, TypeOK
<1>4. PICK k \in Known : OnlyOne(k)
  BY <1>3 DEF IInv, OneInv
<1>5. k = m
  BY <1>1, <1>4, SingleFacts DEF OnlyOne, Known
<1>6. /\ state[m] \in {"Registered", "Initialized", "ShutDown"}
      /\ \A n \in Modules \ {m} : state[n] # "Stopped" /\ (Owes(n) => m \notin deps[n])
  BY <1>1, <1>3, <1>4, <1>5 DEF OnlyOne, Unloading, Turns, Down
<1>7. \A n \in Modules : state'[n] = IF n = m THEN "absent" ELSE state[n]
  BY <1>1, <1>2 DEF TypeOK
<1>8. \A n \in Modules : Owes(n)' <=> Owes(n) /\ n # m
  BY <1>6, <1>7 DEF Owes, Between
<1>0. /\ lost' \in [Modules -> Nat]
      /\ \A n \in Modules : n # m => lost'[n] = lost[n]
      /\ owed[m] = lost'[m]
      /\ \A n \in Modules : n # m => (Sound(n)' <=> Sound(n))
  <2>1. owed[m] = lost[m] + (IF Owes(m) THEN 1 ELSE 0)
    BY <1>2, OwedFacts
  <2>2. Owes(m) <=> state[m] = "Initialized"
    BY <1>6 DEF Owes, Between
  <2> QED
    BY <1>1, <1>2, <2>1, <2>2 DEF TypeOK, Sound
<1>9. /\ Forget(m) \in Seq(Modules) /\ Once(Forget(m))
      /\ \A i, j \in 1 .. Len(Forget(m)) : Forget(m)[j] \in deps[Forget(m)[i]] => j < i
      /\ \A x : x # m /\ In(x, startOrder) => In(x, Forget(m))
  BY <1>2, ForgetFacts DEF TypeOK, OrderInv
<1>10. Inv'
  <2>1. TypeOK'
    BY <1>0, <1>1, <1>2, <1>9, EmptyFacts DEF TypeOK
  <2>2. \A n \in Modules : owed[n] = lost[n] + (IF Owes(n) THEN 1 ELSE 0)
    BY <1>2, OwedFacts
  <2>3. \A n \in Modules : owed'[n] = lost'[n] + (IF Owes(n)' THEN 1 ELSE 0)
    BY <1>0, <1>1, <1>8, <2>2, <1>2 DEF TypeOK
  <2> QED
    BY <2>1, <2>3 DEF Inv, MustShutDown, Owes, Between
<1>11. DependenciesStarted' /\ DependenciesOutlive'
  <2>1. \A n \in Modules : deps[n] \subseteq Modules
    BY <1>2, ModuleAssumption DEF TypeOK
  <2>2. DependenciesStarted'
    <3> SUFFICES ASSUME NEW n \in Modules, Sound(n)', state'[n] = "Started", NEW d \in deps[n]
                 PROVE  state'[d] = "Started"
      BY <1>1 DEF DependenciesStarted, Sound
    <3>1. n # m /\ state[n] = "Started" /\ Sound(n) /\ Owes(n)
      BY <1>0, <1>7 DEF Owes, Between
    <3>2. d # m /\ d \in Modules /\ state[d] = "Started"
      BY <1>6, <2>1, <3>1 DEF IInv, DependenciesStarted, Sound
    <3> QED
      BY <1>7, <3>2
  <2>3. DependenciesOutlive'
    <3> SUFFICES ASSUME NEW n \in Modules, Sound(n)', owed'[n] > lost'[n], NEW d \in deps[n],
                        d \notin skipped
                 PROVE  owed'[d] > lost'[d]
      BY <1>1 DEF DependenciesOutlive, Sound
    <3>1. n # m /\ owed[n] > lost[n] /\ Sound(n) /\ Owes(n)
      BY <1>0, <1>1, <1>2, OwedFacts DEF TypeOK
    <3>2. d # m /\ d \in Modules /\ owed[d] > lost[d]
      BY <1>6, <2>1, <3>1 DEF IInv, DependenciesOutlive, Sound
    <3> QED
      BY <1>0, <1>1, <3>2
  <2> QED
    BY <2>2, <2>3
<1>12. OrderInv'
  <2>1. \A n \in Modules : Owes(n)' => n \in loose' \/ In(n, startOrder')
    BY <1>1, <1>2, <1>8, <1>9 DEF OrderInv
  <2>2. \A n \in Modules : ~Owes(n)' => Sound(n)'
    BY <1>0, <1>1, <1>2, <1>8 DEF OrderInv, Sound
  <2> QED
    BY <1>1, <1>9, <2>1, <2>2 DEF OrderInv
<1>13. TodoInv'
  BY <1>1, <1>6, <1>7, EmptyFacts DEF TodoInv
<1>14. StartInv' /\ StopInv' /\ OneInv'
  BY <1>1 DEF StartInv, StopInv, OneInv
<1> QED
  BY <1>10, <1>11, <1>12, <1>13, <1>14 DEF IInv

-----------------------------------------------------------------------------
(* The callbacks: the first module of the rest of the pass has its turn.   *)

Turn(m) == call # "none" /\ todo # <<>> /\ m = Head(todo)

\* The step of a turn: what m becomes, and the books that go with it.
Booked ==
    /\ owed' \in [Modules -> Nat] /\ lost' \in [Modules -> Nat]
    /\ \A n \in Modules : owed'[n] = lost'[n] + (IF state'[n] \in Between THEN 1 ELSE 0)

\* Only m may be loose or early from now on, or no longer.
Moved(m, s) ==
    /\ loose' \subseteq Modules /\ early' \subseteq Modules
    /\ \A n \in Modules \ {m} : (n \in loose' <=> n \in loose) /\ (n \in early' <=> n \in early)
    /\ s \in Between => m \in loose' \/ In(m, startOrder)
    /\ s \notin Between => m \notin loose' /\ m \notin early'

TurnTo(m, s) ==
    /\ todo' = Tail(todo) /\ state' = [state EXCEPT ![m] = s]
    /\ Booked /\ Moved(m, s)
    /\ UNCHANGED <<deps, startOrder, call, pass, order>>

Forwards(s)  == \A i, j \in 1 .. Len(s) : s[j] \in deps[s[i]] => j < i
Backwards(s) ==
    \A i, j \in 1 .. Len(s) : Owes(s[i]) /\ Sound(s[i]) /\ s[j] \in deps[s[i]] => i < j

LEMMA TurnFacts ==
    ASSUME IInv, NEW m \in Modules, Turn(m)
    PROVE  /\ Tail(todo) \in Seq(Modules) /\ Once(Tail(todo))
           /\ In(m, todo) /\ In(m, order) /\ ~In(m, Tail(todo))
           /\ \A x : In(x, todo) <=> x = m \/ In(x, Tail(todo))
           /\ \A i \in 1 .. Len(Tail(todo)) : Tail(todo)[i] \in Modules /\ Tail(todo)[i] # m
           /\ Forwards(todo) => Forwards(Tail(todo)) /\ \A d \in deps[m] : ~In(d, todo)
           /\ Backwards(todo) =>
                 /\ Backwards(Tail(todo))
                 /\ \A n \in Modules : In(n, todo) /\ Owes(n) /\ Sound(n) => m \notin deps[n]
<1>1. todo \in Seq(Modules) /\ todo # <<>> /\ m = Head(todo) /\ TodoInv
  BY DEF IInv, Inv, TypeOK, Turn
<1>2. /\ Tail(todo) \in Seq(Modules) /\ m = todo[1] /\ 1 \in 1 .. Len(todo)
      /\ Len(Tail(todo)) \in Nat
      /\ \A i \in 1 .. Len(Tail(todo)) : i + 1 \in 1 .. Len(todo) /\ Tail(todo)[i] = todo[i + 1]
      /\ \A x : In(x, todo) <=> x = m \/ In(x, Tail(todo))
      /\ Once(Tail(todo)) /\ ~In(m, Tail(todo))
  BY <1>1, TailFacts DEF TodoInv
<1>3. In(m, todo) /\ In(m, order)
  BY <1>1, <1>2 DEF TodoInv
<1>4. \A i \in 1 .. Len(Tail(todo)) : Tail(todo)[i] \in Modules /\ Tail(todo)[i] # m
  BY <1>2, SeqFacts DEF In
<1>5. ASSUME Forwards(todo)
      PROVE  Forwards(Tail(todo)) /\ \A d \in deps[m] : ~In(d, todo)
  <2>1. ASSUME NEW i \in 1 .. Len(Tail(todo)), NEW j \in 1 .. Len(Tail(todo)),
               Tail(todo)[j] \in deps[Tail(todo)[i]]
        PROVE  j < i
    <3>1. j + 1 < i + 1
      BY <1>2, <1>5, <2>1 DEF Forwards
    <3> QED
      BY <3>1
  <2>2. ASSUME NEW j \in 1 .. Len(todo), todo[j] \in deps[m]
        PROVE  FALSE
    <3>1. j < 1
      BY <1>2, <1>5, <2>2 DEF Forwards
    <3> QED
      BY <3>1
  <2> QED
    BY <2>1, <2>2 DEF Forwards, In
<1>6. ASSUME Backwards(todo)
      PROVE  /\ Backwards(Tail(todo))
             /\ \A n \in Modules : In(n, todo) /\ Owes(n) /\ Sound(n) => m \notin deps[n]
  <2>1. ASSUME NEW i \in 1 .. Len(Tail(todo)), NEW j \in 1 .. Len(Tail(todo)),
               Owes(Tail(todo)[i]), Sound(Tail(todo)[i]), Tail(todo)[j] \in deps[Tail(todo)[i]]
        PROVE  i < j
    <3>1. i + 1 < j + 1
      BY <1>2, <1>6, <2>1 DEF Backwards
    <3> QED
      BY <3>1
  <2>2. ASSUME NEW i \in 1 .. Len(todo), Owes(todo[i]), Sound(todo[i]), m \in deps[todo[i]]
        PROVE  FALSE
    <3>1. i < 1
      BY <1>2, <1>6, <2>2 DEF Backwards
    <3> QED
      BY <3>1
  <2> QED
    BY <2>1, <2>2 DEF Backwards, In
<1> QED
  BY <1>2, <1>3, <1>4, <1>5, <1>6

\* What every turn keeps, whichever call makes it.
LEMMA TurnToFacts ==
    ASSUME IInv, NEW m \in Modules, Turn(m),
           NEW s \in {"absent", "Registered", "Initialized", "Started", "Stopped", "ShutDown"},
           s = "absent" <=> state[m] = "absent",
           TurnTo(m, s), skipped' \subseteq Modules, threw' \subseteq skipped'
    PROVE  /\ Inv' /\ TodoInv' /\ OrderInv'
           /\ \A n \in Modules : state'[n] = IF n = m THEN s ELSE state[n]
           /\ \A n \in Modules : Owes(n)' <=> IF n = m THEN s \in Between ELSE Owes(n)
           /\ \A n \in Modules : owed'[n] > lost'[n] <=> IF n = m THEN s \in Between ELSE Owes(n)
           /\ \A n \in Modules : n # m => (Sound(n)' <=> Sound(n))
           /\ Known' = Known
<1>1. Inv /\ TypeOK /\ OrderInv /\ TodoInv
  BY DEF IInv, Inv
<1>2. /\ todo' = Tail(todo) /\ state' = [state EXCEPT ![m] = s]
      /\ Booked /\ Moved(m, s)
      /\ deps' = deps /\ startOrder' = startOrder /\ call' = call /\ pass' = pass /\ order' = order
      /\ call # "none"
  BY DEF TurnTo, Turn
<1>3. \A n \in Modules : state'[n] = IF n = m THEN s ELSE state[n]
  BY <1>1, <1>2 DEF TypeOK
<1>4. \A n \in Modules : Owes(n)' <=> IF n = m THEN s \in Between ELSE Owes(n)
  BY <1>3 DEF Owes
<1>5. Inv'
  <2>1. TypeOK'
    <3>1. /\ owed' \in [Modules -> Nat] /\ Tail(todo) \in Seq(Modules)
          /\ lost' \in [Modules -> Nat] /\ loose' \subseteq Modules /\ early' \subseteq Modules
      BY <1>1, <1>2, TurnFacts DEF TypeOK, Booked, Moved
    <3>2. state' \in [Modules -> {"absent", "Registered", "Initialized", "Started",
                                  "Stopped", "ShutDown"}]
      BY <1>1, <1>2 DEF TypeOK
    <3> QED
      BY <1>1, <1>2, <3>1, <3>2 DEF TypeOK
  <2> QED
    BY <1>2, <2>1 DEF Inv, Between, Booked, MustShutDown
<1>6. TodoInv'
  BY <1>1, <1>2, TurnFacts DEF TodoInv
<1>7. \A n \in Modules : owed'[n] > lost'[n] <=> IF n = m THEN s \in Between ELSE Owes(n)
  <2>1. \A n \in Modules : owed'[n] = lost'[n] + (IF Owes(n)' THEN 1 ELSE 0)
    BY <1>2 DEF Booked, Owes
  <2>2. \A n \in Modules : owed'[n] \in Nat /\ lost'[n] \in Nat
    BY <1>2 DEF Booked
  <2> QED
    BY <1>4, <2>1, <2>2
<1>8. Known' = Known
  BY <1>3 DEF Known
<1>9. \A n \in Modules : n # m => (Sound(n)' <=> Sound(n))
  BY <1>2 DEF Moved, Sound
<1>10. OrderInv'
  <2>1. \A n \in Modules : Owes(n)' => n \in loose' \/ In(n, startOrder')
    BY <1>1, <1>2, <1>4 DEF OrderInv, Moved
  <2>2. \A n \in Modules : ~Owes(n)' => Sound(n)'
    <3> TAKE n \in Modules
    <3>1. CASE n = m
      BY <1>2, <1>4, <3>1 DEF Moved, Sound
    <3>2. CASE n # m
      BY <1>1, <1>4, <1>9, <3>2 DEF OrderInv
    <3> QED
      BY <3>1, <3>2
  <2> QED
    BY <1>1, <1>2, <2>1, <2>2 DEF OrderInv
<1> QED
  BY <1>3, <1>4, <1>5, <1>6, <1>7, <1>8, <1>9, <1>10

\* A turn of startAll(): m comes up, or is skipped.
LEMMA StartTurn ==
    ASSUME IInv, call = "startAll", NEW m \in Modules, Turn(m),
           NEW s \in {"Registered", "Initialized", "Started", "ShutDown"}, TurnTo(m, s),
           skipped \subseteq skipped', skipped' \subseteq Modules, threw' \subseteq skipped',
           \A k \in Modules : In(k, order) /\ deps[k] \cap skipped' # {} => k \in skipped',
           \A k \in skipped' : k \in threw' \/ deps[k] \cap skipped' # {},
           \A k \in skipped' : state'[k] # "Started",
           m \in skipped' \/ s = IF pass = "init" THEN "Initialized" ELSE "Started",
           s \in IF pass = "init" THEN {state[m], "Initialized"}
                 ELSE {state[m], "Started", "ShutDown"},
           loose' = {}, early' = {}
    PROVE  IInv'
<1>1. /\ todo' = Tail(todo) /\ deps' = deps /\ startOrder' = startOrder
      /\ call' = call /\ pass' = pass /\ order' = order
  BY DEF TurnTo
<1>2. Inv /\ TypeOK /\ OrderInv /\ TodoInv /\ StartInv /\ DependenciesStarted /\ DependenciesOutlive
  BY DEF IInv, Inv
<1>3. /\ pass \in {"init", "start"} /\ order = startOrder
      /\ \A k \in Modules : In(k, order) => k \in Known /\ \A d \in deps[k] : In(d, order)
      /\ Forwards(todo)
      /\ \A k \in Modules : state[k] # "Stopped"
      /\ \A k : Sound(k)
  BY <1>2 DEF StartInv, Forwards, Sound
<1>4. /\ In(m, todo) /\ In(m, order) /\ ~In(m, Tail(todo)) /\ Forwards(Tail(todo))
      /\ \A x : In(x, todo) <=> x = m \/ In(x, Tail(todo))
      /\ \A d \in deps[m] : ~In(d, todo)
  BY <1>3, TurnFacts
<1>5. m \in Known /\ state[m] # "absent" /\ deps \in [Modules -> SUBSET Modules]
  BY <1>2, <1>3, <1>4, ModuleAssumption DEF Known, TypeOK
<1>6. /\ Inv' /\ TodoInv' /\ OrderInv' /\ Known' = Known
      /\ \A n \in Modules : state'[n] = IF n = m THEN s ELSE state[n]
      /\ \A n \in Modules : Owes(n)' <=> IF n = m THEN s \in Between ELSE Owes(n)
      /\ \A n \in Modules : owed'[n] > lost'[n] <=> IF n = m THEN s \in Between ELSE Owes(n)
  BY <1>5, TurnToFacts
<1>7. \A d \in deps[m] : d \in Modules /\ d # m /\ Done(d)
  BY <1>3, <1>4, <1>5 DEF Done
<1>8. \A n \in Modules : Done(n) =>
         n \in skipped \/ state[n] = IF pass = "init" THEN "Initialized" ELSE "Started"
  BY <1>2, <1>3 DEF StartInv
<1>9. /\ pass = "init" => /\ \A n \in Modules : state[n] # "Started"
                          /\ \A n \in Modules : In(n, todo) => ~Owes(n)
      /\ pass = "start" => \A n \in Modules : In(n, todo) => n \in skipped \/ state[n] = "Initialized"
      /\ state[m] # "Started"
  BY <1>2, <1>4 DEF StartInv
<1>10. DependenciesStarted'
  <2> SUFFICES ASSUME NEW n \in Modules, state'[n] = "Started", NEW d \in deps[n]
               PROVE  state'[d] = "Started"
    BY <1>1 DEF DependenciesStarted
  <2>1. CASE n = m
    <3>1. m \notin skipped' /\ pass = "start"
      BY <1>3, <1>6, <1>9, <2>1
    <3>2. d \notin skipped /\ d \in Modules /\ d # m /\ Done(d)
      BY <1>4, <1>7, <2>1, <3>1
    <3> QED
      BY <1>6, <1>8, <3>1, <3>2
  <2>2. CASE n # m
    <3>1. state[d] = "Started" /\ d \in Modules
      BY <1>2, <1>3, <1>5, <1>6, <2>2 DEF DependenciesStarted, Sound
    <3> QED
      BY <1>6, <1>9, <3>1
  <2> QED
    BY <2>1, <2>2
<1>11. DependenciesOutlive'
  <2> SUFFICES ASSUME NEW n \in Modules, owed'[n] > lost'[n], NEW d \in deps[n], d \notin skipped'
               PROVE  owed'[d] > lost'[d]
    BY <1>1 DEF DependenciesOutlive
  <2>0. d \in Modules
    BY <1>5
  <2>1. CASE n = m
    <3>1. d \in Modules /\ d # m /\ Owes(d)
      BY <1>7, <1>8, <2>1 DEF Owes, Between
    <3> QED
      BY <1>6, <3>1
  <2>2. CASE n # m /\ d # m
    <3>1. Owes(n) /\ owed[n] > lost[n]
      BY <1>2, <1>6, <2>2, OwedFacts
    <3>2. owed[d] > lost[d]
      BY <1>2, <1>3, <3>1 DEF DependenciesOutlive, Sound
    <3> QED
      BY <1>2, <1>6, <2>0, <2>2, <3>2, OwedFacts
  <2>3. CASE n # m /\ d = m
    BY <1>6, <2>3 DEF Between
  <2> QED
    BY <2>1, <2>2, <2>3
<1>12. StartInv'
  <2>1. \A n \in Modules : Done(n)' <=> n = m \/ Done(n)
    BY <1>1, <1>4 DEF Done
  <2>2. \A n \in Modules : In(n, todo') => n # m /\ In(n, todo)
    BY <1>1, <1>4
  <2>3. \A i, j \in 1 .. Len(todo') : todo'[j] \in deps'[todo'[i]] => j < i
    BY <1>1, <1>4 DEF Forwards
  <2>4. \A n \in Modules : state'[n] # "Stopped"
    BY <1>3, <1>6
  <2>5. ASSUME pass = "init"
        PROVE  /\ \A n \in Modules : state'[n] # "Started"
               /\ \A n \in Modules : In(n, todo') => ~Owes(n)'
               /\ \A n \in Modules : Done(n)' => n \in skipped' \/ state'[n] = "Initialized"
    BY <1>6, <1>8, <1>9, <2>1, <2>2, <2>5
  <2>6. ASSUME pass = "start"
        PROVE  /\ \A n \in Modules : In(n, todo') => n \in skipped' \/ state'[n] = "Initialized"
               /\ \A n \in Modules : Done(n)' => n \in skipped' \/ state'[n] = "Started"
    BY <1>6, <1>8, <1>9, <2>1, <2>2, <2>6
  <2>7. \A k \in Modules : In(k, order') => k \in Known' /\ \A d \in deps'[k] : In(d, order')
    BY <1>1, <1>3, <1>6
  <2> QED
    BY <1>1, <1>3, <2>3, <2>4, <2>5, <2>6, <2>7 DEF StartInv
<1>13. StopInv' /\ OneInv'
  BY <1>1 DEF StopInv, OneInv
<1> QED
  BY <1>6, <1>10, <1>11, <1>12, <1>13 DEF IInv

\* A turn of stopAll(): m is taken down, or has nothing left to be taken down.
LEMMA StopTurn ==
    ASSUME IInv, call = "stopAll", NEW m \in Modules, Turn(m),
           NEW s \in {"absent", "Registered", "Initialized", "Stopped", "ShutDown"}, TurnTo(m, s),
           s = "absent" <=> state[m] = "absent",
           skipped' = skipped, threw' = threw,
           pass = "stop" => (s \in Between <=> Owes(m)),
           pass = "shutdown" => s \notin Between,
           s \in Between => Owes(m) /\ UNCHANGED ups,
           s = "Stopped" => In(m, order)
    PROVE  IInv'
<1>1. /\ todo' = Tail(todo) /\ deps' = deps /\ startOrder' = startOrder
      /\ call' = call /\ pass' = pass /\ order' = order
  BY DEF TurnTo
<1>2. Inv /\ TypeOK /\ OrderInv /\ TodoInv /\ StopInv /\ DependenciesStarted /\ DependenciesOutlive
  BY DEF IInv, Inv
<1>3. /\ pass \in {"stop", "shutdown"} /\ Backwards(todo)
      /\ pass = "stop" =>
            \A n \in Modules : state[n] = "Started" /\ In(n, order) => In(n, todo)
      /\ pass = "shutdown" =>
            \A n \in Modules : In(n, order) => state[n] # "Started" /\ (Owes(n) => In(n, todo))
      /\ \A n \in Modules : Owes(n) /\ Sound(n) => In(n, order)
      /\ In(m, order)
  BY <1>2, TurnFacts, EmptyFacts DEF StopInv, Backwards, OrderInv, Sound
<1>4. /\ ~In(m, Tail(todo)) /\ Backwards(Tail(todo)) /\ Tail(todo) \in Seq(Modules)
      /\ \A x : In(x, todo) <=> x = m \/ In(x, Tail(todo))
      /\ \A n \in Modules : In(n, todo) /\ Owes(n) /\ Sound(n) => m \notin deps[n]
      /\ \A i \in 1 .. Len(Tail(todo)) : Tail(todo)[i] \in Modules /\ Tail(todo)[i] # m
  BY <1>3, TurnFacts
<1>5. /\ Inv' /\ TodoInv' /\ OrderInv' /\ Known' = Known
      /\ \A n \in Modules : state'[n] = IF n = m THEN s ELSE state[n]
      /\ \A n \in Modules : Owes(n)' <=> IF n = m THEN s \in Between ELSE Owes(n)
      /\ \A n \in Modules : owed'[n] > lost'[n] <=> IF n = m THEN s \in Between ELSE Owes(n)
      /\ \A n \in Modules : n # m => (Sound(n)' <=> Sound(n))
  <2>2. skipped' \subseteq Modules /\ threw' \subseteq skipped'
    BY <1>2 DEF TypeOK
  <2> QED
    BY <2>2, TurnToFacts
<1>6. deps \in [Modules -> SUBSET Modules]
  BY <1>2, ModuleAssumption DEF TypeOK
<1>11. \A n \in Modules : Sound(n)' /\ Owes(n)' => Sound(n)
  BY <1>5 DEF Sound, ups
<1>7. DependenciesStarted'
  <2> SUFFICES ASSUME NEW n \in Modules, Sound(n)', state'[n] = "Started", NEW d \in deps[n]
               PROVE  state'[d] = "Started"
    BY <1>1 DEF DependenciesStarted, Sound
  <2>1. n # m /\ state[n] = "Started" /\ Owes(n) /\ Sound(n)
    BY <1>5 DEF Owes, Between
  <2>2. state[d] = "Started" /\ d \in Modules
    BY <1>2, <1>6, <2>1 DEF DependenciesStarted, Sound
  <2>3. d # m
    BY <1>3, <1>4, <2>1
  <2> QED
    BY <1>5, <2>2, <2>3
<1>8. DependenciesOutlive'
  <2> SUFFICES ASSUME NEW n \in Modules, Sound(n)', owed'[n] > lost'[n], NEW d \in deps[n],
                      d \notin skipped
               PROVE  owed'[d] > lost'[d]
    BY <1>1 DEF DependenciesOutlive, Sound
  <2>1. Owes(n) /\ Sound(n) /\ (n = m => pass = "stop")
    BY <1>3, <1>5, <1>11
  <2>2. owed[d] > lost[d] /\ d \in Modules /\ Owes(d)
    BY <1>2, <1>6, <2>1, OwedFacts DEF DependenciesOutlive, Sound
  <2>3. d = m => pass = "stop"
    BY <1>3, <1>4, <2>1
  <2> QED
    BY <1>5, <2>2, <2>3
<1>9. StopInv'
  <2>1. ASSUME NEW i \in 1 .. Len(Tail(todo)), NEW j \in 1 .. Len(Tail(todo)),
               state'[Tail(todo)[i]] \in Between, Tail(todo)[i] \notin early' \cup loose',
               Tail(todo)[j] \in deps[Tail(todo)[i]]
        PROVE  i < j
    <3>1. Owes(Tail(todo)[i]) /\ Sound(Tail(todo)[i])
      <4>1. PICK w : w = Tail(todo)[i]
        OBVIOUS
      <4>2. w \in Modules /\ w # m
        BY <1>4, <4>1
      <4>3. state'[w] \in Between /\ Sound(w)'
        BY <2>1, <4>1 DEF Sound
      <4> QED
        BY <1>5, <4>1, <4>2, <4>3 DEF Owes
    <3> QED
      BY <1>4, <2>1, <3>1 DEF Backwards
  <2>2. \A n \in Modules : n # m => (In(n, todo) <=> In(n, todo'))
    BY <1>1, <1>4
  <2>3. pass = "stop" =>
           \A n \in Modules : state'[n] = "Started" /\ In(n, order') => In(n, todo')
    BY <1>1, <1>3, <1>5, <2>2
  <2>4. pass = "shutdown" =>
           \A n \in Modules : In(n, order') => state'[n] # "Started" /\ (Owes(n)' => In(n, todo'))
    BY <1>1, <1>3, <1>5, <2>2
  <2>5. \A i, j \in 1 .. Len(todo') :
              Owes(todo[i])' /\ Sound(todo[i])' /\ todo'[j] \in deps'[todo'[i]] => i < j
    BY <1>1, <2>1 DEF Owes, Sound
  <2>6. /\ startOrder' # <<>> => order' = startOrder'
        /\ startOrder' = <<>> => \A n \in Modules : Owes(n)' => In(n, order')
        /\ \A n \in Modules : state'[n] = "Stopped" => In(n, order')
    BY <1>1, <1>2, <1>3, <1>5 DEF StopInv
  <2> QED
    BY <1>1, <1>3, <2>3, <2>4, <2>5, <2>6 DEF StopInv
<1>10. StartInv' /\ OneInv'
  BY <1>1 DEF StartInv, OneInv
<1> QED
  BY <1>5, <1>7, <1>8, <1>9, <1>10 DEF IInv

\* A turn of unload() or reload().
LEMMA OneTurn ==
    ASSUME IInv, call \in {"unload", "reload"}, NEW m \in Modules, Turn(m),
           NEW s \in {"Registered", "Initialized", "Started", "Stopped", "ShutDown"}, TurnTo(m, s),
           skipped' = skipped, threw' = threw,
           \/ pass = "stop" /\ s \in Down \cup {"Stopped"}
           \/ pass = "shutdown" /\ s \in Down
           \/ call = "reload" /\ pass = "init" /\ s = "Initialized"
           \/ call = "reload" /\ pass = "start" /\ s = "Started",
           pass # "init" => (s \in Between => Owes(m) /\ UNCHANGED ups),
           pass = "init" => m \in early' \/ \A d \in deps[m] : state[d] = "Started",
           pass = "init" => state[m] # "Started"
    PROVE  IInv'
<1>1. /\ todo' = Tail(todo) /\ deps' = deps /\ startOrder' = startOrder
      /\ call' = call /\ pass' = pass /\ order' = order
  BY DEF TurnTo
<1>2. Inv /\ TypeOK /\ OrderInv /\ TodoInv /\ DependenciesStarted /\ DependenciesOutlive
  BY DEF IInv, Inv
<1>3. OnlyOne(m) /\ m \in Known /\ todo' = <<>> /\ todo = <<m>>
  <2>1. PICK k \in Known : OnlyOne(k)
    BY DEF IInv, OneInv
  <2>2. todo = <<k>>
    BY <2>1 DEF OnlyOne, Turn
  <2>3. k = m /\ Tail(<<k>>) = <<>>
    BY <2>1, <2>2, SingleFacts DEF Turn, Known
  <2> QED
    BY <1>1, <2>1, <2>2, <2>3
<1>4. /\ order = <<m>>
      /\ \A n \in Modules \ {m} : state[n] # "Stopped" /\ (Owes(n) => m \notin deps[n])
      /\ call = "unload" => Unloading(m)
      /\ call = "reload" => Reloading(m)
  BY <1>3 DEF OnlyOne
<1>5. /\ Inv' /\ TodoInv' /\ OrderInv' /\ Known' = Known
      /\ \A n \in Modules : state'[n] = IF n = m THEN s ELSE state[n]
      /\ \A n \in Modules : Owes(n)' <=> IF n = m THEN s \in Between ELSE Owes(n)
      /\ \A n \in Modules : owed'[n] > lost'[n] <=> IF n = m THEN s \in Between ELSE Owes(n)
      /\ \A n \in Modules : n # m => (Sound(n)' <=> Sound(n))
  <2>2. skipped' \subseteq Modules /\ threw' \subseteq skipped' /\ state[m] # "absent"
    BY <1>2, <1>3 DEF TypeOK, Known
  <2> QED
    BY <2>2, TurnToFacts
<1>6. deps \in [Modules -> SUBSET Modules]
  BY <1>2, ModuleAssumption DEF TypeOK
<1>7. pass \in {"init", "start"} =>
         m \in early' \/ \A d \in deps[m] : d # m /\ state[d] = "Started" /\ state'[d] = "Started"
  <2>1. ASSUME pass = "init", m \notin early', NEW d \in deps[m]
        PROVE  d # m /\ state[d] = "Started" /\ state'[d] = "Started"
    BY <1>5, <1>6, <2>1
  <2>2. ASSUME pass = "start", m \notin early', NEW d \in deps[m]
        PROVE  d # m /\ state[d] = "Started" /\ state'[d] = "Started"
    <3>1. call = "reload" /\ s = "Started"
      BY <2>2
    <3>2. Ready(m) /\ early' = early
      BY <1>4, <2>2, <3>1 DEF Reloading, Between, ups
    <3> QED
      BY <1>5, <1>6, <2>2, <3>2 DEF Ready
  <2> QED
    BY <2>1, <2>2
<1>12. pass # "init" => \A n \in Modules : Sound(n)' /\ Owes(n)' => Sound(n)
  BY <1>5 DEF Sound, ups
<1>8. DependenciesStarted'
  <2> SUFFICES ASSUME NEW n \in Modules, Sound(n)', state'[n] = "Started", NEW d \in deps[n]
               PROVE  state'[d] = "Started"
    BY <1>1 DEF DependenciesStarted, Sound
  <2>1. CASE n = m
    <3>1. s = "Started"
      BY <1>5, <2>1
    <3>2. pass = "start"
      BY <3>1 DEF Down
    <3> QED
      BY <1>7, <2>1, <3>2 DEF Sound
  <2>2. CASE n # m
    <3>1. state[n] = "Started" /\ Owes(n) /\ Sound(n)
      BY <1>5, <2>2 DEF Owes, Between
    <3>2. state[d] = "Started" /\ d \in Modules /\ d # m
      BY <1>2, <1>4, <1>6, <2>2, <3>1 DEF DependenciesStarted, Sound
    <3> QED
      BY <1>5, <3>2
  <2> QED
    BY <2>1, <2>2
<1>9. DependenciesOutlive'
  <2> SUFFICES ASSUME NEW n \in Modules, Sound(n)', owed'[n] > lost'[n], NEW d \in deps[n],
                      d \notin skipped
               PROVE  owed'[d] > lost'[d]
    BY <1>1 DEF DependenciesOutlive, Sound
  <2>0. d \in Modules
    BY <1>6
  <2>1. CASE n = m /\ pass = "init"
    <3>1. d # m /\ Owes(d)
      BY <1>7, <2>1 DEF Owes, Between, Sound
    <3> QED
      BY <1>5, <2>0, <3>1
  <2>2. CASE n # m \/ pass # "init"
    <3>1. Owes(n) /\ Sound(n) /\ (n = m => s \in Between)
      BY <1>5, <1>12, <2>2
    <3>2. owed[d] > lost[d] /\ Owes(d)
      BY <1>2, <2>0, <3>1, OwedFacts DEF DependenciesOutlive, Sound
    <3>3. n # m => d # m
      BY <1>4, <3>1
    <3> QED
      BY <1>5, <2>0, <3>1, <3>2, <3>3
  <2> QED
    BY <2>1, <2>2
<1>10. StartInv' /\ StopInv'
  BY <1>1 DEF StartInv, StopInv
<1>11. OneInv'
  <2>1. call = "unload" => Unloading(m)'
    BY <1>1, <1>3, <1>4, <1>5 DEF Unloading, Turns
  <2>4. pass \in {"init", "start"} => Ready(m)'
    BY <1>1, <1>7 DEF Ready
  <2>2. call = "reload" => Reloading(m)'
    BY <1>1, <1>3, <1>4, <1>5, <2>4 DEF Reloading, Turns
  <2>3. OnlyOne(m)'
    BY <1>1, <1>3, <1>4, <1>5, <2>1, <2>2 DEF OnlyOne
  <2> QED
    BY <1>3, <1>5, <2>3 DEF OneInv
<1> QED
  BY <1>5, <1>8, <1>9, <1>10, <1>11 DEF IInv

\* A module that has nothing to do in the pass.
LEMMA PassIsTurn ==
    ASSUME IInv, NEW m \in Modules, Pass(m)
    PROVE  /\ TurnTo(m, state[m]) /\ skipped' = skipped /\ threw' = threw
           /\ UNCHANGED ups
<1>1. Inv /\ TypeOK /\ OrderInv
  BY DEF IInv, Inv
<1>2. state = [state EXCEPT ![m] = state[m]]
  BY <1>1 DEF TypeOK
<1>3. /\ state' = state /\ owed' = owed /\ lost' = lost /\ loose' = loose /\ early' = early
      /\ skipped' = skipped /\ threw' = threw /\ todo' = Tail(todo)
      /\ UNCHANGED <<deps, startOrder, call, pass, order>>
  BY DEF Pass, ups
<1>4. Booked
  BY <1>1, <1>3 DEF Inv, TypeOK, MustShutDown, Between, Booked
<1>5. Moved(m, state[m])
  BY <1>1, <1>3 DEF TypeOK, OrderInv, Moved, Owes, Sound
<1> QED
  BY <1>2, <1>3, <1>4, <1>5 DEF TurnTo, ups

\* The books of a turn that leaves m owed what it was, or shuts it down.
LEMMA BookFacts ==
    ASSUME IInv, NEW m \in Modules,
           NEW s \in {"absent", "Registered", "Initialized", "Started", "Stopped", "ShutDown"},
           state' = [state EXCEPT ![m] = s], startOrder' = startOrder, lost' = lost,
           \/ owed' = owed /\ UNCHANGED ups /\ (s \in Between <=> Owes(m))
           \/ /\ owed' = [owed EXCEPT ![m] = @ - 1] /\ s \notin Between /\ Owes(m)
              /\ loose' = loose \ {m} /\ early' = early \ {m}
    PROVE  Booked /\ Moved(m, s)
<1>1. Inv /\ TypeOK /\ OrderInv
  BY DEF IInv, Inv
<1>2. \A n \in Modules : owed[n] = lost[n] + (IF Owes(n) THEN 1 ELSE 0)
  BY <1>1, OwedFacts
<1>3. \A n \in Modules : state'[n] = IF n = m THEN s ELSE state[n]
  BY <1>1 DEF TypeOK
<1>4. \A n \in Modules : Owes(n) <=> state[n] \in Between
  BY DEF Owes
<1>5. owed \in [Modules -> Nat] /\ lost \in [Modules -> Nat]
  BY <1>1 DEF TypeOK
<1>6. CASE owed' = owed /\ UNCHANGED ups /\ (s \in Between <=> Owes(m))
  <2>1. Booked
    BY <1>2, <1>3, <1>4, <1>5, <1>6 DEF Booked
  <2>2. Moved(m, s)
    BY <1>1, <1>6 DEF Moved, ups, TypeOK, OrderInv, Sound
  <2> QED
    BY <2>1, <2>2
<1>7. CASE /\ owed' = [owed EXCEPT ![m] = @ - 1] /\ s \notin Between /\ Owes(m)
           /\ loose' = loose \ {m} /\ early' = early \ {m}
  <2>1. owed[m] = lost[m] + 1
    BY <1>2, <1>7
  <2>2. \A n \in Modules : owed'[n] = IF n = m THEN lost[n] ELSE owed[n]
    BY <1>5, <1>7, <2>1
  <2>3. owed' \in [Modules -> Nat]
    BY <1>5, <1>7, <2>1, <2>2
  <2>4. Booked
    BY <1>2, <1>3, <1>4, <1>5, <1>7, <2>2, <2>3 DEF Booked
  <2>5. Moved(m, s)
    BY <1>1, <1>7 DEF Moved, TypeOK
  <2> QED
    BY <2>4, <2>5
<1> QED
  BY <1>6, <1>7

\* An onInit makes m owe an onShutdown more, the last one if it had one
\* forgotten.
LEMMA PutUpFacts ==
    ASSUME IInv, NEW m \in Modules, state[m] \in Down, PutUp(m),
           state' = [state EXCEPT ![m] = "Initialized"]
    PROVE  /\ Booked /\ Moved(m, "Initialized")
           /\ call = "reload" => m \in early' \/ \A d \in deps[m] : state[d] = "Started"
           /\ call # "reload" => early' = early \ {m}
           /\ In(m, startOrder) => loose' = loose \ {m}
<1>1. Inv /\ TypeOK /\ OrderInv
  BY DEF IInv, Inv
<1>2. \A n \in Modules : owed[n] = lost[n] + (IF Owes(n) THEN 1 ELSE 0)
  BY <1>1, OwedFacts
<1>3. \A n \in Modules : state'[n] = IF n = m THEN "Initialized" ELSE state[n]
  BY <1>1 DEF TypeOK
<1>4. \A n \in Modules : Owes(n) <=> state[n] \in Between
  BY DEF Owes
<1>5. owed \in [Modules -> Nat] /\ lost \in [Modules -> Nat]
  BY <1>1 DEF TypeOK
<1>6. m \in Range(startOrder) <=> In(m, startOrder)
  <2>1. startOrder \in Seq(Modules) /\ DOMAIN startOrder = 1 .. Len(startOrder)
    BY <1>1, LenProperties DEF TypeOK
  <2> QED
    BY <2>1 DEF Range, In
<1>7. Booked
  <2>1. Owes(m) <=> state[m] = "Initialized"
    BY DEF Down, Owes, Between
  <2>2. owed' = [owed EXCEPT ![m] = owed[m] + 1] /\ "Initialized" \in Between
    BY DEF PutUp, Between
  <2>3. \A n \in Modules : owed'[n] = IF n = m THEN owed[m] + 1 ELSE owed[n]
    BY <1>5, <2>2
  <2>4. owed' \in [Modules -> Nat]
    BY <1>5, <2>2
  <2>5. /\ lost' \in [Modules -> Nat]
        /\ \A n \in Modules : lost'[n] = IF n = m /\ Owes(m) THEN lost[n] + 1 ELSE lost[n]
    <3>1. CASE state[m] = "Initialized"
      <4>1. lost' = [lost EXCEPT ![m] = lost[m] + 1]
        BY <3>1 DEF PutUp
      <4> QED
        BY <1>5, <2>1, <3>1, <4>1
    <3>2. CASE state[m] # "Initialized"
      <4>1. lost' = lost
        BY <3>2 DEF PutUp
      <4> QED
        BY <1>5, <2>1, <3>2, <4>1
    <3> QED
      BY <3>1, <3>2
  <2>6. \A n \in Modules : owed'[n] = lost'[n] + (IF state'[n] \in Between THEN 1 ELSE 0)
    BY <1>2, <1>3, <1>4, <1>5, <2>2, <2>3, <2>5
  <2> QED
    BY <2>4, <2>5, <2>6 DEF Booked
<1>8. Moved(m, "Initialized")
  BY <1>1, <1>6 DEF Moved, PutUp, TypeOK, Between
<1> QED
  BY <1>6, <1>7, <1>8 DEF PutUp

\* Which calls make which passes, and of which module a turn is.
LEMMA CallFacts ==
    ASSUME IInv, NEW m \in Modules, Turn(m)
    PROVE  /\ pass \in {"init", "start"} => call \in {"startAll", "reload"}
           /\ pass \in {"stop", "shutdown"} => call \in {"stopAll", "unload", "reload"}
           /\ call = "startAll" => m \in Known
           /\ call \in {"unload", "reload"} =>
                 /\ OnlyOne(m) /\ m \in Known /\ todo = <<m>> /\ todo # <<>>
                 /\ \A n \in Modules : n # m => state[n] # "Stopped"
<1>1. Inv /\ TypeOK /\ StartInv /\ StopInv /\ OneInv /\ call # "none"
  BY DEF IInv, Inv, Turn
<1>2. ASSUME call \in {"unload", "reload"}
      PROVE  /\ OnlyOne(m) /\ m \in Known /\ todo = <<m>> /\ todo # <<>>
             /\ \A n \in Modules : n # m => state[n] # "Stopped"
  <2>1. PICK k \in Known : OnlyOne(k)
    BY <1>1, <1>2 DEF OneInv
  <2>2. todo = <<k>> /\ todo # <<>>
    BY <2>1 DEF OnlyOne, Turn
  <2>3. k = m
    BY <2>1, <2>2, SingleFacts DEF Turn, Known
  <2> QED
    BY <2>1, <2>2, <2>3 DEF OnlyOne
<1>3. call = "unload" => pass \notin {"init", "start"}
  BY <1>2 DEF OnlyOne, Unloading
<1>4. call = "stopAll" => pass \notin {"init", "start"}
  BY <1>1 DEF StopInv
<1>5. call = "startAll" => pass \notin {"stop", "shutdown"} /\ m \in Known
  BY <1>1, TurnFacts DEF StartInv
<1> QED
  BY <1>1, <1>2, <1>3, <1>4, <1>5 DEF TypeOK

\* Skipping m takes along nothing that is started, and everything that
\* depends on something skipped.
LEMMA SkipItFacts ==
    ASSUME IInv, call = "startAll", NEW m \in Modules, Turn(m),
           skipped' = Skip(m), threw' = threw \cup {m}
    PROVE  /\ skipped \subseteq skipped' /\ skipped' \subseteq Modules /\ threw' \subseteq skipped'
           /\ m \in skipped'
           /\ \A k \in Modules : In(k, order) /\ deps[k] \cap skipped' # {} => k \in skipped'
           /\ \A k \in skipped' : k \in threw' \/ deps[k] \cap skipped' # {}
           /\ \A k \in skipped' : state[k] # "Started"
<1>1. Inv /\ TypeOK /\ StartInv /\ DependenciesStarted
  BY DEF IInv, Inv
<1>2. skipped \subseteq Modules /\ threw \subseteq skipped /\ Known \subseteq Modules
  BY <1>1 DEF TypeOK, Known
<1> DEFINE S == skipped \cup {m}
<1>3. S \in SUBSET Modules /\ skipped' = DependentsOf(S)
  BY <1>2 DEF Skip
<1>4. /\ \A k \in Modules : In(k, order) => k \in Known
      /\ \A k \in skipped : k \in threw \/ deps[k] \cap skipped # {}
      /\ \A k \in skipped : state[k] # "Started"
      /\ state[m] # "Started"
  <2>1. In(m, todo)
    BY TurnFacts
  <2> QED
    BY <1>1, <2>1 DEF StartInv
<1> HIDE DEF S
<1>5. /\ skipped' \in SUBSET (S \cup Known) /\ S \subseteq skipped'
      /\ \A k \in Known : deps[k] \cap skipped' # {} => k \in skipped'
      /\ \A k \in skipped' : k \in S \/ deps[k] \cap skipped' # {}
      /\ \A T \in SUBSET (S \cup Known) : S \subseteq T /\ TakesAlong(T) => skipped' \subseteq T
  BY <1>3, SkipFacts
<1>6. \A k \in skipped' : state[k] # "Started"
  <2>1. PICK D : D = skipped'
    OBVIOUS
  <2> DEFINE T == {k \in D : state[k] # "Started"}
  <2>2. T \in SUBSET (S \cup Known) /\ S \subseteq T
    BY <1>4, <1>5, <2>1 DEF S
  <2>3. TakesAlong(T)
    <3> SUFFICES ASSUME NEW k \in Known, NEW d \in deps[k], d \in T
                 PROVE  k \in T
      BY DEF TakesAlong
    <3>1. k \in D
      BY <1>5, <2>1
    <3>2. state[k] # "Started"
      BY <1>1 DEF DependenciesStarted, StartInv, Known
    <3> QED
      BY <3>1, <3>2
  <2>4. D \subseteq T
    BY <1>5, <2>1, <2>2, <2>3
  <2> QED
    BY <2>1, <2>4
<1>7. \A k \in skipped' : k \in threw' \/ deps[k] \cap skipped' # {}
  <2> TAKE k \in skipped'
  <2>1. CASE k \in skipped
    BY <1>4, <1>5, <2>1 DEF S
  <2>2. CASE k = m
    BY <2>2
  <2>3. CASE k \notin S
    BY <1>5, <2>3
  <2> QED
    BY <2>1, <2>2, <2>3 DEF S
<1>8. skipped \subseteq skipped' /\ m \in skipped' /\ skipped' \subseteq Modules
  BY <1>2, <1>5 DEF S
<1> QED
  BY <1>2, <1>4, <1>5, <1>6, <1>7, <1>8

\* What startAll() has skipped already.
LEMMA SkippedFacts ==
    ASSUME IInv, call = "startAll", skipped' = skipped, threw' = threw
    PROVE  /\ skipped' \subseteq Modules /\ threw' \subseteq skipped'
           /\ \A k \in Modules : In(k, order) /\ deps[k] \cap skipped' # {} => k \in skipped'
           /\ \A k \in skipped' : k \in threw' \/ deps[k] \cap skipped' # {}
           /\ \A k \in skipped' : state[k] # "Started"
<1>1. TypeOK /\ StartInv
  BY DEF IInv, Inv
<1> QED
  BY <1>1 DEF TypeOK, StartInv

LEMMA AbortStep ==
    ASSUME IInv, NEW m \in Modules, Turn(m), pass \in {"init", "start"}, Abort
    PROVE  IInv'
<1>1. Leave /\ UNCHANGED <<deps, state, startOrder, skipped, threw, owed, ups>>
  BY DEF Abort
<1>2. \A n \in Modules : state[n] # "Stopped"
  <2>1. CASE call = "startAll"
    BY <2>1 DEF IInv, StartInv
  <2>2. CASE call = "reload"
    <3>1. Reloading(m) /\ todo # <<>> /\ \A n \in Modules : n # m => state[n] # "Stopped"
      BY <2>2, CallFacts DEF OnlyOne
    <3>2. state[m] # "Stopped"
      BY <3>1 DEF Reloading, Turns, Down
    <3> QED
      BY <3>1, <3>2
  <2> QED
    BY <2>1, <2>2, CallFacts
<1> QED
  BY <1>1, <1>2, LeaveFacts

\* startAll() passes over a module that is skipped.
LEMMA SkippedTurn ==
    ASSUME IInv, call = "startAll", NEW m \in Modules, Turn(m), m \in skipped, Pass(m)
    PROVE  IInv'
<1>1. TurnTo(m, state[m]) /\ skipped' = skipped /\ threw' = threw /\ UNCHANGED ups
  BY PassIsTurn
<1>2. \A k \in Modules : state'[k] = state[k]
  BY DEF Pass
<1>3. TypeOK /\ StartInv
  BY DEF IInv, Inv
<1>4. state[m] \in {"Registered", "Initialized", "Started", "ShutDown"}
  BY <1>3, CallFacts DEF TypeOK, StartInv, Known
<1>5. /\ skipped' \subseteq Modules /\ threw' \subseteq skipped'
      /\ \A k \in Modules : In(k, order) /\ deps[k] \cap skipped' # {} => k \in skipped'
      /\ \A k \in skipped' : k \in threw' \/ deps[k] \cap skipped' # {}
      /\ \A k \in skipped' : state'[k] # "Started"
  BY <1>1, <1>2, SkippedFacts
<1>6. m \in skipped' /\ skipped \subseteq skipped'
  BY <1>1
<1>7. state[m] \in IF pass = "init" THEN {state[m], "Initialized"}
                                    ELSE {state[m], "Started", "ShutDown"}
  OBVIOUS
<1>8. loose' = {} /\ early' = {}
  BY <1>1, <1>3 DEF StartInv, ups
<1> QED
  BY <1>1, <1>4, <1>5, <1>6, <1>7, <1>8, StartTurn

LEMMA OnInitStep ==
    ASSUME IInv, NEW m \in Modules, OnInit(m)
    PROVE  IInv'
<1>1. Turn(m) /\ pass = "init"
  BY DEF OnInit, At, Turn
<1>2. Inv /\ TypeOK /\ StartInv
  BY DEF IInv, Inv
<1>3. call \in {"startAll", "reload"} /\ (Bulk <=> call = "startAll")
  BY <1>1, CallFacts DEF Bulk
<1>4. CASE Bulk /\ m \in skipped
  <2>1. Pass(m)
    BY <1>4 DEF OnInit
  <2> QED
    BY <1>1, <1>3, <1>4, <2>1, SkippedTurn
<1>5. CASE Becomes(m, "Initialized") /\ PutUp(m) /\ ~(Bulk /\ m \in skipped)
  <2>1. /\ state[m] \in Down
        /\ call = "startAll" => In(m, startOrder) /\ loose = {} /\ early = {}
    <3>1. CASE call = "startAll"
      <4>1. In(m, todo) /\ In(m, order) /\ m \in Known
        BY <1>1, <3>1, TurnFacts, CallFacts
      <4>2. ~Owes(m) /\ order = startOrder /\ loose = {} /\ early = {}
        BY <1>1, <1>2, <3>1, <4>1 DEF StartInv
      <4> QED
        BY <1>2, <4>1, <4>2 DEF Down, Owes, Between, Known, TypeOK
    <3>2. CASE call = "reload"
      BY <1>1, <3>2, CallFacts DEF OnlyOne, Reloading, Turns
    <3> QED
      BY <1>3, <3>1, <3>2
  <2>2. /\ Booked /\ Moved(m, "Initialized")
        /\ call = "reload" => m \in early' \/ \A d \in deps[m] : state[d] = "Started"
        /\ call # "reload" => early' = early \ {m}
        /\ In(m, startOrder) => loose' = loose \ {m}
    BY <1>5, <2>1, PutUpFacts DEF Becomes
  <2>3. /\ TurnTo(m, "Initialized") /\ skipped' = skipped /\ threw' = threw
        /\ \A k \in Modules : state'[k] = IF k = m THEN "Initialized" ELSE state[k]
    BY <1>2, <1>5, <2>2 DEF Becomes, TurnTo, TypeOK
  <2>4. CASE call = "startAll"
    <3>1. /\ skipped' \subseteq Modules /\ threw' \subseteq skipped'
          /\ \A k \in Modules : In(k, order) /\ deps[k] \cap skipped' # {} => k \in skipped'
          /\ \A k \in skipped' : k \in threw' \/ deps[k] \cap skipped' # {}
          /\ \A k \in skipped' : state[k] # "Started"
      BY <2>3, <2>4, SkippedFacts
    <3>2. \A k \in skipped' : state'[k] # "Started"
      BY <2>3, <3>1
    <3>3. loose' = {} /\ early' = {}
      BY <2>1, <2>2, <2>4
    <3> QED
      BY <1>1, <2>3, <2>4, <3>1, <3>2, <3>3, StartTurn
  <2>5. CASE call = "reload"
    <3>1. state[m] # "Started"
      BY <2>1 DEF Down
    <3> QED
      BY <1>1, <2>2, <2>3, <2>5, <3>1, OneTurn
  <2> QED
    BY <1>3, <2>4, <2>5
<1>6. CASE Abort
  BY <1>1, <1>6, AbortStep
<1>7. CASE SkipIt(m) /\ UNCHANGED <<state, owed>>
  <2>1. /\ call = "startAll" /\ skipped' = Skip(m) /\ threw' = threw \cup {m}
        /\ todo' = Tail(todo) /\ UNCHANGED <<deps, startOrder, call, pass, order, state, owed>>
        /\ UNCHANGED ups /\ lost' = lost /\ loose' = loose /\ early' = early
    BY <1>3, <1>7 DEF SkipIt, ups
  <2>2. TurnTo(m, state[m])
    <3>1. state[m] \in {"absent", "Registered", "Initialized", "Started", "Stopped", "ShutDown"}
      BY <1>2 DEF TypeOK
    <3>2. state' = [state EXCEPT ![m] = state[m]] /\ (state[m] \in Between <=> Owes(m))
      BY <1>2, <2>1 DEF TypeOK, Owes
    <3>3. Booked /\ Moved(m, state[m])
      BY <2>1, <3>1, <3>2, BookFacts
    <3> QED
      BY <2>1, <3>2, <3>3 DEF TurnTo
  <2>3. state[m] \in {"Registered", "Initialized", "Started", "ShutDown"}
    BY <1>1, <1>2, <2>1, CallFacts DEF TypeOK, StartInv, Known
  <2>4. /\ skipped \subseteq skipped' /\ skipped' \subseteq Modules /\ threw' \subseteq skipped'
        /\ m \in skipped'
        /\ \A k \in Modules : In(k, order) /\ deps[k] \cap skipped' # {} => k \in skipped'
        /\ \A k \in skipped' : k \in threw' \/ deps[k] \cap skipped' # {}
        /\ \A k \in skipped' : state'[k] # "Started"
    BY <1>1, <2>1, SkipItFacts
  <2>5. loose' = {} /\ early' = {}
    BY <1>2, <2>1 DEF StartInv
  <2> QED
    BY <1>1, <2>1, <2>2, <2>3, <2>4, <2>5, StartTurn
<1> QED
  BY <1>4, <1>5, <1>6, <1>7 DEF OnInit

LEMMA OnStartStep ==
    ASSUME IInv, NEW m \in Modules, OnStart(m)
    PROVE  IInv'
<1>1. Turn(m) /\ pass = "start"
  BY DEF OnStart, At, Turn
<1>2. Inv /\ TypeOK /\ StartInv
  BY DEF IInv, Inv
<1>3. call \in {"startAll", "reload"} /\ (Bulk <=> call = "startAll")
  BY <1>1, CallFacts DEF Bulk
<1>4. /\ call = "startAll" => m \in skipped \/ state[m] = "Initialized"
      /\ call = "reload" => state[m] = "Initialized"
  <2>1. CASE call = "startAll"
    BY <1>1, <1>2, <2>1, TurnFacts DEF StartInv
  <2>2. CASE call = "reload"
    BY <1>1, <2>2, CallFacts DEF OnlyOne, Reloading, Turns
  <2> QED
    BY <1>3, <2>1, <2>2
<1>5. CASE Bulk /\ (m \in skipped \/ state[m] # "Initialized")
  <2>1. Pass(m) /\ m \in skipped
    BY <1>3, <1>4, <1>5 DEF OnStart
  <2> QED
    BY <1>1, <1>3, <1>5, <2>1, SkippedTurn
<1>6. ASSUME ~(Bulk /\ (m \in skipped \/ state[m] # "Initialized"))
      PROVE  state[m] = "Initialized" /\ Owes(m) /\ (call = "startAll" => m \notin skipped)
  <2>1. state[m] = "Initialized" /\ (call = "startAll" => m \notin skipped)
    BY <1>3, <1>4, <1>6
  <2> QED
    BY <2>1 DEF Owes, Between
<1>7. CASE /\ ~(Bulk /\ (m \in skipped \/ state[m] # "Initialized"))
           /\ Becomes(m, "Started") /\ UNCHANGED <<owed, ups>>
  <2>1. state[m] = "Initialized" /\ Owes(m) /\ (call = "startAll" => m \notin skipped)
    BY <1>6, <1>7
  <2>0. Booked /\ Moved(m, "Started")
    BY <1>7, <2>1, BookFacts DEF Becomes, Between, ups
  <2>2. /\ TurnTo(m, "Started") /\ skipped' = skipped /\ threw' = threw
        /\ \A k \in Modules : state'[k] = IF k = m THEN "Started" ELSE state[k]
    BY <1>2, <1>7, <2>0 DEF Becomes, TurnTo, TypeOK
  <2>3. CASE call = "startAll"
    <3>1. /\ skipped' \subseteq Modules /\ threw' \subseteq skipped'
          /\ \A k \in Modules : In(k, order) /\ deps[k] \cap skipped' # {} => k \in skipped'
          /\ \A k \in skipped' : k \in threw' \/ deps[k] \cap skipped' # {}
          /\ \A k \in skipped' : state[k] # "Started"
      BY <2>2, <2>3, SkippedFacts
    <3>2. \A k \in skipped' : state'[k] # "Started"
      BY <2>1, <2>2, <2>3, <3>1
    <3>3. loose' = {} /\ early' = {}
      BY <1>2, <1>7, <2>3 DEF StartInv, ups
    <3> QED
      BY <1>1, <2>2, <2>3, <3>1, <3>2, <3>3, StartTurn
  <2>4. CASE call = "reload"
    BY <1>1, <1>7, <2>1, <2>2, <2>4, OneTurn
  <2> QED
    BY <1>3, <2>3, <2>4
<1>8. CASE Abort
  BY <1>1, <1>8, AbortStep
<1>9. CASE /\ ~(Bulk /\ (m \in skipped \/ state[m] # "Initialized"))
           /\ SkipIt(m) /\ state' = [state EXCEPT ![m] = "ShutDown"] /\ ShutFailed(m)
  <2>1. state[m] = "Initialized" /\ Owes(m)
    BY <1>6, <1>9
  <2>2. /\ call = "startAll" /\ skipped' = Skip(m) /\ threw' = threw \cup {m}
        /\ todo' = Tail(todo) /\ UNCHANGED <<deps, startOrder, call, pass, order>>
        /\ owed' = [owed EXCEPT ![m] = @ - 1]
        /\ lost' = lost /\ loose' = loose /\ early' = early
    BY <1>3, <1>9 DEF SkipIt, ShutFailed, ups
  <2>6. loose' = {} /\ early' = {} /\ loose' = loose \ {m} /\ early' = early \ {m}
    BY <1>2, <2>2 DEF StartInv
  <2>7. Booked /\ Moved(m, "ShutDown")
    BY <1>9, <2>1, <2>2, <2>6, BookFacts DEF Between
  <2>3. /\ TurnTo(m, "ShutDown")
        /\ \A k \in Modules : state'[k] = IF k = m THEN "ShutDown" ELSE state[k]
    BY <1>2, <1>9, <2>2, <2>7 DEF TurnTo, TypeOK
  <2>4. /\ skipped \subseteq skipped' /\ skipped' \subseteq Modules /\ threw' \subseteq skipped'
        /\ m \in skipped'
        /\ \A k \in Modules : In(k, order) /\ deps[k] \cap skipped' # {} => k \in skipped'
        /\ \A k \in skipped' : k \in threw' \/ deps[k] \cap skipped' # {}
        /\ \A k \in skipped' : state[k] # "Started"
    BY <1>1, <2>2, SkipItFacts
  <2>5. \A k \in skipped' : state'[k] # "Started"
    BY <2>3, <2>4
  <2> QED
    BY <1>1, <2>2, <2>3, <2>4, <2>5, <2>6, StartTurn
<1> QED
  BY <1>5, <1>7, <1>8, <1>9 DEF OnStart

LEMMA OnStopStep ==
    ASSUME IInv, NEW m \in Modules, OnStop(m)
    PROVE  IInv'
<1>1. Turn(m) /\ pass = "stop"
  BY DEF OnStop, At, Turn
<1>2. Inv /\ TypeOK
  BY DEF IInv, Inv
<1>3. call \in {"stopAll", "unload", "reload"} /\ In(m, order)
  BY <1>1, CallFacts, TurnFacts
<1>4. call \in {"unload", "reload"} => state[m] \in Down \cup {"Started"}
  BY <1>1, CallFacts DEF OnlyOne, Unloading, Reloading, Turns
<1>5. CASE state[m] = "Started"
  <2>1. Becomes(m, "Stopped") /\ UNCHANGED <<owed, ups>> /\ Owes(m)
    BY <1>2, <1>5 DEF OnStop, Owes, Between
  <2>0. Booked /\ Moved(m, "Stopped")
    BY <2>1, BookFacts DEF Becomes, Between, ups
  <2>2. TurnTo(m, "Stopped") /\ skipped' = skipped /\ threw' = threw /\ "Stopped" \in Between
    BY <1>2, <2>0, <2>1 DEF Becomes, TurnTo, Between, TypeOK
  <2>3. CASE call = "stopAll"
    BY <1>1, <1>3, <1>5, <2>1, <2>2, <2>3, StopTurn
  <2>4. CASE call \in {"unload", "reload"}
    BY <1>1, <2>1, <2>2, <2>4, OneTurn
  <2> QED
    BY <1>3, <2>3, <2>4
<1>6. CASE state[m] # "Started"
  <2>1. TurnTo(m, state[m]) /\ skipped' = skipped /\ threw' = threw /\ UNCHANGED ups
    BY <1>6, PassIsTurn DEF OnStop
  <2>2. CASE call = "stopAll"
    <3>1. state[m] \in {"absent", "Registered", "Initialized", "Stopped", "ShutDown"}
      BY <1>2, <1>6, <2>2 DEF TypeOK
    <3>2. Owes(m) <=> state[m] \in Between
      BY DEF Owes
    <3> QED
      BY <1>1, <1>3, <2>1, <2>2, <3>1, <3>2, StopTurn
  <2>3. CASE call \in {"unload", "reload"}
    <3>1. state[m] \in Down
      BY <1>4, <1>6, <2>3
    <3>2. state[m] \in Between => Owes(m)
      BY DEF Owes
    <3>3. state[m] \in {"Registered", "Initialized", "Started", "Stopped", "ShutDown"}
      BY <3>1 DEF Down
    <3> QED
      BY <1>1, <2>1, <2>3, <3>1, <3>2, <3>3, OneTurn
  <2> QED
    BY <1>3, <2>2, <2>3
<1> QED
  BY <1>5, <1>6

LEMMA OnShutdownStep ==
    ASSUME IInv, NEW m \in Modules, OnShutdown(m)
    PROVE  IInv'
<1>1. Turn(m) /\ pass = "shutdown"
  BY DEF OnShutdown, At, Turn
<1>2. Inv /\ TypeOK
  BY DEF IInv, Inv
<1>3. call \in {"stopAll", "unload", "reload"} /\ In(m, order)
  BY <1>1, CallFacts, TurnFacts
<1>4. call \in {"unload", "reload"} => state[m] \in Down \cup {"Stopped"}
  BY <1>1, CallFacts DEF OnlyOne, Unloading, Reloading, Turns
<1>5. call = "stopAll" => state[m] # "Started"
  BY <1>1, <1>3 DEF IInv, StopInv
<1>6. CASE state[m] \in Owing
  <2>1. /\ Becomes(m, "ShutDown") /\ owed' = [owed EXCEPT ![m] = @ - 1] /\ lost' = lost
        /\ loose' = loose \ {m} /\ early' = early \ {m}
        /\ state[m] \in {"Stopped", "Initialized"} /\ Owes(m)
    BY <1>2, <1>6 DEF OnShutdown, Owing, Owes, Between
  <2>0. Booked /\ Moved(m, "ShutDown")
    BY <2>1, BookFacts DEF Becomes, Between
  <2>2. /\ TurnTo(m, "ShutDown") /\ skipped' = skipped /\ threw' = threw
        /\ "ShutDown" \notin Between /\ state[m] # "absent"
    BY <1>2, <2>0, <2>1 DEF Becomes, TurnTo, Between, TypeOK
  <2>3. CASE call = "stopAll"
    BY <1>1, <2>2, <2>3, StopTurn
  <2>4. CASE call \in {"unload", "reload"}
    BY <1>1, <2>2, <2>4, OneTurn DEF Down
  <2> QED
    BY <1>3, <2>3, <2>4
<1>7. CASE state[m] \notin Owing
  <2>1. TurnTo(m, state[m]) /\ skipped' = skipped /\ threw' = threw /\ UNCHANGED ups
    BY <1>7, PassIsTurn DEF OnShutdown
  <2>2. CASE call = "stopAll"
    <3>1. /\ state[m] \in {"absent", "Registered", "ShutDown"}
          /\ state[m] \in {"absent", "Registered", "Initialized", "Stopped", "ShutDown"}
          /\ state[m] \notin Between
      BY <1>2, <1>5, <1>7, <2>2 DEF TypeOK, Owing, Bulk, Between
    <3> QED
      BY <1>1, <2>1, <2>2, <3>1, StopTurn
  <2>3. CASE call \in {"unload", "reload"}
    <3>1. state[m] \in Down
      BY <1>4, <1>7, <2>3 DEF Owing
    <3>2. state[m] \in Between => Owes(m)
      BY DEF Owes
    <3>3. state[m] \in {"Registered", "Initialized", "Started", "Stopped", "ShutDown"}
      BY <3>1 DEF Down
    <3> QED
      BY <1>1, <2>1, <2>3, <3>1, <3>2, <3>3, OneTurn
  <2> QED
    BY <1>3, <2>2, <2>3
<1> QED
  BY <1>6, <1>7

LEMMA StutterStep == IInv /\ UNCHANGED vars => IInv'
<1> SUFFICES ASSUME IInv, UNCHANGED vars
             PROVE  IInv'
  OBVIOUS
<1>1. /\ deps' = deps /\ state' = state /\ startOrder' = startOrder /\ call' = call
      /\ pass' = pass /\ order' = order /\ todo' = todo /\ skipped' = skipped
      /\ threw' = threw /\ owed' = owed /\ lost' = lost /\ loose' = loose /\ early' = early
  BY DEF vars, lvars, ups
<1>2. Known' = Known /\ \A m : (Owes(m)' <=> Owes(m)) /\ (Done(m)' <=> Done(m))
  BY <1>1 DEF Known, Owes, Done
<1>7. \A m : (Sound(m)' <=> Sound(m)) /\ (Ready(m)' <=> Ready(m))
  BY <1>1 DEF Sound, Ready
<1>3. Inv' /\ DependenciesStarted' /\ DependenciesOutlive'
  BY <1>1 DEF IInv, Inv, TypeOK, MustShutDown, DependenciesStarted, DependenciesOutlive
<1>4. OrderInv' /\ TodoInv'
  BY <1>1, <1>2, <1>7 DEF IInv, OrderInv, TodoInv
<1>5. StartInv' /\ StopInv'
  BY <1>1, <1>2, <1>7 DEF IInv, StartInv, StopInv
<1>6. OneInv'
  BY <1>1, <1>2, <1>7 DEF IInv, OneInv, OnlyOne, Unloading, Reloading, Turns
<1> QED
  BY <1>3, <1>4, <1>5, <1>6 DEF IInv

-----------------------------------------------------------------------------
\* The recorded state of every module, the order its callbacks come in and the
\* calls under way agree (IInv), for any number of modules, any dependencies
\* and whatever is unloaded and reloaded, up to what reload() put up out of
\* order, which IInv names.
THEOREM ModulesInvariant ==
    Spec => []IInv
<1>1. Init => IInv
  BY InitStep
<1>2. IInv /\ [Next]_vars => IInv'
  <2> SUFFICES ASSUME IInv, [Next]_vars
               PROVE  IInv'
    OBVIOUS
  <2>1. CASE StartAll
    BY <2>1, StartAllStep
  <2>2. CASE StopAll
    BY <2>2, StopAllStep
  <2>3. ASSUME NEW m \in Modules, Register(m)
        PROVE  IInv'
    BY <2>3, RegisterStep
  <2>4. ASSUME NEW m \in Modules, Unload(m) \/ Reload(m)
        PROVE  IInv'
    BY <2>4, OneBegins
  <2>5. ASSUME NEW m \in Modules, Callback(m)
        PROVE  IInv'
    BY <2>5, OnInitStep, OnStartStep, OnStopStep, OnShutdownStep, EraseStep DEF Callback
  <2>6. CASE NextPass
    BY <2>6, NextPassStep
  <2>7. CASE Return
    BY <2>7, ReturnStep
  <2>8. CASE UNCHANGED vars
    BY <2>8, StutterStep
  <2> QED
    BY <2>1, <2>2, <2>3, <2>4, <2>5, <2>6, <2>7, <2>8 DEF Next
<1> QED
  BY <1>1, <1>2, PTL DEF Spec

\* The recorded state tells what a module is owed: an onShutdown from its
\* onInit on, once; what unload() and reload() lose besides is the onShutdown
\* of a module that was only initialized.
THEOREM ShutdownBooks ==
    Spec => []Inv
<1>1. IInv => Inv
  BY DEF IInv
<1> QED
  BY <1>1, ModulesInvariant, PTL

\* A module is started only while everything it depends on is, but for one
\* that reload() put up too early or outside of the recorded order.
THEOREM DependenciesFirst ==
    Spec => []DependenciesStarted
<1>1. IInv => DependenciesStarted
  BY DEF IInv
<1> QED
  BY <1>1, ModulesInvariant, PTL

\* A module is initialized after what it depends on and shut down before it,
\* unless that failed and was skipped, with the same exception.
THEOREM DependenciesLast ==
    Spec => []DependenciesOutlive
<1>1. IInv => DependenciesOutlive
  BY DEF IInv
<1> QED
  BY <1>1, ModulesInvariant, PTL

\* stopAll() leaves nothing up, whatever startAll() or reload() left behind,
\* but what reload() put up without a place in the order that is recorded.
THEOREM StopAllComplete ==
    Spec => StopAllStopsAll
<1>1. ASSUME IInv, [Next]_vars
      PROVE  [call = "stopAll" /\ call' = "none" =>
                 \A m \in Modules :
                     owed'[m] = lost'[m] \/ (m \in loose' /\ startOrder # <<>>)]_vars
  <2> SUFFICES ASSUME Next, call = "stopAll", call' = "none", NEW m \in Modules
               PROVE  owed'[m] = lost'[m] \/ (m \in loose' /\ startOrder # <<>>)
    BY <1>1
  <2>1. TypeOK /\ Inv /\ StopInv /\ OrderInv /\ pass \in {"stop", "shutdown"}
    BY <1>1 DEF IInv, Inv, StopInv
  <2>2. Return
    <3>1. ~StartAll /\ ~StopAll /\ ~NextPass /\ \A n \in Modules : ~Register(n) /\ ~Unload(n) /\ ~Reload(n)
      BY DEF StartAll, StopAll, NextPass, Register, Unload, Reload, lvars
    <3>2. \A n \in Modules : ~OnInit(n) /\ ~OnStart(n) /\ ~Erase(n)
      BY <2>1 DEF OnInit, OnStart, Erase, At
    <3>3. \A n \in Modules : ~OnStop(n) /\ ~OnShutdown(n)
      BY DEF OnStop, OnShutdown, Becomes, Pass
    <3> QED
      BY <3>1, <3>2, <3>3 DEF Next, Callback
  <2>3. pass = "shutdown" /\ todo = <<>> /\ owed' = owed /\ lost' = lost /\ loose' = loose
    BY <2>1, <2>2, PassFacts DEF Return, ups
  <2>4. CASE Owes(m)
    <3>1. ~In(m, order)
      BY <2>1, <2>3, <2>4, EmptyFacts DEF StopInv
    <3>2. startOrder # <<>> /\ m \in loose
      BY <2>1, <2>4, <3>1 DEF StopInv, OrderInv
    <3> QED
      BY <2>3, <3>2
  <2>5. CASE ~Owes(m)
    BY <2>1, <2>3, <2>5, OwedFacts DEF TypeOK
  <2> QED
    BY <2>4, <2>5
<1> QED
  BY <1>1, ModulesInvariant, PTL DEF Spec, StopAllStopsAll

\* When startAll() returns, every module of its order is started, threw, or
\* depends on one that is not started.
THEOREM SkipsOnlyDependents ==
    Spec => SkipIsolates
<1>1. ASSUME IInv
      PROVE  Return /\ call = "startAll" =>
                \A i \in DOMAIN order :
                    \/ state[order[i]] = "Started"
                    \/ order[i] \in threw
                    \/ \E d \in deps[order[i]] : state[d] # "Started"
  <2> SUFFICES ASSUME Return, call = "startAll", NEW i \in DOMAIN order
               PROVE  \/ state[order[i]] = "Started"
                      \/ order[i] \in threw
                      \/ \E d \in deps[order[i]] : state[d] # "Started"
    OBVIOUS
  <2>1. TypeOK /\ StartInv /\ order \in Seq(Modules)
    BY <1>1 DEF IInv, Inv, TypeOK
  <2>2. pass = "start" /\ todo = <<>>
    BY <2>1, PassFacts DEF Return
  <2>3. order[i] \in Modules /\ In(order[i], order)
    BY <2>1, LenProperties, SeqFacts DEF In
  <2>4. Done(order[i])
    BY <2>2, <2>3, EmptyFacts DEF Done
  <2>5. order[i] \in skipped \/ state[order[i]] = "Started"
    BY <2>1, <2>2, <2>3, <2>4 DEF StartInv
  <2> QED
    BY <2>1, <2>5 DEF StartInv
<1> QED
  BY <1>1, ModulesInvariant, PTL DEF Spec, SkipIsolates
=============================================================================
