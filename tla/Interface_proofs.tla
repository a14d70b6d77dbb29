-------------------------- MODULE Interface_proofs ---------------------------
(***************************************************************************)
(* A hook is not called once it was cleared, a closing is told once, and   *)
(* nothing is written, recorded or destroyed while the GPU uses it: what   *)
(* Interface promises of windows, for every number of callers, frames in   *)
(* flight, images, surfaces and textures.  Each component has an inductive *)
(* invariant of its own; a step of Interface is a step of the component it *)
(* is about, or of none.                                                   *)
(***************************************************************************)
EXTENDS Interface, FiniteSetTheorems, SequenceTheorems, TLAPS

-----------------------------------------------------------------------------
\* The window module.

Ops == {"create", "close", "set", "clear", "title", "native"}
WmCommand == [by : Callers \cup {None}, op : Ops, handle : 0 .. MaxWindows]
CallSet == [Callers -> [at : {"idle", "posting", "waiting", "returned"}, op : Ops \cup {"none"},
                        handle : 0 .. MaxWindows, ok : BOOLEAN]]
WmFacts ==
    /\ Window!TypeOK
    /\ created \in 0 .. MaxWindows
    /\ queue \in Seq(WmCommand) /\ batch \in Seq(WmCommand)
    /\ winCall \in CallSet /\ winWindows \subseteq Window!Handles
    /\ \A c \in Callers : winCall[c].at = "posting" => winCall[c].op \in Ops
    /\ hook \in [Callers -> {"none", "set", "cleared", "destroyed"}]
    /\ told \in [Window!Handles -> Nat]

\* Where the control thread is while it calls a hook or executes commands.
WmTurn ==
    /\ winCalling # None => control = "hooks"
    /\ batch # <<>> => control \in {"run", "runLast"}

\* A command that is waited for is the only one of a caller who waits.
Meant(m) ==
    IF m.by = None THEN m.op \in {"title", "close"}
    ELSE winCall[m.by].at = "waiting" /\ winCall[m.by].op = m.op /\ winCall[m.by].handle = m.handle
WmMeant ==
    /\ \A i \in 1 .. Len(queue) : Meant(queue[i])
    /\ \A i \in 1 .. Len(batch) : Meant(batch[i])
WmOnce ==
    /\ \A i, j \in 1 .. Len(queue) : queue[i].by = queue[j].by /\ queue[i].by # None => i = j
    /\ \A i, j \in 1 .. Len(batch) : batch[i].by = batch[j].by /\ batch[i].by # None => i = j
    /\ \A i \in 1 .. Len(batch), j \in 1 .. Len(queue) : batch[i].by = queue[j].by => batch[i].by = None

\* A hook that is in the table is set, and stays so until the call that clears it returns.
WmHooks ==
    \A c \in Callers :
        /\ \A h \in Window!Handles : hooks[h] = c => hook[c] = "set"
        /\ winCall[c].op \in {"set", "clear"} => hook[c] = "set"
WmSetting ==
    \A c \in Callers : winCall[c].op = "set" /\ winCall[c].at \in {"posting", "waiting"} =>
        \A h \in Window!Handles : hooks[h] # c
WmClearing ==
    \A c \in Callers : winCall[c].op = "clear" =>
        \A h \in Window!Handles : hooks[h] = c => h = winCall[c].handle /\ winCall[c].at \in {"posting", "waiting"}

\* A call that has closed a window, and not returned, is the only one that will tell.
WmTold == \A h \in Window!Handles : told[h] <= 1 /\ (told[h] = 1 => h <= created /\ h \notin winWindows)
WmTelling ==
    \A c \in Callers : Window!HasClosed(c) =>
        /\ winCall[c].handle \in Window!Handles /\ winCall[c].handle <= created
        /\ winCall[c].handle \notin winWindows /\ told[winCall[c].handle] = 0
WmTeller ==
    \A c, d \in Callers : Window!HasClosed(c) /\ Window!HasClosed(d) /\ winCall[c].handle = winCall[d].handle => c = d

WmInv ==
    /\ WmFacts /\ WmTurn /\ WmMeant /\ WmOnce /\ WmHooks /\ WmSetting /\ WmClearing
    /\ WmTold /\ WmTelling /\ WmTeller /\ Window!FramesHaveWindows

\* A command is put behind the others; the first is taken.
Behind(m) ==
    /\ queue' \in Seq(WmCommand) /\ Len(queue) \in Nat /\ Len(queue') = Len(queue) + 1
    /\ queue'[Len(queue) + 1] = m /\ \A i \in 1 .. Len(queue) : queue'[i] = queue[i]
Taken ==
    /\ batch' \in Seq(WmCommand) /\ Len(batch) \in Nat \ {0} /\ Len(batch') = Len(batch) - 1
    /\ \A i \in 1 .. Len(batch') : batch'[i] = batch[i + 1] /\ i + 1 \in 2 .. Len(batch)
    /\ Head(batch) = batch[1] /\ batch[1] \in WmCommand

\* The call a command belongs to stays as it is.
Kept(m) == m.by # None => m.by \in Callers /\ winCall'[m.by] = winCall[m.by]

\* The call of c goes on, or is another; the others are as they were.
Moved(c, at) ==
    /\ winCall' \in CallSet /\ \A d \in Callers : d # c => winCall'[d] = winCall[d]
    /\ c \in Callers => /\ winCall'[c].at = at /\ winCall'[c].op = winCall[c].op
                         /\ winCall'[c].handle = winCall[c].handle
Became(c, at, op, h) ==
    /\ winCall' \in CallSet /\ \A d \in Callers : d # c => winCall'[d] = winCall[d]
    /\ winCall'[c].at = at /\ winCall'[c].op = op /\ winCall'[c].handle = h /\ winCall'[c].ok = FALSE

\* An answered command leaves the other callers as they are.
LEMMA WmAnswer ==
  ASSUME winCall \in CallSet, NEW b \in Callers \cup {None}, b \in Callers => winCall[b].at = "waiting",
         NEW ok \in BOOLEAN, Window!Answer(b, ok)
  PROVE  Moved(b, "returned")
  BY DEF Window!Answer, Moved, CallSet

\* Posting makes the caller wait, and its command the last one.
LEMMA WmPost ==
  ASSUME queue \in Seq(WmCommand), NEW m \in WmCommand, Window!Post(m)
  PROVE  Behind(m)
<1>1. queue' = Append(queue, m)
  BY DEF Window!Post
<1> QED
  BY <1>1 DEF Behind

\* What the window thread takes are the commands that were queued, in order.
LEMMA WmTake ==
  ASSUME batch \in Seq(WmCommand), batch # <<>>, batch' = Tail(batch)
  PROVE  Taken
<1>1. Len(batch) \in Nat \ {0}
  OBVIOUS
<1>2. /\ Tail(batch) \in Seq(WmCommand) /\ Len(Tail(batch)) = Len(batch) - 1
      /\ \A i \in 1 .. Len(batch) - 1 : Tail(batch)[i] = batch[i + 1]
      /\ Head(batch) = batch[1] /\ batch[1] \in WmCommand
  BY <1>1
<1>3. \A i \in 1 .. Len(batch) - 1 : i + 1 \in 2 .. Len(batch)
  BY <1>1
<1> QED
  BY <1>1, <1>2, <1>3 DEF Taken

\* Before its first step, the window module (window_module.cpp) satisfies the invariant.
LEMMA WmInit == Window!WindowConstants /\ Window!Init => WmInv
<1> SUFFICES ASSUME Window!WindowConstants, Window!Init PROVE WmInv
  OBVIOUS
<1> USE DEF Window!Init
<1>1. WmFacts
  BY DEF WmFacts, Window!TypeOK, Window!WindowConstants, Window!NoCall, WmCommand, CallSet, Ops, Window!Handles
<1>2. WmTurn
  BY DEF WmTurn
<1>3. WmMeant
  BY DEF WmMeant, Meant
<1>4. WmOnce
  BY DEF WmOnce
<1>5. WmHooks
  BY DEF WmHooks, Window!WindowConstants, Window!NoCall
<1>6. WmSetting
  BY DEF WmSetting, Window!NoCall
<1>7. WmClearing
  BY DEF WmClearing, Window!NoCall
<1>8. WmTold
  BY DEF WmTold, Window!Handles
<1>9. WmTelling
  BY DEF WmTelling, Window!HasClosed, Window!NoCall
<1>10. WmTeller
  BY DEF WmTeller, Window!HasClosed, Window!NoCall
<1>11. Window!FramesHaveWindows
  BY DEF Window!FramesHaveWindows
<1> QED
  BY <1>1, <1>2, <1>3, <1>4, <1>5, <1>6, <1>7, <1>8, <1>9, <1>10, <1>11 DEF WmInv

\* Each step of the window module preserves the invariant, part by part.
LEMMA WmStep == Window!WindowConstants /\ WmInv /\ [Window!Next]_(Window!vars) => WmInv'
<1> SUFFICES ASSUME Window!WindowConstants, WmInv, [Window!Next]_(Window!vars) PROVE WmInv'
  OBVIOUS
<1>f. WmFacts
  BY DEF WmInv
<1>t. WmTurn
  BY DEF WmInv
<1>m. WmMeant
  BY DEF WmInv
<1>o. WmOnce
  BY DEF WmInv
<1>h. WmHooks
  BY DEF WmInv
<1>s. WmSetting
  BY DEF WmInv
<1>g. WmClearing
  BY DEF WmInv
<1>p. WmTold
  BY DEF WmInv
<1>l. WmTelling
  BY DEF WmInv
<1>r. WmTeller
  BY DEF WmInv
<1>w. Window!FramesHaveWindows
  BY DEF WmInv
<1>a. /\ None \notin Callers /\ created \in Nat /\ Window!Handles \subseteq Nat /\ 0 \in 0 .. MaxWindows /\ (\A h \in Window!Handles : h \in 0 .. MaxWindows)
      /\ hooks \in [Window!Handles -> Callers \cup {None}] /\ hook \in [Callers -> {"none", "set", "cleared", "destroyed"}]
      /\ told \in [Window!Handles -> Nat] /\ winWindows \subseteq Window!Handles /\ (\A h \in winWindows : h <= created)
      /\ queue \in Seq(WmCommand) /\ batch \in Seq(WmCommand) /\ winCall \in CallSet
      /\ \A c \in Callers : winCall[c].handle \in 0 .. MaxWindows /\ winCall[c].ok \in BOOLEAN
  BY <1>f DEF WmFacts, Window!TypeOK, Window!WindowConstants, Window!Handles, CallSet
<1>b. /\ \A i \in 1 .. Len(queue) : queue[i].by # None => queue[i].by \in Callers
      /\ \A i \in 1 .. Len(batch) : batch[i].by # None => batch[i].by \in Callers
      /\ \A m \in WmCommand : m.by # None => m.by \in Callers
      /\ \A m \in WmCommand : m.op \in Ops /\ m.by \in Callers \cup {None}
  <2>1. \A m \in WmCommand : (m.by # None => m.by \in Callers) /\ m.op \in Ops /\ m.by \in Callers \cup {None}
    BY DEF WmCommand
  <2>2. (\A i \in 1 .. Len(queue) : queue[i] \in WmCommand) /\ \A i \in 1 .. Len(batch) : batch[i] \in WmCommand
    BY <1>a
  <2> QED
    BY <2>1, <2>2
<1>1. CASE Window!Loop
  <2>1. WmFacts'
    BY <1>f, <1>a, <1>1 DEF WmFacts, Window!TypeOK, Window!Loop
  <2>2. WmTurn'
    BY <1>t, <1>a, <1>1 DEF WmTurn, Window!Loop
  <2>3. WmMeant'
    BY <1>m, <1>1 DEF WmMeant, Meant, Window!Loop
  <2>4. WmOnce'
    BY <1>o, <1>1 DEF WmOnce, Window!Loop
  <2>5. WmHooks'
    BY <1>h, <1>1 DEF WmHooks, Window!Loop
  <2>6. WmSetting'
    BY <1>s, <1>1 DEF WmSetting, Window!Loop
  <2>7. WmClearing'
    BY <1>g, <1>1 DEF WmClearing, Window!Loop
  <2>8. WmTold'
    BY <1>p, <1>1 DEF WmTold, Window!Loop
  <2>9. WmTelling'
    BY <1>l, <1>1 DEF WmTelling, Window!HasClosed, Window!Loop
  <2>10. WmTeller'
    BY <1>r, <1>1 DEF WmTeller, Window!HasClosed, Window!Loop
  <2>11. Window!FramesHaveWindows'
    BY <1>w, <1>1 DEF Window!FramesHaveWindows, Window!Loop
  <2> QED
    BY <2>1, <2>2, <2>3, <2>4, <2>5, <2>6, <2>7, <2>8, <2>9, <2>10, <2>11 DEF WmInv
<1>2. CASE Window!WakeEvent
  <2>1. WmFacts'
    BY <1>f, <1>a, <1>2 DEF WmFacts, Window!TypeOK, Window!WakeEvent
  <2>2. WmTurn'
    BY <1>t, <1>a, <1>2 DEF WmTurn, Window!WakeEvent
  <2>3. WmMeant'
    BY <1>m, <1>2 DEF WmMeant, Meant, Window!WakeEvent
  <2>4. WmOnce'
    BY <1>o, <1>2 DEF WmOnce, Window!WakeEvent
  <2>5. WmHooks'
    BY <1>h, <1>2 DEF WmHooks, Window!WakeEvent
  <2>6. WmSetting'
    BY <1>s, <1>2 DEF WmSetting, Window!WakeEvent
  <2>7. WmClearing'
    BY <1>g, <1>2 DEF WmClearing, Window!WakeEvent
  <2>8. WmTold'
    BY <1>p, <1>2 DEF WmTold, Window!WakeEvent
  <2>9. WmTelling'
    BY <1>l, <1>2 DEF WmTelling, Window!HasClosed, Window!WakeEvent
  <2>10. WmTeller'
    BY <1>r, <1>2 DEF WmTeller, Window!HasClosed, Window!WakeEvent
  <2>11. Window!FramesHaveWindows'
    BY <1>w, <1>2 DEF Window!FramesHaveWindows, Window!WakeEvent
  <2> QED
    BY <2>1, <2>2, <2>3, <2>4, <2>5, <2>6, <2>7, <2>8, <2>9, <2>10, <2>11 DEF WmInv
<1>3. CASE Window!TimesOut
  <2>a. UNCHANGED <<running, winOwner, queue, woken, batch, winWindows, created, hooks, winCalling, winCall, hook, told>>
    BY <1>3 DEF Window!TimesOut
  <2>b. control = "wait" /\ control' = "hooks" /\ round' \subseteq Window!Handles
    BY <1>3 DEF Window!TimesOut, Window!Hooked
  <2>1. WmFacts'
    BY <1>f, <1>a, <2>a, <2>b DEF WmFacts, Window!TypeOK
  <2>2. WmTurn'
    BY <1>t, <1>a, <2>a, <2>b DEF WmTurn
  <2>3. WmMeant'
    BY <1>m, <2>a, <2>b DEF WmMeant, Meant
  <2>4. WmOnce'
    BY <1>o, <2>a, <2>b DEF WmOnce
  <2>5. WmHooks'
    BY <1>h, <2>a, <2>b DEF WmHooks
  <2>6. WmSetting'
    BY <1>s, <2>a, <2>b DEF WmSetting
  <2>7. WmClearing'
    BY <1>g, <2>a, <2>b DEF WmClearing
  <2>8. WmTold'
    BY <1>p, <2>a, <2>b DEF WmTold
  <2>9. WmTelling'
    BY <1>l, <2>a, <2>b DEF WmTelling, Window!HasClosed
  <2>10. WmTeller'
    BY <1>r, <2>a, <2>b DEF WmTeller, Window!HasClosed
  <2>11. Window!FramesHaveWindows'
    BY <1>w, <2>a, <2>b DEF Window!FramesHaveWindows
  <2> QED
    BY <2>1, <2>2, <2>3, <2>4, <2>5, <2>6, <2>7, <2>8, <2>9, <2>10, <2>11 DEF WmInv
<1>4. CASE Window!Swap
  <2>a. UNCHANGED <<running, winOwner, woken, winWindows, created, hooks, round, winCalling, winCall, hook, told>>
    BY <1>4 DEF Window!Swap
  <2>b. /\ batch' = queue /\ queue' = <<>> /\ Len(queue') = 0 /\ queue' \in Seq(WmCommand)
        /\ control \in {"swap", "drain"} /\ control' = IF control = "swap" THEN "run" ELSE "runLast"
    BY <1>4 DEF Window!Swap
  <2>1. WmFacts'
    BY <1>f, <1>a, <2>a, <2>b DEF WmFacts, Window!TypeOK
  <2>2. WmTurn'
    BY <1>t, <1>a, <2>a, <2>b DEF WmTurn
  <2>3. WmMeant'
    BY <1>m, <1>a, <2>a, <2>b DEF WmMeant, Meant
  <2>4. WmOnce'
    BY <1>o, <1>a, <2>a, <2>b DEF WmOnce
  <2>5. WmHooks'
    BY <1>h, <2>a, <2>b DEF WmHooks
  <2>6. WmSetting'
    BY <1>s, <2>a, <2>b DEF WmSetting
  <2>7. WmClearing'
    BY <1>g, <2>a, <2>b DEF WmClearing
  <2>8. WmTold'
    BY <1>p, <2>a, <2>b DEF WmTold
  <2>9. WmTelling'
    BY <1>l, <2>a, <2>b DEF WmTelling, Window!HasClosed
  <2>10. WmTeller'
    BY <1>r, <2>a, <2>b DEF WmTeller, Window!HasClosed
  <2>11. Window!FramesHaveWindows'
    BY <1>w, <2>a, <2>b DEF Window!FramesHaveWindows
  <2> QED
    BY <2>1, <2>2, <2>3, <2>4, <2>5, <2>6, <2>7, <2>8, <2>9, <2>10, <2>11 DEF WmInv
<1>5. ASSUME Head(batch).op = "create", Window!Execute PROVE WmInv'
  <2>a. Taken /\ batch[1].op = "create" /\ control \in {"run", "runLast"} /\ winCalling = None
    <3>1. Taken
      BY <1>a, <1>5, WmTake DEF Window!Execute
    <3> QED
      BY <1>b, <1>t, <1>5, <3>1 DEF WmTurn, Window!Execute, Taken, Ops
  <2>b. UNCHANGED <<running, winOwner, queue, woken, control, round, winCalling, hook, told>>
    BY <1>5 DEF Window!Execute
  <2>c. \/ created < MaxWindows /\ created' = created + 1 /\ winWindows' = winWindows \cup {created + 1} /\ hooks' = hooks
        \/ UNCHANGED <<created, winWindows, hooks>>
    BY <1>5, <2>a DEF Window!Execute, Taken, Window!DestroyWindow
  <2>d. /\ batch[1].by # None => /\ batch[1].by \in Callers /\ winCall[batch[1].by].at = "waiting"
                                 /\ winCall[batch[1].by].op = batch[1].op /\ winCall[batch[1].by].handle = batch[1].handle
        /\ batch[1].by = None => batch[1].op \in {"title", "close"}
        /\ \A i \in 2 .. Len(batch) : batch[i].by # None => batch[i].by # batch[1].by
        /\ \A i \in 1 .. Len(queue) : queue[i].by # None => queue[i].by # batch[1].by
    <3>1. /\ 1 \in 1 .. Len(batch) /\ \A i \in 2 .. Len(batch) : i \in 1 .. Len(batch) /\ i # 1
      BY <2>a DEF Taken
    <3> QED
      BY <1>m, <1>o, <1>b, <3>1 DEF WmMeant, WmOnce, Meant
  <2>e. Moved(batch[1].by, "returned")
    <3>1. batch[1].by \in Callers \cup {None} /\ (batch[1].by \in Callers => winCall[batch[1].by].at = "waiting")
      BY <1>a, <1>b, <2>a, <2>d DEF Taken
    <3>2. Window!Answer(batch[1].by, TRUE) \/ Window!Answer(batch[1].by, FALSE)
      BY <1>5, <2>a DEF Window!Execute, Taken
    <3> QED
      BY <1>a, <3>1, <3>2, WmAnswer
  <2>k. /\ \A i \in 2 .. Len(batch) : Kept(batch[i])
        /\ \A i \in 1 .. Len(queue) : Kept(queue[i])
    <3>1. \A i \in 2 .. Len(batch) : i \in 1 .. Len(batch)
      BY <2>a DEF Taken
    <3> QED
      BY <1>b, <2>d, <2>e, <3>1 DEF Kept, Moved
  <2>g. /\ hooks' = hooks /\ created' \in Nat /\ created <= created' /\ winWindows \subseteq winWindows'
        /\ created' \in 0 .. MaxWindows /\ winWindows' \subseteq Window!Handles /\ winWindows' \subseteq 1 .. created'
        /\ \A h \in winWindows' \ winWindows : ~(h <= created)
    <3>1. CASE UNCHANGED <<created, winWindows, hooks>>
      BY <1>a, <1>f, <3>1 DEF WmFacts, Window!TypeOK
    <3>2. CASE created < MaxWindows /\ created' = created + 1 /\ winWindows' = winWindows \cup {created + 1} /\ hooks' = hooks
      <4>1. created + 1 \in Window!Handles /\ created + 1 \in 0 .. MaxWindows /\ winWindows \subseteq 1 .. created
        BY <1>f, <3>2 DEF WmFacts, Window!TypeOK, Window!Handles, Window!WindowConstants
      <4>2. created \in Nat /\ winWindows' \ winWindows \subseteq {created + 1} /\ winWindows' \subseteq 1 .. created + 1
        BY <1>a, <3>2, <4>1
      <4> QED
        BY <1>a, <3>2, <4>1, <4>2
    <3> QED
      BY <2>c, <3>1, <3>2
  <2>1. WmFacts'
    BY <1>f, <1>a, <2>a, <2>b, <2>d, <2>e, <2>g DEF WmFacts, Window!TypeOK, Moved, Taken
  <2>2. WmTurn'
    BY <1>t, <1>a, <2>a, <2>b, <2>d, <2>e, <2>g DEF WmTurn
  <2>3. WmMeant'
    <3>1. \A i \in 1 .. Len(batch') : i + 1 \in 2 .. Len(batch) /\ i + 1 \in 1 .. Len(batch) /\ batch'[i] = batch[i + 1]
      BY <2>a DEF Taken
    <3>2. \A i \in 1 .. Len(batch') : Meant(batch'[i]) /\ Kept(batch'[i])
      BY <1>m, <2>k, <3>1 DEF WmMeant
    <3>3. \A i \in 1 .. Len(queue') : Meant(queue'[i]) /\ Kept(queue'[i])
      BY <1>m, <2>b, <2>k DEF WmMeant
    <3> QED
      BY <3>2, <3>3 DEF WmMeant, Meant, Kept
  <2>4. WmOnce'
    <3>1. \A i \in 1 .. Len(batch') : i \in Int /\ i + 1 \in 1 .. Len(batch) /\ batch'[i] = batch[i + 1]
      BY <2>a DEF Taken
    <3>2. \A i, j \in 1 .. Len(batch') : batch'[i].by = batch'[j].by /\ batch'[i].by # None => i = j
      <4> TAKE i, j \in 1 .. Len(batch')
      <4>1. batch[i + 1].by = batch[j + 1].by /\ batch[i + 1].by # None => i + 1 = j + 1
        BY <1>o, <3>1 DEF WmOnce
      <4> QED
        BY <3>1, <4>1
    <3> QED
      BY SMTT(40), <1>o, <2>b, <3>1, <3>2 DEF WmOnce
  <2>5. WmHooks'
    BY <1>h, <1>a, <2>a, <2>b, <2>d, <2>e, <2>g DEF WmHooks, Moved
  <2>6. WmSetting'
    BY <1>s, <1>a, <2>a, <2>b, <2>d, <2>e, <2>g DEF WmSetting, Moved
  <2>7. WmClearing'
    BY <1>g, <1>a, <2>a, <2>b, <2>d, <2>e, <2>g DEF WmClearing, Moved
  <2>8. WmTold'
    BY <1>p, <1>a, <2>a, <2>b, <2>d, <2>e, <2>g DEF WmTold, Moved
  <2>9. WmTelling'
    BY <1>l, <1>a, <2>a, <2>b, <2>d, <2>e, <2>g DEF WmTelling, Window!HasClosed, Moved
  <2>10. WmTeller'
    BY SMTT(40), <1>r, <1>a, <1>l, <2>a, <2>b, <2>d, <2>e, <2>g DEF WmTeller, Window!HasClosed, Moved, WmTelling
  <2>11. Window!FramesHaveWindows'
    BY <1>w, <1>a, <2>a, <2>b, <2>d, <2>e, <2>g DEF Window!FramesHaveWindows
  <2> QED
    BY <2>1, <2>2, <2>3, <2>4, <2>5, <2>6, <2>7, <2>8, <2>9, <2>10, <2>11 DEF WmInv
<1>6. ASSUME Head(batch).op = "close", Window!Execute PROVE WmInv'
  <2>a. Taken /\ batch[1].op = "close" /\ control \in {"run", "runLast"} /\ winCalling = None
    <3>1. Taken
      BY <1>a, <1>6, WmTake DEF Window!Execute
    <3> QED
      BY <1>b, <1>t, <1>6, <3>1 DEF WmTurn, Window!Execute, Taken, Ops
  <2>b. UNCHANGED <<running, winOwner, queue, woken, control, round, winCalling, hook, told>>
    BY <1>6 DEF Window!Execute
  <2>c. /\ winWindows' = winWindows \ {batch[1].handle} /\ created' = created
        /\ hooks' = IF batch[1].handle \in winWindows THEN [hooks EXCEPT ![batch[1].handle] = None] ELSE hooks
    BY <1>6, <2>a DEF Window!Execute, Taken, Window!DestroyWindow
  <2>d. /\ batch[1].by # None => /\ batch[1].by \in Callers /\ winCall[batch[1].by].at = "waiting"
                                 /\ winCall[batch[1].by].op = batch[1].op /\ winCall[batch[1].by].handle = batch[1].handle
        /\ batch[1].by = None => batch[1].op \in {"title", "close"}
        /\ \A i \in 2 .. Len(batch) : batch[i].by # None => batch[i].by # batch[1].by
        /\ \A i \in 1 .. Len(queue) : queue[i].by # None => queue[i].by # batch[1].by
    <3>1. /\ 1 \in 1 .. Len(batch) /\ \A i \in 2 .. Len(batch) : i \in 1 .. Len(batch) /\ i # 1
      BY <2>a DEF Taken
    <3> QED
      BY <1>m, <1>o, <1>b, <3>1 DEF WmMeant, WmOnce, Meant
  <2>e. Moved(batch[1].by, "returned") /\ (batch[1].by \in Callers /\ winCall'[batch[1].by].ok => batch[1].handle \in winWindows)
    <3>1. batch[1].by \in Callers \cup {None} /\ (batch[1].by \in Callers => winCall[batch[1].by].at = "waiting")
      BY <1>a, <1>b, <2>a, <2>d DEF Taken
    <3>2. Window!Answer(batch[1].by, batch[1].handle \in winWindows)
      BY <1>6, <2>a DEF Window!Execute, Taken
    <3>3. CASE batch[1].handle \in winWindows
      <4>1. Window!Answer(batch[1].by, TRUE)
        BY <3>2, <3>3 DEF Window!Answer
      <4> QED
        BY <1>a, <3>1, <3>3, <4>1, WmAnswer
    <3>4. CASE batch[1].handle \notin winWindows
      <4>0. (batch[1].handle \in winWindows) = FALSE
        BY <3>4
      <4>1. Window!Answer(batch[1].by, FALSE)
        BY <3>2, <4>0, Zenon
      <4>2. batch[1].by \in Callers => ~winCall'[batch[1].by].ok
        BY <1>a, <3>1, <4>1 DEF Window!Answer, CallSet
      <4> QED
        BY <1>a, <3>1, <4>1, <4>2, WmAnswer
    <3> QED
      BY <3>3, <3>4
  <2>k. /\ \A i \in 2 .. Len(batch) : Kept(batch[i])
        /\ \A i \in 1 .. Len(queue) : Kept(queue[i])
    <3>1. \A i \in 2 .. Len(batch) : i \in 1 .. Len(batch)
      BY <2>a DEF Taken
    <3> QED
      BY <1>b, <2>d, <2>e, <3>1 DEF Kept, Moved
  <2>1. WmFacts'
    BY <1>f, <1>a, <2>a, <2>b, <2>d, <2>e, <2>c DEF WmFacts, Window!TypeOK, Moved, Taken
  <2>2. WmTurn'
    BY <1>t, <1>a, <2>a, <2>b, <2>d, <2>e, <2>c DEF WmTurn
  <2>3. WmMeant'
    <3>1. \A i \in 1 .. Len(batch') : i + 1 \in 2 .. Len(batch) /\ i + 1 \in 1 .. Len(batch) /\ batch'[i] = batch[i + 1]
      BY <2>a DEF Taken
    <3>2. \A i \in 1 .. Len(batch') : Meant(batch'[i]) /\ Kept(batch'[i])
      BY <1>m, <2>k, <3>1 DEF WmMeant
    <3>3. \A i \in 1 .. Len(queue') : Meant(queue'[i]) /\ Kept(queue'[i])
      BY <1>m, <2>b, <2>k DEF WmMeant
    <3> QED
      BY <3>2, <3>3 DEF WmMeant, Meant, Kept
  <2>4. WmOnce'
    <3>1. \A i \in 1 .. Len(batch') : i \in Int /\ i + 1 \in 1 .. Len(batch) /\ batch'[i] = batch[i + 1]
      BY <2>a DEF Taken
    <3>2. \A i, j \in 1 .. Len(batch') : batch'[i].by = batch'[j].by /\ batch'[i].by # None => i = j
      <4> TAKE i, j \in 1 .. Len(batch')
      <4>1. batch[i + 1].by = batch[j + 1].by /\ batch[i + 1].by # None => i + 1 = j + 1
        BY <1>o, <3>1 DEF WmOnce
      <4> QED
        BY <3>1, <4>1
    <3> QED
      BY SMTT(40), <1>o, <2>b, <3>1, <3>2 DEF WmOnce
  <2>5. WmHooks'
    BY <1>h, <1>a, <2>a, <2>b, <2>d, <2>e, <2>c DEF WmHooks, Moved
  <2>6. WmSetting'
    BY <1>s, <1>a, <2>a, <2>b, <2>d, <2>e, <2>c DEF WmSetting, Moved
  <2>7. WmClearing'
    BY <1>g, <1>a, <2>a, <2>b, <2>d, <2>e, <2>c DEF WmClearing, Moved
  <2>8. WmTold'
    BY <1>p, <1>a, <2>a, <2>b, <2>d, <2>e, <2>c DEF WmTold, Moved
  <2>9. WmTelling'
    <3>1. \A c \in Callers : /\ winCall'[c].handle = winCall[c].handle
                             /\ Window!HasClosed(c)' => Window!HasClosed(c) \/ (c = batch[1].by /\ winCall[c].handle \in winWindows)
      <4> TAKE c \in Callers
      <4>1. CASE c = batch[1].by
        BY <1>a, <2>a, <2>d, <2>e, <4>1 DEF Moved, Window!HasClosed
      <4>2. CASE c # batch[1].by
        <5>1. winCall'[c] = winCall[c]
          BY <2>e, <4>2 DEF Moved
        <5> QED
          BY <5>1 DEF Window!HasClosed
      <4> QED
        BY <4>1, <4>2
    <3>2. \A c \in Callers : Window!HasClosed(c)' /\ c = batch[1].by => batch[1].op = "close" /\ winCall[c].handle = batch[1].handle
      BY <1>a, <2>d, <2>e DEF Moved, Window!HasClosed
    <3>3. \A h \in winWindows : h \in Window!Handles /\ h <= created /\ told[h] = 0
      <4> TAKE h \in winWindows
      <4>1. h \in Window!Handles /\ h <= created /\ told[h] \in Nat
        BY <1>a
      <4>2. told[h] <= 1 /\ told[h] # 1
        BY <1>p, <4>1 DEF WmTold
      <4> QED
        BY <4>1, <4>2
    <3>4. \A c \in Callers : Window!HasClosed(c) => winCall[c].handle \notin winWindows'
      BY <1>l, <2>c DEF WmTelling
    <3>5. \A c \in Callers : Window!HasClosed(c)' => winCall[c].handle \notin winWindows'
      BY <2>a, <2>c, <3>1, <3>2, <3>4
    <3> QED
      BY <1>l, <2>b, <2>c, <3>1, <3>3, <3>5 DEF WmTelling
  <2>10. WmTeller'
    <3>1. \A c \in Callers : /\ winCall'[c].handle = winCall[c].handle
                             /\ Window!HasClosed(c)' => Window!HasClosed(c) \/ (c = batch[1].by /\ winCall[c].handle \in winWindows)
      <4> TAKE c \in Callers
      <4>1. CASE c = batch[1].by
        BY <1>a, <2>a, <2>d, <2>e, <4>1 DEF Moved, Window!HasClosed
      <4>2. CASE c # batch[1].by
        <5>1. winCall'[c] = winCall[c]
          BY <2>e, <4>2 DEF Moved
        <5> QED
          BY <5>1 DEF Window!HasClosed
      <4> QED
        BY <4>1, <4>2
    <3>2. \A c \in Callers : Window!HasClosed(c)' /\ c = batch[1].by => batch[1].op = "close" /\ winCall[c].handle = batch[1].handle
      BY <1>a, <2>d, <2>e DEF Moved, Window!HasClosed
    <3>3. \A c \in Callers : Window!HasClosed(c) => winCall[c].handle \notin winWindows
      BY <1>l DEF WmTelling
    <3> QED
      BY <1>r, <3>1, <3>3 DEF WmTeller
  <2>11. Window!FramesHaveWindows'
    BY <1>w, <1>a, <2>a, <2>b, <2>d, <2>e, <2>c DEF Window!FramesHaveWindows
  <2> QED
    BY <2>1, <2>2, <2>3, <2>4, <2>5, <2>6, <2>7, <2>8, <2>9, <2>10, <2>11 DEF WmInv
<1>7. ASSUME Head(batch).op = "set", Window!Execute PROVE WmInv'
  <2>a. Taken /\ batch[1].op = "set" /\ control \in {"run", "runLast"} /\ winCalling = None
    <3>1. Taken
      BY <1>a, <1>7, WmTake DEF Window!Execute
    <3> QED
      BY <1>b, <1>t, <1>7, <3>1 DEF WmTurn, Window!Execute, Taken, Ops
  <2>b. UNCHANGED <<running, winOwner, queue, woken, control, round, winCalling, hook, told>>
    BY <1>7 DEF Window!Execute
  <2>c. hooks' = [hooks EXCEPT ![batch[1].handle] = batch[1].by] /\ UNCHANGED <<created, winWindows>>
    BY <1>7, <2>a DEF Window!Execute, Taken, Window!DestroyWindow
  <2>d. /\ batch[1].by # None => /\ batch[1].by \in Callers /\ winCall[batch[1].by].at = "waiting"
                                 /\ winCall[batch[1].by].op = batch[1].op /\ winCall[batch[1].by].handle = batch[1].handle
        /\ batch[1].by = None => batch[1].op \in {"title", "close"}
        /\ \A i \in 2 .. Len(batch) : batch[i].by # None => batch[i].by # batch[1].by
        /\ \A i \in 1 .. Len(queue) : queue[i].by # None => queue[i].by # batch[1].by
    <3>1. /\ 1 \in 1 .. Len(batch) /\ \A i \in 2 .. Len(batch) : i \in 1 .. Len(batch) /\ i # 1
      BY <2>a DEF Taken
    <3> QED
      BY <1>m, <1>o, <1>b, <3>1 DEF WmMeant, WmOnce, Meant
  <2>e. Moved(batch[1].by, "returned")
    <3>1. batch[1].by \in Callers \cup {None} /\ (batch[1].by \in Callers => winCall[batch[1].by].at = "waiting")
      BY <1>a, <1>b, <2>a, <2>d DEF Taken
    <3>2. Window!Answer(batch[1].by, TRUE)
      BY <1>7, <2>a DEF Window!Execute, Taken
    <3> QED
      BY <1>a, <3>1, <3>2, WmAnswer
  <2>k. /\ \A i \in 2 .. Len(batch) : Kept(batch[i])
        /\ \A i \in 1 .. Len(queue) : Kept(queue[i])
    <3>1. \A i \in 2 .. Len(batch) : i \in 1 .. Len(batch)
      BY <2>a DEF Taken
    <3> QED
      BY <1>b, <2>d, <2>e, <3>1 DEF Kept, Moved
  <2>1. WmFacts'
    BY <1>f, <1>a, <2>a, <2>b, <2>d, <2>e, <2>c DEF WmFacts, Window!TypeOK, Moved, Taken
  <2>2. WmTurn'
    BY <1>t, <1>a, <2>a, <2>b, <2>d, <2>e, <2>c DEF WmTurn
  <2>3. WmMeant'
    <3>1. \A i \in 1 .. Len(batch') : i + 1 \in 2 .. Len(batch) /\ i + 1 \in 1 .. Len(batch) /\ batch'[i] = batch[i + 1]
      BY <2>a DEF Taken
    <3>2. \A i \in 1 .. Len(batch') : Meant(batch'[i]) /\ Kept(batch'[i])
      BY <1>m, <2>k, <3>1 DEF WmMeant
    <3>3. \A i \in 1 .. Len(queue') : Meant(queue'[i]) /\ Kept(queue'[i])
      BY <1>m, <2>b, <2>k DEF WmMeant
    <3> QED
      BY <3>2, <3>3 DEF WmMeant, Meant, Kept
  <2>4. WmOnce'
    <3>1. \A i \in 1 .. Len(batch') : i \in Int /\ i + 1 \in 1 .. Len(batch) /\ batch'[i] = batch[i + 1]
      BY <2>a DEF Taken
    <3>2. \A i, j \in 1 .. Len(batch') : batch'[i].by = batch'[j].by /\ batch'[i].by # None => i = j
      <4> TAKE i, j \in 1 .. Len(batch')
      <4>1. batch[i + 1].by = batch[j + 1].by /\ batch[i + 1].by # None => i + 1 = j + 1
        BY <1>o, <3>1 DEF WmOnce
      <4> QED
        BY <3>1, <4>1
    <3> QED
      BY SMTT(40), <1>o, <2>b, <3>1, <3>2 DEF WmOnce
  <2>5. WmHooks'
    BY <1>h, <1>a, <2>a, <2>b, <2>d, <2>e, <2>c DEF WmHooks, Moved
  <2>6. WmSetting'
    BY <1>s, <1>a, <2>a, <2>b, <2>d, <2>e, <2>c DEF WmSetting, Moved
  <2>7. WmClearing'
    BY <1>g, <1>a, <2>a, <2>b, <2>d, <2>e, <2>c DEF WmClearing, Moved
  <2>8. WmTold'
    BY <1>p, <1>a, <2>a, <2>b, <2>d, <2>e, <2>c DEF WmTold, Moved
  <2>9. WmTelling'
    BY <1>l, <1>a, <2>a, <2>b, <2>d, <2>e, <2>c DEF WmTelling, Window!HasClosed, Moved
  <2>10. WmTeller'
    BY SMTT(40), <1>r, <1>a, <1>l, <2>a, <2>b, <2>d, <2>e, <2>c DEF WmTeller, Window!HasClosed, Moved, WmTelling
  <2>11. Window!FramesHaveWindows'
    BY <1>w, <1>a, <2>a, <2>b, <2>d, <2>e, <2>c DEF Window!FramesHaveWindows
  <2> QED
    BY <2>1, <2>2, <2>3, <2>4, <2>5, <2>6, <2>7, <2>8, <2>9, <2>10, <2>11 DEF WmInv
<1>8. ASSUME Head(batch).op = "clear", Window!Execute PROVE WmInv'
  <2>a. Taken /\ batch[1].op = "clear" /\ control \in {"run", "runLast"} /\ winCalling = None
    <3>1. Taken
      BY <1>a, <1>8, WmTake DEF Window!Execute
    <3> QED
      BY <1>b, <1>t, <1>8, <3>1 DEF WmTurn, Window!Execute, Taken, Ops
  <2>b. UNCHANGED <<running, winOwner, queue, woken, control, round, winCalling, hook, told>>
    BY <1>8 DEF Window!Execute
  <2>c. hooks' = [hooks EXCEPT ![batch[1].handle] = None] /\ UNCHANGED <<created, winWindows>>
    BY <1>8, <2>a DEF Window!Execute, Taken, Window!DestroyWindow
  <2>d. /\ batch[1].by # None => /\ batch[1].by \in Callers /\ winCall[batch[1].by].at = "waiting"
                                 /\ winCall[batch[1].by].op = batch[1].op /\ winCall[batch[1].by].handle = batch[1].handle
        /\ batch[1].by = None => batch[1].op \in {"title", "close"}
        /\ \A i \in 2 .. Len(batch) : batch[i].by # None => batch[i].by # batch[1].by
        /\ \A i \in 1 .. Len(queue) : queue[i].by # None => queue[i].by # batch[1].by
    <3>1. /\ 1 \in 1 .. Len(batch) /\ \A i \in 2 .. Len(batch) : i \in 1 .. Len(batch) /\ i # 1
      BY <2>a DEF Taken
    <3> QED
      BY <1>m, <1>o, <1>b, <3>1 DEF WmMeant, WmOnce, Meant
  <2>e. Moved(batch[1].by, "returned")
    <3>1. batch[1].by \in Callers \cup {None} /\ (batch[1].by \in Callers => winCall[batch[1].by].at = "waiting")
      BY <1>a, <1>b, <2>a, <2>d DEF Taken
    <3>2. Window!Answer(batch[1].by, TRUE)
      BY <1>8, <2>a DEF Window!Execute, Taken
    <3> QED
      BY <1>a, <3>1, <3>2, WmAnswer
  <2>k. /\ \A i \in 2 .. Len(batch) : Kept(batch[i])
        /\ \A i \in 1 .. Len(queue) : Kept(queue[i])
    <3>1. \A i \in 2 .. Len(batch) : i \in 1 .. Len(batch)
      BY <2>a DEF Taken
    <3> QED
      BY <1>b, <2>d, <2>e, <3>1 DEF Kept, Moved
  <2>1. WmFacts'
    BY <1>f, <1>a, <2>a, <2>b, <2>d, <2>e, <2>c DEF WmFacts, Window!TypeOK, Moved, Taken
  <2>2. WmTurn'
    BY <1>t, <1>a, <2>a, <2>b, <2>d, <2>e, <2>c DEF WmTurn
  <2>3. WmMeant'
    <3>1. \A i \in 1 .. Len(batch') : i + 1 \in 2 .. Len(batch) /\ i + 1 \in 1 .. Len(batch) /\ batch'[i] = batch[i + 1]
      BY <2>a DEF Taken
    <3>2. \A i \in 1 .. Len(batch') : Meant(batch'[i]) /\ Kept(batch'[i])
      BY <1>m, <2>k, <3>1 DEF WmMeant
    <3>3. \A i \in 1 .. Len(queue') : Meant(queue'[i]) /\ Kept(queue'[i])
      BY <1>m, <2>b, <2>k DEF WmMeant
    <3> QED
      BY <3>2, <3>3 DEF WmMeant, Meant, Kept
  <2>4. WmOnce'
    <3>1. \A i \in 1 .. Len(batch') : i \in Int /\ i + 1 \in 1 .. Len(batch) /\ batch'[i] = batch[i + 1]
      BY <2>a DEF Taken
    <3>2. \A i, j \in 1 .. Len(batch') : batch'[i].by = batch'[j].by /\ batch'[i].by # None => i = j
      <4> TAKE i, j \in 1 .. Len(batch')
      <4>1. batch[i + 1].by = batch[j + 1].by /\ batch[i + 1].by # None => i + 1 = j + 1
        BY <1>o, <3>1 DEF WmOnce
      <4> QED
        BY <3>1, <4>1
    <3> QED
      BY SMTT(40), <1>o, <2>b, <3>1, <3>2 DEF WmOnce
  <2>5. WmHooks'
    BY <1>h, <1>a, <2>a, <2>b, <2>d, <2>e, <2>c DEF WmHooks, Moved
  <2>6. WmSetting'
    BY <1>s, <1>a, <2>a, <2>b, <2>d, <2>e, <2>c DEF WmSetting, Moved
  <2>7. WmClearing'
    BY <1>g, <1>a, <2>a, <2>b, <2>d, <2>e, <2>c DEF WmClearing, Moved
  <2>8. WmTold'
    BY <1>p, <1>a, <2>a, <2>b, <2>d, <2>e, <2>c DEF WmTold, Moved
  <2>9. WmTelling'
    BY <1>l, <1>a, <2>a, <2>b, <2>d, <2>e, <2>c DEF WmTelling, Window!HasClosed, Moved
  <2>10. WmTeller'
    BY SMTT(40), <1>r, <1>a, <1>l, <2>a, <2>b, <2>d, <2>e, <2>c DEF WmTeller, Window!HasClosed, Moved, WmTelling
  <2>11. Window!FramesHaveWindows'
    BY <1>w, <1>a, <2>a, <2>b, <2>d, <2>e, <2>c DEF Window!FramesHaveWindows
  <2> QED
    BY <2>1, <2>2, <2>3, <2>4, <2>5, <2>6, <2>7, <2>8, <2>9, <2>10, <2>11 DEF WmInv
<1>9. ASSUME Head(batch).op \notin {"create", "close", "set", "clear"}, Window!Execute PROVE WmInv'
  <2>a. Taken /\ batch[1].op \in {"title", "native"} /\ control \in {"run", "runLast"} /\ winCalling = None
    <3>1. Taken
      BY <1>a, <1>9, WmTake DEF Window!Execute
    <3> QED
      BY <1>b, <1>t, <1>9, <3>1 DEF WmTurn, Window!Execute, Taken, Ops
  <2>b. UNCHANGED <<running, winOwner, queue, woken, control, round, winCalling, hook, told>>
    BY <1>9 DEF Window!Execute
  <2>c. UNCHANGED <<created, winWindows, hooks>>
    BY <1>9, <2>a DEF Window!Execute, Taken
  <2>d. /\ batch[1].by # None => /\ batch[1].by \in Callers /\ winCall[batch[1].by].at = "waiting"
                                 /\ winCall[batch[1].by].op = batch[1].op /\ winCall[batch[1].by].handle = batch[1].handle
        /\ batch[1].by = None => batch[1].op \in {"title", "close"}
        /\ \A i \in 2 .. Len(batch) : batch[i].by # None => batch[i].by # batch[1].by
        /\ \A i \in 1 .. Len(queue) : queue[i].by # None => queue[i].by # batch[1].by
    <3>1. /\ 1 \in 1 .. Len(batch) /\ \A i \in 2 .. Len(batch) : i \in 1 .. Len(batch) /\ i # 1
      BY <2>a DEF Taken
    <3> QED
      BY <1>m, <1>o, <1>b, <3>1 DEF WmMeant, WmOnce, Meant
  <2>e. Moved(batch[1].by, "returned") /\ (batch[1].by \in Callers /\ winCall'[batch[1].by].ok => batch[1].handle \in winWindows)
    <3>1. batch[1].by \in Callers \cup {None} /\ (batch[1].by \in Callers => winCall[batch[1].by].at = "waiting")
      BY <1>a, <1>b, <2>a, <2>d DEF Taken
    <3>2. Window!Answer(batch[1].by, batch[1].handle \in winWindows)
      BY <1>9, <2>a DEF Window!Execute, Taken
    <3>3. CASE batch[1].handle \in winWindows
      <4>1. Window!Answer(batch[1].by, TRUE)
        BY <3>2, <3>3 DEF Window!Answer
      <4> QED
        BY <1>a, <3>1, <3>3, <4>1, WmAnswer
    <3>4. CASE batch[1].handle \notin winWindows
      <4>0. (batch[1].handle \in winWindows) = FALSE
        BY <3>4
      <4>1. Window!Answer(batch[1].by, FALSE)
        BY <3>2, <4>0, Zenon
      <4>2. batch[1].by \in Callers => ~winCall'[batch[1].by].ok
        BY <1>a, <3>1, <4>1 DEF Window!Answer, CallSet
      <4> QED
        BY <1>a, <3>1, <4>1, <4>2, WmAnswer
    <3> QED
      BY <3>3, <3>4
  <2>k. /\ \A i \in 2 .. Len(batch) : Kept(batch[i])
        /\ \A i \in 1 .. Len(queue) : Kept(queue[i])
    <3>1. \A i \in 2 .. Len(batch) : i \in 1 .. Len(batch)
      BY <2>a DEF Taken
    <3> QED
      BY <1>b, <2>d, <2>e, <3>1 DEF Kept, Moved
  <2>1. WmFacts'
    BY <1>f, <1>a, <2>a, <2>b, <2>d, <2>e, <2>c DEF WmFacts, Window!TypeOK, Moved, Taken
  <2>2. WmTurn'
    BY <1>t, <1>a, <2>a, <2>b, <2>d, <2>e, <2>c DEF WmTurn
  <2>3. WmMeant'
    <3>1. \A i \in 1 .. Len(batch') : i + 1 \in 2 .. Len(batch) /\ i + 1 \in 1 .. Len(batch) /\ batch'[i] = batch[i + 1]
      BY <2>a DEF Taken
    <3>2. \A i \in 1 .. Len(batch') : Meant(batch'[i]) /\ Kept(batch'[i])
      BY <1>m, <2>k, <3>1 DEF WmMeant
    <3>3. \A i \in 1 .. Len(queue') : Meant(queue'[i]) /\ Kept(queue'[i])
      BY <1>m, <2>b, <2>k DEF WmMeant
    <3> QED
      BY <3>2, <3>3 DEF WmMeant, Meant, Kept
  <2>4. WmOnce'
    <3>1. \A i \in 1 .. Len(batch') : i \in Int /\ i + 1 \in 1 .. Len(batch) /\ batch'[i] = batch[i + 1]
      BY <2>a DEF Taken
    <3>2. \A i, j \in 1 .. Len(batch') : batch'[i].by = batch'[j].by /\ batch'[i].by # None => i = j
      <4> TAKE i, j \in 1 .. Len(batch')
      <4>1. batch[i + 1].by = batch[j + 1].by /\ batch[i + 1].by # None => i + 1 = j + 1
        BY <1>o, <3>1 DEF WmOnce
      <4> QED
        BY <3>1, <4>1
    <3> QED
      BY SMTT(40), <1>o, <2>b, <3>1, <3>2 DEF WmOnce
  <2>5. WmHooks'
    BY <1>h, <1>a, <2>a, <2>b, <2>d, <2>e, <2>c DEF WmHooks, Moved
  <2>6. WmSetting'
    BY <1>s, <1>a, <2>a, <2>b, <2>d, <2>e, <2>c DEF WmSetting, Moved
  <2>7. WmClearing'
    BY <1>g, <1>a, <2>a, <2>b, <2>d, <2>e, <2>c DEF WmClearing, Moved
  <2>8. WmTold'
    BY <1>p, <1>a, <2>a, <2>b, <2>d, <2>e, <2>c DEF WmTold, Moved
  <2>9. WmTelling'
    <3>1. \A c \in Callers : /\ winCall'[c].handle = winCall[c].handle
                             /\ Window!HasClosed(c)' => Window!HasClosed(c) \/ (c = batch[1].by /\ winCall[c].handle \in winWindows)
      <4> TAKE c \in Callers
      <4>1. CASE c = batch[1].by
        BY <1>a, <2>a, <2>d, <2>e, <4>1 DEF Moved, Window!HasClosed
      <4>2. CASE c # batch[1].by
        <5>1. winCall'[c] = winCall[c]
          BY <2>e, <4>2 DEF Moved
        <5> QED
          BY <5>1 DEF Window!HasClosed
      <4> QED
        BY <4>1, <4>2
    <3>2. \A c \in Callers : Window!HasClosed(c)' /\ c = batch[1].by => batch[1].op = "close" /\ winCall[c].handle = batch[1].handle
      BY <1>a, <2>d, <2>e DEF Moved, Window!HasClosed
    <3>3. \A h \in winWindows : h \in Window!Handles /\ h <= created /\ told[h] = 0
      <4> TAKE h \in winWindows
      <4>1. h \in Window!Handles /\ h <= created /\ told[h] \in Nat
        BY <1>a
      <4>2. told[h] <= 1 /\ told[h] # 1
        BY <1>p, <4>1 DEF WmTold
      <4> QED
        BY <4>1, <4>2
    <3>4. \A c \in Callers : Window!HasClosed(c) => winCall[c].handle \notin winWindows'
      BY <1>l, <2>c DEF WmTelling
    <3>5. \A c \in Callers : Window!HasClosed(c)' => winCall[c].handle \notin winWindows'
      BY <2>a, <2>c, <3>1, <3>2, <3>4
    <3> QED
      BY <1>l, <2>b, <2>c, <3>1, <3>3, <3>5 DEF WmTelling
  <2>10. WmTeller'
    <3>1. \A c \in Callers : /\ winCall'[c].handle = winCall[c].handle
                             /\ Window!HasClosed(c)' => Window!HasClosed(c) \/ (c = batch[1].by /\ winCall[c].handle \in winWindows)
      <4> TAKE c \in Callers
      <4>1. CASE c = batch[1].by
        BY <1>a, <2>a, <2>d, <2>e, <4>1 DEF Moved, Window!HasClosed
      <4>2. CASE c # batch[1].by
        <5>1. winCall'[c] = winCall[c]
          BY <2>e, <4>2 DEF Moved
        <5> QED
          BY <5>1 DEF Window!HasClosed
      <4> QED
        BY <4>1, <4>2
    <3>2. \A c \in Callers : Window!HasClosed(c)' /\ c = batch[1].by => batch[1].op = "close" /\ winCall[c].handle = batch[1].handle
      BY <1>a, <2>d, <2>e DEF Moved, Window!HasClosed
    <3>3. \A c \in Callers : Window!HasClosed(c) => winCall[c].handle \notin winWindows
      BY <1>l DEF WmTelling
    <3> QED
      BY <1>r, <3>1, <3>3 DEF WmTeller
  <2>11. Window!FramesHaveWindows'
    BY <1>w, <1>a, <2>a, <2>b, <2>d, <2>e, <2>c DEF Window!FramesHaveWindows
  <2> QED
    BY <2>1, <2>2, <2>3, <2>4, <2>5, <2>6, <2>7, <2>8, <2>9, <2>10, <2>11 DEF WmInv
<1>10. CASE Window!Executed
  <2>a. UNCHANGED <<running, winOwner, queue, woken, batch, winWindows, created, hooks, winCalling, winCall, hook, told>>
    BY <1>10 DEF Window!Executed
  <2>b. /\ batch = <<>> /\ control \in {"run", "runLast"} /\ control' \in {"hooks", "clear"}
        /\ round' \subseteq Window!Handles /\ (winCalling = None)
    BY <1>f, <1>t, <1>10 DEF Window!Executed, Window!Hooked, WmTurn, WmFacts, Window!TypeOK
  <2>1. WmFacts'
    BY <1>f, <1>a, <2>a, <2>b DEF WmFacts, Window!TypeOK
  <2>2. WmTurn'
    BY <1>t, <1>a, <2>a, <2>b DEF WmTurn
  <2>3. WmMeant'
    BY <1>m, <2>a, <2>b DEF WmMeant, Meant
  <2>4. WmOnce'
    BY <1>o, <2>a, <2>b DEF WmOnce
  <2>5. WmHooks'
    BY <1>h, <2>a, <2>b DEF WmHooks
  <2>6. WmSetting'
    BY <1>s, <2>a, <2>b DEF WmSetting
  <2>7. WmClearing'
    BY <1>g, <2>a, <2>b DEF WmClearing
  <2>8. WmTold'
    BY <1>p, <2>a, <2>b DEF WmTold
  <2>9. WmTelling'
    BY <1>l, <2>a, <2>b DEF WmTelling, Window!HasClosed
  <2>10. WmTeller'
    BY <1>r, <2>a, <2>b DEF WmTeller, Window!HasClosed
  <2>11. Window!FramesHaveWindows'
    BY <1>w, <2>a, <2>b DEF Window!FramesHaveWindows
  <2> QED
    BY <2>1, <2>2, <2>3, <2>4, <2>5, <2>6, <2>7, <2>8, <2>9, <2>10, <2>11 DEF WmInv
<1>11. CASE Window!FrameDone
  <2>1. WmFacts'
    BY <1>f, <1>a, <1>11 DEF WmFacts, Window!TypeOK, Window!FrameDone
  <2>2. WmTurn'
    BY <1>t, <1>a, <1>11 DEF WmTurn, Window!FrameDone
  <2>3. WmMeant'
    BY <1>m, <1>11 DEF WmMeant, Meant, Window!FrameDone
  <2>4. WmOnce'
    BY <1>o, <1>11 DEF WmOnce, Window!FrameDone
  <2>5. WmHooks'
    BY <1>h, <1>11 DEF WmHooks, Window!FrameDone
  <2>6. WmSetting'
    BY <1>s, <1>11 DEF WmSetting, Window!FrameDone
  <2>7. WmClearing'
    BY <1>g, <1>11 DEF WmClearing, Window!FrameDone
  <2>8. WmTold'
    BY <1>p, <1>11 DEF WmTold, Window!FrameDone
  <2>9. WmTelling'
    BY <1>l, <1>11 DEF WmTelling, Window!HasClosed, Window!FrameDone
  <2>10. WmTeller'
    BY <1>r, <1>11 DEF WmTeller, Window!HasClosed, Window!FrameDone
  <2>11. Window!FramesHaveWindows'
    BY <1>w, <1>a, <1>11 DEF Window!FramesHaveWindows, Window!FrameDone
  <2> QED
    BY <2>1, <2>2, <2>3, <2>4, <2>5, <2>6, <2>7, <2>8, <2>9, <2>10, <2>11 DEF WmInv
<1>12. CASE Window!TurnDone
  <2>1. WmFacts'
    BY <1>f, <1>a, <1>12 DEF WmFacts, Window!TypeOK, Window!TurnDone
  <2>2. WmTurn'
    BY <1>t, <1>a, <1>12 DEF WmTurn, Window!TurnDone
  <2>3. WmMeant'
    BY <1>m, <1>12 DEF WmMeant, Meant, Window!TurnDone
  <2>4. WmOnce'
    BY <1>o, <1>12 DEF WmOnce, Window!TurnDone
  <2>5. WmHooks'
    BY <1>h, <1>12 DEF WmHooks, Window!TurnDone
  <2>6. WmSetting'
    BY <1>s, <1>12 DEF WmSetting, Window!TurnDone
  <2>7. WmClearing'
    BY <1>g, <1>12 DEF WmClearing, Window!TurnDone
  <2>8. WmTold'
    BY <1>p, <1>12 DEF WmTold, Window!TurnDone
  <2>9. WmTelling'
    BY <1>l, <1>12 DEF WmTelling, Window!HasClosed, Window!TurnDone
  <2>10. WmTeller'
    BY <1>r, <1>12 DEF WmTeller, Window!HasClosed, Window!TurnDone
  <2>11. Window!FramesHaveWindows'
    BY <1>w, <1>12 DEF Window!FramesHaveWindows, Window!TurnDone
  <2> QED
    BY <2>1, <2>2, <2>3, <2>4, <2>5, <2>6, <2>7, <2>8, <2>9, <2>10, <2>11 DEF WmInv
<1>13. CASE Window!Clear
  <2>a. UNCHANGED <<running, winOwner, queue, woken, batch, created, round, winCalling, winCall, hook, told>>
    BY <1>13 DEF Window!Clear
  <2>b. /\ control = "clear" /\ winWindows' = {} /\ control' = "gone" /\ winCalling = None
        /\ hooks' = [h \in Window!Handles |-> None]
    BY <1>t, <1>13 DEF Window!Clear, WmTurn
  <2>1. WmFacts'
    BY <1>f, <1>a, <2>a, <2>b DEF WmFacts, Window!TypeOK
  <2>2. WmTurn'
    BY <1>t, <1>a, <2>a, <2>b DEF WmTurn
  <2>3. WmMeant'
    BY <1>m, <2>a, <2>b DEF WmMeant, Meant
  <2>4. WmOnce'
    BY <1>o, <2>a, <2>b DEF WmOnce
  <2>5. WmHooks'
    BY <1>h, <1>a, <2>a, <2>b DEF WmHooks
  <2>6. WmSetting'
    BY <1>s, <1>a, <2>a, <2>b DEF WmSetting
  <2>7. WmClearing'
    BY <1>g, <1>a, <2>a, <2>b DEF WmClearing
  <2>8. WmTold'
    BY <1>p, <1>a, <2>a, <2>b DEF WmTold
  <2>9. WmTelling'
    BY <1>l, <1>a, <2>a, <2>b DEF WmTelling, Window!HasClosed
  <2>10. WmTeller'
    BY <1>r, <1>a, <2>a, <2>b DEF WmTeller, Window!HasClosed
  <2>11. Window!FramesHaveWindows'
    BY <1>w, <1>a, <2>a, <2>b DEF Window!FramesHaveWindows
  <2> QED
    BY <2>1, <2>2, <2>3, <2>4, <2>5, <2>6, <2>7, <2>8, <2>9, <2>10, <2>11 DEF WmInv
<1>14. ASSUME NEW h \in Window!Handles, Window!Frame(h) PROVE WmInv'
  <2>1. WmFacts'
    BY <1>f, <1>a, <1>14 DEF WmFacts, Window!TypeOK, Window!Frame, Window!HookOf
  <2>2. WmTurn'
    BY <1>t, <1>a, <1>14 DEF WmTurn, Window!Frame, Window!HookOf
  <2>3. WmMeant'
    BY <1>m, <1>14 DEF WmMeant, Meant, Window!Frame, Window!HookOf
  <2>4. WmOnce'
    BY <1>o, <1>14 DEF WmOnce, Window!Frame, Window!HookOf
  <2>5. WmHooks'
    BY <1>h, <1>14 DEF WmHooks, Window!Frame, Window!HookOf
  <2>6. WmSetting'
    BY <1>s, <1>14 DEF WmSetting, Window!Frame, Window!HookOf
  <2>7. WmClearing'
    BY <1>g, <1>14 DEF WmClearing, Window!Frame, Window!HookOf
  <2>8. WmTold'
    BY <1>p, <1>14 DEF WmTold, Window!Frame, Window!HookOf
  <2>9. WmTelling'
    BY <1>l, <1>14 DEF WmTelling, Window!HasClosed, Window!Frame, Window!HookOf
  <2>10. WmTeller'
    BY <1>r, <1>14 DEF WmTeller, Window!HasClosed, Window!Frame, Window!HookOf
  <2>11. Window!FramesHaveWindows'
    BY <1>w, <1>a, <1>14 DEF Window!FramesHaveWindows, Window!Frame, Window!HookOf
  <2> QED
    BY <2>1, <2>2, <2>3, <2>4, <2>5, <2>6, <2>7, <2>8, <2>9, <2>10, <2>11 DEF WmInv
<1>15. CASE Window!Shutdown
  <2>a. UNCHANGED <<queue, batch, control, winWindows, created, hooks, round, winCalling, winCall, hook, told>>
    BY <1>15 DEF Window!Shutdown
  <2>1. WmFacts'
    BY <1>f, <1>a, <2>a DEF WmFacts, Window!TypeOK
  <2>2. WmTurn'
    BY <1>t, <2>a DEF WmTurn
  <2>3. WmMeant'
    BY <1>m, <2>a DEF WmMeant, Meant
  <2>4. WmOnce'
    BY <1>o, <2>a DEF WmOnce
  <2>5. WmHooks'
    BY <1>h, <2>a DEF WmHooks
  <2>6. WmSetting'
    BY <1>s, <2>a DEF WmSetting
  <2>7. WmClearing'
    BY <1>g, <2>a DEF WmClearing
  <2>8. WmTold'
    BY <1>p, <2>a DEF WmTold
  <2>9. WmTelling'
    BY <1>l, <2>a DEF WmTelling, Window!HasClosed
  <2>10. WmTeller'
    BY <1>r, <2>a DEF WmTeller, Window!HasClosed
  <2>11. Window!FramesHaveWindows'
    BY <1>w, <2>a DEF Window!FramesHaveWindows
  <2> QED
    BY <2>1, <2>2, <2>3, <2>4, <2>5, <2>6, <2>7, <2>8, <2>9, <2>10, <2>11 DEF WmInv
<1>16. CASE Window!Joined
  <2>1. WmFacts'
    BY <1>f, <1>a, <1>16 DEF WmFacts, Window!TypeOK, Window!Joined
  <2>2. WmTurn'
    BY <1>t, <1>16 DEF WmTurn, Window!Joined
  <2>3. WmMeant'
    BY <1>m, <1>16 DEF WmMeant, Meant, Window!Joined
  <2>4. WmOnce'
    BY <1>o, <1>16 DEF WmOnce, Window!Joined
  <2>5. WmHooks'
    BY <1>h, <1>16 DEF WmHooks, Window!Joined
  <2>6. WmSetting'
    BY <1>s, <1>16 DEF WmSetting, Window!Joined
  <2>7. WmClearing'
    BY <1>g, <1>16 DEF WmClearing, Window!Joined
  <2>8. WmTold'
    BY <1>p, <1>16 DEF WmTold, Window!Joined
  <2>9. WmTelling'
    BY <1>l, <1>16 DEF WmTelling, Window!HasClosed, Window!Joined
  <2>10. WmTeller'
    BY <1>r, <1>16 DEF WmTeller, Window!HasClosed, Window!Joined
  <2>11. Window!FramesHaveWindows'
    BY <1>w, <1>16 DEF Window!FramesHaveWindows, Window!Joined
  <2> QED
    BY <2>1, <2>2, <2>3, <2>4, <2>5, <2>6, <2>7, <2>8, <2>9, <2>10, <2>11 DEF WmInv
<1>17. ASSUME NEW h \in Window!Handles, Window!CloseRequested(h) PROVE WmInv'
  <2>a. UNCHANGED <<running, winOwner, batch, created, winCalling, winCall, hook>>
    BY <1>17 DEF Window!CloseRequested
  <2>b. /\ control = "wait" /\ h \in winWindows /\ control' \in {"hooks", "ownCall"} /\ winCalling = None /\ batch = <<>>
        /\ round' \subseteq Window!Handles
    BY <1>f, <1>t, <1>17 DEF Window!CloseRequested, WmTurn, WmFacts, Window!TypeOK
  <2>c. \/ winWindows' = winWindows \ {h} /\ winWindows' \subseteq winWindows /\ hooks' = [hooks EXCEPT ![h] = None] /\ told' = [told EXCEPT ![h] = @ + 1]
        \/ UNCHANGED <<winWindows, hooks, told>>
    BY <1>17 DEF Window!CloseRequested, Window!DestroyWindow
  <2> DEFINE m == [by |-> None, op |-> "close", handle |-> h]
  <2>d. m \in WmCommand /\ m.by = None /\ m.op = "close"
    BY <1>a DEF WmCommand, Ops
  <2>e. Behind(m) \/ UNCHANGED queue
    BY <1>a, <1>17, <2>d, WmPost DEF Window!CloseRequested
  <2>f. told' \in [Window!Handles -> Nat] /\ hooks' \in [Window!Handles -> Callers \cup {None}] /\ winWindows' \subseteq winWindows
    BY <1>a, <2>b, <2>c
  <2> HIDE DEF m
  <2>1. WmFacts'
    BY <1>f, <1>a, <2>a, <2>b, <2>c, <2>d, <2>e, <2>f DEF WmFacts, Window!TypeOK, Behind
  <2>2. WmTurn'
    BY <1>t, <1>a, <2>a, <2>b, <2>c, <2>d, <2>e, <2>f DEF WmTurn
  <2>3. WmMeant'
    BY <1>m, <1>a, <2>a, <2>b, <2>c, <2>d, <2>e, <2>f DEF WmMeant, Meant, Behind
  <2>4. WmOnce'
    BY <1>o, <1>a, <1>b, <2>a, <2>b, <2>c, <2>d, <2>e, <2>f DEF WmOnce, Behind
  <2>5. WmHooks'
    BY <1>h, <1>a, <2>a, <2>b, <2>c, <2>d, <2>e, <2>f DEF WmHooks
  <2>6. WmSetting'
    BY <1>s, <1>a, <2>a, <2>b, <2>c, <2>d, <2>e, <2>f DEF WmSetting
  <2>7. WmClearing'
    BY <1>g, <1>a, <2>a, <2>b, <2>c, <2>d, <2>e, <2>f DEF WmClearing
  <2>8. WmTold'
    BY <1>p, <1>a, <2>a, <2>b, <2>c, <2>d, <2>e, <2>f DEF WmTold
  <2>9. WmTelling'
    BY <1>l, <1>a, <2>a, <2>b, <2>c, <2>d, <2>e, <2>f DEF WmTelling, Window!HasClosed
  <2>10. WmTeller'
    BY <1>r, <1>a, <2>a, <2>b, <2>c, <2>d, <2>e, <2>f DEF WmTeller, Window!HasClosed
  <2>11. Window!FramesHaveWindows'
    BY <1>w, <1>a, <2>a, <2>b, <2>c, <2>d, <2>e, <2>f DEF Window!FramesHaveWindows
  <2> QED
    BY <2>1, <2>2, <2>3, <2>4, <2>5, <2>6, <2>7, <2>8, <2>9, <2>10, <2>11 DEF WmInv
<1>18. ASSUME NEW c \in Callers, Window!Enqueue(c) PROVE WmInv'
  <2> DEFINE m == [by |-> IF Window!Waits(winCall[c].op) THEN c ELSE None, op |-> winCall[c].op, handle |-> winCall[c].handle]
  <2>a. /\ winCall[c].at = "posting" /\ winCall[c].op \in Ops
        /\ UNCHANGED <<running, winOwner, batch, control, winWindows, created, hooks, round, winCalling, hook, told>>
    BY <1>f, <1>18 DEF Window!Enqueue, WmFacts
  <2>b. m \in WmCommand
    BY <1>a, <2>a DEF WmCommand
  <2>c. Behind(m)
    BY <1>a, <1>18, <2>b, WmPost DEF Window!Enqueue
  <2>d. m.op = winCall[c].op /\ m.handle = winCall[c].handle /\ m.by = IF winCall[c].op # "title" THEN c ELSE None
    BY DEF Window!Waits
  <2>e. Moved(c, IF winCall[c].op # "title" THEN "waiting" ELSE "returned") /\ winCall'[c].ok = winCall[c].ok
    <3> DEFINE at == IF winCall[c].op # "title" THEN "waiting" ELSE "returned"
    <3>1. winCall' = [winCall EXCEPT ![c].at = at] /\ at \in {"waiting", "returned"}
      BY <1>18 DEF Window!Enqueue, Window!Waits
    <3>2. winCall \in CallSet
      BY <1>a
    <3> HIDE DEF at
    <3>3. /\ winCall' \in CallSet /\ winCall'[c].at = at /\ winCall'[c].op = winCall[c].op
          /\ winCall'[c].handle = winCall[c].handle /\ winCall'[c].ok = winCall[c].ok
      BY <3>1, <3>2 DEF CallSet
    <3>4. \A d \in Callers : d # c => winCall'[d] = winCall[d]
      BY <3>1, <3>2 DEF CallSet
    <3>5. Moved(c, at)
      BY <3>3, <3>4 DEF Moved
    <3> QED
      BY <3>3, <3>5 DEF at
  <2> HIDE DEF m
  <2>k. \A i \in 1 .. Len(queue) : Kept(queue[i])
    BY <1>m, <1>b, <2>a, <2>e DEF WmMeant, Meant, Kept, Moved
  <2>m. \A i \in 1 .. Len(batch) : Kept(batch[i])
    BY <1>m, <1>b, <2>a, <2>e DEF WmMeant, Meant, Kept, Moved
  <2>1. WmFacts'
    BY <1>f, <1>a, <2>a, <2>b, <2>c, <2>d, <2>e, <2>k, <2>m DEF WmFacts, Window!TypeOK, Moved, Behind
  <2>2. WmTurn'
    BY <1>t, <2>a, <2>b, <2>c, <2>d, <2>e, <2>k, <2>m DEF WmTurn
  <2>3. WmMeant'
    <3>1. \A i \in 1 .. Len(batch') : Meant(batch'[i]) /\ Kept(batch'[i])
      BY <1>m, <2>a, <2>m DEF WmMeant
    <3>2. \A i \in 1 .. Len(queue') : queue'[i] = m \/ (Meant(queue'[i]) /\ Kept(queue'[i]))
      <4>1. \A i \in 1 .. Len(queue') : i = Len(queue) + 1 \/ (i \in 1 .. Len(queue) /\ queue'[i] = queue[i])
        BY <2>c DEF Behind
      <4> QED
        BY <1>m, <2>c, <2>k, <4>1 DEF WmMeant, Behind
    <3>3. /\ m.by = None => m.op = "title"
          /\ m.by # None => m.by = c /\ winCall'[c].at = "waiting" /\ winCall'[c].op = m.op /\ winCall'[c].handle = m.handle
      BY <1>a, <2>d, <2>e DEF Moved
    <3> QED
      BY <3>1, <3>2, <3>3 DEF WmMeant, Meant, Kept
  <2>4. WmOnce'
    <3>1. \A i \in 1 .. Len(queue') : /\ i \in Int
                                      /\ (i = Len(queue) + 1 /\ queue'[i] = m) \/ (i \in 1 .. Len(queue) /\ queue'[i] = queue[i])
      BY <2>c DEF Behind
    <3>2. /\ \A i \in 1 .. Len(queue) : queue[i].by # None => queue[i].by # c
          /\ \A i \in 1 .. Len(batch) : batch[i].by # None => batch[i].by # c
      BY <1>m, <2>a DEF WmMeant, Meant
    <3>3. m.by # None => m.by = c
      BY <2>d
    <3>4. \A i, j \in 1 .. Len(queue') : queue'[i].by = queue'[j].by /\ queue'[i].by # None => i = j
      BY <1>o, <3>1, <3>2, <3>3 DEF WmOnce
    <3>5. \A i \in 1 .. Len(batch), j \in 1 .. Len(queue') : batch[i].by = queue'[j].by => batch[i].by = None
      BY <1>o, <3>1, <3>2, <3>3 DEF WmOnce
    <3> QED
      BY <1>o, <2>a, <3>4, <3>5 DEF WmOnce
  <2>5. WmHooks'
    BY <1>h, <1>a, <2>a, <2>b, <2>c, <2>d, <2>e, <2>k, <2>m DEF WmHooks, Moved
  <2>6. WmSetting'
    BY <1>s, <1>a, <2>a, <2>b, <2>c, <2>d, <2>e, <2>k, <2>m DEF WmSetting, Moved
  <2>7. WmClearing'
    BY SMTT(40), <1>g, <1>a, <2>a, <2>b, <2>c, <2>d, <2>e, <2>k, <2>m DEF WmClearing, Moved
  <2>8. WmTold'
    BY <1>p, <1>a, <2>a, <2>b, <2>c, <2>d, <2>e, <2>k, <2>m DEF WmTold, Moved
  <2>9. WmTelling'
    BY SMTT(40), <1>l, <1>a, <2>a, <2>b, <2>c, <2>d, <2>e, <2>k, <2>m DEF WmTelling, Window!HasClosed, Moved
  <2>10. WmTeller'
    BY SMTT(40), <1>r, <1>a, <1>l, <2>a, <2>b, <2>c, <2>d, <2>e, <2>k, <2>m DEF WmTeller, Window!HasClosed, Moved, WmTelling
  <2>11. Window!FramesHaveWindows'
    BY <1>w, <2>a, <2>b, <2>c, <2>d, <2>e, <2>k, <2>m DEF Window!FramesHaveWindows
  <2> QED
    BY <2>1, <2>2, <2>3, <2>4, <2>5, <2>6, <2>7, <2>8, <2>9, <2>10, <2>11 DEF WmInv
<1>19. ASSUME NEW c \in Callers, Window!Return(c) PROVE WmInv'
  <2>a. Became(c, "idle", "none", 0)
    BY <1>a, <1>19 DEF Window!Return, Window!NoCall, Became, CallSet
  <2>b. /\ winCall[c].at = "returned"
        /\ told' = IF Window!HasClosed(c) THEN [told EXCEPT ![winCall[c].handle] = @ + 1] ELSE told
        /\ hook' = IF winCall[c].op = "clear" THEN [hook EXCEPT ![c] = "cleared"] ELSE hook
        /\ UNCHANGED <<running, winOwner, queue, woken, batch, control, winWindows, created, hooks, round, winCalling>>
    BY <1>19 DEF Window!Return
  <2>c. told' \in [Window!Handles -> Nat]
    BY <1>a, <1>l, <2>b DEF WmTelling
  <2>k. \A i \in 1 .. Len(queue) : Kept(queue[i])
    BY <1>m, <1>b, <2>a, <2>b DEF WmMeant, Meant, Kept, Became
  <2>m. \A i \in 1 .. Len(batch) : Kept(batch[i])
    BY <1>m, <1>b, <2>a, <2>b DEF WmMeant, Meant, Kept, Became
  <2>1. WmFacts'
    BY <1>f, <1>a, <2>a, <2>b, <2>c, <2>k, <2>m DEF WmFacts, Window!TypeOK, Became
  <2>2. WmTurn'
    BY <1>t, <2>a, <2>b, <2>c, <2>k, <2>m DEF WmTurn
  <2>3. WmMeant'
    <3>1. \A i \in 1 .. Len(batch') : Meant(batch'[i]) /\ Kept(batch'[i])
      BY <1>m, <2>b, <2>m DEF WmMeant
    <3>2. \A i \in 1 .. Len(queue') : Meant(queue'[i]) /\ Kept(queue'[i])
      BY <1>m, <2>b, <2>k DEF WmMeant
    <3> QED
      BY <3>1, <3>2 DEF WmMeant, Meant, Kept
  <2>4. WmOnce'
    BY <1>o, <1>a, <1>b, <2>a, <2>b, <2>c, <2>k, <2>m DEF WmOnce
  <2>5. WmHooks'
    <3>1. winCall[c].op = "clear" => \A h \in Window!Handles : hooks[h] # c
      BY <1>g, <2>b DEF WmClearing
    <3>2. \A d \in Callers : d # c => hook'[d] = hook[d] /\ winCall'[d] = winCall[d]
      BY <1>a, <2>a, <2>b DEF Became
    <3>3. hook'[c] = (IF winCall[c].op = "clear" THEN "cleared" ELSE hook[c]) /\ winCall'[c].op = "none" /\ hooks' = hooks
      BY <1>a, <2>a, <2>b DEF Became
    <3> QED
      BY <1>h, <3>1, <3>2, <3>3 DEF WmHooks
  <2>6. WmSetting'
    BY <1>s, <1>a, <2>a, <2>b, <2>c, <2>k, <2>m DEF WmSetting, Became
  <2>7. WmClearing'
    BY <1>g, <1>a, <2>a, <2>b, <2>c, <2>k, <2>m DEF WmClearing, Became
  <2>8. WmTold'
    BY <1>p, <1>a, <1>l, <2>a, <2>b, <2>c, <2>k, <2>m DEF WmTold, Became, WmTelling
  <2>9. WmTelling'
    BY <1>l, <1>a, <1>r, <2>a, <2>b, <2>c, <2>k, <2>m DEF WmTelling, Window!HasClosed, Became, WmTeller
  <2>10. WmTeller'
    BY <1>r, <1>a, <1>l, <2>a, <2>b, <2>c, <2>k, <2>m DEF WmTeller, Window!HasClosed, Became, WmTelling
  <2>11. Window!FramesHaveWindows'
    BY <1>w, <2>a, <2>b, <2>c, <2>k, <2>m DEF Window!FramesHaveWindows
  <2> QED
    BY <2>1, <2>2, <2>3, <2>4, <2>5, <2>6, <2>7, <2>8, <2>9, <2>10, <2>11 DEF WmInv
<1>20. ASSUME NEW c \in Callers, Window!DestroyHook(c) PROVE WmInv'
  <2>1. WmFacts'
    BY <1>f, <1>a, <1>20 DEF WmFacts, Window!TypeOK, Window!DestroyHook
  <2>2. WmTurn'
    BY <1>t, <1>20 DEF WmTurn, Window!DestroyHook
  <2>3. WmMeant'
    BY <1>m, <1>20 DEF WmMeant, Meant, Window!DestroyHook
  <2>4. WmOnce'
    BY <1>o, <1>20 DEF WmOnce, Window!DestroyHook
  <2>5. WmHooks'
    BY <1>h, <1>a, <1>20 DEF WmHooks, Window!DestroyHook
  <2>6. WmSetting'
    BY <1>s, <1>a, <1>20 DEF WmSetting, Window!DestroyHook
  <2>7. WmClearing'
    BY <1>g, <1>a, <1>20 DEF WmClearing, Window!DestroyHook
  <2>8. WmTold'
    BY <1>p, <1>20 DEF WmTold, Window!DestroyHook
  <2>9. WmTelling'
    BY <1>l, <1>20 DEF WmTelling, Window!HasClosed, Window!DestroyHook
  <2>10. WmTeller'
    BY <1>r, <1>20 DEF WmTeller, Window!HasClosed, Window!DestroyHook
  <2>11. Window!FramesHaveWindows'
    BY <1>w, <1>20 DEF Window!FramesHaveWindows, Window!DestroyHook
  <2> QED
    BY <2>1, <2>2, <2>3, <2>4, <2>5, <2>6, <2>7, <2>8, <2>9, <2>10, <2>11 DEF WmInv
<1>21. ASSUME NEW c \in Callers, NEW op \in Ops, NEW h \in 0 .. MaxWindows, h = 0 => op = "create", op # "create" => h \in Window!Handles, Window!Begin(c, op, h) PROVE WmInv'
  <2>a. Became(c, "posting", op, h)
    BY <1>a, <1>21 DEF Window!Begin, Window!Calls, Became, CallSet
  <2>b. /\ winCall[c].at = "idle"
        /\ op = "set" => hook[c] = "none"
        /\ op = "clear" => hook[c] = "set" /\ \A g \in Window!Handles : hooks[g] = c => g = h
        /\ hook' = IF op = "set" THEN [hook EXCEPT ![c] = "set"] ELSE hook
        /\ UNCHANGED <<running, winOwner, queue, woken, batch, control, winWindows, created, hooks, round,
                        winCalling, told>>
    BY <1>21 DEF Window!Begin, Window!Idle
  <2>k. \A i \in 1 .. Len(queue) : Kept(queue[i])
    BY <1>m, <1>b, <2>a, <2>b DEF WmMeant, Meant, Kept, Became
  <2>m. \A i \in 1 .. Len(batch) : Kept(batch[i])
    BY <1>m, <1>b, <2>a, <2>b DEF WmMeant, Meant, Kept, Became
  <2>1. WmFacts'
    BY <1>f, <1>a, <2>a, <2>b, <2>k, <2>m DEF WmFacts, Window!TypeOK, Became
  <2>2. WmTurn'
    BY <1>t, <2>a, <2>b, <2>k, <2>m DEF WmTurn
  <2>3. WmMeant'
    <3>1. \A i \in 1 .. Len(batch') : Meant(batch'[i]) /\ Kept(batch'[i])
      BY <1>m, <2>b, <2>m DEF WmMeant
    <3>2. \A i \in 1 .. Len(queue') : Meant(queue'[i]) /\ Kept(queue'[i])
      BY <1>m, <2>b, <2>k DEF WmMeant
    <3> QED
      BY <3>1, <3>2 DEF WmMeant, Meant, Kept
  <2>4. WmOnce'
    BY <1>o, <1>a, <1>b, <2>a, <2>b, <2>k, <2>m DEF WmOnce
  <2>5. WmHooks'
    BY <1>h, <1>a, <2>a, <2>b, <2>k, <2>m DEF WmHooks, Became
  <2>6. WmSetting'
    BY <1>s, <1>a, <1>h, <2>a, <2>b, <2>k, <2>m DEF WmSetting, Became, WmHooks
  <2>7. WmClearing'
    BY <1>g, <1>a, <2>a, <2>b, <2>k, <2>m DEF WmClearing, Became
  <2>8. WmTold'
    BY <1>p, <1>a, <2>a, <2>b, <2>k, <2>m DEF WmTold, Became
  <2>9. WmTelling'
    BY <1>l, <1>a, <2>a, <2>b, <2>k, <2>m DEF WmTelling, Window!HasClosed, Became
  <2>10. WmTeller'
    BY <1>r, <1>a, <1>l, <2>a, <2>b, <2>k, <2>m DEF WmTeller, Window!HasClosed, Became, WmTelling
  <2>11. Window!FramesHaveWindows'
    BY <1>w, <2>a, <2>b, <2>k, <2>m DEF Window!FramesHaveWindows
  <2> QED
    BY <2>1, <2>2, <2>3, <2>4, <2>5, <2>6, <2>7, <2>8, <2>9, <2>10, <2>11 DEF WmInv
<1>22. CASE UNCHANGED Window!vars
  <2>1. WmFacts'
    BY <1>f, <1>22 DEF WmFacts, Window!TypeOK, Window!vars
  <2>2. WmTurn'
    BY <1>t, <1>22 DEF WmTurn, Window!vars
  <2>3. WmMeant'
    BY <1>m, <1>22 DEF WmMeant, Meant, Window!vars
  <2>4. WmOnce'
    BY <1>o, <1>22 DEF WmOnce, Window!vars
  <2>5. WmHooks'
    BY <1>h, <1>22 DEF WmHooks, Window!vars
  <2>6. WmSetting'
    BY <1>s, <1>22 DEF WmSetting, Window!vars
  <2>7. WmClearing'
    BY <1>g, <1>22 DEF WmClearing, Window!vars
  <2>8. WmTold'
    BY <1>p, <1>22 DEF WmTold, Window!vars
  <2>9. WmTelling'
    BY <1>l, <1>22 DEF WmTelling, Window!HasClosed, Window!vars
  <2>10. WmTeller'
    BY <1>r, <1>22 DEF WmTeller, Window!HasClosed, Window!vars
  <2>11. Window!FramesHaveWindows'
    BY <1>w, <1>22 DEF Window!FramesHaveWindows, Window!vars
  <2> QED
    BY <2>1, <2>2, <2>3, <2>4, <2>5, <2>6, <2>7, <2>8, <2>9, <2>10, <2>11 DEF WmInv
<1> QED
  BY <1>a, <1>1, <1>2, <1>3, <1>4, <1>5, <1>6, <1>7, <1>8, <1>9, <1>10, <1>11, <1>12, <1>13, <1>14, <1>15, <1>16, <1>17, <1>18, <1>19, <1>20, <1>21, <1>22 DEF Window!Next, Window!ControlThread, Window!Caller, Window!Begins, Ops, Window!Handles

\* From it: a hook is not called once clearRenderHook() or a destruction has returned,
\* and a closing is told once.
LEMMA WmSafe == Window!WindowConstants /\ WmInv => Window!Inv
<1> SUFFICES ASSUME Window!WindowConstants, WmInv PROVE Window!Inv
  OBVIOUS
<1>1. Window!TypeOK /\ Window!FramesHaveWindows
  BY DEF WmInv, WmFacts
<1>2. Window!ClosedIsTold
  BY DEF WmInv, WmTold, Window!ClosedIsTold
<1>3. winWindows \subseteq Window!Handles
  BY DEF WmInv, WmFacts
<1>4. Window!HookOutlivesFrames
  BY <1>1, <1>3 DEF WmInv, WmHooks, Window!HookOutlivesFrames, Window!FramesHaveWindows, Window!WindowConstants
<1> QED
  BY <1>1, <1>2, <1>4 DEF Window!Inv

-----------------------------------------------------------------------------
\* The frames of a window.

Work == [slot : Frames!Slots, image : Images, command : Frames!Slots, vertex : Frames!Slots \cup {Frames!NoSlot},
         framebuffer : {"none", "fresh", "stale"}, lost : BOOLEAN]
VfFacts ==
    /\ Frames!TypeOK /\ work \in Seq(Work)
    /\ pc \in {"idle", "recreate", "acquire", "image", "record", "submit", "present", "detach", "gone"}
    /\ next \in {"idle", "acquire"}
    /\ pc \in {"image", "record", "submit", "present"} => frameImage \in Images
    /\ handles \in HandleSets /\ cache \in [Frames!Handles -> {"none", "fresh", "stale"}]
    /\ frameDrawn \in {"none", "fresh", "stale"}

\* How many places r lies behind s in a ring.
Back(s, r) == IF r < s THEN s - r ELSE s + FramesInFlight - r
\* Where the slots of what the GPU has begin, going back.
Base == IF pc = "present" THEN Frames!After(frameSlot) ELSE frameSlot

\* What the GPU has was begun in the order of the ring, with gaps where a submission was
\* refused, and the command buffers turn with the fences.
VfRing ==
    /\ frameIndex = frameSlot
    /\ \A k \in 1 .. Len(work) :
         work[k].command = work[k].slot /\ Len(work) - k + 1 <= Back(Base, work[k].slot)
    /\ \A j, k \in 1 .. Len(work) : j < k => Back(Base, work[k].slot) < Back(Base, work[j].slot)

\* The vertex buffers turn when something is drawn, so more slowly.
VfVertex ==
    \A k \in 1 .. Len(work) : work[k].vertex # Frames!NoSlot =>
        Back(vertexSlot, work[k].vertex)
            <= Back(Base, work[k].slot) + (IF pc = "submit" /\ frameDrawn # "none" THEN 1 ELSE 0)

\* A frame that is being made has its fence, and its image to itself.
VfFence ==
    /\ pc = "image" => fence[frameSlot] = "signalled"
    /\ pc \in {"record", "submit"} => fence[frameSlot] = "reset" /\ inFlight[frameImage] = frameSlot
    /\ \A k \in 1 .. Len(work) : inFlight[work[k].image] = work[k].slot

\* The framebuffers in use are those of the extent.
VfBuffers ==
    /\ \A k \in 1 .. Len(work) : ~work[k].lost /\ (work[k].framebuffer # "none" => cacheExtent = extent)
    /\ pc = "submit" /\ frameDrawn # "none" => cacheExtent = extent

\* A fence is pending while the GPU has what it was given with, and reset for the frame
\* that is being made or for ever.
VfMeant ==
    \A s \in Frames!Slots :
        /\ fence[s] = "pending" <=> \E k \in 1 .. Len(work) : work[k].slot = s
        /\ fence[s] = "reset" => s \in failed \/ (s = frameSlot /\ pc \in {"record", "submit"})

VfInv == VfFacts /\ VfRing /\ VfVertex /\ VfFence /\ VfBuffers /\ VfMeant

\* The submissions stay what they are, but may be lost.
SameWork ==
    /\ work' \in Seq(Work) /\ Len(work') = Len(work)
    /\ \A k \in 1 .. Len(work) :
         /\ work'[k].slot = work[k].slot /\ work'[k].command = work[k].command
         /\ work'[k].image = work[k].image /\ work'[k].vertex = work[k].vertex
         /\ work'[k].framebuffer = work[k].framebuffer

\* The slot after another, without the remainder.
LEMMA VfAfter ==
  ASSUME Frames!VulkanConstants, NEW s \in Frames!Slots
  PROVE  Frames!After(s) = IF s + 1 = FramesInFlight THEN 0 ELSE s + 1
<1>1. FramesInFlight \in Nat \ {0} /\ s \in Nat /\ s + 1 <= FramesInFlight
  BY DEF Frames!VulkanConstants, Frames!Slots
<1> QED
  BY <1>1, SMTT(60) DEF Frames!After

\* The slot before another, without the remainder.
LEMMA VfBefore ==
  ASSUME Frames!VulkanConstants, vertexSlot \in Frames!Slots
  PROVE  (vertexSlot + FramesInFlight - 1) % FramesInFlight
            = IF vertexSlot = 0 THEN FramesInFlight - 1 ELSE vertexSlot - 1
<1>1. FramesInFlight \in Nat \ {0} /\ vertexSlot \in Nat /\ vertexSlot + 1 <= FramesInFlight
  BY DEF Frames!VulkanConstants, Frames!Slots
<1> QED
  BY <1>1, SMTT(60)

\* A ring that turns puts every slot one place further back, and itself at its end.
LEMMA VfTurn ==
  ASSUME Frames!VulkanConstants, NEW s \in Frames!Slots, NEW r \in Frames!Slots
  PROVE  /\ Frames!After(s) \in Frames!Slots /\ Back(s, r) \in 1 .. FramesInFlight
         /\ Back(s, s) = FramesInFlight /\ (Back(s, r) = FramesInFlight => r = s)
         /\ Back(Frames!After(s), r) = IF r = s THEN 1 ELSE Back(s, r) + 1
<1>1. /\ FramesInFlight \in Nat \ {0} /\ s \in Nat /\ s + 1 <= FramesInFlight
      /\ r \in Nat /\ r + 1 <= FramesInFlight
  BY DEF Frames!VulkanConstants, Frames!Slots
<1>2. Frames!After(s) = IF s + 1 = FramesInFlight THEN 0 ELSE s + 1
  BY VfAfter
<1> QED
  BY <1>1, <1>2 DEF Back, Frames!Slots

\* Two slots that lie as far back are the same.
LEMMA VfOne ==
  ASSUME Frames!VulkanConstants, NEW s \in Frames!Slots, NEW q \in Frames!Slots, NEW r \in Frames!Slots, Back(s, q) = Back(s, r)
  PROVE  q = r
<1>1. /\ FramesInFlight \in Nat \ {0} /\ s \in Nat /\ s + 1 <= FramesInFlight
      /\ r \in Nat /\ r + 1 <= FramesInFlight /\ q \in Nat /\ q + 1 <= FramesInFlight
  BY DEF Frames!VulkanConstants, Frames!Slots
<1> QED
  BY <1>1 DEF Back

\* Marking submissions as lost leaves what they use.
LEMMA VfLost ==
  ASSUME work \in Seq(Work), NEW lost \in [1 .. Len(work) -> BOOLEAN],
         work' = [k \in DOMAIN work |-> [work[k] EXCEPT !.lost = lost[k]]]
  PROVE  SameWork /\ \A k \in 1 .. Len(work) : work'[k].lost = lost[k]
<1>1. DOMAIN work = 1 .. Len(work) /\ Len(work) \in Nat
  OBVIOUS
<1>2. \A k \in 1 .. Len(work) : work[k] \in Work
  OBVIOUS
<1>3. \A k \in 1 .. Len(work) : [work[k] EXCEPT !.lost = lost[k]] \in Work
  BY <1>2 DEF Work
<1>4. work' \in [1 .. Len(work) -> Work]
  BY <1>1, <1>3
<1>5. work' \in Seq(Work) /\ Len(work') = Len(work)
  <2>1. work' \in UNION {[1 .. n -> Work] : n \in Nat}
    BY <1>1, <1>4
  <2>2. work' \in Seq(Work)
    BY <2>1, SeqDef
  <2> QED
    BY SMTT(40), <1>1, <1>4, <2>2
<1>6. \A k \in 1 .. Len(work) : work'[k] = [work[k] EXCEPT !.lost = lost[k]]
  BY <1>1
<1> QED
  BY <1>2, <1>5, <1>6 DEF SameWork, Work

\* Before its first frame, VulkanUiWindowDriver (vulkan_ui_window_driver.cpp) satisfies the invariant.
LEMMA VfInit == Frames!VulkanConstants /\ Frames!Init => VfInv
<1> SUFFICES ASSUME Frames!VulkanConstants, Frames!Init PROVE VfInv
  OBVIOUS
<1> USE DEF Frames!Init
<1>1. VfFacts
  BY DEF VfFacts, Frames!TypeOK, Frames!VulkanConstants, Frames!Slots, Frames!NoSlot
<1>2. VfRing
  BY DEF VfRing
<1>3. VfVertex
  BY DEF VfVertex
<1>4. VfFence
  BY DEF VfFence
<1>5. VfBuffers
  BY DEF VfBuffers
<1>6. VfMeant
  BY DEF VfMeant
<1> QED
  BY <1>1, <1>2, <1>3, <1>4, <1>5, <1>6 DEF VfInv

\* Each step of a frame, of the GPU and of the user preserves the invariant.
LEMMA VfStep == Frames!VulkanConstants /\ VfInv /\ [Frames!Next]_(Frames!vars) => VfInv'
<1> SUFFICES ASSUME Frames!VulkanConstants, VfInv, [Frames!Next]_(Frames!vars) PROVE VfInv'
  OBVIOUS
<1>f. VfFacts
  BY DEF VfInv
<1>r. VfRing
  BY DEF VfInv
<1>v. VfVertex
  BY DEF VfInv
<1>c. VfFence
  BY DEF VfInv
<1>u. VfBuffers
  BY DEF VfInv
<1>m. VfMeant
  BY DEF VfInv
<1>a. /\ FramesInFlight \in Nat \ {0} /\ frameSlot \in Frames!Slots /\ frameIndex \in Frames!Slots /\ vertexSlot \in Frames!Slots
      /\ (\A r \in Frames!Slots : r \in Nat /\ r + 1 <= FramesInFlight) /\ Frames!NoSlot \notin Frames!Slots
      /\ work \in Seq(Work) /\ Len(work) \in Nat /\ Len(work) <= FramesInFlight
      /\ fence \in [Frames!Slots -> {"signalled", "reset", "pending"}] /\ inFlight \in [Images -> Frames!Slots \cup {Frames!NoSlot}]
      /\ pc \in {"idle", "recreate", "acquire", "image", "record", "submit", "present", "detach", "gone"}
      /\ frameDrawn \in {"none", "fresh", "stale"} /\ Base \in Frames!Slots

  <2>1. FramesInFlight \in Nat \ {0} /\ (\A r \in Frames!Slots : r \in Nat /\ r + 1 <= FramesInFlight) /\ Frames!NoSlot \notin Frames!Slots
    BY DEF Frames!VulkanConstants, Frames!Slots, Frames!NoSlot
  <2>2. /\ frameSlot \in Frames!Slots /\ frameIndex \in Frames!Slots /\ vertexSlot \in Frames!Slots
        /\ work \in Seq(Work) /\ Len(work) <= FramesInFlight
        /\ fence \in [Frames!Slots -> {"signalled", "reset", "pending"}] /\ inFlight \in [Images -> Frames!Slots \cup {Frames!NoSlot}]
        /\ pc \in {"idle", "recreate", "acquire", "image", "record", "submit", "present", "detach", "gone"}
        /\ frameDrawn \in {"none", "fresh", "stale"}
    BY <1>f DEF VfFacts, Frames!TypeOK
  <2>3. Len(work) \in Nat
    BY <2>2
  <2>4. Base \in Frames!Slots
    BY <2>2, VfTurn DEF Base
  <2> QED
    BY <2>1, <2>2, <2>3, <2>4
<1>b. \A k \in 1 .. Len(work) : /\ work[k] \in Work /\ work[k].slot \in Frames!Slots /\ work[k].image \in Images
                                /\ work[k].vertex \in Frames!Slots \cup {Frames!NoSlot} /\ work[k].lost \in BOOLEAN
                                /\ work[k].framebuffer \in {"none", "fresh", "stale"}

  <2>1. \A k \in 1 .. Len(work) : work[k] \in Work
    BY <1>a
  <2> QED
    BY <2>1 DEF Work
<1>g. Frames!VulkanConstants
  OBVIOUS
<1>1. CASE Frames!Frame
  <2>a. UNCHANGED <<failed, frameImage, frameIndex, extent, handles, frameSlot, fence, inFlight, vertexSlot, cache, cacheExtent, frameDrawn, work>>
    BY <1>1 DEF Frames!Frame, Frames!device, Frames!driver, Frames!swapchain, Frames!renderer, Frames!window
  <2>b. pc = "idle" /\ pc' \in {"recreate", "acquire"} /\ next' \in {next, "acquire"}
    BY <1>1 DEF Frames!Frame, Frames!Goto
  <2>1. VfFacts'
    BY <1>f, <1>a, <2>a, <2>b DEF VfFacts, Frames!TypeOK
  <2>2. VfRing'
    BY <1>r, <1>a, <2>a, <2>b DEF VfRing, Base
  <2>3. VfVertex'
    BY <1>v, <1>a, <2>a, <2>b DEF VfVertex, Base
  <2>4. VfFence'
    BY <1>c, <1>a, <2>a, <2>b DEF VfFence
  <2>5. VfBuffers'
    BY <1>u, <1>a, <2>a, <2>b DEF VfBuffers
  <2>6. VfMeant'
    BY <1>m, <1>a, <2>a, <2>b DEF VfMeant
  <2> QED
    BY <2>1, <2>2, <2>3, <2>4, <2>5, <2>6 DEF VfInv
<1>2. CASE Frames!Recreate
  <2>a. UNCHANGED <<failed, next, seen, frameKnown, frameImage, frameIndex, frameSlot, fence, vertexSlot, cacheExtent, frameDrawn>>
    BY <1>2 DEF Frames!Recreate, Frames!NewSwapchain, Frames!NoSwapchain
  <2>b. /\ pc = "recreate" /\ pc' \in {"idle", "acquire"} /\ handles' \in HandleSets
        /\ cache' \in [Frames!Handles -> {"none", "fresh", "stale"}] /\ inFlight' \in [Images -> Frames!Slots \cup {Frames!NoSlot}]
    BY <1>f, <1>2 DEF Frames!Recreate, Frames!NewSwapchain, Frames!NoSwapchain, Frames!Goto, VfFacts, Frames!TypeOK
  <2>w. \A s \in Frames!Slots : fence[s] = "signalled"
    BY <1>2 DEF Frames!Recreate, Frames!Waited
  <2>n. Len(work) = 0
    <3>1. \A k \in 1 .. Len(work) : FALSE
      BY <1>b, <1>m, <2>w DEF VfMeant
    <3> QED
      BY <1>a, <3>1
  <2>s. SameWork
    <3>1. CASE work' = [k \in DOMAIN work |-> [work[k] EXCEPT !.lost = TRUE]]
      <4> DEFINE lost == [k \in 1 .. Len(work) |-> TRUE]
      <4>0. lost \in [1 .. Len(work) -> BOOLEAN] /\ \A k \in 1 .. Len(work) : lost[k] = TRUE
        OBVIOUS
      <4>2. DOMAIN work = 1 .. Len(work)
        BY <1>a
      <4> HIDE DEF lost
      <4>1. work' = [k \in DOMAIN work |-> [work[k] EXCEPT !.lost = lost[k]]]
        BY <3>1, <4>0, <4>2, Zenon
      <4> QED
        BY <1>a, <4>0, <4>1, VfLost
    <3>2. CASE work' = work
      BY <1>a, <3>2 DEF SameWork
    <3> QED
      BY <1>2, <3>1, <3>2 DEF Frames!Recreate, Frames!NewSwapchain, Frames!NoSwapchain
  <2>1. VfFacts'
    BY <1>f, <1>a, <2>a, <2>b, <2>n, <2>s, <2>w DEF VfFacts, Frames!TypeOK, SameWork
  <2>2. VfRing'
    BY <1>r, <1>a, <2>a, <2>b, <2>n, <2>s, <2>w DEF VfRing, Base, SameWork
  <2>3. VfVertex'
    BY <1>v, <1>a, <2>a, <2>b, <2>n, <2>s, <2>w DEF VfVertex, Base, SameWork
  <2>4. VfFence'
    BY <1>c, <1>a, <2>a, <2>b, <2>n, <2>s, <2>w DEF VfFence, SameWork
  <2>5. VfBuffers'
    BY <1>u, <1>a, <2>a, <2>b, <2>n, <2>s, <2>w DEF VfBuffers, SameWork
  <2>6. VfMeant'
    BY <1>m, <1>a, <2>a, <2>b, <2>n, <2>s, <2>w DEF VfMeant, SameWork
  <2> QED
    BY <2>1, <2>2, <2>3, <2>4, <2>5, <2>6 DEF VfInv
<1>3. CASE Frames!OutOfDate
  <2>a. UNCHANGED <<failed, seen, frameImage, frameIndex, extent, handles, frameSlot, fence, inFlight, vertexSlot, cache, cacheExtent, frameDrawn, work>>
    BY <1>3 DEF Frames!OutOfDate, Frames!device, Frames!FenceWhenOutOfDate, Frames!renderer
  <2>b. pc = "acquire" /\ pc' = "recreate" /\ next' = "idle"
    BY <1>3 DEF Frames!OutOfDate, Frames!Goto
  <2>1. VfFacts'
    BY <1>f, <1>a, <2>a, <2>b DEF VfFacts, Frames!TypeOK
  <2>2. VfRing'
    BY <1>r, <1>a, <2>a, <2>b DEF VfRing, Base
  <2>3. VfVertex'
    BY <1>v, <1>a, <2>a, <2>b DEF VfVertex, Base
  <2>4. VfFence'
    BY <1>c, <1>a, <2>a, <2>b DEF VfFence
  <2>5. VfBuffers'
    BY <1>u, <1>a, <2>a, <2>b DEF VfBuffers
  <2>6. VfMeant'
    BY <1>m, <1>a, <2>a, <2>b DEF VfMeant
  <2> QED
    BY <2>1, <2>2, <2>3, <2>4, <2>5, <2>6 DEF VfInv
<1>4. CASE Frames!Acquire
  <2>a. UNCHANGED <<failed, next, seen, frameKnown, frameIndex, extent, handles, frameSlot, fence, inFlight, vertexSlot, cache, cacheExtent, frameDrawn, work>>
    BY <1>4 DEF Frames!Acquire, Frames!device, Frames!swapchain, Frames!renderer
  <2>b. pc = "acquire" /\ pc' = "image" /\ frameImage' \in Images /\ fence[frameSlot] = "signalled"
    BY <1>4 DEF Frames!Acquire, Frames!Goto
  <2>1. VfFacts'
    BY <1>f, <1>a, <2>a, <2>b DEF VfFacts, Frames!TypeOK
  <2>2. VfRing'
    BY <1>r, <1>a, <2>a, <2>b DEF VfRing, Base
  <2>3. VfVertex'
    BY <1>v, <1>a, <2>a, <2>b DEF VfVertex, Base
  <2>4. VfFence'
    BY <1>c, <1>a, <2>a, <2>b DEF VfFence
  <2>5. VfBuffers'
    BY <1>u, <1>a, <2>a, <2>b DEF VfBuffers
  <2>6. VfMeant'
    BY <1>m, <1>a, <2>a, <2>b DEF VfMeant
  <2> QED
    BY <2>1, <2>2, <2>3, <2>4, <2>5, <2>6 DEF VfInv
<1>5. CASE Frames!AcquireImage
  <2>a. UNCHANGED <<failed, next, seen, frameKnown, frameImage, frameIndex, extent, handles, frameSlot, vertexSlot, cache, cacheExtent, frameDrawn, work>>
    BY <1>5 DEF Frames!AcquireImage, Frames!device, Frames!renderer
  <2>b. /\ pc = "image" /\ pc' = "record" /\ frameImage \in Images /\ fence[frameSlot] = "signalled"
        /\ inFlight' = [inFlight EXCEPT ![frameImage] = frameSlot] /\ fence' = [fence EXCEPT ![frameSlot] = "reset"]
    BY <1>f, <1>c, <1>5 DEF Frames!AcquireImage, Frames!Goto, VfFacts, VfFence
  <2>c. \A k \in 1 .. Len(work) : work[k].image # frameImage /\ work[k].slot # frameSlot
    <3> TAKE k \in 1 .. Len(work)
    <3>1. fence[work[k].slot] = "pending"
      BY <1>b, <1>m DEF VfMeant
    <3>2. inFlight[work[k].image] = work[k].slot
      BY <1>c DEF VfFence
    <3> QED
      BY <1>b, <1>5, <2>b, <3>1, <3>2 DEF Frames!AcquireImage, Frames!ImageFree
  <2>1. VfFacts'
    BY <1>f, <1>a, <2>a, <2>b, <2>c DEF VfFacts, Frames!TypeOK
  <2>2. VfRing'
    BY <1>r, <1>a, <2>a, <2>b, <2>c DEF VfRing, Base
  <2>3. VfVertex'
    BY <1>v, <1>a, <2>a, <2>b, <2>c DEF VfVertex, Base
  <2>4. VfFence'
    BY <1>c, <1>a, <1>b, <2>a, <2>b, <2>c DEF VfFence
  <2>5. VfBuffers'
    BY <1>u, <1>a, <2>a, <2>b, <2>c DEF VfBuffers
  <2>6. VfMeant'
    BY <1>m, <1>a, <1>b, <2>a, <2>b, <2>c DEF VfMeant
  <2> QED
    BY <2>1, <2>2, <2>3, <2>4, <2>5, <2>6 DEF VfInv
<1>6. CASE Frames!Record
  <2>a. UNCHANGED <<failed, next, seen, frameKnown, frameImage, frameIndex, extent, handles, frameSlot, fence, inFlight>>
    BY <1>6 DEF Frames!Record, Frames!device, Frames!swapchain
  <2>b. /\ pc = "record" /\ pc' = "submit" /\ cacheExtent' \in {extent, cacheExtent}
        /\ \/ /\ vertexSlot' = Frames!After(vertexSlot) /\ frameDrawn' \in {"fresh", "stale"} /\ cacheExtent' = extent
           \/ /\ vertexSlot' = vertexSlot /\ frameDrawn' = "none"
    <3>1. handles \in HandleSets /\ frameImage \in Images /\ cache \in [Frames!Handles -> {"none", "fresh", "stale"}]
      BY <1>f, <1>6 DEF Frames!Record, VfFacts
    <3>2. <<handles, frameImage>> \in Frames!Handles
      BY <3>1 DEF Frames!Handles
    <3>3. Frames!Kept[<<handles, frameImage>>] \in {"none", "fresh", "stale"}
      BY <3>1, <3>2 DEF Frames!Kept
    <3> QED
      BY <1>6, <3>3 DEF Frames!Record, Frames!Goto, Frames!Draw, Frames!DrawNothing
  <2>c. cache' \in [Frames!Handles -> {"none", "fresh", "stale"}]
    <3>1. handles \in HandleSets /\ frameImage \in Images /\ cache \in [Frames!Handles -> {"none", "fresh", "stale"}]
      BY <1>f, <1>6 DEF Frames!Record, VfFacts
    <3>2. Frames!Kept \in [Frames!Handles -> {"none", "fresh", "stale"}]
      BY <3>1 DEF Frames!Kept
    <3>3. <<handles, frameImage>> \in Frames!Handles
      BY <3>1 DEF Frames!Handles
    <3>4. CASE Frames!Draw
      BY <3>2, <3>3, <3>4 DEF Frames!Draw
    <3>5. CASE Frames!DrawNothing
      BY <3>1, <3>2, <3>5 DEF Frames!DrawNothing
    <3> QED
      BY <1>6, <3>4, <3>5 DEF Frames!Record
  <2>d. SameWork /\ \A k \in 1 .. Len(work) : ~work'[k].lost
    <3> DEFINE lost == [k \in 1 .. Len(work) |-> work[k].lost \/ (cacheExtent' # cacheExtent /\ work[k].framebuffer # "none")]
    <3>1. \A k \in 1 .. Len(work) : ~(work[k].lost \/ (cacheExtent' # cacheExtent /\ work[k].framebuffer # "none"))
      BY <1>u, <1>b, <2>b DEF VfBuffers
    <3>2. lost \in [1 .. Len(work) -> BOOLEAN] /\ \A k \in 1 .. Len(work) : lost[k] = FALSE
      BY <3>1
    <3>5. work' = [k \in DOMAIN work |-> [work[k] EXCEPT !.lost = @ \/ (cacheExtent' # cacheExtent /\ work[k].framebuffer # "none")]]
      BY <1>6 DEF Frames!Record
    <3>6. work' = [k \in DOMAIN work |-> [work[k] EXCEPT !.lost = work[k].lost \/ (cacheExtent' # cacheExtent /\ work[k].framebuffer # "none")]]
      BY <3>5
    <3>7. \A k \in 1 .. Len(work) : lost[k] = (work[k].lost \/ (cacheExtent' # cacheExtent /\ work[k].framebuffer # "none"))
      OBVIOUS
    <3>8. DOMAIN work = 1 .. Len(work)
      BY <1>a
    <3> HIDE DEF lost
    <3>3. work' = [k \in DOMAIN work |-> [work[k] EXCEPT !.lost = lost[k]]]
      BY <3>6, <3>7, <3>8, Zenon
    <3>4. SameWork /\ \A k \in 1 .. Len(work) : work'[k].lost = lost[k]
      BY <1>a, <3>2, <3>3, VfLost
    <3> QED
      BY <3>2, <3>4
  <2>1. VfFacts'
    <3>1. Len(work') = Len(work) /\ work' \in Seq(Work)
      BY <2>d DEF SameWork
    <3>2. vertexSlot' \in Frames!Slots /\ frameDrawn' \in {"none", "fresh", "stale"}
      <4>1. Frames!After(vertexSlot) \in Frames!Slots
        BY <1>a, <1>g, VfTurn
      <4> QED
        BY <1>a, <2>b, <4>1
    <3>3. pc' \in {"idle", "recreate", "acquire", "image", "record", "submit", "present", "detach", "gone"} /\ pc = "record"
      BY <2>b
    <3> QED
      BY <1>f, <2>a, <2>c, <3>1, <3>2, <3>3 DEF VfFacts, Frames!TypeOK
  <2>2. VfRing'
    BY <1>r, <1>a, <1>b, <2>a, <2>b, <2>d DEF VfRing, Base, SameWork
  <2>3. VfVertex'
    <3> SUFFICES ASSUME NEW k \in 1 .. Len(work), work[k].vertex # Frames!NoSlot
                 PROVE  Back(vertexSlot', work[k].vertex) <= Back(frameSlot, work[k].slot) + (IF frameDrawn' # "none" THEN 1 ELSE 0)
      BY <2>a, <2>b, <2>d DEF VfVertex, SameWork, Base
    <3>1. work[k].vertex \in Frames!Slots /\ Back(vertexSlot, work[k].vertex) <= Back(frameSlot, work[k].slot) + 0
      BY <1>v, <1>b, <2>b DEF VfVertex, Base
    <3>4. /\ Back(vertexSlot, work[k].vertex) \in 1 .. FramesInFlight
          /\ Back(Frames!After(vertexSlot), work[k].vertex) = IF work[k].vertex = vertexSlot THEN 1 ELSE Back(vertexSlot, work[k].vertex) + 1
      BY <1>a, <1>g, <3>1, VfTurn
    <3>2. /\ Back(vertexSlot, work[k].vertex) \in Nat
          /\ Back(Frames!After(vertexSlot), work[k].vertex) <= Back(vertexSlot, work[k].vertex) + 1
      BY <1>a, <3>4
    <3>3. Back(Frames!After(vertexSlot), work[k].vertex) \in Nat /\ Back(frameSlot, work[k].slot) \in Nat
      <4>1. Back(frameSlot, work[k].slot) \in 1 .. FramesInFlight
        BY <1>a, <1>b, <1>g, VfTurn
      <4> QED
        BY <1>a, <3>2, <3>4, <4>1
    <3> QED
      BY <2>b, <3>1, <3>2, <3>3
  <2>4. VfFence'
    <3>1. Len(work') = Len(work) /\ \A k \in 1 .. Len(work) : work'[k].slot = work[k].slot /\ work'[k].image = work[k].image
      BY <2>d DEF SameWork
    <3>2. \A k \in 1 .. Len(work') : inFlight[work'[k].image] = work'[k].slot
      BY <1>c, <3>1 DEF VfFence
    <3>3. fence[frameSlot] = "reset" /\ inFlight[frameImage] = frameSlot /\ pc' = "submit"
      BY <1>c, <2>b DEF VfFence
    <3> QED
      BY <2>a, <3>2, <3>3 DEF VfFence
  <2>5. VfBuffers'
    BY <1>u, <1>a, <1>b, <2>a, <2>b, <2>d DEF VfBuffers, SameWork
  <2>6. VfMeant'
    <3>1. Len(work') = Len(work) /\ \A k \in 1 .. Len(work) : work'[k].slot = work[k].slot
      BY <2>d DEF SameWork
    <3>2. pc = "record" /\ pc' = "submit" /\ fence' = fence /\ frameSlot' = frameSlot
      BY <2>a, <2>b
    <3> QED
      BY <1>m, <2>a, <3>1, <3>2 DEF VfMeant
  <2> QED
    BY <2>1, <2>2, <2>3, <2>4, <2>5, <2>6 DEF VfInv
<1>7. CASE Frames!Submit /\ work' = Append(work, Frames!Submission) /\ fence' = [fence EXCEPT ![frameSlot] = "pending"] /\ failed' = failed
  <2>a. UNCHANGED <<failed, next, seen, frameKnown, frameImage, frameIndex, extent, handles, frameSlot, inFlight, vertexSlot, cache, cacheExtent, frameDrawn>>
    BY <1>7 DEF Frames!Submit, Frames!device, Frames!renderer
  <2>b. /\ pc = "submit" /\ pc' = "present" /\ fence' = [fence EXCEPT ![frameSlot] = "pending"]
        /\ fence[frameSlot] = "reset" /\ inFlight[frameImage] = frameSlot /\ frameImage \in Images
    BY <1>f, <1>c, <1>7 DEF Frames!Submit, Frames!Goto, VfFacts, VfFence
  <2>c. Frames!Submission.vertex = Frames!VertexUsed /\ Frames!VertexUsed \in Frames!Slots \cup {Frames!NoSlot} /\ (Frames!VertexUsed # Frames!NoSlot => frameDrawn # "none" /\ Back(vertexSlot, Frames!VertexUsed) = 1)
    <3>1. (vertexSlot + FramesInFlight - 1) % FramesInFlight = IF vertexSlot = 0 THEN FramesInFlight - 1 ELSE vertexSlot - 1
      BY <1>a, VfBefore
    <3>2. CASE frameDrawn = "none"
      BY <3>2 DEF Frames!Submission, Frames!VertexUsed
    <3>3. CASE frameDrawn # "none"
      <4>1. Frames!VertexUsed = IF vertexSlot = 0 THEN FramesInFlight - 1 ELSE vertexSlot - 1
        BY <3>1, <3>3 DEF Frames!VertexUsed
      <4>2. Frames!VertexUsed \in Frames!Slots /\ Back(vertexSlot, Frames!VertexUsed) = 1
        BY <1>a, <4>1 DEF Frames!Slots, Back
      <4> QED
        BY <3>3, <4>2 DEF Frames!Submission
    <3> QED
      BY <3>2, <3>3
  <2>d. /\ Frames!Submission \in Work /\ Frames!Submission.slot = frameSlot /\ Frames!Submission.command = frameSlot /\ Frames!Submission.image = frameImage
        /\ Frames!Submission.framebuffer = frameDrawn /\ ~Frames!Submission.lost
    <3>1. frameIndex = frameSlot
      BY <1>r DEF VfRing
    <3> QED
      BY <1>a, <2>b, <2>c, <3>1 DEF Frames!Submission, Work
  <2>e. /\ work' \in Seq(Work) /\ Len(work') = Len(work) + 1 /\ work'[Len(work) + 1] = Frames!Submission
        /\ \A k \in 1 .. Len(work) : work'[k] = work[k]
    BY <1>a, <1>7, <2>d DEF Frames!Submit
  <2>f. \A k \in 1 .. Len(work') : k = Len(work) + 1 \/ (k \in 1 .. Len(work) /\ work'[k] = work[k])
    BY <1>a, <2>e
  <2>g. \A k \in 1 .. Len(work) : /\ work[k].slot # frameSlot /\ Back(frameSlot, work[k].slot) \in 1 .. FramesInFlight
                                  /\ Back(Frames!After(frameSlot), work[k].slot) = Back(frameSlot, work[k].slot) + 1
                                  /\ Len(work) - k + 1 <= Back(frameSlot, work[k].slot)
    <3> TAKE k \in 1 .. Len(work)
    <3>1. work[k].slot # frameSlot
      BY <1>a, <1>b, <1>m, <2>b DEF VfMeant
    <3>2. Len(work) - k + 1 <= Back(frameSlot, work[k].slot)
      BY <1>r, <2>b DEF VfRing, Base
    <3>3. Back(frameSlot, work[k].slot) \in 1 .. FramesInFlight /\ Back(Frames!After(frameSlot), work[k].slot) = Back(frameSlot, work[k].slot) + 1
      BY <1>a, <1>b, <3>1, VfTurn
    <3> QED
      BY <3>1, <3>2, <3>3
  <2>j. \A j, k \in 1 .. Len(work) : j < k => Back(frameSlot, work[k].slot) < Back(frameSlot, work[j].slot)
    BY <1>r, <2>b DEF VfRing, Base
  <2>h. Frames!After(frameSlot) \in Frames!Slots /\ Back(Frames!After(frameSlot), frameSlot) = 1
    BY <1>a, VfTurn
  <2>i. Len(work) + 1 <= FramesInFlight
    <3>1. CASE Len(work) = 0
      BY <1>a, <3>1
    <3>2. CASE Len(work) # 0
      <4>1. 1 \in 1 .. Len(work)
        BY <1>a, <3>2
      <4>2. Len(work) + 1 <= Back(Frames!After(frameSlot), work[1].slot)
        BY <1>a, <2>g, <4>1
      <4>3. Back(Frames!After(frameSlot), work[1].slot) \in 1 .. FramesInFlight
        BY <1>b, <2>h, <4>1, VfTurn
      <4> QED
        BY <1>a, <4>2, <4>3
    <3> QED
      BY <3>1, <3>2
  <2>1. VfFacts'
    BY <1>f, <1>a, <2>i, <2>a, <2>b, <2>d, <2>e, <2>f DEF VfFacts, Frames!TypeOK
  <2>2. VfRing'
    <3>1. \A k \in 1 .. Len(work') : /\ work'[k].command = work'[k].slot
                                     /\ Len(work') - k + 1 <= Back(Frames!After(frameSlot), work'[k].slot)
      <4> TAKE k \in 1 .. Len(work')
      <4>1. CASE k = Len(work) + 1
        BY <1>a, <2>d, <2>e, <2>h, <4>1
      <4>2. CASE k \in 1 .. Len(work) /\ work'[k] = work[k]
        <5>1. work[k].command = work[k].slot
          BY <1>r, <4>2 DEF VfRing
        <5> QED
          BY SMTT(40), <1>a, <2>e, <2>g, <4>2, <5>1
      <4> QED
        BY <2>f, <4>1, <4>2
    <3>3. ASSUME NEW j \in 1 .. Len(work'), NEW k \in 1 .. Len(work'), j < k
          PROVE  Back(Frames!After(frameSlot), work'[k].slot) < Back(Frames!After(frameSlot), work'[j].slot)
      <4>1. j \in 1 .. Len(work) /\ work'[j] = work[j]
        BY <1>a, <2>e, <2>f, <3>3
      <4>2. CASE k = Len(work) + 1
        <5>1. work'[k].slot = frameSlot /\ work'[j].slot = work[j].slot
          BY <2>d, <2>e, <4>1, <4>2
        <5>2. Back(Frames!After(frameSlot), work[j].slot) = Back(frameSlot, work[j].slot) + 1 /\ Back(frameSlot, work[j].slot) \in 1 .. FramesInFlight
          BY <2>g, <4>1
        <5> QED
          BY <1>a, <2>h, <5>1, <5>2
      <4>3. CASE k \in 1 .. Len(work) /\ work'[k] = work[k]
        <5>1. Back(frameSlot, work[k].slot) < Back(frameSlot, work[j].slot)
          BY <2>j, <3>3, <4>1, <4>3
        <5>2. \A i \in {j, k} : Back(Frames!After(frameSlot), work[i].slot) = Back(frameSlot, work[i].slot) + 1 /\ Back(frameSlot, work[i].slot) \in 1 .. FramesInFlight
          BY <2>g, <4>1, <4>3
        <5> QED
          BY <1>a, <4>1, <4>3, <5>1, <5>2
      <4> QED
        BY <2>f, <4>2, <4>3
    <3>2. frameIndex' = frameSlot' /\ Base' = Frames!After(frameSlot)
      BY <1>r, <2>a, <2>b DEF VfRing, Base
    <3> QED
      BY <3>1, <3>2, <3>3 DEF VfRing
  <2>v. \A k \in 1 .. Len(work) : work[k].vertex # Frames!NoSlot => Back(vertexSlot, work[k].vertex) <= Back(Frames!After(frameSlot), work[k].slot)
    <3> SUFFICES ASSUME NEW k \in 1 .. Len(work), work[k].vertex # Frames!NoSlot
                 PROVE  Back(vertexSlot, work[k].vertex) <= Back(Frames!After(frameSlot), work[k].slot)
      OBVIOUS
    <3>1. /\ work[k].vertex \in Frames!Slots
          /\ Back(vertexSlot, work[k].vertex) <= Back(frameSlot, work[k].slot) + (IF frameDrawn # "none" THEN 1 ELSE 0)
      BY <1>v, <1>b, <2>b DEF VfVertex, Base
    <3>2. Back(vertexSlot, work[k].vertex) \in 1 .. FramesInFlight
      BY <1>a, <1>g, <3>1, VfTurn
    <3>3. /\ Back(Frames!After(frameSlot), work[k].slot) = Back(frameSlot, work[k].slot) + 1
          /\ Back(frameSlot, work[k].slot) \in 1 .. FramesInFlight
      BY <2>g
    <3> QED
      BY <1>a, <3>1, <3>2, <3>3
  <2>3. VfVertex'
    <3> SUFFICES ASSUME NEW k \in 1 .. Len(work'), work'[k].vertex # Frames!NoSlot
                 PROVE  Back(vertexSlot, work'[k].vertex) <= Back(Frames!After(frameSlot), work'[k].slot) + 0
      BY <2>a, <2>b DEF VfVertex, Frames!NoSlot, Base
    <3>1. CASE k = Len(work) + 1
      BY <1>a, <2>c, <2>d, <2>e, <2>h, <3>1
    <3>2. CASE k \in 1 .. Len(work) /\ work'[k] = work[k]
      <4>2. Back(vertexSlot, work[k].vertex) <= Back(Frames!After(frameSlot), work[k].slot)
        BY <2>v, <3>2
      <4>3. /\ Back(Frames!After(frameSlot), work[k].slot) = Back(frameSlot, work[k].slot) + 1
            /\ Back(frameSlot, work[k].slot) \in 1 .. FramesInFlight
        BY <2>g, <3>2
      <4>1. Back(vertexSlot, work[k].vertex) <= Back(Frames!After(frameSlot), work[k].slot) /\ Back(Frames!After(frameSlot), work[k].slot) \in Nat
        BY SMTT(40), <1>a, <4>2, <4>3
      <4> QED
        BY <3>2, <4>1
    <3> QED
      BY <2>f, <3>1, <3>2
  <2>4. VfFence'
    BY <1>c, <1>a, <2>a, <2>b, <2>d, <2>e, <2>f DEF VfFence
  <2>5. VfBuffers'
    BY <1>u, <1>a, <2>a, <2>b, <2>d, <2>e, <2>f DEF VfBuffers
  <2>6. VfMeant'
    <3>1. \A s \in Frames!Slots : (\E k \in 1 .. Len(work') : work'[k].slot = s) <=> s = frameSlot \/ \E k \in 1 .. Len(work) : work[k].slot = s
      <4>1. /\ \A k \in 1 .. Len(work) : k \in 1 .. Len(work')
            /\ Len(work) + 1 \in 1 .. Len(work')
        BY <1>a, <2>e
      <4> QED
        BY <2>d, <2>e, <2>f, <4>1
    <3>2. \A s \in Frames!Slots : fence'[s] = IF s = frameSlot THEN "pending" ELSE fence[s]
      BY <1>a, <2>b
    <3> QED
      BY <1>m, <2>a, <2>b, <3>1, <3>2 DEF VfMeant
  <2> QED
    BY <2>1, <2>2, <2>3, <2>4, <2>5, <2>6 DEF VfInv
<1>14. CASE Frames!Submit /\ failed' = failed \cup {frameSlot} /\ UNCHANGED <<work, fence>>
  <2>a. UNCHANGED <<next, seen, frameKnown, frameImage, frameIndex, extent, handles, frameSlot, inFlight, vertexSlot, cache, cacheExtent, frameDrawn, work, fence>>
    BY <1>14 DEF Frames!Submit, Frames!renderer
  <2>b. pc = "submit" /\ pc' = "present" /\ failed' = failed \cup {frameSlot} /\ fence[frameSlot] = "reset"
    BY <1>c, <1>14 DEF Frames!Submit, Frames!Goto, VfFence
  <2>g. \A k \in 1 .. Len(work) : /\ work[k].slot # frameSlot /\ Back(frameSlot, work[k].slot) \in 1 .. FramesInFlight
                                  /\ Back(Frames!After(frameSlot), work[k].slot) = Back(frameSlot, work[k].slot) + 1
                                  /\ Len(work) - k + 1 <= Back(frameSlot, work[k].slot)
    <3> TAKE k \in 1 .. Len(work)
    <3>1. work[k].slot # frameSlot
      BY <1>a, <1>b, <1>m, <2>b DEF VfMeant
    <3>2. Len(work) - k + 1 <= Back(frameSlot, work[k].slot)
      BY <1>r, <2>b DEF VfRing, Base
    <3>3. Back(frameSlot, work[k].slot) \in 1 .. FramesInFlight /\ Back(Frames!After(frameSlot), work[k].slot) = Back(frameSlot, work[k].slot) + 1
      BY <1>a, <1>b, <3>1, VfTurn
    <3> QED
      BY <3>1, <3>2, <3>3
  <2>j. \A j, k \in 1 .. Len(work) : j < k => Back(frameSlot, work[k].slot) < Back(frameSlot, work[j].slot)
    BY <1>r, <2>b DEF VfRing, Base
  <2>v. \A k \in 1 .. Len(work) : work[k].vertex # Frames!NoSlot => Back(vertexSlot, work[k].vertex) <= Back(Frames!After(frameSlot), work[k].slot)
    <3> SUFFICES ASSUME NEW k \in 1 .. Len(work), work[k].vertex # Frames!NoSlot
                 PROVE  Back(vertexSlot, work[k].vertex) <= Back(Frames!After(frameSlot), work[k].slot)
      OBVIOUS
    <3>1. /\ work[k].vertex \in Frames!Slots
          /\ Back(vertexSlot, work[k].vertex) <= Back(frameSlot, work[k].slot) + (IF frameDrawn # "none" THEN 1 ELSE 0)
      BY <1>v, <1>b, <2>b DEF VfVertex, Base
    <3>2. Back(vertexSlot, work[k].vertex) \in 1 .. FramesInFlight
      BY <1>a, <1>g, <3>1, VfTurn
    <3>3. /\ Back(Frames!After(frameSlot), work[k].slot) = Back(frameSlot, work[k].slot) + 1
          /\ Back(frameSlot, work[k].slot) \in 1 .. FramesInFlight
      BY <2>g
    <3> QED
      BY <1>a, <3>1, <3>2, <3>3
  <2>1. VfFacts'
    BY <1>f, <1>a, <2>a, <2>b DEF VfFacts, Frames!TypeOK
  <2>2. VfRing'
    <3>1. frameIndex' = frameSlot' /\ Base' = Frames!After(frameSlot)
      BY <1>r, <2>a, <2>b DEF VfRing, Base
    <3>2. \A k \in 1 .. Len(work) : work[k].command = work[k].slot /\ Len(work) - k + 1 <= Back(Frames!After(frameSlot), work[k].slot)
      BY <1>a, <1>r, <2>g DEF VfRing
    <3>3. ASSUME NEW j \in 1 .. Len(work), NEW k \in 1 .. Len(work), j < k
          PROVE  Back(Frames!After(frameSlot), work[k].slot) < Back(Frames!After(frameSlot), work[j].slot)
      <4>1. Back(frameSlot, work[k].slot) < Back(frameSlot, work[j].slot)
        BY <2>j, <3>3
      <4>2. \A i \in {j, k} : Back(Frames!After(frameSlot), work[i].slot) = Back(frameSlot, work[i].slot) + 1 /\ Back(frameSlot, work[i].slot) \in 1 .. FramesInFlight
        BY <2>g
      <4> QED
        BY <1>a, <4>1, <4>2
    <3> QED
      BY <2>a, <3>1, <3>2, <3>3 DEF VfRing
  <2>3. VfVertex'
    <3>1. \A k \in 1 .. Len(work) : Back(Frames!After(frameSlot), work[k].slot) + 0 = Back(Frames!After(frameSlot), work[k].slot)
      BY <1>a, <2>g
    <3>2. \A k \in 1 .. Len(work) : work[k].vertex # Frames!NoSlot => Back(vertexSlot, work[k].vertex) <= Back(Frames!After(frameSlot), work[k].slot) + 0
      BY <2>v, <3>1
    <3>3. pc' = "present" /\ Base' = Frames!After(frameSlot) /\ work' = work /\ vertexSlot' = vertexSlot
      BY <2>a, <2>b DEF Base
    <3> QED
      BY <3>2, <3>3 DEF VfVertex, Frames!NoSlot
  <2>4. VfFence'
    BY <1>c, <1>a, <2>a, <2>b DEF VfFence
  <2>5. VfBuffers'
    BY <1>u, <1>a, <2>a, <2>b DEF VfBuffers
  <2>6. VfMeant'
    BY <1>m, <1>a, <2>a, <2>b DEF VfMeant
  <2> QED
    BY <2>1, <2>2, <2>3, <2>4, <2>5, <2>6 DEF VfInv
<1>8. CASE Frames!Present
  <2>a. UNCHANGED <<failed, seen, frameKnown, extent, handles, fence, inFlight, vertexSlot, cache, cacheExtent, work>>
    BY <1>8 DEF Frames!Present, Frames!device
  <2>b. /\ pc = "present" /\ pc' \in {"idle", "recreate"} /\ next' = "idle" /\ frameDrawn' = "none"
        /\ frameSlot' = Frames!After(frameSlot) /\ frameIndex' = Frames!After(frameIndex) /\ frameIndex = frameSlot
    BY <1>r, <1>8 DEF Frames!Present, Frames!Goto, Frames!TurnSlot, VfRing
  <2>c. Frames!After(frameSlot) \in Frames!Slots
    BY <1>a, VfTurn
  <2>1. VfFacts'
    BY <1>f, <1>a, <2>a, <2>b, <2>c DEF VfFacts, Frames!TypeOK
  <2>2. VfRing'
    BY <1>r, <1>a, <2>a, <2>b, <2>c DEF VfRing, Base
  <2>3. VfVertex'
    BY <1>v, <1>a, <2>a, <2>b, <2>c DEF VfVertex, Base
  <2>4. VfFence'
    BY <1>c, <1>a, <2>a, <2>b, <2>c DEF VfFence
  <2>5. VfBuffers'
    BY <1>u, <1>a, <2>a, <2>b, <2>c DEF VfBuffers
  <2>6. VfMeant'
    BY <1>m, <1>a, <2>a, <2>b, <2>c DEF VfMeant
  <2> QED
    BY <2>1, <2>2, <2>3, <2>4, <2>5, <2>6 DEF VfInv
<1>9. CASE Frames!Unhook
  <2>a. UNCHANGED <<failed, next, frameImage, frameIndex, extent, handles, frameSlot, fence, inFlight, vertexSlot, cache, cacheExtent, frameDrawn, work>>
    BY <1>9 DEF Frames!Unhook, Frames!device, Frames!driver, Frames!swapchain, Frames!renderer, Frames!window
  <2>b. pc = "idle" /\ pc' = "detach"
    BY <1>9 DEF Frames!Unhook, Frames!Goto
  <2>1. VfFacts'
    BY <1>f, <1>a, <2>a, <2>b DEF VfFacts, Frames!TypeOK
  <2>2. VfRing'
    BY <1>r, <1>a, <2>a, <2>b DEF VfRing, Base
  <2>3. VfVertex'
    BY <1>v, <1>a, <2>a, <2>b DEF VfVertex, Base
  <2>4. VfFence'
    BY <1>c, <1>a, <2>a, <2>b DEF VfFence
  <2>5. VfBuffers'
    BY <1>u, <1>a, <2>a, <2>b DEF VfBuffers
  <2>6. VfMeant'
    BY <1>m, <1>a, <2>a, <2>b DEF VfMeant
  <2> QED
    BY <2>1, <2>2, <2>3, <2>4, <2>5, <2>6 DEF VfInv
<1>10. CASE Frames!Detach
  <2>a. UNCHANGED <<failed, next, seen, frameKnown, frameImage, frameIndex, extent, handles, frameSlot, fence, inFlight, vertexSlot, cache, cacheExtent, frameDrawn>>
    BY <1>10 DEF Frames!Detach, Frames!device, Frames!swapchain, Frames!renderer
  <2>b. pc = "detach" /\ pc' = "gone"
    BY <1>10 DEF Frames!Detach, Frames!Goto
  <2>w. \A s \in Frames!Slots : fence[s] = "signalled"
    BY <1>10 DEF Frames!Detach, Frames!Waited
  <2>n. Len(work) = 0
    <3>1. \A k \in 1 .. Len(work) : FALSE
      BY <1>b, <1>m, <2>w DEF VfMeant
    <3> QED
      BY <1>a, <3>1
  <2>s. SameWork
    <3>1. CASE work' = [k \in DOMAIN work |-> [work[k] EXCEPT !.lost = TRUE]]
      <4> DEFINE lost == [k \in 1 .. Len(work) |-> TRUE]
      <4>0. lost \in [1 .. Len(work) -> BOOLEAN] /\ \A k \in 1 .. Len(work) : lost[k] = TRUE
        OBVIOUS
      <4>2. DOMAIN work = 1 .. Len(work)
        BY <1>a
      <4> HIDE DEF lost
      <4>1. work' = [k \in DOMAIN work |-> [work[k] EXCEPT !.lost = lost[k]]]
        BY <3>1, <4>0, <4>2, Zenon
      <4> QED
        BY <1>a, <4>0, <4>1, VfLost
    <3>2. CASE work' = work
      BY <1>a, <3>2 DEF SameWork
    <3> QED
      BY <1>10, <3>1, <3>2 DEF Frames!Detach
  <2>1. VfFacts'
    BY <1>f, <1>a, <2>a, <2>b, <2>n, <2>s, <2>w DEF VfFacts, Frames!TypeOK, SameWork
  <2>2. VfRing'
    BY <1>r, <1>a, <2>a, <2>b, <2>n, <2>s, <2>w DEF VfRing, Base, SameWork
  <2>3. VfVertex'
    BY <1>v, <1>a, <2>a, <2>b, <2>n, <2>s, <2>w DEF VfVertex, Base, SameWork
  <2>4. VfFence'
    BY <1>c, <1>a, <2>a, <2>b, <2>n, <2>s, <2>w DEF VfFence, SameWork
  <2>5. VfBuffers'
    BY <1>u, <1>a, <2>a, <2>b, <2>n, <2>s, <2>w DEF VfBuffers, SameWork
  <2>6. VfMeant'
    BY <1>m, <1>a, <2>a, <2>b, <2>n, <2>s, <2>w DEF VfMeant, SameWork
  <2> QED
    BY <2>1, <2>2, <2>3, <2>4, <2>5, <2>6 DEF VfInv
<1>11. CASE Frames!Complete
  <2>a. UNCHANGED <<failed, pc, next, seen, frameKnown, frameImage, frameIndex, extent, handles, frameSlot, inFlight, vertexSlot, cache, cacheExtent, frameDrawn>>
    BY <1>11 DEF Frames!Complete, Frames!device, Frames!driver, Frames!renderer
  <2>b. /\ Len(work) # 0 /\ 1 \in 1 .. Len(work) /\ work[1].slot \in Frames!Slots
        /\ fence' = [fence EXCEPT ![work[1].slot] = "signalled"]
    <3>1. work # <<>> /\ Len(work) # 0 /\ Head(work) = work[1]
      BY <1>a, <1>11 DEF Frames!Complete
    <3>2. 1 \in 1 .. Len(work)
      BY <1>a, <3>1
    <3> QED
      BY <1>b, <1>11, <3>1, <3>2 DEF Frames!Complete
  <2>c. /\ work' \in Seq(Work) /\ Len(work') = Len(work) - 1
        /\ \A k \in 1 .. Len(work') : work'[k] = work[k + 1] /\ k + 1 \in 1 .. Len(work) /\ k + 1 # 1
        /\ \A k \in 1 .. Len(work) : k = 1 \/ (k - 1 \in 1 .. Len(work') /\ work'[k - 1] = work[k])
    <3>1. work' = Tail(work) /\ work # <<>> /\ Len(work) >= 1
      BY <1>a, <1>11 DEF Frames!Complete
    <3>2. Tail(work) \in Seq(Work) /\ Len(Tail(work)) = Len(work) - 1
      BY <1>a, <3>1
    <3>3. \A k \in 1 .. Len(work) - 1 : Tail(work)[k] = work[k + 1]
      BY <1>a, <3>1
    <3>4. \A k \in 1 .. Len(work) - 1 : k + 1 \in 1 .. Len(work) /\ k + 1 # 1
      BY <1>a
    <3>5. \A k \in 1 .. Len(work) : k = 1 \/ (k - 1 \in 1 .. Len(work) - 1 /\ (k - 1) + 1 = k)
      BY <1>a
    <3> QED
      BY <3>1, <3>2, <3>3, <3>4, <3>5
  <2>d. \A k \in 1 .. Len(work) : work[k].slot = work[1].slot => k = 1
    <3> SUFFICES ASSUME NEW k \in 1 .. Len(work), work[k].slot = work[1].slot PROVE k = 1
      OBVIOUS
    <3>1. 1 < k => Back(Base, work[k].slot) < Back(Base, work[1].slot)
      BY <1>r, <2>b DEF VfRing
    <3>2. Back(Base, work[k].slot) \in 1 .. FramesInFlight
      BY <1>a, <1>b, <1>g, VfTurn
    <3> QED
      BY <1>a, <3>1, <3>2
  <2>e. fence[work[1].slot] = "pending"
    BY <1>b, <1>m, <2>b DEF VfMeant
  <2>1. VfFacts'
    BY SMTT(40), <1>f, <1>a, <1>b, <2>a, <2>b, <2>c, <2>e DEF VfFacts, Frames!TypeOK
  <2>2. VfRing'
    <3>1. \A k \in 1 .. Len(work') : /\ work'[k].command = work'[k].slot
                                     /\ Len(work') - k + 1 <= Back(Base, work'[k].slot)
      <4> TAKE k \in 1 .. Len(work')
      <4>1. work[k + 1].command = work[k + 1].slot /\ Len(work) - (k + 1) + 1 <= Back(Base, work[k + 1].slot)
        BY <1>r, <2>c DEF VfRing
      <4>2. Len(work) - (k + 1) + 1 = Len(work') - k + 1
        BY <1>a, <2>c
      <4> QED
        BY <2>c, <4>1, <4>2
    <3>3. ASSUME NEW j \in 1 .. Len(work'), NEW k \in 1 .. Len(work'), j < k
          PROVE  Back(Base, work'[k].slot) < Back(Base, work'[j].slot)
      <4>1. j + 1 < k + 1
        BY <2>c, <3>3
      <4> QED
        BY <1>r, <2>c, <4>1 DEF VfRing
    <3>2. frameIndex' = frameSlot' /\ Base' = Base
      BY <1>r, <2>a DEF VfRing, Base
    <3> QED
      BY <3>1, <3>2, <3>3 DEF VfRing
  <2>3. VfVertex'
    <3> SUFFICES ASSUME NEW k \in 1 .. Len(work'), work[k + 1].vertex # Frames!NoSlot
                 PROVE  Back(vertexSlot, work[k + 1].vertex)
                            <= Back(Base, work[k + 1].slot) + (IF pc = "submit" /\ frameDrawn # "none" THEN 1 ELSE 0)
      BY <2>a, <2>c DEF VfVertex, Frames!NoSlot, Base
    <3> QED
      BY <1>v, <2>c DEF VfVertex
  <2>4. VfFence'
    <3>1. \A k \in 1 .. Len(work') : inFlight[work'[k].image] = work'[k].slot
      BY <1>c, <2>c DEF VfFence
    <3>2. pc \in {"record", "submit"} => frameSlot # work[1].slot
      BY SMTT(40), <1>c, <2>e DEF VfFence
    <3>3. \A s \in Frames!Slots : fence'[s] = IF s = work[1].slot THEN "signalled" ELSE fence[s]
      BY <1>a, <2>b
    <3> QED
      BY <1>a, <1>c, <2>a, <3>1, <3>2, <3>3 DEF VfFence
  <2>5. VfBuffers'
    <3>1. \A k \in 1 .. Len(work') : ~work[k + 1].lost /\ (work[k + 1].framebuffer # "none" => cacheExtent = extent)
      BY <1>u, <2>c DEF VfBuffers
    <3>2. \A k \in 1 .. Len(work') : work'[k] = work[k + 1]
      BY <2>c
    <3> QED
      BY <1>u, <2>a, <3>1, <3>2 DEF VfBuffers
  <2>6. VfMeant'
    <3>1. \A s \in Frames!Slots : (\E k \in 1 .. Len(work') : work'[k].slot = s)
             <=> s # work[1].slot /\ \E k \in 1 .. Len(work) : work[k].slot = s
      <4> TAKE s \in Frames!Slots
      <4>1. ASSUME NEW k \in 1 .. Len(work'), work'[k].slot = s
            PROVE  s # work[1].slot /\ \E i \in 1 .. Len(work) : work[i].slot = s
        BY <2>c, <2>d, <4>1
      <4>2. ASSUME s # work[1].slot, NEW k \in 1 .. Len(work), work[k].slot = s
            PROVE  \E i \in 1 .. Len(work') : work'[i].slot = s
        <5>1. k # 1
          BY <4>2
        <5>2. k - 1 \in 1 .. Len(work') /\ work'[k - 1].slot = s
          BY <2>c, <4>2, <5>1
        <5> QED
          BY <5>2
      <4> QED
        BY <4>1, <4>2
    <3>2. \A s \in Frames!Slots : fence'[s] = IF s = work[1].slot THEN "signalled" ELSE fence[s]
      BY <1>a, <2>b
    <3> QED
      BY <1>m, <2>a, <2>b, <2>e, <3>1, <3>2 DEF VfMeant
  <2> QED
    BY <2>1, <2>2, <2>3, <2>4, <2>5, <2>6 DEF VfInv
<1>12. CASE Frames!Resize
  <2>a. UNCHANGED <<failed, pc, next, seen, frameKnown, frameImage, frameIndex, extent, handles, frameSlot, fence, inFlight, vertexSlot, cache, cacheExtent, frameDrawn, work>>
    BY <1>12 DEF Frames!Resize, Frames!device, Frames!driver, Frames!swapchain, Frames!renderer
  <2>1. VfFacts'
    BY <1>f, <1>a, <2>a DEF VfFacts, Frames!TypeOK
  <2>2. VfRing'
    BY <1>r, <1>a, <2>a DEF VfRing, Base
  <2>3. VfVertex'
    BY <1>v, <1>a, <2>a DEF VfVertex, Base
  <2>4. VfFence'
    BY <1>c, <1>a, <2>a DEF VfFence
  <2>5. VfBuffers'
    BY <1>u, <1>a, <2>a DEF VfBuffers
  <2>6. VfMeant'
    BY <1>m, <1>a, <2>a DEF VfMeant
  <2> QED
    BY <2>1, <2>2, <2>3, <2>4, <2>5, <2>6 DEF VfInv
<1>13. CASE UNCHANGED Frames!vars
  <2>1. VfFacts'
    BY <1>f, <1>13 DEF VfFacts, Frames!TypeOK, Frames!vars, Frames!driver, Frames!swapchain, Frames!renderer, Frames!window, Frames!device
  <2>2. VfRing'
    BY <1>r, <1>13 DEF VfRing, Base, Frames!vars, Frames!driver, Frames!swapchain, Frames!renderer, Frames!window, Frames!device
  <2>3. VfVertex'
    BY <1>v, <1>13 DEF VfVertex, Base, Frames!vars, Frames!driver, Frames!swapchain, Frames!renderer, Frames!window, Frames!device
  <2>4. VfFence'
    BY <1>c, <1>13 DEF VfFence, Frames!vars, Frames!driver, Frames!swapchain, Frames!renderer, Frames!window, Frames!device
  <2>5. VfBuffers'
    BY <1>u, <1>13 DEF VfBuffers, Frames!vars, Frames!driver, Frames!swapchain, Frames!renderer, Frames!window, Frames!device
  <2>6. VfMeant'
    BY <1>m, <1>13 DEF VfMeant, Frames!vars, Frames!driver, Frames!swapchain, Frames!renderer, Frames!window, Frames!device
  <2> QED
    BY <2>1, <2>2, <2>3, <2>4, <2>5, <2>6 DEF VfInv
<1> QED
  <2>1. CASE Frames!Submit
    BY <1>7, <1>14, <2>1 DEF Frames!Submit, Frames!device
  <2> QED
    BY <1>1, <1>2, <1>3, <1>4, <1>5, <1>6, <1>8, <1>9, <1>10, <1>11, <1>12, <1>13, <2>1 DEF Frames!Next, Frames!OnFrame

\* From it: nothing is written, recorded or destroyed while the GPU uses it, and a fence
\* that somebody waits for will be signalled.
LEMMA VfSafe == Frames!VulkanConstants /\ VfInv => Frames!Inv
<1> SUFFICES ASSUME Frames!VulkanConstants, VfInv PROVE Frames!Inv
  OBVIOUS
<1>0. VfFacts /\ VfRing /\ VfVertex /\ VfFence /\ VfBuffers /\ VfMeant
  BY DEF VfInv
<1>1. /\ work \in Seq(Work) /\ frameSlot \in Frames!Slots /\ vertexSlot \in Frames!Slots /\ Len(work) \in Nat /\ Len(work) <= FramesInFlight
      /\ FramesInFlight \in Nat \ {0} /\ Frames!NoSlot \notin Frames!Slots /\ DOMAIN work = 1 .. Len(work) /\ Frames!TypeOK
  BY <1>0 DEF VfFacts, Frames!TypeOK, Frames!Slots, Frames!NoSlot, Frames!VulkanConstants
<1>2. \A k \in 1 .. Len(work) : work[k] \in Work /\ work[k].slot \in Frames!Slots /\ work[k].image \in Images /\ work[k].vertex \in Frames!Slots \cup {Frames!NoSlot}
  <2>1. \A k \in 1 .. Len(work) : work[k] \in Work
    BY <1>1
  <2> QED
    BY <2>1 DEF Work
<1>3. Base \in Frames!Slots
  BY <1>1, VfTurn DEF Base
<1>4. \A j, k \in 1 .. Len(work) : work[j].slot = work[k].slot => j = k
  <2> SUFFICES ASSUME NEW j \in 1 .. Len(work), NEW k \in 1 .. Len(work), work[j].slot = work[k].slot PROVE j = k
    OBVIOUS
  <2>1. /\ j < k => Back(Base, work[k].slot) < Back(Base, work[j].slot)
        /\ k < j => Back(Base, work[j].slot) < Back(Base, work[k].slot)
    BY <1>0 DEF VfRing
  <2>2. Back(Base, work[j].slot) \in 1 .. FramesInFlight
    BY <1>2, <1>3, VfTurn
  <2> QED
    BY <1>1, <2>1, <2>2
<1>5. Frames!OneFramePerImage
  BY <1>0, <1>1, <1>4 DEF VfFence, Frames!OneFramePerImage
<1>6. Frames!NothingLost
  BY <1>0, <1>1 DEF VfBuffers, Frames!NothingLost, Frames!Pending
<1>7. Frames!FencesMeant
  <2>1. \A s \in Frames!Slots : (\E p \in Frames!Pending : p.slot = s) <=> \E k \in 1 .. Len(work) : work[k].slot = s
    BY <1>1 DEF Frames!Pending
  <2> QED
    BY <1>0, <2>1 DEF VfMeant, Frames!FencesMeant
<1>8. Frames!RecordsFree
  <2> SUFFICES ASSUME pc = "record", NEW k \in 1 .. Len(work)
               PROVE  work[k].command # frameIndex /\ work[k].vertex # vertexSlot
    BY <1>1 DEF Frames!RecordsFree, Frames!Pending
  <2>1. fence[frameSlot] = "reset" /\ frameIndex = frameSlot /\ Base = frameSlot
    BY <1>0 DEF VfFence, VfRing, Base
  <2>2. \A i \in 1 .. Len(work) : work[i].slot # frameSlot
    BY <1>0, <1>1, <2>1 DEF VfMeant
  <2>3. work[k].command # frameIndex
    BY <1>0, <2>1, <2>2 DEF VfRing
  <2>4. ASSUME work[k].vertex = vertexSlot PROVE FALSE
    <3>1. Back(vertexSlot, vertexSlot) = FramesInFlight
      BY <1>1, VfTurn
    <3>2. Back(vertexSlot, vertexSlot) <= Back(frameSlot, work[k].slot) + 0
      BY <1>0, <1>1, <2>1, <2>4 DEF VfVertex
    <3>3. /\ Back(frameSlot, work[k].slot) \in 1 .. FramesInFlight
          /\ Back(frameSlot, work[k].slot) = FramesInFlight => work[k].slot = frameSlot
      BY <1>1, <1>2, VfTurn
    <3>4. Back(frameSlot, work[k].slot) = FramesInFlight
      BY <1>1, <3>1, <3>2, <3>3
    <3> QED
      BY <2>2, <3>3, <3>4
  <2> QED
    BY <2>3, <2>4
<1> QED
  BY <1>1, <1>5, <1>6, <1>7, <1>8 DEF Frames!Inv

-----------------------------------------------------------------------------
\* The Vulkan objects.

\* What VulkanResources counts is counted as everywhere, and finite as everywhere.
LEMMA VrCount == \A S : Objects!Cardinality(S) = Cardinality(S)
  BY Zenon DEF Objects!Cardinality, Cardinality

\* The same of being finite.
LEMMA VrFinite == \A S : Objects!IsFiniteSet(S) <=> IsFiniteSet(S)
  BY Zenon DEF Objects!IsFiniteSet, IsFiniteSet

Pool  == Textures \cup {White}
Known == Objects!FirstOf(Objects!Platform, 4) \cup Objects!Device \cup (UNION {Objects!Shown(s) : s \in Surfaces}) \cup Objects!Freed

\* There is nothing but the module's own and what the renderer's destructor frees, and
\* that needs a renderer that was made, on a device.
VrKnown ==
    /\ gpuHeld \subseteq Known
    /\ renderer # "made" => gpuHeld \cap Objects!Freed = {}
    /\ renderer = "made" => Objects!Has(Objects!One("device"))
    /\ ~up => gpuHeld = {}

\* The device has an instance, and a surface and its fences a device.
VrDevice ==
    /\ Objects!Has(Objects!One("device")) => Objects!Has(Objects!One("instance"))
    /\ \A s \in Surfaces : Objects!Has(<<"surface", s>>) \/ Objects!Has(<<"fences", s>>) => Objects!Has(Objects!One("device"))

\* A swapchain has a surface, and its views a swapchain.
VrChains ==
    \A s \in Surfaces :
        /\ Objects!Has(<<"swapchain", s>>) => Objects!Has(<<"surface", s>>)
        /\ \A i \in Images : Objects!Has(Objects!View(s, i)) => Objects!Has(<<"swapchain", s>>)

\* Framebuffers and the pipeline have a render pass, and the pipeline a set layout.
VrPipeline ==
    /\ \A o \in Objects!Frames \cup Objects!Pipeline : Objects!Has(o) => Objects!Has(Objects!One("renderPass"))
    /\ \A o \in Objects!Pipeline : Objects!Has(o) => Objects!Has(Objects!One("setLayout"))

\* A texture is there as a whole.
VrTextures == \A t \in Pool : \A o \in Objects!Parts(t) : Objects!Has(o) <=> Objects!Has(<<"image", t>>)

\* The textures there are.
Made == {t \in Pool : <<"image", t>> \in gpuHeld}
VrSets == sets = Objects!Cardinality(Made)

VrInv ==
    Objects!TypeOK /\ Objects!HandlesExact /\ VrKnown /\ VrDevice /\ VrChains /\ VrPipeline /\ VrTextures /\ VrSets

-----------------------------------------------------------------------------
PlatformKinds == {"video", "library", "instance", "messenger"}
ShownKinds    == {"imageView", "swapchain", "surface", "fences"}
InfraKinds    == {"sampler", "setLayout", "setPool", "commandPool", "fence"}
PartKinds     == {"image", "memory", "view"}
VertexKinds   == {"buffer", "bufferMemory"}
PipelineKinds == {"renderPass", "layout", "pipeline"}

\* What onInit() and the constructor create in order, as sets.
LEMMA VrLists ==
  /\ Objects!FirstOf(Objects!Platform, 4) = Objects!Ones(PlatformKinds) /\ \A k \in 0 .. 4 : Objects!FirstOf(Objects!Platform, k) \subseteq Objects!FirstOf(Objects!Platform, 4)
  /\ Objects!FirstOf(Objects!Infra, 5) = Objects!Ones(InfraKinds) /\ \A k \in 0 .. 5 : Objects!FirstOf(Objects!Infra, k) \subseteq Objects!FirstOf(Objects!Infra, 5)
<1>1. /\ Objects!Platform[1] = "video" /\ Objects!Platform[2] = "library" /\ Objects!Platform[3] = "instance"
      /\ Objects!Platform[4] = "messenger"
  BY DEF Objects!Platform, Objects!Instance
<1>2. {Objects!Platform[i] : i \in 1 .. 4} = PlatformKinds
  <2>1. 1 .. 4 = {1, 2, 3, 4}
    OBVIOUS
  <2> QED
    BY <1>1, <2>1 DEF PlatformKinds
<1>3. /\ Objects!Infra[1] = "sampler" /\ Objects!Infra[2] = "setLayout" /\ Objects!Infra[3] = "setPool"
      /\ Objects!Infra[4] = "commandPool" /\ Objects!Infra[5] = "fence"
  BY DEF Objects!Infra
<1>4. {Objects!Infra[i] : i \in 1 .. 5} = InfraKinds
  <2>1. 1 .. 5 = {1, 2, 3, 4, 5}
    OBVIOUS
  <2> QED
    BY <1>3, <2>1 DEF InfraKinds
<1>5. ASSUME NEW list, NEW n \in Nat, NEW k \in 0 .. n PROVE Objects!FirstOf(list, k) \subseteq Objects!FirstOf(list, n)
  <2>1. 1 .. k \subseteq 1 .. n
    OBVIOUS
  <2> QED
    BY <2>1 DEF Objects!FirstOf, Objects!Ones
<1>6. \A k \in 0 .. 4 : Objects!FirstOf(Objects!Platform, k) \subseteq Objects!FirstOf(Objects!Platform, 4)
  BY <1>5
<1>7. \A k \in 0 .. 5 : Objects!FirstOf(Objects!Infra, k) \subseteq Objects!FirstOf(Objects!Infra, 5)
  BY <1>5
<1>8. Objects!FirstOf(Objects!Platform, 4) = Objects!Ones(PlatformKinds) /\ Objects!FirstOf(Objects!Infra, 5) = Objects!Ones(InfraKinds)
  BY <1>2, <1>4 DEF Objects!FirstOf
<1> QED
  BY <1>6, <1>7, <1>8

\* The kind of an object is its first component.
LEMMA VrKinds ==
  /\ \A k : Objects!One(k)[1] = k
  /\ \A o \in Objects!FirstOf(Objects!Platform, 4) : o[1] \in PlatformKinds
  /\ \A s : \A o \in Objects!Shown(s) : o[1] \in ShownKinds
  /\ \A o \in Objects!FirstOf(Objects!Infra, 5) : o[1] \in InfraKinds
  /\ \A t : \A o \in Objects!Parts(t) : o[1] \in PartKinds
  /\ \A f : \A o \in Objects!Vertex(f) : o[1] \in VertexKinds
  /\ \A o \in Objects!Pipeline : o[1] \in PipelineKinds
  /\ \A o \in Objects!Frames : o[1] = "framebuffer"
<1>1. \A k : Objects!One(k)[1] = k
  BY DEF Objects!One
<1>2. \A o \in Objects!FirstOf(Objects!Platform, 4) : o[1] \in PlatformKinds
  BY <1>1, VrLists DEF Objects!Ones
<1>3. \A o \in Objects!FirstOf(Objects!Infra, 5) : o[1] \in InfraKinds
  BY <1>1, VrLists DEF Objects!Ones
<1>4. \A o \in Objects!Pipeline : o[1] \in PipelineKinds
  BY <1>1 DEF Objects!Ones, Objects!Pipeline, PipelineKinds
<1>5. \A s : \A o \in Objects!Shown(s) : o[1] \in ShownKinds
  BY DEF Objects!Shown, Objects!Chain, Objects!Views, Objects!View, Objects!Sync, ShownKinds
<1>6. \A t : \A o \in Objects!Parts(t) : o[1] \in PartKinds
  BY DEF Objects!Parts, PartKinds
<1>7. \A f : \A o \in Objects!Vertex(f) : o[1] \in VertexKinds
  BY DEF Objects!Vertex, VertexKinds
<1>8. \A o \in Objects!Frames : o[1] = "framebuffer"
  BY DEF Objects!Frames
<1> QED
  BY <1>1, <1>2, <1>3, <1>4, <1>5, <1>6, <1>7, <1>8

FreedKinds == VertexKinds \cup {"framebuffer"} \cup PartKinds \cup InfraKinds \cup PipelineKinds

\* What the destructor of the renderer frees, and its kinds.
LEMMA VrFreed ==
  /\ \A o \in Objects!Freed : o[1] \in FreedKinds
  /\ \A f \in Objects!Slots : Objects!Vertex(f) \subseteq Objects!Freed
  /\ \A t \in Pool : Objects!Parts(t) \subseteq Objects!Freed /\ <<"image", t>> \in Objects!Parts(t)
  /\ Objects!Frames \subseteq Objects!Freed /\ Objects!Pipeline \subseteq Objects!Freed /\ Objects!FirstOf(Objects!Infra, 5) \subseteq Objects!Freed
  /\ Objects!One("setLayout") \in Objects!FirstOf(Objects!Infra, 5) /\ Objects!One("renderPass") \in Objects!Pipeline /\ Objects!One("pipeline") \in Objects!Pipeline
<1>0. ASSUME NEW o \in Objects!Freed
      PROVE  \/ \E f \in Objects!Slots : o \in Objects!Vertex(f)
             \/ o \in Objects!Frames
             \/ \E t \in Pool : o \in Objects!Parts(t)
             \/ o \in Objects!FirstOf(Objects!Infra, 5)
             \/ o \in Objects!Pipeline
  BY DEF Objects!Freed, Pool
<1>1. \A o \in Objects!Freed : o[1] \in FreedKinds
  <2>1. /\ VertexKinds \subseteq FreedKinds /\ "framebuffer" \in FreedKinds /\ PartKinds \subseteq FreedKinds
        /\ InfraKinds \subseteq FreedKinds /\ PipelineKinds \subseteq FreedKinds
    BY DEF FreedKinds
  <2> QED
    BY <1>0, <2>1, VrKinds
<1>2. \A f \in Objects!Slots : Objects!Vertex(f) \subseteq Objects!Freed
  BY DEF Objects!Freed
<1>3. \A t \in Pool : Objects!Parts(t) \subseteq Objects!Freed
  BY DEF Objects!Freed, Pool
<1>4. \A t \in Pool : <<"image", t>> \in Objects!Parts(t)
  BY DEF Objects!Parts
<1>5. Objects!Frames \subseteq Objects!Freed /\ Objects!Pipeline \subseteq Objects!Freed /\ Objects!FirstOf(Objects!Infra, 5) \subseteq Objects!Freed
  BY DEF Objects!Freed
<1>6. Objects!One("setLayout") \in Objects!FirstOf(Objects!Infra, 5) /\ Objects!One("renderPass") \in Objects!Pipeline /\ Objects!One("pipeline") \in Objects!Pipeline
  BY VrLists DEF Objects!Ones, InfraKinds, Objects!Pipeline
<1> QED
  BY <1>1, <1>2, <1>3, <1>4, <1>5, <1>6

\* What the module has is not what the renderer has.
LEMMA VrApart ==
  /\ Objects!One("device") \in Objects!Device /\ Objects!Device \cap Objects!Freed = {} /\ \A o \in Objects!Device : o = Objects!One("device")
  /\ Objects!FirstOf(Objects!Platform, 4) \cap Objects!Freed = {} /\ Objects!One("instance") \in Objects!FirstOf(Objects!Platform, 4)
  /\ Objects!One("instance") \notin Objects!Freed /\ Objects!One("device") \notin Objects!FirstOf(Objects!Platform, 4) /\ Objects!One("device") # Objects!One("instance")
  /\ \A s : /\ Objects!Shown(s) \cap Objects!Freed = {} /\ Objects!Shown(s) \cap Objects!FirstOf(Objects!Platform, 4) = {} /\ Objects!Shown(s) \cap Objects!Device = {}
            /\ Objects!One("device") \notin Objects!Shown(s) /\ Objects!One("instance") \notin Objects!Shown(s)
<1>1. \A o \in Objects!Device : o = Objects!One("device")
  BY DEF Objects!Device
<1>2. Objects!One("device") \in Objects!Device
  BY DEF Objects!Device
<1>3. \A o \in Objects!Freed : o[1] \notin PlatformKinds \cup ShownKinds \cup {"device"}
  BY VrFreed DEF PlatformKinds, ShownKinds, FreedKinds, VertexKinds, PartKinds, InfraKinds, PipelineKinds
<1>4. \A o \in Objects!FirstOf(Objects!Platform, 4) : o[1] # "device" /\ o[1] \notin ShownKinds
  BY VrKinds DEF PlatformKinds, ShownKinds
<1>5. "instance" \in PlatformKinds /\ "instance" \notin ShownKinds /\ "device" \notin ShownKinds
  BY DEF PlatformKinds, ShownKinds
<1>6. Objects!One("instance") \in Objects!FirstOf(Objects!Platform, 4)
  BY <1>5, VrLists DEF Objects!Ones
<1>7. Objects!One("device")[1] = "device" /\ Objects!One("instance")[1] = "instance"
  BY VrKinds
<1>8. \A s : \A o \in Objects!Shown(s) : o[1] \in ShownKinds
  BY VrKinds
<1>9. \A o \in Objects!FirstOf(Objects!Platform, 4) : o[1] \in PlatformKinds
  BY VrKinds
<1> QED
  BY <1>1, <1>2, <1>3, <1>4, <1>5, <1>6, <1>7, <1>8, <1>9

\* What the renderer has of one kind is not of another.
LEMMA VrOwn ==
  /\ \A t : /\ Objects!Parts(t) \cap Objects!Frames = {} /\ Objects!Parts(t) \cap Objects!Pipeline = {} /\ Objects!Parts(t) \cap Objects!FirstOf(Objects!Infra, 5) = {}
            /\ \A f : Objects!Parts(t) \cap Objects!Vertex(f) = {}
            /\ \A r : r # t => Objects!Parts(t) \cap Objects!Parts(r) = {}
  /\ \A f : Objects!Vertex(f) \cap Objects!Frames = {} /\ Objects!Vertex(f) \cap Objects!Pipeline = {} /\ Objects!Vertex(f) \cap Objects!FirstOf(Objects!Infra, 5) = {}
  /\ Objects!FirstOf(Objects!Infra, 5) \cap Objects!Frames = {} /\ Objects!FirstOf(Objects!Infra, 5) \cap Objects!Pipeline = {}
<1>1. \A t, r : r # t => Objects!Parts(t) \cap Objects!Parts(r) = {}
  BY DEF Objects!Parts
<1>2. /\ PartKinds \cap VertexKinds = {} /\ PartKinds \cap InfraKinds = {} /\ PartKinds \cap PipelineKinds = {}
      /\ VertexKinds \cap InfraKinds = {} /\ VertexKinds \cap PipelineKinds = {} /\ InfraKinds \cap PipelineKinds = {}
      /\ "framebuffer" \notin PartKinds \cup VertexKinds \cup InfraKinds
  BY DEF PartKinds, VertexKinds, InfraKinds, PipelineKinds
<1>3. /\ \A t : \A o \in Objects!Parts(t) : o[1] \in PartKinds
      /\ \A f : \A o \in Objects!Vertex(f) : o[1] \in VertexKinds
      /\ \A o \in Objects!FirstOf(Objects!Infra, 5) : o[1] \in InfraKinds
      /\ \A o \in Objects!Pipeline : o[1] \in PipelineKinds
      /\ \A o \in Objects!Frames : o[1] = "framebuffer"
  BY VrKinds
<1>4. \A t : Objects!Parts(t) \cap Objects!Frames = {} /\ Objects!Parts(t) \cap Objects!Pipeline = {} /\ Objects!Parts(t) \cap Objects!FirstOf(Objects!Infra, 5) = {}
  BY <1>2, <1>3
<1>5. \A t, f : Objects!Parts(t) \cap Objects!Vertex(f) = {}
  BY <1>2, <1>3
<1>6. \A f : Objects!Vertex(f) \cap Objects!Frames = {} /\ Objects!Vertex(f) \cap Objects!Pipeline = {} /\ Objects!Vertex(f) \cap Objects!FirstOf(Objects!Infra, 5) = {}
  BY <1>2, <1>3
<1>7. Objects!FirstOf(Objects!Infra, 5) \cap Objects!Frames = {} /\ Objects!FirstOf(Objects!Infra, 5) \cap Objects!Pipeline = {}
  BY <1>2, <1>3
<1> QED
  BY <1>1, <1>4, <1>5, <1>6, <1>7

\* The objects of one surface are not those of another.
LEMMA VrSurfaces ==
  /\ \A s : /\ <<"surface", s>> \in Objects!Shown(s) /\ <<"swapchain", s>> \in Objects!Chain(s) /\ <<"fences", s>> \in Objects!Sync(s)
            /\ Objects!Chain(s) \subseteq Objects!Shown(s) /\ Objects!Sync(s) \subseteq Objects!Shown(s) /\ \A i \in Images : Objects!View(s, i) \in Objects!Chain(s)
            /\ <<"surface", s>> \notin Objects!Chain(s) /\ <<"fences", s>> \notin Objects!Chain(s)
            /\ <<"surface", s>> # <<"fences", s>> /\ <<"swapchain", s>> # <<"surface", s>>
            /\ \A o \in Objects!Sync(s) : o = <<"fences", s>>
  /\ \A s, r : s # r => Objects!Shown(s) \cap Objects!Shown(r) = {}
<1>1. ASSUME NEW s PROVE /\ <<"surface", s>> \in Objects!Shown(s) /\ <<"swapchain", s>> \in Objects!Chain(s) /\ <<"fences", s>> \in Objects!Sync(s)
            /\ Objects!Chain(s) \subseteq Objects!Shown(s) /\ Objects!Sync(s) \subseteq Objects!Shown(s) /\ \A i \in Images : Objects!View(s, i) \in Objects!Chain(s)
  BY DEF Objects!Shown, Objects!Chain, Objects!Views, Objects!Sync
<1>2. ASSUME NEW s PROVE /\ <<"surface", s>> \notin Objects!Chain(s) /\ <<"fences", s>> \notin Objects!Chain(s)
            /\ <<"surface", s>> # <<"fences", s>> /\ <<"swapchain", s>> # <<"surface", s>>
            /\ \A o \in Objects!Sync(s) : o = <<"fences", s>>
  BY DEF Objects!Chain, Objects!Views, Objects!View, Objects!Sync
<1>3. \A s, r : s # r => Objects!Shown(s) \cap Objects!Shown(r) = {}
  <2>1. ASSUME NEW s, NEW o \in Objects!Shown(s)
        PROVE  \/ o = <<"surface", s>> \/ o = <<"swapchain", s>> \/ o = <<"fences", s>>
               \/ \E i \in Images : o = <<"imageView", <<s, i>>>>
    BY <2>1 DEF Objects!Shown, Objects!Chain, Objects!Views, Objects!View, Objects!Sync
  <2> QED
    BY <2>1
<1> QED
  BY <1>1, <1>2, <1>3

-----------------------------------------------------------------------------

\* What there may be, one kind after the other.
LEMMA VrKnowns ==
  \A o : o \in Known <=> \/ o \in Objects!FirstOf(Objects!Platform, 4)
                         \/ o \in Objects!Device
                         \/ \E s \in Surfaces : o \in Objects!Shown(s)
                         \/ o \in Objects!Freed
<1>1. ASSUME NEW A, NEW B, NEW C, NEW D
      PROVE  \A o : o \in A \cup B \cup C \cup D <=> o \in A \/ o \in B \/ o \in C \/ o \in D
  OBVIOUS
<1>2. \A o : o \in UNION {Objects!Shown(s) : s \in Surfaces} <=> \E s \in Surfaces : o \in Objects!Shown(s)
  OBVIOUS
<1>3. \A o : o \in Known <=> \/ o \in Objects!FirstOf(Objects!Platform, 4) \/ o \in Objects!Device
                            \/ o \in UNION {Objects!Shown(s) : s \in Surfaces} \/ o \in Objects!Freed
  BY <1>1, Zenon DEF Known
<1> QED
  BY <1>2, <1>3, Zenon

\* Replacing handles and their objects at once keeps them equal.
LEMMA VrReplace ==
  ASSUME Objects!HandlesExact, NEW old, NEW new, Objects!Replace(old, new)
  PROVE  Objects!HandlesExact' /\ gpuHeld' = (gpuHeld \ old) \cup new
  BY DEF Objects!HandlesExact, Objects!Replace

\* What the renderer has stays.
KeepsRenderer == gpuHeld' \cap Objects!Freed = gpuHeld \cap Objects!Freed /\ UNCHANGED <<renderer, sets>>

\* A step that leaves the objects of the renderer leaves what holds of them.
LEMMA VrKeepsRenderer ==
  ASSUME KeepsRenderer, VrPipeline, VrTextures, VrSets
  PROVE  VrPipeline' /\ VrTextures' /\ VrSets'
<1>1. \A o \in Objects!Freed : o \in gpuHeld' <=> o \in gpuHeld
  BY DEF KeepsRenderer
<1>2. VrPipeline'
  BY <1>1, VrFreed DEF VrPipeline, Objects!Has
<1>3. VrTextures'
  BY <1>1, VrFreed DEF VrTextures, Objects!Has
<1>4. Made' = Made
  BY <1>1, VrFreed DEF Made
<1> QED
  BY <1>2, <1>3, <1>4 DEF VrSets, KeepsRenderer

\* A step that leaves the textures leaves what holds of them.
LEMMA VrKeepsTextures ==
  ASSUME VrTextures, VrSets, sets' = sets, \A t \in Pool : \A o \in Objects!Parts(t) : o \in gpuHeld' <=> o \in gpuHeld
  PROVE  VrTextures' /\ VrSets'
<1>1. \A t \in Pool : <<"image", t>> \in gpuHeld' <=> <<"image", t>> \in gpuHeld
  BY VrFreed
<1>2. VrTextures'
  BY <1>1 DEF VrTextures, Objects!Has
<1>3. Made' = Made
  BY <1>1 DEF Made
<1> QED
  BY <1>2, <1>3 DEF VrSets

\* What the module has stays.
KeepsModule == (\A o : o \notin Objects!Freed => (o \in gpuHeld' <=> o \in gpuHeld)) /\ UNCHANGED up

\* A step that leaves the objects of the module leaves what holds of them.
LEMMA VrKeepsModule ==
  ASSUME KeepsModule, VrDevice, VrChains, VrKnown, renderer' = "made" => Objects!Has(Objects!One("device")),
         renderer' # "made" => gpuHeld' \cap Objects!Freed = {}, ~up => gpuHeld' = {}
  PROVE  VrDevice' /\ VrChains' /\ VrKnown'
<1>1. \A o : o \notin Objects!Freed => (o \in gpuHeld' <=> o \in gpuHeld)
  BY DEF KeepsModule
<1>2. /\ Objects!One("device") \notin Objects!Freed /\ Objects!One("instance") \notin Objects!Freed
      /\ \A s : \A o \in Objects!Shown(s) : o \notin Objects!Freed
  BY VrApart
<1>3. VrDevice'
  BY <1>1, <1>2, VrSurfaces DEF VrDevice, Objects!Has
<1>4. VrChains'
  BY <1>1, <1>2, VrSurfaces DEF VrChains, Objects!Has
<1>5. gpuHeld' \subseteq Known
  <2>1. Objects!Freed \subseteq Known
    BY VrKnowns, Zenon
  <2>2. gpuHeld \subseteq Known
    BY DEF VrKnown
  <2> QED
    BY <1>1, <2>1, <2>2
<1>6. Objects!Has(Objects!One("device"))' <=> Objects!Has(Objects!One("device"))
  BY <1>1, <1>2 DEF Objects!Has
<1> QED
  BY <1>3, <1>4, <1>5, <1>6 DEF VrKnown, KeepsModule

\* Nothing is left.
LEMMA VrNothing ==
  ASSUME gpuHeld' = {}, renderer' # "made", sets' = 0
  PROVE  VrKnown' /\ VrDevice' /\ VrChains' /\ VrPipeline' /\ VrTextures' /\ VrSets'
<1>1. VrKnown' /\ VrDevice' /\ VrChains'
  BY DEF VrKnown, VrDevice, VrChains, Objects!Has
<1>2. VrPipeline' /\ VrTextures'
  BY DEF VrPipeline, VrTextures, Objects!Has
<1>3. Made' = {}
  BY DEF Made
<1> QED
  BY <1>1, <1>2, <1>3, FS_EmptySet, VrCount, VrFinite DEF VrSets

-----------------------------------------------------------------------------

\* Before onInit(), the module and the renderer satisfy the invariant.
LEMMA VrInit == Objects!ResourceConstants /\ Objects!Init => VrInv
<1> SUFFICES ASSUME Objects!ResourceConstants, Objects!Init PROVE VrInv
  OBVIOUS
<1>1. Objects!TypeOK
  <2>1. 0 \in Objects!Slots /\ 0 \in 0 .. MaxSets /\ 0 \in 0 .. MaxVertices
    BY DEF Objects!ResourceConstants, Objects!Slots
  <2>2. /\ up = FALSE /\ renderer = "none" /\ sets = 0 /\ currentFrame = 0 /\ gpuDrawn = "nothing"
        /\ capacity = [f \in Objects!Slots |-> 0] /\ vertices = [f \in Objects!Slots |-> 0]
    BY DEF Objects!Init
  <2>3. capacity \in [Objects!Slots -> 0 .. MaxVertices] /\ vertices \in [Objects!Slots -> 0 .. MaxVertices]
    BY <2>1, <2>2
  <2> QED
    BY <2>1, <2>2, <2>3 DEF Objects!TypeOK
<1>2. Objects!HandlesExact
  BY DEF Objects!Init, Objects!HandlesExact
<1>3. gpuHeld = {} /\ renderer = "none" /\ sets = 0
  BY DEF Objects!Init
<1>4. VrKnown /\ VrDevice /\ VrChains
  BY <1>3 DEF VrKnown, VrDevice, VrChains, Objects!Has
<1>5. VrPipeline /\ VrTextures
  BY <1>3 DEF VrPipeline, VrTextures, Objects!Has
<1>6. Made = {}
  BY <1>3 DEF Made
<1>7. VrSets
  BY <1>3, <1>6, FS_EmptySet, VrCount, VrFinite DEF VrSets
<1> QED
  BY <1>1, <1>2, <1>4, <1>5, <1>7 DEF VrInv

\* onInit() adds what the module has.
LEMMA VrOnInit == Objects!ResourceConstants /\ VrInv /\ Objects!OnInit => VrInv'
<1> SUFFICES ASSUME Objects!ResourceConstants, VrInv, Objects!OnInit PROVE VrInv'
  OBVIOUS
<1>a. Objects!TypeOK /\ Objects!HandlesExact /\ VrKnown /\ VrDevice /\ VrChains /\ VrPipeline /\ VrTextures /\ VrSets
  BY DEF VrInv
<1>b. ~up /\ up' = TRUE /\ UNCHANGED <<renderer, sets, currentFrame, capacity, vertices, gpuDrawn>>
  BY DEF Objects!OnInit, Objects!buffers
<1>1. PICK k \in 0 .. 4 : Objects!Replace({}, Objects!FirstOf(Objects!Platform, k))
  BY DEF Objects!OnInit
<1>2. Objects!HandlesExact' /\ gpuHeld' = gpuHeld \cup Objects!FirstOf(Objects!Platform, k)
  BY <1>a, <1>1, VrReplace
<1>3. gpuHeld = {} /\ renderer # "made"
  BY <1>a, <1>b DEF VrKnown, Objects!Has
<1>4. Objects!FirstOf(Objects!Platform, k) \subseteq Objects!FirstOf(Objects!Platform, 4)
  BY VrLists
<1>5. KeepsRenderer
  BY <1>b, <1>2, <1>4, VrApart DEF KeepsRenderer
<1>6. VrPipeline' /\ VrTextures' /\ VrSets'
  BY <1>a, <1>5, VrKeepsRenderer
<1>7. VrKnown'
  BY <1>b, <1>2, <1>3, <1>4, VrApart, VrKnowns DEF VrKnown
<1>8. VrDevice'
  BY <1>2, <1>3, <1>4, VrApart, VrSurfaces DEF VrDevice, Objects!Has
<1>9. VrChains'
  <2>1. \A s : <<"swapchain", s>> \notin Objects!FirstOf(Objects!Platform, 4) /\ \A i \in Images : Objects!View(s, i) \notin Objects!FirstOf(Objects!Platform, 4)
    BY VrApart, VrSurfaces
  <2> QED
    BY <1>2, <1>3, <1>4, <2>1 DEF VrChains, Objects!Has
<1>10. Objects!TypeOK'
  BY <1>a, <1>b DEF Objects!TypeOK
<1> QED
  BY <1>2, <1>6, <1>7, <1>8, <1>9, <1>10 DEF VrInv

\* teardown() leaves nothing.
LEMMA VrShutdown == Objects!ResourceConstants /\ VrInv /\ Objects!Shutdown => VrInv'
<1> SUFFICES ASSUME Objects!ResourceConstants, VrInv, Objects!Shutdown PROVE VrInv'
  OBVIOUS
<1>a. Objects!TypeOK /\ Objects!HandlesExact /\ VrKnown /\ VrDevice /\ VrChains /\ VrPipeline /\ VrTextures /\ VrSets
  BY DEF VrInv
<1>b. renderer = "none" /\ up' = FALSE /\ UNCHANGED <<renderer, sets, currentFrame, capacity, vertices, gpuDrawn>>
  BY DEF Objects!Shutdown, Objects!buffers
<1>1. Objects!HandlesExact' /\ gpuHeld' = gpuHeld \ Objects!Torn
  <2>1. Objects!Replace(Objects!Torn, {})
    BY DEF Objects!Shutdown
  <2> QED
    BY <1>a, <2>1, VrReplace
<1>2. gpuHeld \cap Objects!Freed = {} /\ gpuHeld \subseteq Known
  BY <1>a, <1>b DEF VrKnown
<1>3. \A o \in gpuHeld : o \in Objects!Torn
  <2> SUFFICES ASSUME NEW o \in gpuHeld PROVE o \in Objects!Torn
    OBVIOUS
  <2>1. o \in Objects!FirstOf(Objects!Platform, 4) \/ o \in Objects!Device \/ \E s \in Surfaces : o \in Objects!Shown(s)
    BY <1>2, VrKnowns
  <2>2. CASE o \in Objects!FirstOf(Objects!Platform, 4)
    BY <2>2 DEF Objects!Torn
  <2>3. CASE o \in Objects!Device
    <3>1. Objects!Has(Objects!One("device"))
      BY <2>3, VrApart DEF Objects!Has
    <3>2. o \in Objects!WithDevice
      BY <2>3 DEF Objects!WithDevice
    <3> QED
      BY <3>1, <3>2 DEF Objects!Torn
  <2>4. ASSUME NEW s \in Surfaces, o \in Objects!Shown(s) PROVE o \in Objects!Torn
    <3>1. Objects!Has(Objects!One("device"))
      <4>1. Objects!Has(<<"surface", s>>) \/ Objects!Has(<<"fences", s>>)
        <5>1. o = <<"surface", s>> \/ o = <<"swapchain", s>> \/ (\E i \in Images : o = Objects!View(s, i)) \/ o = <<"fences", s>>
          BY <2>4 DEF Objects!Shown, Objects!Chain, Objects!Views, Objects!Sync
        <5> QED
          BY <1>a, <5>1 DEF VrChains, Objects!Has
      <4> QED
        BY <1>a, <4>1 DEF VrDevice
    <3>2. o \in Objects!WithDevice
      BY <2>4 DEF Objects!WithDevice
    <3> QED
      BY <3>1, <3>2 DEF Objects!Torn
  <2> QED
    BY <2>1, <2>2, <2>3, <2>4
<1>4. gpuHeld' = {}
  BY <1>1, <1>3
<1>5. sets' = 0
  <2>1. Made = {}
    BY <1>2, VrFreed DEF Made
  <2> QED
    BY <1>a, <1>b, <2>1, FS_EmptySet, VrCount, VrFinite DEF VrSets
<1>6. VrKnown' /\ VrDevice' /\ VrChains' /\ VrPipeline' /\ VrTextures' /\ VrSets'
  BY <1>b, <1>4, <1>5, VrNothing
<1>7. Objects!TypeOK'
  BY <1>a, <1>b DEF Objects!TypeOK
<1> QED
  BY <1>1, <1>6, <1>7 DEF VrInv

\* What of a surface is made or destroyed is not the renderer's.
LEMMA VrSurface ==
  ASSUME Objects!ResourceConstants, VrInv, NEW s \in Surfaces, NEW old \in SUBSET Objects!Shown(s), NEW new \in SUBSET (Objects!Shown(s) \cup Objects!Device),
         Objects!Has(Objects!One("instance")), Objects!Replace(old, new), UNCHANGED <<up, renderer, sets, currentFrame, capacity, vertices, gpuDrawn>>,
         new \cap Objects!Shown(s) # {} => Objects!One("device") \in gpuHeld \cup new
  PROVE  Objects!TypeOK' /\ Objects!HandlesExact' /\ VrKnown' /\ VrDevice' /\ VrPipeline' /\ VrTextures' /\ VrSets'
<1>a. Objects!TypeOK /\ Objects!HandlesExact /\ VrKnown /\ VrDevice /\ VrChains /\ VrPipeline /\ VrTextures /\ VrSets
  BY DEF VrInv
<1>1. Objects!HandlesExact' /\ gpuHeld' = (gpuHeld \ old) \cup new
  BY <1>a, VrReplace
<1>2. old \cap Objects!Freed = {} /\ new \cap Objects!Freed = {}
  BY VrApart
<1>3. VrPipeline' /\ VrTextures' /\ VrSets'
  <2>1. KeepsRenderer
    BY <1>1, <1>2 DEF KeepsRenderer
  <2> QED
    BY <1>a, <2>1, VrKeepsRenderer
<1>4. Objects!One("instance") \in gpuHeld' /\ (Objects!One("device") \in gpuHeld => Objects!One("device") \in gpuHeld')
  BY <1>1, VrApart DEF Objects!Has
<1>5. VrKnown'
  <2>1. gpuHeld' \subseteq Known
    <3>1. new \subseteq Known
      BY VrKnowns
    <3> QED
      BY <1>1, <1>a, <3>1 DEF VrKnown
  <2>2. gpuHeld' \cap Objects!Freed = gpuHeld \cap Objects!Freed
    BY <1>1, <1>2
  <2>3. up /\ up' = up /\ renderer' = renderer
    BY <1>a DEF VrKnown, Objects!Has
  <2> QED
    BY <1>a, <1>4, <2>1, <2>2, <2>3 DEF VrKnown, Objects!Has
<1>6. VrDevice'
  <2> SUFFICES ASSUME NEW r \in Surfaces, Objects!Has(<<"surface", r>>)' \/ Objects!Has(<<"fences", r>>)'
               PROVE  Objects!Has(Objects!One("device"))'
    BY <1>4 DEF VrDevice, Objects!Has
  <2>1. <<"surface", r>> \in Objects!Shown(r) /\ <<"fences", r>> \in Objects!Shown(r)
    BY VrSurfaces
  <2>2. CASE \E o \in Objects!Shown(r) : o \in new
    <3>1. new \cap Objects!Shown(s) # {}
      BY <2>2, VrApart
    <3> QED
      BY <1>1, <1>4, <3>1 DEF Objects!Has
  <2>3. CASE ~ \E o \in Objects!Shown(r) : o \in new
    <3>1. Objects!Has(<<"surface", r>>) \/ Objects!Has(<<"fences", r>>)
      BY <1>1, <2>1, <2>3 DEF Objects!Has
    <3> QED
      BY <1>4, <1>a, <3>1 DEF VrDevice, Objects!Has
  <2> QED
    BY <2>2, <2>3
<1>7. Objects!TypeOK'
  BY <1>a DEF Objects!TypeOK
<1> QED
  BY <1>1, <1>3, <1>5, <1>6, <1>7

\* The swapchains of the other surfaces stay.
LEMMA VrOthers ==
  ASSUME VrChains, NEW s \in Surfaces, NEW old \in SUBSET Objects!Shown(s), NEW new \in SUBSET (Objects!Shown(s) \cup Objects!Device),
         gpuHeld' = (gpuHeld \ old) \cup new,
         /\ Objects!Has(<<"swapchain", s>>)' => Objects!Has(<<"surface", s>>)'
         /\ \A i \in Images : Objects!Has(Objects!View(s, i))' => Objects!Has(<<"swapchain", s>>)'
  PROVE  VrChains'
<1> SUFFICES ASSUME NEW r \in Surfaces, r # s
             PROVE  /\ Objects!Has(<<"swapchain", r>>)' => Objects!Has(<<"surface", r>>)'
                    /\ \A i \in Images : Objects!Has(Objects!View(r, i))' => Objects!Has(<<"swapchain", r>>)'
  BY DEF VrChains
<1>1. \A o \in Objects!Shown(r) : o \notin old /\ o \notin new
  BY VrSurfaces, VrApart
<1>2. \A o \in Objects!Shown(r) : o \in gpuHeld' <=> o \in gpuHeld
  BY <1>1
<1>3. <<"surface", r>> \in Objects!Shown(r) /\ <<"swapchain", r>> \in Objects!Shown(r) /\ \A i \in Images : Objects!View(r, i) \in Objects!Shown(r)
  BY VrSurfaces
<1> QED
  BY <1>2, <1>3 DEF VrChains, Objects!Has

\* attachToWindow() makes all of a surface, or at most the device.
LEMMA VrAttach == Objects!ResourceConstants /\ VrInv /\ (\E s \in Surfaces : Objects!Attach(s)) => VrInv'
<1> SUFFICES ASSUME Objects!ResourceConstants, VrInv, NEW s \in Surfaces, Objects!Attach(s) PROVE VrInv'
  OBVIOUS
<1>a. Objects!TypeOK /\ Objects!HandlesExact /\ VrKnown /\ VrDevice /\ VrChains /\ VrPipeline /\ VrTextures /\ VrSets
  BY DEF VrInv
<1>b. /\ Objects!Has(Objects!One("instance")) /\ ~Objects!Has(<<"surface", s>>)
      /\ UNCHANGED <<up, renderer, sets, currentFrame, capacity, vertices, gpuDrawn>>
  BY DEF Objects!Attach, Objects!buffers
<1>1. CASE Objects!AttachFails
  <2>1. PICK made \in {{}, Objects!Device} : Objects!Replace({}, made)
    BY <1>1 DEF Objects!AttachFails
  <2>2. gpuHeld' = ( gpuHeld \ {}) \cup made /\ made \in SUBSET (Objects!Shown(s) \cup Objects!Device) /\ {} \in SUBSET Objects!Shown(s)
    BY <1>a, <2>1, VrReplace
  <2>3. made \cap Objects!Shown(s) = {}
    BY VrApart
  <2>4. Objects!TypeOK' /\ Objects!HandlesExact' /\ VrKnown' /\ VrDevice' /\ VrPipeline' /\ VrTextures' /\ VrSets'
    BY <1>b, <2>1, <2>2, <2>3, VrSurface
  <2>5. \A o \in Objects!Shown(s) : o \in gpuHeld' <=> o \in gpuHeld
    BY <2>2, <2>3
  <2>6. /\ Objects!Has(<<"swapchain", s>>)' => Objects!Has(<<"surface", s>>)'
        /\ \A i \in Images : Objects!Has(Objects!View(s, i))' => Objects!Has(<<"swapchain", s>>)'
    BY <1>a, <2>5, VrSurfaces DEF VrChains, Objects!Has
  <2>7. VrChains'
    BY <1>a, <2>2, <2>6, VrOthers
  <2> QED
    BY <2>4, <2>7 DEF VrInv
<1>2. CASE Objects!AttachSucceeds(s)
  <2>1. PICK sync \in SUBSET Objects!Sync(s) : Objects!Replace({}, Objects!Device \cup Objects!Chain(s) \cup {<<"surface", s>>} \cup sync)
    BY <1>2 DEF Objects!AttachSucceeds
  <2> DEFINE new == Objects!Device \cup Objects!Chain(s) \cup {<<"surface", s>>} \cup sync
  <2>a. <<"surface", s>> \in new /\ Objects!Chain(s) \subseteq new /\ Objects!One("device") \in new /\ Objects!Replace({}, new)
    BY <2>1, VrApart
  <2>b. new \in SUBSET (Objects!Shown(s) \cup Objects!Device)
    <3>1. Objects!Chain(s) \subseteq Objects!Shown(s) /\ <<"surface", s>> \in Objects!Shown(s) /\ sync \subseteq Objects!Shown(s)
      BY VrSurfaces
    <3> QED
      BY <3>1
  <2> HIDE DEF new
  <2>2. gpuHeld' = (gpuHeld \ {}) \cup new /\ {} \in SUBSET Objects!Shown(s)
    BY <1>a, <2>a, VrReplace
  <2>4. Objects!TypeOK' /\ Objects!HandlesExact' /\ VrKnown' /\ VrDevice' /\ VrPipeline' /\ VrTextures' /\ VrSets'
    BY <1>b, <2>a, <2>b, <2>2, VrSurface
  <2>6. /\ Objects!Has(<<"swapchain", s>>)' => Objects!Has(<<"surface", s>>)'
        /\ \A i \in Images : Objects!Has(Objects!View(s, i))' => Objects!Has(<<"swapchain", s>>)'
    BY <2>2, <2>a, VrSurfaces DEF Objects!Has
  <2>7. VrChains'
    BY <1>a, <2>2, <2>b, <2>6, VrOthers
  <2> QED
    BY <2>4, <2>7 DEF VrInv
<1> QED
  BY <1>1, <1>2 DEF Objects!Attach

\* createSwapchainFor() replaces a swapchain and its views.
LEMMA VrRecreate == Objects!ResourceConstants /\ VrInv /\ (\E s \in Surfaces : Objects!RecreateSwapchain(s)) => VrInv'
<1> SUFFICES ASSUME Objects!ResourceConstants, VrInv, NEW s \in Surfaces, Objects!RecreateSwapchain(s) PROVE VrInv'
  OBVIOUS
<1>a. Objects!TypeOK /\ Objects!HandlesExact /\ VrKnown /\ VrDevice /\ VrChains /\ VrPipeline /\ VrTextures /\ VrSets
  BY DEF VrInv
<1>b. /\ Objects!Has(<<"surface", s>>) /\ UNCHANGED <<up, renderer, sets, currentFrame, capacity, vertices, gpuDrawn>>
  BY DEF Objects!RecreateSwapchain, Objects!buffers
<1>c. Objects!Has(Objects!One("instance")) /\ Objects!One("device") \in gpuHeld
  BY <1>a, <1>b DEF VrDevice, Objects!Has
<1>1. PICK n \in 0 .. Objects!Cardinality(Images) : Objects!Replace(Objects!Chain(s), Objects!NewChain(s, n))
  BY DEF Objects!RecreateSwapchain
<1>2. Objects!NewChain(s, n) \subseteq Objects!Chain(s) /\ <<"swapchain", s>> \in Objects!NewChain(s, n)
  BY DEF Objects!NewChain, Objects!Chain, Objects!Views
<1>3. gpuHeld' = (gpuHeld \ Objects!Chain(s)) \cup Objects!NewChain(s, n)
  BY <1>a, <1>1, VrReplace
<1>4. Objects!Chain(s) \in SUBSET Objects!Shown(s) /\ Objects!NewChain(s, n) \in SUBSET (Objects!Shown(s) \cup Objects!Device)
  BY <1>2, VrSurfaces
<1>5. Objects!TypeOK' /\ Objects!HandlesExact' /\ VrKnown' /\ VrDevice' /\ VrPipeline' /\ VrTextures' /\ VrSets'
  BY <1>b, <1>c, <1>1, <1>4, VrSurface
<1>6. /\ Objects!Has(<<"swapchain", s>>)' => Objects!Has(<<"surface", s>>)'
      /\ \A i \in Images : Objects!Has(Objects!View(s, i))' => Objects!Has(<<"swapchain", s>>)'
  BY <1>b, <1>2, <1>3, VrSurfaces DEF Objects!Has
<1>7. VrChains'
  BY <1>a, <1>3, <1>4, <1>6, VrOthers
<1> QED
  BY <1>5, <1>7 DEF VrInv

\* detachFromWindow() destroys all of a surface.
LEMMA VrDetach == Objects!ResourceConstants /\ VrInv /\ (\E s \in Surfaces : Objects!Detach(s)) => VrInv'
<1> SUFFICES ASSUME Objects!ResourceConstants, VrInv, NEW s \in Surfaces, Objects!Detach(s) PROVE VrInv'
  OBVIOUS
<1>a. Objects!TypeOK /\ Objects!HandlesExact /\ VrKnown /\ VrDevice /\ VrChains /\ VrPipeline /\ VrTextures /\ VrSets
  BY DEF VrInv
<1>b. /\ Objects!Has(<<"surface", s>>) /\ UNCHANGED <<up, renderer, sets, currentFrame, capacity, vertices, gpuDrawn>>
      /\ Objects!Replace(Objects!Shown(s), {})
  BY DEF Objects!Detach, Objects!buffers
<1>c. Objects!Has(Objects!One("instance"))
  BY <1>a, <1>b DEF VrDevice, Objects!Has
<1>3. gpuHeld' = (gpuHeld \ Objects!Shown(s)) \cup {}
  BY <1>a, <1>b, VrReplace
<1>4. Objects!Shown(s) \in SUBSET Objects!Shown(s) /\ {} \in SUBSET (Objects!Shown(s) \cup Objects!Device) /\ {} \cap Objects!Shown(s) = {}
  OBVIOUS
<1>5. Objects!TypeOK' /\ Objects!HandlesExact' /\ VrKnown' /\ VrDevice' /\ VrPipeline' /\ VrTextures' /\ VrSets'
  BY <1>b, <1>c, <1>4, VrSurface
<1>6. /\ Objects!Has(<<"swapchain", s>>)' => Objects!Has(<<"surface", s>>)'
      /\ \A i \in Images : Objects!Has(Objects!View(s, i))' => Objects!Has(<<"swapchain", s>>)'
  BY <1>3, VrSurfaces DEF Objects!Has
<1>7. VrChains'
  BY <1>a, <1>3, <1>4, <1>6, VrOthers
<1> QED
  BY <1>5, <1>7 DEF VrInv

\* What of the renderer is made or destroyed is not the module's.
LEMMA VrRendered ==
  ASSUME VrInv, NEW old \in SUBSET Objects!Freed, NEW new \in SUBSET Objects!Freed, Objects!Replace(old, new), up' = up,
         renderer' = "made", Objects!Has(Objects!One("device"))
  PROVE  Objects!HandlesExact' /\ gpuHeld' = (gpuHeld \ old) \cup new /\ VrKnown' /\ VrDevice' /\ VrChains'
<1>a. Objects!TypeOK /\ Objects!HandlesExact /\ VrKnown /\ VrDevice /\ VrChains /\ VrPipeline /\ VrTextures /\ VrSets
  BY DEF VrInv
<1>1. Objects!HandlesExact' /\ gpuHeld' = (gpuHeld \ old) \cup new
  BY <1>a, VrReplace
<1>2. KeepsModule
  BY <1>1 DEF KeepsModule
<1>3. up
  BY <1>a DEF VrKnown, Objects!Has
<1> QED
  BY <1>a, <1>1, <1>2, <1>3, VrKeepsModule

\* The constructor (vulkan_ui_renderer.cpp) leaves the textures whole wherever it returns.
LEMMA VrNewRenderer == Objects!ResourceConstants /\ VrInv /\ Objects!NewRenderer => VrInv'
<1> SUFFICES ASSUME Objects!ResourceConstants, VrInv, Objects!NewRenderer PROVE VrInv'
  OBVIOUS
<1>a. Objects!TypeOK /\ Objects!HandlesExact /\ VrKnown /\ VrDevice /\ VrChains /\ VrPipeline /\ VrTextures /\ VrSets
  BY DEF VrInv
<1>b. renderer = "none" /\ UNCHANGED <<up, currentFrame, capacity, vertices, gpuDrawn>>
  BY DEF Objects!NewRenderer, Objects!buffers
<1>c. gpuHeld \cap Objects!Freed = {}
  BY <1>a, <1>b DEF VrKnown
<1>d. Made = {}
  BY <1>c, VrFreed DEF Made
<1>1. CASE ~Objects!Has(Objects!One("device")) /\ renderer' = "inert" /\ UNCHANGED <<live, gpuHeld, sets>>
  <2>1. VrKnown'
    BY <1>a, <1>b, <1>c, <1>1 DEF VrKnown, Objects!Has
  <2>2. VrDevice' /\ VrChains' /\ VrPipeline' /\ VrTextures'
    BY <1>a, <1>1 DEF VrDevice, VrChains, VrPipeline, VrTextures, Objects!Has
  <2>3. VrSets' /\ Objects!HandlesExact' /\ Objects!TypeOK'
    BY <1>a, <1>b, <1>1 DEF VrSets, Made, Objects!HandlesExact, Objects!TypeOK
  <2> QED
    BY <2>1, <2>2, <2>3 DEF VrInv
<1>2. ASSUME Objects!Has(Objects!One("device")), renderer' = "made", NEW k \in 0 .. 5, Objects!Replace({}, Objects!FirstOf(Objects!Infra, k)), sets' = 0
      PROVE  VrInv'
  <2>1. Objects!FirstOf(Objects!Infra, k) \subseteq Objects!FirstOf(Objects!Infra, 5)
    BY VrLists
  <2>2. Objects!FirstOf(Objects!Infra, k) \in SUBSET Objects!Freed /\ {} \in SUBSET Objects!Freed
    BY <2>1, VrFreed
  <2>3. Objects!HandlesExact' /\ gpuHeld' = (gpuHeld \ {}) \cup Objects!FirstOf(Objects!Infra, k) /\ VrKnown' /\ VrDevice' /\ VrChains'
    BY <1>b, <1>2, <2>2, VrRendered
  <2>4. \A t \in Pool : \A o \in Objects!Parts(t) : o \notin gpuHeld'
    BY <1>c, <2>1, <2>3, VrOwn, VrFreed
  <2>5. Made' = {}
    BY <2>4, VrFreed DEF Made
  <2>6. VrTextures'
    BY <2>4, VrFreed DEF VrTextures, Objects!Has
  <2>7. \A o \in Objects!Frames \cup Objects!Pipeline : o \notin gpuHeld'
    BY <1>c, <2>1, <2>3, VrOwn, VrFreed
  <2>8. VrPipeline'
    BY <2>7 DEF VrPipeline, Objects!Has
  <2>9. VrSets' /\ Objects!TypeOK'
    <3>1. 0 \in 0 .. MaxSets
      BY DEF Objects!ResourceConstants
    <3> QED
      BY <1>a, <1>b, <1>2, <2>5, <3>1, FS_EmptySet, VrCount, VrFinite DEF VrSets, Objects!TypeOK
  <2> QED
    BY <2>3, <2>6, <2>8, <2>9 DEF VrInv
<1>3. ASSUME Objects!Has(Objects!One("device")), renderer' = "made", Objects!Replace({}, Objects!FirstOf(Objects!Infra, 5) \cup Objects!Parts(White)), sets' = 1
      PROVE  VrInv'
  <2>1. White \in Pool
    BY DEF Pool
  <2>2. Objects!FirstOf(Objects!Infra, 5) \cup Objects!Parts(White) \in SUBSET Objects!Freed /\ {} \in SUBSET Objects!Freed
    BY <2>1, VrFreed
  <2>3. Objects!HandlesExact' /\ gpuHeld' = (gpuHeld \ {}) \cup (Objects!FirstOf(Objects!Infra, 5) \cup Objects!Parts(White)) /\ VrKnown' /\ VrDevice' /\ VrChains'
    BY <1>b, <1>3, <2>2, VrRendered
  <2>4. \A t \in Pool : t # White => \A o \in Objects!Parts(t) : o \notin gpuHeld'
    BY <1>c, <2>3, VrOwn, VrFreed
  <2>5. \A o \in Objects!Parts(White) : o \in gpuHeld'
    BY <2>3
  <2>6. Made' = {White}
    BY <2>1, <2>4, <2>5, VrFreed DEF Made
  <2>7. VrTextures'
    BY <2>1, <2>4, <2>5, VrFreed DEF VrTextures, Objects!Has
  <2>8. \A o \in Objects!Frames \cup Objects!Pipeline : o \notin gpuHeld'
    BY <1>c, <2>3, VrOwn, VrFreed
  <2>9. VrPipeline'
    BY <2>8 DEF VrPipeline, Objects!Has
  <2>10. VrSets' /\ Objects!TypeOK'
    <3>1. 1 \in 0 .. MaxSets
      BY DEF Objects!ResourceConstants
    <3>2. Objects!Cardinality({White}) = 1
      BY FS_Singleton, VrCount, VrFinite
    <3> QED
      BY <1>a, <1>b, <1>3, <2>6, <3>1, <3>2 DEF VrSets, Objects!TypeOK
  <2> QED
    BY <2>3, <2>7, <2>9, <2>10 DEF VrInv
<1> QED
  BY <1>1, <1>2, <1>3 DEF Objects!NewRenderer, Objects!objects

\* createGpuTexture() makes a texture as a whole and takes one set for it, or undoes it.
LEMMA VrUpload == Objects!ResourceConstants /\ VrInv /\ (\E t \in Textures : Objects!Upload(t)) => VrInv'
<1> SUFFICES ASSUME Objects!ResourceConstants, VrInv, NEW t \in Textures, Objects!Upload(t) PROVE VrInv'
  OBVIOUS
<1>a. Objects!TypeOK /\ Objects!HandlesExact /\ VrKnown /\ VrDevice /\ VrChains /\ VrPipeline /\ VrTextures /\ VrSets
  BY DEF VrInv
<1>b. /\ renderer = "made" /\ <<"image", t>> \notin gpuHeld
      /\ UNCHANGED <<up, renderer, currentFrame, capacity, vertices, gpuDrawn>>
  BY DEF Objects!Upload, Objects!MayUpload, Objects!Has, Objects!buffers
<1>c. t \in Pool /\ Objects!Has(Objects!One("device"))
  BY <1>a, <1>b DEF Pool, VrKnown
<1>d. \A o \in Objects!Parts(t) : o \notin gpuHeld
  BY <1>a, <1>b, <1>c DEF VrTextures, Objects!Has
<1>1. CASE Objects!TextureMade(t)
  <2>1. sets < MaxSets /\ sets' = sets + 1 /\ Objects!Replace({}, Objects!Parts(t))
    BY <1>1 DEF Objects!TextureMade
  <2>2. Objects!Parts(t) \in SUBSET Objects!Freed /\ {} \in SUBSET Objects!Freed
    BY <1>c, VrFreed
  <2>3. Objects!HandlesExact' /\ gpuHeld' = (gpuHeld \ {}) \cup Objects!Parts(t) /\ VrKnown' /\ VrDevice' /\ VrChains'
    BY <1>b, <1>c, <2>1, <2>2, VrRendered
  <2>4. \A r \in Pool : r # t => \A o \in Objects!Parts(r) : o \in gpuHeld' <=> o \in gpuHeld
    BY <2>3, VrOwn
  <2>5. \A o \in Objects!Parts(t) : o \in gpuHeld'
    BY <2>3
  <2>6. VrTextures'
    BY <1>a, <1>c, <2>4, <2>5, VrFreed DEF VrTextures, Objects!Has
  <2>7. Made' = Made \cup {t} /\ t \notin Made
    BY <1>b, <1>c, <2>4, <2>5, VrFreed DEF Made
  <2>8. Objects!Cardinality(Made') = Objects!Cardinality(Made) + 1
    <3>1. Objects!IsFiniteSet(Pool)
      BY FS_AddElement, VrCount, VrFinite DEF Objects!ResourceConstants, Pool
    <3>2. Made \subseteq Pool
      BY DEF Made
    <3>3. Objects!IsFiniteSet(Made)
      BY <3>1, <3>2, FS_Subset, VrCount, VrFinite
    <3> QED
      BY <2>7, <3>3, FS_AddElement, VrCount, VrFinite
  <2>9. VrSets' /\ Objects!TypeOK'
    <3>1. sets + 1 \in 0 .. MaxSets
      BY <1>a, <2>1 DEF Objects!TypeOK, Objects!ResourceConstants
    <3> QED
      BY <1>a, <1>b, <2>1, <2>8, <3>1 DEF VrSets, Objects!TypeOK
  <2>10. \A o \in Objects!Frames \cup Objects!Pipeline : o \in gpuHeld' <=> o \in gpuHeld
    BY <2>3, VrOwn
  <2>11. Objects!One("renderPass") \in gpuHeld => Objects!One("renderPass") \in gpuHeld'
    BY <2>3
  <2>12. Objects!One("setLayout") \in gpuHeld => Objects!One("setLayout") \in gpuHeld'
    BY <2>3
  <2>13. VrPipeline'
    BY <1>a, <2>10, <2>11, <2>12 DEF VrPipeline, Objects!Has
  <2> QED
    BY <2>3, <2>6, <2>9, <2>13 DEF VrInv
<1>2. CASE Objects!TextureFails(t)
  <2>1. PICK made \in {{}, {<<"image", t>>}, {<<"image", t>>, <<"memory", t>>}, Objects!Parts(t)} :
          live' = (live \cup made) \ Objects!Parts(t) /\ UNCHANGED <<gpuHeld, sets>>
    BY <1>2 DEF Objects!TextureFails, Objects!Undone
  <2>2. made \subseteq Objects!Parts(t)
    BY DEF Objects!Parts
  <2>3. Objects!HandlesExact'
    BY <1>a, <1>d, <2>1, <2>2 DEF Objects!HandlesExact
  <2>4. VrKnown' /\ VrDevice' /\ VrChains'
    BY <1>a, <1>b, <2>1 DEF VrKnown, VrDevice, VrChains, Objects!Has
  <2>5. VrPipeline' /\ VrTextures' /\ VrSets' /\ Objects!TypeOK'
    BY <1>a, <1>b, <2>1 DEF VrPipeline, VrTextures, VrSets, Made, Objects!TypeOK, Objects!Has
  <2> QED
    BY <2>3, <2>4, <2>5 DEF VrInv
<1> QED
  BY <1>1, <1>2 DEF Objects!Upload

\* submit() and growVertexBuffer() change only the buffers of a slot.
LEMMA VrSubmit == Objects!ResourceConstants /\ VrInv /\ Objects!Submit => VrInv'
<1> SUFFICES ASSUME Objects!ResourceConstants, VrInv, Objects!Submit PROVE VrInv'
  OBVIOUS
<1>a. Objects!TypeOK /\ Objects!HandlesExact /\ VrKnown /\ VrDevice /\ VrChains /\ VrPipeline /\ VrTextures /\ VrSets
  BY DEF VrInv
<1>b. renderer = "made" /\ UNCHANGED <<up, renderer, sets, currentFrame, gpuDrawn>>
  BY DEF Objects!Submit
<1>c. Objects!Has(Objects!One("device")) /\ currentFrame \in Objects!Slots
  BY <1>a, <1>b DEF VrKnown, Objects!TypeOK
<1>d. capacity \in [Objects!Slots -> 0 .. MaxVertices] /\ vertices \in [Objects!Slots -> 0 .. MaxVertices] /\ 0 \in 0 .. MaxVertices
  BY <1>a DEF Objects!TypeOK, Objects!ResourceConstants
<1>1. PICK n \in 0 .. MaxVertices :
        IF n <= capacity[currentFrame]
        THEN vertices' = [vertices EXCEPT ![currentFrame] = n] /\ UNCHANGED <<live, gpuHeld, capacity>>
        ELSE Objects!Grow(currentFrame, n)
  BY DEF Objects!Submit, Objects!objects
<1>2. CASE vertices' = [vertices EXCEPT ![currentFrame] = n] /\ UNCHANGED <<live, gpuHeld, capacity>>
  <2>1. VrKnown' /\ VrDevice' /\ VrChains' /\ Objects!HandlesExact'
    BY <1>a, <1>b, <1>2 DEF VrKnown, VrDevice, VrChains, Objects!HandlesExact, Objects!Has
  <2>2. VrPipeline' /\ VrTextures' /\ VrSets'
    BY <1>a, <1>b, <1>2 DEF VrPipeline, VrTextures, VrSets, Made, Objects!Has
  <2>3. vertices' \in [Objects!Slots -> 0 .. MaxVertices] /\ capacity' = capacity
    BY <1>d, <1>2
  <2>4. Objects!TypeOK'
    BY <1>a, <1>b, <2>3 DEF Objects!TypeOK
  <2> QED
    BY <2>1, <2>2, <2>4 DEF VrInv
<1>3. CASE Objects!Grow(currentFrame, n)
  <2> DEFINE both == Objects!Vertex(currentFrame)
  <2>1. /\ capacity' \in [Objects!Slots -> 0 .. MaxVertices] /\ vertices' \in [Objects!Slots -> 0 .. MaxVertices]
        /\ Objects!Replace({}, both) \/ Objects!Replace(both, {})
    BY <1>d, <1>3 DEF Objects!Grow
  <2>2. both \in SUBSET Objects!Freed /\ {} \in SUBSET Objects!Freed
    BY <1>c, VrFreed
  <2>a. /\ both \cap Objects!Frames = {} /\ both \cap Objects!Pipeline = {} /\ both \cap Objects!FirstOf(Objects!Infra, 5) = {}
        /\ \A t : Objects!Parts(t) \cap both = {}
    BY VrOwn
  <2> HIDE DEF both
  <2>3. /\ Objects!HandlesExact' /\ VrKnown' /\ VrDevice' /\ VrChains'
        /\ gpuHeld' = (gpuHeld \ {}) \cup both \/ gpuHeld' = (gpuHeld \ both) \cup {}
    BY <1>b, <1>c, <2>1, <2>2, VrRendered
  <2>4. \A o : o \notin both => (o \in gpuHeld' <=> o \in gpuHeld)
    BY <2>3
  <2>5. VrTextures' /\ VrSets'
    BY <1>a, <1>b, <2>a, <2>4, VrKeepsTextures
  <2>6. VrPipeline'
    BY <1>a, <2>a, <2>4, VrFreed DEF VrPipeline, Objects!Has
  <2>7. Objects!TypeOK'
    BY <1>a, <1>b, <2>1 DEF Objects!TypeOK
  <2> QED
    BY <2>3, <2>5, <2>6, <2>7 DEF VrInv
<1> QED
  BY <1>1, <1>2, <1>3

\* Framebuffers and the pipeline come and go.
LEMMA VrPipes ==
  ASSUME VrInv, renderer = "made", UNCHANGED <<up, renderer, sets>>,
         NEW old \in SUBSET (Objects!Frames \cup Objects!Pipeline), NEW new \in SUBSET (Objects!Frames \cup Objects!Pipeline), Objects!Replace(old, new)
  PROVE  /\ Objects!HandlesExact' /\ gpuHeld' = (gpuHeld \ old) \cup new /\ VrKnown' /\ VrDevice' /\ VrChains' /\ VrTextures' /\ VrSets'
         /\ Objects!Has(Objects!One("setLayout"))' <=> Objects!Has(Objects!One("setLayout"))
<1>a. Objects!TypeOK /\ Objects!HandlesExact /\ VrKnown /\ VrDevice /\ VrChains /\ VrPipeline /\ VrTextures /\ VrSets
  BY DEF VrInv
<1>1. Objects!Has(Objects!One("device"))
  BY <1>a DEF VrKnown
<1>2. old \in SUBSET Objects!Freed /\ new \in SUBSET Objects!Freed
  BY VrFreed
<1>3. Objects!HandlesExact' /\ gpuHeld' = (gpuHeld \ old) \cup new /\ VrKnown' /\ VrDevice' /\ VrChains'
  BY <1>1, <1>2, VrRendered
<1>4. \A t \in Pool : \A o \in Objects!Parts(t) : o \in gpuHeld' <=> o \in gpuHeld
  BY <1>3, VrOwn
<1>5. VrTextures' /\ VrSets'
  BY <1>a, <1>4, VrKeepsTextures
<1>6. Objects!One("setLayout") \notin Objects!Frames \cup Objects!Pipeline
  BY VrFreed, VrOwn
<1> QED
  BY <1>3, <1>5, <1>6 DEF Objects!Has

\* renderFrame() keeps no framebuffer and no pipeline without its render pass.
LEMMA VrRenderFrame == Objects!ResourceConstants /\ VrInv /\ Objects!RenderFrame => VrInv'
<1> SUFFICES ASSUME Objects!ResourceConstants, VrInv, Objects!RenderFrame PROVE VrInv'
  OBVIOUS
<1>a. Objects!TypeOK /\ Objects!HandlesExact /\ VrKnown /\ VrDevice /\ VrChains /\ VrPipeline /\ VrTextures /\ VrSets
  BY DEF VrInv
<1>b. renderer = "made" /\ UNCHANGED <<up, renderer, sets, capacity, vertices>>
  BY DEF Objects!RenderFrame
<1>c. {} \in SUBSET (Objects!Frames \cup Objects!Pipeline) /\ Objects!Dropped \in SUBSET (Objects!Frames \cup Objects!Pipeline)
  BY DEF Objects!Dropped
<1>d. Objects!Drawn \in {"nothing", "buffer", "null"} /\ (currentFrame + 1) % FramesInFlight \in Objects!Slots /\ currentFrame \in Objects!Slots
  <2>1. FramesInFlight \in Nat \ {0} /\ currentFrame \in 0 .. FramesInFlight - 1
    BY <1>a DEF Objects!ResourceConstants, Objects!TypeOK, Objects!Slots
  <2>2. (currentFrame + 1) % FramesInFlight \in 0 .. FramesInFlight - 1
    BY <2>1
  <2> QED
    BY <2>1, <2>2 DEF Objects!Drawn, Objects!Slots
<1>1. ASSUME Objects!Replace(Objects!Dropped, {}) PROVE VrInv' \/ ~Objects!TypeOK'
  <2>1. /\ Objects!HandlesExact' /\ gpuHeld' = (gpuHeld \ Objects!Dropped) \cup {} /\ VrKnown' /\ VrDevice' /\ VrChains' /\ VrTextures' /\ VrSets'
        /\ Objects!Has(Objects!One("setLayout"))' <=> Objects!Has(Objects!One("setLayout"))
    BY <1>b, <1>c, <1>1, VrPipes
  <2>2. CASE Objects!Has(Objects!One("pipeline"))
    <3>1. Objects!Dropped = Objects!Pipeline \cup Objects!Frames
      BY <2>2 DEF Objects!Dropped
    <3>2. \A o \in Objects!Frames \cup Objects!Pipeline : o \notin gpuHeld'
      BY <2>1, <3>1
    <3>3. VrPipeline'
      BY <3>2 DEF VrPipeline, Objects!Has
    <3> QED
      BY <2>1, <3>3 DEF VrInv
  <2>3. CASE ~Objects!Has(Objects!One("pipeline"))
    <3>1. gpuHeld' = gpuHeld
      BY <2>1, <2>3 DEF Objects!Dropped
    <3>2. VrPipeline'
      BY <1>a, <3>1 DEF VrPipeline, Objects!Has
    <3> QED
      BY <2>1, <3>2 DEF VrInv
  <2> QED
    BY <2>2, <2>3
<1>2. CASE Objects!NoPipeline
  <2>1. Objects!TypeOK'
    BY <1>a, <1>b, <1>2 DEF Objects!NoPipeline, Objects!TypeOK
  <2>2. CASE Objects!Replace(Objects!Dropped, {})
    BY <1>1, <2>1, <2>2
  <2>3. CASE UNCHANGED <<live, gpuHeld>>
    <3>1. VrKnown' /\ VrDevice' /\ VrChains' /\ Objects!HandlesExact'
      BY <1>a, <1>b, <2>3 DEF VrKnown, VrDevice, VrChains, Objects!HandlesExact, Objects!Has
    <3>2. VrPipeline' /\ VrTextures' /\ VrSets'
      BY <1>a, <1>b, <2>3 DEF VrPipeline, VrTextures, VrSets, Made, Objects!Has
    <3> QED
      BY <2>1, <3>1, <3>2 DEF VrInv
  <2> QED
    BY <1>2, <2>2, <2>3 DEF Objects!NoPipeline, Objects!objects
<1>3. ASSUME NEW gone \in SUBSET (Objects!Frames \cup Objects!Pipeline), NEW came \in SUBSET Objects!Pipeline, Objects!Draw(gone, came),
             Objects!Has(Objects!One("setLayout")), Objects!One("renderPass") \in (gpuHeld \ gone) \cup came
      PROVE  VrInv'
  <2>1. PICK more \in SUBSET Objects!Frames :
          /\ Objects!Replace(gone, came \cup more) /\ gpuDrawn' \in {"nothing", "buffer", "null"} /\ currentFrame' \in Objects!Slots
    <3>1. CASE Objects!Replace(gone, came) /\ gpuDrawn' = "nothing" /\ UNCHANGED currentFrame
      <4>1. came \cup {} = came /\ {} \in SUBSET Objects!Frames
        OBVIOUS
      <4> QED
        BY <1>d, <3>1, <4>1, Zenon
    <3>2. ASSUME NEW framebuffer \in Objects!Frames, Objects!Replace(gone, came \cup {framebuffer}), gpuDrawn' = Objects!Drawn,
                 currentFrame' = (currentFrame + 1) % FramesInFlight
          PROVE  \E more \in SUBSET Objects!Frames :
                   /\ Objects!Replace(gone, came \cup more) /\ gpuDrawn' \in {"nothing", "buffer", "null"} /\ currentFrame' \in Objects!Slots
      <4>1. {framebuffer} \in SUBSET Objects!Frames
        OBVIOUS
      <4> QED
        BY <1>d, <3>2, <4>1, Zenon
    <3> QED
      BY <1>3, <3>1, <3>2 DEF Objects!Draw
  <2>2. came \cup more \in SUBSET (Objects!Frames \cup Objects!Pipeline)
    OBVIOUS
  <2>3. /\ Objects!HandlesExact' /\ gpuHeld' = (gpuHeld \ gone) \cup (came \cup more) /\ VrKnown' /\ VrDevice' /\ VrChains' /\ VrTextures' /\ VrSets'
        /\ Objects!Has(Objects!One("setLayout"))' <=> Objects!Has(Objects!One("setLayout"))
    BY <1>b, <2>1, <2>2, VrPipes
  <2>4. Objects!Has(Objects!One("renderPass"))' /\ Objects!Has(Objects!One("setLayout"))'
    BY <1>3, <2>3 DEF Objects!Has
  <2>5. VrPipeline'
    BY <2>4 DEF VrPipeline
  <2>6. Objects!TypeOK'
    BY <1>a, <1>b, <2>1 DEF Objects!TypeOK
  <2> QED
    BY <2>3, <2>5, <2>6 DEF VrInv
<1>4. CASE Objects!Has(Objects!One("setLayout")) /\ Objects!Draw(Objects!Dropped, Objects!Pipeline)
  <2>1. Objects!Pipeline \in SUBSET Objects!Pipeline /\ Objects!One("renderPass") \in (gpuHeld \ Objects!Dropped) \cup Objects!Pipeline
    BY VrFreed
  <2> QED
    BY <1>c, <1>3, <1>4, <2>1
<1>5. ASSUME Objects!Has(Objects!One("pipeline")), NEW gone \in {{}, Objects!Frames}, Objects!Draw(gone, {}) PROVE VrInv'
  <2>1. Objects!Has(Objects!One("setLayout")) /\ Objects!Has(Objects!One("renderPass"))
    BY <1>a, <1>5, VrFreed DEF VrPipeline
  <2>2. Objects!One("renderPass") \notin Objects!Frames
    <3>1. Objects!One("renderPass")[1] = "renderPass" /\ \A o \in Objects!Frames : o[1] = "framebuffer"
      BY VrKinds
    <3> QED
      BY <3>1
  <2>3. Objects!One("renderPass") \in (gpuHeld \ gone) \cup {} /\ gone \in SUBSET (Objects!Frames \cup Objects!Pipeline) /\ {} \in SUBSET Objects!Pipeline
    BY <2>1, <2>2 DEF Objects!Has
  <2> QED
    BY <1>3, <1>5, <2>1, <2>3
<1> QED
  BY <1>2, <1>4, <1>5 DEF Objects!RenderFrame

\* The destructor leaves what the module has.
LEMMA VrDestroy == Objects!ResourceConstants /\ VrInv /\ Objects!DestroyRenderer => VrInv'
<1> SUFFICES ASSUME Objects!ResourceConstants, VrInv, Objects!DestroyRenderer PROVE VrInv'
  OBVIOUS
<1>a. Objects!TypeOK /\ Objects!HandlesExact /\ VrKnown /\ VrDevice /\ VrChains /\ VrPipeline /\ VrTextures /\ VrSets
  BY DEF VrInv
<1>b. /\ renderer' = "none" /\ Objects!Replace(Objects!Freed, {}) /\ sets' = 0 /\ currentFrame' = 0 /\ gpuDrawn' = "nothing" /\ up' = up
      /\ capacity' = [f \in Objects!Slots |-> 0] /\ vertices' = [f \in Objects!Slots |-> 0]
  BY DEF Objects!DestroyRenderer
<1>1. Objects!HandlesExact' /\ gpuHeld' = (gpuHeld \ Objects!Freed) \cup {}
  BY <1>a, <1>b, VrReplace
<1>2. \A o \in Objects!Freed : o \notin gpuHeld'
  BY <1>1
<1>3. KeepsModule
  BY <1>b, <1>1 DEF KeepsModule
<1>4. ~up => gpuHeld' = {}
  BY <1>a, <1>1 DEF VrKnown
<1>5. VrDevice' /\ VrChains' /\ VrKnown'
  BY <1>a, <1>b, <1>2, <1>3, <1>4, VrKeepsModule
<1>6. Made' = {}
  BY <1>2, VrFreed DEF Made
<1>7. VrPipeline' /\ VrTextures'
  BY <1>2, VrFreed DEF VrPipeline, VrTextures, Objects!Has
<1>8. VrSets'
  BY <1>b, <1>6, FS_EmptySet, VrCount, VrFinite DEF VrSets
<1>9. Objects!TypeOK'
  <2>1. 0 \in Objects!Slots /\ 0 \in 0 .. MaxSets /\ 0 \in 0 .. MaxVertices
    BY DEF Objects!ResourceConstants, Objects!Slots
  <2>2. capacity' \in [Objects!Slots -> 0 .. MaxVertices] /\ vertices' \in [Objects!Slots -> 0 .. MaxVertices]
    BY <1>b, <2>1
  <2> QED
    BY <1>a, <1>b, <2>1, <2>2 DEF Objects!TypeOK
<1> QED
  BY <1>1, <1>5, <1>7, <1>8, <1>9 DEF VrInv

\* Each step of the module, the renderer and the application preserves the invariant.
LEMMA VrStep == Objects!ResourceConstants /\ VrInv /\ [Objects!Next]_(Objects!vars) => VrInv'
<1> SUFFICES ASSUME Objects!ResourceConstants, VrInv, [Objects!Next]_(Objects!vars) PROVE VrInv'
  OBVIOUS
<1>a. Objects!TypeOK /\ Objects!HandlesExact /\ VrKnown /\ VrDevice /\ VrChains /\ VrPipeline /\ VrTextures /\ VrSets
  BY DEF VrInv
<1>1. CASE UNCHANGED Objects!vars
  <2>1. VrKnown' /\ VrDevice' /\ VrChains' /\ Objects!HandlesExact'
    BY <1>a, <1>1 DEF VrKnown, VrDevice, VrChains, Objects!HandlesExact, Objects!Has, Objects!vars
  <2>2. VrPipeline' /\ VrTextures' /\ VrSets' /\ Objects!TypeOK'
    BY <1>a, <1>1 DEF VrPipeline, VrTextures, VrSets, Made, Objects!Has, Objects!TypeOK, Objects!vars
  <2> QED
    BY <2>1, <2>2 DEF VrInv
<1> QED
  BY <1>1, VrOnInit, VrShutdown, VrNewRenderer, VrSubmit, VrRenderFrame, VrDestroy, VrAttach, VrRecreate, VrDetach,
     VrUpload, Zenon DEF Objects!Next

\* From it: what exists is what a member refers to, nothing outlives what it was made
\* from, and the pool has given out one set for each texture.
LEMMA VrSafe == Objects!ResourceConstants /\ VrInv => Objects!Inv
<1> SUFFICES ASSUME Objects!ResourceConstants, VrInv PROVE Objects!Inv
  OBVIOUS
<1>a. Objects!TypeOK /\ Objects!HandlesExact /\ VrKnown /\ VrDevice /\ VrChains /\ VrPipeline /\ VrTextures /\ VrSets
  BY DEF VrInv
<1>h. \A o : Objects!Has(o) <=> o \in live
  BY <1>a DEF Objects!Has, Objects!HandlesExact
<1>1. \A o \in Objects!Device : o = Objects!One("device")
  BY VrApart
<1>2. Objects!Below(Objects!One("instance"), Objects!Device \cup {<<"surface", s>> : s \in Surfaces})
  BY <1>a, <1>h, <1>1 DEF Objects!Below, VrDevice
<1>3. Objects!Below(Objects!One("device"), Objects!Freed \cup UNION {Objects!Shown(s) : s \in Surfaces})
  <2>1. ASSUME NEW o \in live, o \in Objects!Freed PROVE Objects!One("device") \in live
    <3>1. o \in gpuHeld
      BY <1>h, <2>1 DEF Objects!Has
    <3> QED
      BY <1>a, <1>h, <2>1, <3>1 DEF VrKnown
  <2>2. ASSUME NEW o \in live, NEW s \in Surfaces, o \in Objects!Shown(s) PROVE Objects!One("device") \in live
    <3>1. o = <<"surface", s>> \/ o = <<"swapchain", s>> \/ (\E i \in Images : o = Objects!View(s, i)) \/ o = <<"fences", s>>
      BY <2>2 DEF Objects!Shown, Objects!Chain, Objects!Views, Objects!Sync
    <3>2. Objects!Has(o)
      BY <1>h, <2>2
    <3>3. Objects!Has(<<"surface", s>>) \/ Objects!Has(<<"fences", s>>)
      BY <1>a, <3>1, <3>2 DEF VrChains
    <3> QED
      BY <1>a, <1>h, <3>3 DEF VrDevice
  <2>3. \A o : o \in Objects!Freed \cup UNION {Objects!Shown(s) : s \in Surfaces} <=> o \in Objects!Freed \/ \E s \in Surfaces : o \in Objects!Shown(s)
    OBVIOUS
  <2> QED
    BY <2>1, <2>2, <2>3 DEF Objects!Below
<1>4. \A s \in Surfaces : Objects!Below(<<"surface", s>>, Objects!Chain(s)) /\ Objects!Below(<<"swapchain", s>>, Objects!Views(s))
  <2> TAKE s \in Surfaces
  <2>1. \A o \in Objects!Chain(s) : o = <<"swapchain", s>> \/ \E i \in Images : o = Objects!View(s, i)
    BY DEF Objects!Chain, Objects!Views
  <2>2. \A o \in Objects!Views(s) : \E i \in Images : o = Objects!View(s, i)
    BY DEF Objects!Views
  <2>3. \A o \in Objects!Chain(s) : Objects!Has(o) => Objects!Has(<<"surface", s>>)
    BY <1>a, <2>1 DEF VrChains
  <2>4. \A o \in Objects!Views(s) : Objects!Has(o) => Objects!Has(<<"swapchain", s>>)
    BY <1>a, <2>2 DEF VrChains
  <2> QED
    BY <1>h, <2>3, <2>4 DEF Objects!Below
<1>5. Objects!Below(Objects!One("renderPass"), Objects!Frames \cup Objects!Pipeline) /\ Objects!Below(Objects!One("setLayout"), Objects!Pipeline)
  BY <1>a, <1>h DEF Objects!Below, VrPipeline
<1>6. Objects!CleanWhenDown
  BY <1>a DEF VrKnown, Objects!CleanWhenDown, Objects!HandlesExact
<1>7. Objects!SetsMatchTextures
  BY <1>a DEF VrSets, Made, Pool, Objects!SetsMatchTextures, Objects!Has
<1> QED
  BY <1>a, <1>2, <1>3, <1>4, <1>5, <1>6, <1>7 DEF Objects!Inv, Objects!ParentsLive

-----------------------------------------------------------------------------
\* The windows of the adb tool.

\* Tasks for something that is mounted, what a call of adb may answer, and the others.
Answers == [do : {"touch", "answer"}, mount : Tool!Mounts, view : Nat, panel : {"none"}]
Bound   == [do : {"touch", "answer", "row", "back"}, mount : Tool!Mounts, view : Nat, panel : {"none"}]
Loose   == [do : {"switch", "select", "log", "sidebar"}, mount : {0}, view : {0}, panel : Tool!Panels \cup {"none"}]
TaskSet == Bound \cup Loose
TaskLists == [ToolWindows -> Seq(TaskSet)]
AdbCalls  == [win : ToolWindows, task : Answers]
Clicks    == {"switch", "select", "row", "back"}

TwHost ==
    /\ patient \in BOOLEAN /\ toolMutex \in {None, "host"}
    /\ supervisor \in {"looping", "opening", "reaping", "returned"}
    /\ toolTarget \in ToolWindows \cup {None} /\ registered \in 0 .. 1
    /\ requests \in Seq({None, Serial})
    /\ toolState \in [ToolWindows -> {"none", "rendering", "open", "gone"}]
    /\ shut \subseteq ToolWindows /\ toolClosed \subseteq shut
TwUi ==
    /\ render \in [ToolWindows -> {"none", "idle", "building", "ended"}]
    /\ toolPanel \in [ToolWindows -> Tool!Panels \cup {"none"}] /\ mount \in [ToolWindows -> {0} \cup Tool!Mounts]
    /\ toolView \in [ToolWindows -> [Tool!Mounts -> Nat]] /\ detail \in [ToolWindows -> BOOLEAN]
    /\ toolRows \in [ToolWindows -> BOOLEAN] /\ shown \in [ToolWindows -> Nat]
    /\ toolSelected \in [ToolWindows -> {None, Serial}] /\ watching \in [ToolWindows -> {None, Serial}]
    /\ sidebar \in [ToolWindows -> 0 .. 1] /\ toolLog \in [ToolWindows -> Nat]
TwWork == tasks \in TaskLists /\ toolCalls \subseteq AdbCalls
TwHarm == harm \in {None, "view", "left", "unguarded", "window", "thread", "host"}
TwFacts == TwHost /\ TwUi /\ TwWork /\ TwHarm

\* Which window the supervisor is at.
TwWindows ==
    /\ supervisor = "opening" => toolTarget \in ToolWindows /\ toolState[toolTarget] = "rendering"
    /\ supervisor = "reaping" => toolTarget \in toolClosed /\ toolState[toolTarget] = "open"
    /\ \A w \in ToolWindows : toolState[w] = "rendering" => supervisor = "opening" /\ w = toolTarget
    /\ \A w \in ToolWindows : toolState[w] = "gone" => w \in shut

\* For a patient user: what was clicked is the first task, and its panel is there until all
\* that was asked for it is answered.
NoCallsOf(w) == \A c \in toolCalls : c.win # w
StillFrom(w, n) == \A i \in n .. Len(tasks[w]) : tasks[w][i].do \in {"log", "sidebar"}
Fits(w, t) == t.mount = mount[w] /\ (t.do = "touch" /\ toolPanel[w] = "packages" => t.view = toolView[w][t.mount])
Waits(w) == w \in shut \/ render[w] = "building" => StillFrom(w, 1) /\ NoCallsOf(w)
FirstClicked(w) == \A i \in 1 .. Len(tasks[w]) : tasks[w][i].do \in Clicks => i = 1
TasksFit(w) == \A i \in 1 .. Len(tasks[w]) : tasks[w][i] \in Bound => Fits(w, tasks[w][i])
CallsFit(w) == \A c \in toolCalls : c.win = w => Fits(w, c.task)
SwitchesAlone(w) ==
    Len(tasks[w]) > 0 /\ tasks[w][1].do \in {"switch", "select"} => StillFrom(w, 2) /\ NoCallsOf(w)
ViewsGuarded(w) ==
    Len(tasks[w]) > 0 /\ tasks[w][1].do \in {"row", "back"} =>
        /\ \A i \in 2 .. Len(tasks[w]) : tasks[w][i].do # "touch"
        /\ \A c \in toolCalls : c.win = w => c.task.do = "answer"
PatientAt(w) ==
    /\ Waits(w) /\ (w \in shut => render[w] # "building")
    /\ FirstClicked(w) /\ TasksFit(w) /\ CallsFit(w) /\ SwitchesAlone(w) /\ ViewsGuarded(w)
TwPatient == patient => \A w \in ToolWindows : PatientAt(w)

\* A window shows what there is, or will when it has run its tasks.
HasTask(w, do) == \E i \in 1 .. Len(tasks[w]) : tasks[w][i].do = do
ShownAt(w) ==
    /\ toolState[w] \in {"rendering", "open"} => sidebar[w] = registered \/ HasTask(w, "sidebar")
    /\ toolPanel[w] = "logcat" /\ mount[w] # 0 => shown[w] = toolLog[w] \/ HasTask(w, "log")
TwShown == \A w \in ToolWindows : ShownAt(w)

TwInv == TwFacts /\ TwWindows /\ TwPatient /\ TwShown /\ Tool!NobodyDead

-----------------------------------------------------------------------------
\* What is pushed is behind what was there; what is taken was the first.
Added(w, t) ==
    /\ Len(tasks[w]) \in Nat /\ Len(tasks'[w]) = Len(tasks[w]) + 1
    /\ tasks'[w][Len(tasks[w]) + 1] = t
    /\ \A i \in 1 .. Len(tasks[w]) : tasks'[w][i] = tasks[w][i]
Started(w, do) ==
    /\ tasks[w][1] \in TaskSet /\ tasks[w][1].do = do
    /\ Len(tasks[w]) \in Nat \ {0} /\ Len(tasks'[w]) = Len(tasks[w]) - 1
    /\ \A i \in 1 .. Len(tasks'[w]) : tasks'[w][i] = tasks[w][i + 1] /\ i + 1 \in 2 .. Len(tasks[w])
    /\ \A i \in 2 .. Len(tasks[w]) : i - 1 \in 1 .. Len(tasks'[w]) /\ tasks'[w][i - 1] = tasks[w][i]
TwPushed(w, t) ==
    tasks' \in TaskLists /\ Added(w, t) /\ \A v \in ToolWindows : v # w => tasks'[v] = tasks[v]
TwTaken(w, do) ==
    /\ tasks' \in TaskLists /\ Started(w, do) /\ \A v \in ToolWindows : v # w => tasks'[v] = tasks[v]
    /\ render[w] = "idle" /\ Head(tasks[w]) = tasks[w][1]

\* What a queue is with one task more.
LEMMA TwAppended ==
  ASSUME NEW s \in Seq(TaskSet), NEW t \in TaskSet
  PROVE  /\ Append(s, t) \in Seq(TaskSet) /\ Len(s) \in Nat /\ Len(Append(s, t)) = Len(s) + 1
         /\ Append(s, t)[Len(s) + 1] = t /\ \A i \in 1 .. Len(s) : Append(s, t)[i] = s[i]
  OBVIOUS

\* UiTaskQueue::push() adds a task at the end of one queue.
LEMMA TwPush ==
  ASSUME NEW w \in ToolWindows, NEW t \in TaskSet, tasks \in TaskLists, Tool!Push(w, t)
  PROVE  TwPushed(w, t)
<1>1. tasks[w] \in Seq(TaskSet) /\ tasks' = [tasks EXCEPT ![w] = Append(tasks[w], t)]
  BY DEF Tool!Push, TaskLists
<1>2. /\ Append(tasks[w], t) \in Seq(TaskSet) /\ Len(tasks[w]) \in Nat
      /\ Len(Append(tasks[w], t)) = Len(tasks[w]) + 1 /\ Append(tasks[w], t)[Len(tasks[w]) + 1] = t
      /\ \A i \in 1 .. Len(tasks[w]) : Append(tasks[w], t)[i] = tasks[w][i]
  BY <1>1, TwAppended
<1>3. tasks' \in TaskLists
  BY <1>1, <1>2 DEF TaskLists
<1>4. tasks'[w] = Append(tasks[w], t) /\ \A v \in ToolWindows : v # w => tasks'[v] = tasks[v]
  BY <1>1 DEF TaskLists
<1> QED
  BY <1>2, <1>3, <1>4 DEF TwPushed, Added

\* A queue whose first task is taken has the others, one place further on.
LEMMA TwTake ==
  ASSUME NEW w \in ToolWindows, NEW do, tasks \in TaskLists, Tool!NextTask(w, do)
  PROVE  TwTaken(w, do)
<1>1. /\ tasks[w] \in Seq(TaskSet) /\ tasks[w] # <<>> /\ tasks' = [tasks EXCEPT ![w] = Tail(tasks[w])]
      /\ render[w] = "idle" /\ Head(tasks[w]).do = do
  BY DEF Tool!NextTask, TaskLists
<1>2. Len(tasks[w]) \in Nat \ {0}
  BY <1>1
<1>3. Tail(tasks[w]) \in Seq(TaskSet) /\ Len(Tail(tasks[w])) = Len(tasks[w]) - 1
  BY <1>1, <1>2
<1>4. /\ \A i \in 1 .. Len(tasks[w]) - 1 : Tail(tasks[w])[i] = tasks[w][i + 1] /\ i + 1 \in 2 .. Len(tasks[w])
      /\ Head(tasks[w]) = tasks[w][1] /\ tasks[w][1] \in TaskSet
  BY <1>1, <1>2
<1>5. \A i \in 2 .. Len(tasks[w]) : i - 1 \in 1 .. Len(tasks[w]) - 1 /\ Tail(tasks[w])[i - 1] = tasks[w][i]
  <2> TAKE i \in 2 .. Len(tasks[w])
  <2>1. i - 1 \in 1 .. Len(tasks[w]) - 1 /\ (i - 1) + 1 = i
    BY <1>2
  <2> QED
    BY <2>1, <1>4
<1>6. tasks'[w] = Tail(tasks[w]) /\ \A v \in ToolWindows : v # w => tasks'[v] = tasks[v]
  BY <1>1 DEF TaskLists
<1>7. tasks' \in TaskLists
  BY <1>1, <1>3 DEF TaskLists
<1> QED
  BY <1>1, <1>2, <1>3, <1>4, <1>5, <1>6, <1>7 DEF TwTaken, Started

\* A task that was queued stays so until it is run; what is pushed is queued.
LEMMA TwStillQueued ==
  ASSUME NEW w \in ToolWindows, NEW do, NEW d, d # do, Started(w, do), HasTask(w, d)
  PROVE  HasTask(w, d)'
<1>1. PICK i \in 1 .. Len(tasks[w]) : tasks[w][i].do = d
  BY DEF HasTask
<1>2. i # 1 /\ Len(tasks[w]) \in Nat
  BY <1>1 DEF Started
<1>3. i \in 2 .. Len(tasks[w])
  BY <1>1, <1>2
<1>4. i - 1 \in 1 .. Len(tasks'[w]) /\ tasks'[w][i - 1].do = d
  BY <1>1, <1>3 DEF Started
<1> QED
  BY <1>4 DEF HasTask

\* With a task more, a window has the task, and those it had.
LEMMA TwQueued ==
  ASSUME NEW w \in ToolWindows, NEW t, Added(w, t)
  PROVE  HasTask(w, t.do)' /\ \A d : HasTask(w, d) => HasTask(w, d)'
<1>1. Len(tasks[w]) + 1 \in 1 .. Len(tasks'[w]) /\ \A i \in 1 .. Len(tasks[w]) : i \in 1 .. Len(tasks'[w])
  BY DEF Added
<1>2. HasTask(w, t.do)'
  BY <1>1 DEF HasTask, Added
<1>3. ASSUME NEW d, HasTask(w, d) PROVE HasTask(w, d)'
  <2>1. PICK i \in 1 .. Len(tasks[w]) : tasks[w][i].do = d
    BY <1>3 DEF HasTask
  <2> QED
    BY <1>1, <2>1 DEF HasTask, Added
<1> QED
  BY <1>2, <1>3

-----------------------------------------------------------------------------
\* A window, and what is asked for it, stays.
Rests(v) ==
    /\ render'[v] = render[v] /\ toolPanel'[v] = toolPanel[v] /\ mount'[v] = mount[v] /\ toolView'[v] = toolView[v]
    /\ v \in shut' <=> v \in shut
    /\ \A c \in toolCalls' : c.win = v => c \in toolCalls
ShownRests(v) ==
    /\ toolState'[v] = toolState[v] /\ sidebar'[v] = sidebar[v] /\ registered' = registered
    /\ toolPanel'[v] = toolPanel[v] /\ mount'[v] = mount[v] /\ shown'[v] = shown[v] /\ toolLog'[v] = toolLog[v]
OthersRest(w) ==
    \A v \in ToolWindows : v # w => tasks'[v] = tasks[v] /\ Rests(v) /\ ShownRests(v)

\* What a patient user may rely on in a window rests when the window does.
LEMMA TwRests ==
  ASSUME NEW v \in ToolWindows, PatientAt(v), Rests(v), tasks'[v] = tasks[v]
  PROVE  PatientAt(v)'
<1>1. StillFrom(v, 1) => StillFrom(v, 1)'
  BY DEF StillFrom
<1>2. StillFrom(v, 2) => StillFrom(v, 2)'
  BY DEF StillFrom
<1>3. NoCallsOf(v) => NoCallsOf(v)'
  BY DEF NoCallsOf, Rests
<1>5. Waits(v)' /\ (v \in shut' => render'[v] # "building")
  BY <1>1, <1>3 DEF PatientAt, Waits, Rests
<1>6. FirstClicked(v)' /\ TasksFit(v)'
  BY DEF PatientAt, FirstClicked, TasksFit, Fits, Rests
<1>7. CallsFit(v)'
  BY DEF PatientAt, CallsFit, Fits, Rests
<1>8. SwitchesAlone(v)'
  BY <1>2, <1>3 DEF PatientAt, SwitchesAlone
<1>9. ViewsGuarded(v)'
  BY DEF PatientAt, ViewsGuarded, Rests
<1> QED
  BY <1>5, <1>6, <1>7, <1>8, <1>9 DEF PatientAt

\* What a window shows rests, as long as it keeps its tasks.
LEMMA TwShownRests ==
  ASSUME NEW v \in ToolWindows, ShownAt(v), ShownRests(v), \A d : HasTask(v, d) => HasTask(v, d)'
  PROVE  ShownAt(v)'
  BY DEF ShownAt, ShownRests

\* A step of one window leaves what holds of the others.
LEMMA TwOthersRest ==
  ASSUME NEW w \in ToolWindows, TwPatient, TwShown, OthersRest(w), patient' = patient,
         patient => PatientAt(w)', ShownAt(w)'
  PROVE  TwPatient' /\ TwShown'
<1>1. ASSUME NEW v \in ToolWindows, v # w PROVE (patient => PatientAt(v)') /\ ShownAt(v)'
  <2>1. tasks'[v] = tasks[v] /\ Rests(v) /\ ShownRests(v)
    BY <1>1 DEF OthersRest
  <2>2. \A d : HasTask(v, d) => HasTask(v, d)'
    BY <2>1 DEF HasTask
  <2>3. ShownAt(v) /\ (patient => PatientAt(v))
    BY DEF TwShown, TwPatient
  <2> QED
    BY <2>1, <2>2, <2>3, TwRests, TwShownRests
<1> QED
  BY <1>1 DEF TwPatient, TwShown

\* The first task is run, and leaves what a patient user waits for as it is.
LEMMA TwNoClickAhead ==
  ASSUME NEW w \in ToolWindows, NEW do, FirstClicked(w), Started(w, do)
  PROVE  \A i \in 1 .. Len(tasks'[w]) : tasks'[w][i].do \notin Clicks
<1> TAKE i \in 1 .. Len(tasks'[w])
<1>1. i + 1 \in 2 .. Len(tasks[w]) /\ tasks'[w][i] = tasks[w][i + 1] /\ Len(tasks[w]) \in Nat
  BY DEF Started
<1>2. i + 1 \in 1 .. Len(tasks[w]) /\ i + 1 # 1
  BY <1>1
<1> QED
  BY <1>1, <1>2 DEF FirstClicked

\* When the first task is taken, nothing that was clicked is left.
LEMMA TwNext ==
  ASSUME NEW w \in ToolWindows, NEW do, FirstClicked(w), Started(w, do)
  PROVE  FirstClicked(w)' /\ SwitchesAlone(w)' /\ ViewsGuarded(w)'
<1>1. \A i \in 1 .. Len(tasks'[w]) : tasks'[w][i].do \notin Clicks
  BY TwNoClickAhead
<1>2. Len(tasks'[w]) \in Nat /\ (Len(tasks'[w]) > 0 => 1 \in 1 .. Len(tasks'[w]))
  BY DEF Started
<1>3. Len(tasks'[w]) > 0 => tasks'[w][1].do \notin Clicks
  BY <1>1, <1>2
<1> QED
  BY <1>1, <1>3 DEF FirstClicked, SwitchesAlone, ViewsGuarded, Clicks

\* A task that was taken and changed nothing else leaves what a patient user may rely on.
LEMMA TwStartedRests ==
  ASSUME NEW w \in ToolWindows, NEW do, PatientAt(w), Rests(w), Started(w, do)
  PROVE  PatientAt(w)'
<1>1. \A i \in 1 .. Len(tasks'[w]) : i + 1 \in 1 .. Len(tasks[w]) /\ tasks'[w][i] = tasks[w][i + 1]
  BY DEF Started
<1>2. StillFrom(w, 1) => StillFrom(w, 1)'
  BY <1>1 DEF StillFrom
<1>3. NoCallsOf(w) => NoCallsOf(w)'
  BY DEF NoCallsOf, Rests
<1>5. Waits(w)' /\ (w \in shut' => render'[w] # "building")
  BY <1>2, <1>3 DEF PatientAt, Waits, Rests
<1>6. TasksFit(w)'
  <2> SUFFICES ASSUME NEW i \in 1 .. Len(tasks'[w]), (tasks[w][i] \in Bound)' PROVE Fits(w, tasks[w][i])'
    BY DEF TasksFit
  <2>1. i + 1 \in 1 .. Len(tasks[w]) /\ tasks'[w][i] = tasks[w][i + 1] /\ tasks[w][i + 1] \in Bound
    BY <1>1 DEF Bound, Tool!Mounts
  <2>2. Fits(w, tasks[w][i + 1])
    BY <2>1 DEF PatientAt, TasksFit
  <2> QED
    BY <2>1, <2>2 DEF Fits, Rests
<1>7. CallsFit(w)'
  BY DEF Fits, PatientAt, CallsFit, Rests
<1>8. FirstClicked(w)' /\ SwitchesAlone(w)' /\ ViewsGuarded(w)'
  BY TwNext DEF PatientAt
<1> QED
  BY <1>5, <1>6, <1>7, <1>8 DEF PatientAt

-----------------------------------------------------------------------------
\* The hosts' variables that stay, and the windows'.
HostRests ==
    /\ UNCHANGED <<patient, toolMutex, supervisor, toolTarget, requests, registered>>
    /\ UNCHANGED <<toolState, shut, toolClosed>>
\* What only clicks on another panel, and a new panel, change.
MountRests == UNCHANGED <<render, toolPanel, mount>>
StyleRests == UNCHANGED <<toolSelected, watching, sidebar, toolLog>>

\* A step that leaves the supervisor alone leaves what holds of it.
LEMMA TwHostRests ==
  ASSUME TwHost, TwWindows, HostRests
  PROVE  TwHost' /\ TwWindows'
<1>1. TwHost'
  BY DEF TwHost, HostRests
<1>2. TwWindows'
  BY DEF TwWindows, HostRests
<1> QED
  BY <1>1, <1>2

\* Where a window is left alone.
LEMMA TwAlone ==
  ASSUME NEW w \in ToolWindows, HostRests,
         \A v \in ToolWindows : v # w => /\ tasks'[v] = tasks[v] /\ render'[v] = render[v]
                                     /\ toolPanel'[v] = toolPanel[v] /\ mount'[v] = mount[v]
                                     /\ toolView'[v] = toolView[v] /\ sidebar'[v] = sidebar[v]
                                     /\ shown'[v] = shown[v] /\ toolLog'[v] = toolLog[v],
         \A c \in toolCalls' : c \in toolCalls \/ c.win = w
  PROVE  OthersRest(w)
<1> SUFFICES ASSUME NEW v \in ToolWindows, v # w PROVE tasks'[v] = tasks[v] /\ Rests(v) /\ ShownRests(v)
  BY DEF OthersRest
<1>1. Rests(v)
  BY DEF Rests, HostRests
<1>2. ShownRests(v)
  BY DEF ShownRests, HostRests
<1> QED
  BY <1>1, <1>2

-----------------------------------------------------------------------------
\* What a render thread does.

\* A task for something that is mounted is the one it takes itself to be.
LEMMA TwBoundFirst ==
  ASSUME NEW w \in ToolWindows, NEW do \in {"touch", "answer", "row", "back"}, TwTaken(w, do)
  PROVE  Head(tasks[w]) \in Bound /\ Head(tasks[w]).do = do
<1>1. Head(tasks[w]) \in TaskSet /\ Head(tasks[w]).do = do
  BY DEF TwTaken, Started
<1>2. Head(tasks[w]) \notin Loose
  BY <1>1 DEF Loose
<1> QED
  BY <1>1, <1>2 DEF TaskSet

\* For a patient user, the task a window takes is for the panel that is mounted.
LEMMA TwFirstFits ==
  ASSUME NEW w \in ToolWindows, NEW do, TwTaken(w, do), PatientAt(w), Head(tasks[w]) \in Bound
  PROVE  Fits(w, Head(tasks[w]))
<1>1. 1 \in 1 .. Len(tasks[w]) /\ Head(tasks[w]) = tasks[w][1]
  BY DEF TwTaken, Started
<1> QED
  BY <1>1 DEF PatientAt, TasksFit

\* An answer nothing guards finds its panel, for a patient user.
LEMMA TwRunTouch ==
  ASSUME Tool!ToolConstants, TwInv, NEW w \in ToolWindows, harm = None, Tool!RunTouch(w)
  PROVE  TwInv'
<1>0. TwHost /\ TwUi /\ TwWork /\ TwHarm /\ TwWindows /\ TwPatient /\ TwShown /\ Tool!NobodyDead
  BY DEF TwInv, TwFacts
<1>1. TwTaken(w, "touch")
  BY <1>0, TwTake DEF Tool!RunTouch, TwWork
<1>2. HostRests /\ MountRests /\ StyleRests /\ UNCHANGED <<toolCalls, toolView, detail, shown>>
  BY DEF Tool!RunTouch, HostRests, MountRests, StyleRests, Tool!hosted, Tool!opened
<1>3. toolRows' \in [ToolWindows -> BOOLEAN]
  BY <1>0 DEF Tool!RunTouch, TwUi
<1>4. harm' = IF Tool!Lives(w, Head(tasks[w])) THEN None ELSE "unguarded"
  BY DEF Tool!RunTouch
<1>5. TwFacts' /\ TwWindows'
  <2>1. TwHost' /\ TwWindows'
    BY <1>0, <1>2, TwHostRests
  <2>2. TwUi'
    BY <1>0, <1>2, <1>3 DEF TwUi, MountRests, StyleRests
  <2>3. TwWork'
    BY <1>0, <1>1, <1>2 DEF TwWork, TwTaken
  <2>4. TwHarm'
    BY <1>4 DEF TwHarm
  <2> QED
    BY <2>1, <2>2, <2>3, <2>4 DEF TwFacts
<1>6. Rests(w) /\ ShownRests(w) /\ OthersRest(w) /\ Started(w, "touch")
  BY <1>1, <1>2, TwAlone DEF Rests, ShownRests, HostRests, MountRests, StyleRests, TwTaken
<1>7. patient => PatientAt(w)
  BY <1>0 DEF TwPatient
<1>8. patient => PatientAt(w)'
  BY <1>6, <1>7, TwStartedRests
<1>9. ShownAt(w)'
  BY <1>0, <1>6, TwStillQueued DEF TwShown, ShownAt, ShownRests
<1>10. Tool!NobodyDead'
  <2>1. patient' = patient /\ harm' \in {None, "unguarded"}
    BY <1>2, <1>4 DEF HostRests
  <2>2. patient => harm' = None
    <3> SUFFICES ASSUME patient PROVE Tool!Lives(w, Head(tasks[w]))
      BY <1>4
    <3>1. Head(tasks[w]) \in Bound /\ Head(tasks[w]).do = "touch"
      BY <1>1, TwBoundFirst
    <3>2. Fits(w, Head(tasks[w]))
      BY <1>1, <1>7, <3>1, TwFirstFits
    <3> QED
      BY <3>1, <3>2 DEF Fits, Tool!Lives
  <2> QED
    BY <2>1, <2>2 DEF Tool!NobodyDead, Tool!ToolConstants
<1> QED
  BY <1>0, <1>2, <1>5, <1>6, <1>8, <1>9, <1>10, TwOthersRest DEF TwInv, HostRests

\* An answer the generation guards is dropped, or finds its view as it was.
LEMMA TwRunAnswer ==
  ASSUME Tool!ToolConstants, TwInv, NEW w \in ToolWindows, harm = None, Tool!RunAnswer(w)
  PROVE  TwInv'
<1>0. TwHost /\ TwUi /\ TwWork /\ TwHarm /\ TwWindows /\ TwPatient /\ TwShown /\ Tool!NobodyDead
  BY DEF TwInv, TwFacts
<1>1. TwTaken(w, "answer")
  BY <1>0, TwTake DEF Tool!RunAnswer, TwWork
<1>2. HostRests /\ MountRests /\ StyleRests /\ UNCHANGED <<toolCalls, toolView, detail, shown>>
  BY DEF Tool!RunAnswer, HostRests, MountRests, StyleRests, Tool!hosted, Tool!opened
<1>3. toolRows' \in [ToolWindows -> BOOLEAN]
  BY <1>0 DEF Tool!RunAnswer, TwUi
<1>4. \/ harm' = harm
      \/ /\ Tool!StillThere(w, Head(tasks[w]))
         /\ harm' = IF Tool!Lives(w, Head(tasks[w])) THEN None
                    ELSE IF Head(tasks[w]).mount = mount[w] THEN "view" ELSE "left"
  BY DEF Tool!RunAnswer
<1>5. Head(tasks[w]) \in Bound
  BY <1>1, TwBoundFirst
<1>6. harm' = None \/ (harm' = "left" /\ Head(tasks[w]).mount # mount[w])
  <2>1. CASE harm' = harm
    BY <2>1
  <2>2. CASE Tool!StillThere(w, Head(tasks[w])) /\ Head(tasks[w]).mount = mount[w]
    <3>1. Tool!Lives(w, Head(tasks[w]))
      BY <2>2 DEF Tool!StillThere, Tool!Lives
    <3> QED
      BY <1>4, <3>1
  <2>3. CASE Head(tasks[w]).mount # mount[w]
    <3>1. ~Tool!Lives(w, Head(tasks[w]))
      BY <2>3 DEF Tool!Lives
    <3> QED
      BY <1>4, <2>3, <3>1
  <2> QED
    BY <1>4, <2>1, <2>2, <2>3
<1>7. TwFacts' /\ TwWindows'
  <2>1. TwHost' /\ TwWindows'
    BY <1>0, <1>2, TwHostRests
  <2>2. TwUi'
    BY <1>0, <1>2, <1>3 DEF TwUi, MountRests, StyleRests
  <2>3. TwWork'
    BY <1>0, <1>1, <1>2 DEF TwWork, TwTaken
  <2>4. TwHarm'
    BY <1>6 DEF TwHarm
  <2> QED
    BY <2>1, <2>2, <2>3, <2>4 DEF TwFacts
<1>8. Rests(w) /\ ShownRests(w) /\ OthersRest(w) /\ Started(w, "answer")
  BY <1>1, <1>2, TwAlone DEF Rests, ShownRests, HostRests, MountRests, StyleRests, TwTaken
<1>9. patient => PatientAt(w)
  BY <1>0 DEF TwPatient
<1>10. patient => PatientAt(w)'
  BY <1>8, <1>9, TwStartedRests
<1>11. ShownAt(w)'
  BY <1>0, <1>8, TwStillQueued DEF TwShown, ShownAt, ShownRests
<1>12. Tool!NobodyDead'
  <2>1. patient' = patient
    BY <1>2 DEF HostRests
  <2>2. patient => harm' = None
    BY <1>1, <1>5, <1>6, <1>9, TwFirstFits DEF Fits
  <2> QED
    BY <1>6, <2>1, <2>2 DEF Tool!NobodyDead, Tool!ToolConstants
<1> QED
  BY <1>0, <1>2, <1>7, <1>8, <1>10, <1>11, <1>12, TwOthersRest DEF TwInv, HostRests

\* What showing a package, or the list, does to the view and asks for.
TwShows(w, m) ==
    /\ toolView' \in [ToolWindows -> [Tool!Mounts -> Nat]] /\ \A v \in ToolWindows : v # w => toolView'[v] = toolView[v]
    /\ detail' \in [ToolWindows -> BOOLEAN] /\ toolRows' \in [ToolWindows -> BOOLEAN]
    /\ toolCalls' \subseteq AdbCalls
    /\ \A c \in toolCalls' : c \in toolCalls \/ (c.win = w /\ c.task.mount = m /\ c.task.do = "answer")

\* showPackageDetail() and showPackagesList() count the generation up: whatever is under way
\* is for an earlier one, and what they ask for is for the new one.
LEMMA TwShow ==
  ASSUME TwUi, TwWork, NEW w \in ToolWindows, NEW t \in Bound, NEW one \in BOOLEAN, Tool!Show(w, t, one)
  PROVE  TwShows(w, t.mount)
<1>1. t.mount \in Tool!Mounts /\ toolView[w] \in [Tool!Mounts -> Nat] /\ toolView[w][t.mount] \in Nat
  BY DEF TwUi, Bound
<1>2. toolView' = [toolView EXCEPT ![w] = [toolView[w] EXCEPT ![t.mount] = toolView[w][t.mount] + 1]]
  BY DEF Tool!Show
<1>3. [toolView[w] EXCEPT ![t.mount] = toolView[w][t.mount] + 1] \in [Tool!Mounts -> Nat]
  BY <1>1
<1>4. toolView' \in [ToolWindows -> [Tool!Mounts -> Nat]] /\ \A v \in ToolWindows : v # w => toolView'[v] = toolView[v]
  BY <1>2, <1>3 DEF TwUi
<1>5. detail' \in [ToolWindows -> BOOLEAN] /\ toolRows' \in [ToolWindows -> BOOLEAN]
  BY DEF Tool!Show, TwUi
<1>6. CASE UNCHANGED toolCalls
  <2>1. toolCalls' \subseteq AdbCalls /\ \A c \in toolCalls' : c \in toolCalls
    BY <1>6 DEF TwWork
  <2> QED
    BY <1>4, <1>5, <2>1, Zenon DEF TwShows
<1>7. CASE Tool!Asks(w, t.mount)
  <2> DEFINE a == Tool!Task("answer", t.mount, toolView[w][t.mount] + 1)
  <2>2. a \in Answers /\ a.mount = t.mount /\ a.do = "answer"
    BY <1>1 DEF Tool!Task, Answers
  <2>3. toolCalls' = toolCalls \cup {Tool!NewCall(w, a)}
    BY <1>7 DEF Tool!Asks
  <2> HIDE DEF a
  <2>4. Tool!NewCall(w, a) \in AdbCalls /\ Tool!NewCall(w, a).win = w /\ Tool!NewCall(w, a).task = a
    BY <2>2 DEF Tool!NewCall, AdbCalls
  <2>5. /\ toolCalls' \subseteq AdbCalls
        /\ \A c \in toolCalls' : c \in toolCalls \/ (c.win = w /\ c.task.mount = t.mount /\ c.task.do = "answer")
    BY <2>2, <2>3, <2>4 DEF TwWork
  <2> QED
    BY <1>4, <1>5, <2>5, Zenon DEF TwShows
<1> QED
  BY <1>6, <1>7 DEF Tool!Show

\* A click on a row, or Back, is answered: what is still under way cannot touch the view.
LEMMA TwShowsPatient ==
  ASSUME NEW w \in ToolWindows, NEW do \in {"row", "back"}, TwTaken(w, do), PatientAt(w), HostRests, MountRests,
         NEW m, TwShows(w, m), m = mount[w] \/ (toolCalls' = toolCalls), toolCalls' \subseteq AdbCalls,
         tasks \in TaskLists
  PROVE  PatientAt(w)'
<1>0. Started(w, do)
  BY DEF TwTaken
<1>1. Started(w, do) /\ 1 \in 1 .. Len(tasks[w]) /\ Len(tasks[w]) > 0 /\ tasks[w][1].do = do
  <2>1. Len(tasks[w]) \in Nat \ {0} /\ tasks[w][1].do = do
    BY <1>0 DEF Started
  <2> QED
    BY <1>0, <2>1
<1>2. w \notin shut /\ render[w] = "idle"
  BY <1>1 DEF PatientAt, Waits, StillFrom, TwTaken
<1>3. w \notin shut' /\ render'[w] = "idle" /\ mount' = mount
  BY <1>2 DEF HostRests, MountRests
<1>4. /\ \A i \in 2 .. Len(tasks[w]) : tasks[w][i].do # "touch"
      /\ \A c \in toolCalls : c.win = w => c.task.do = "answer"
  BY <1>1 DEF PatientAt, ViewsGuarded
<1>5. Waits(w)'
  BY <1>3 DEF Waits
<1>6. TasksFit(w)'
  <2> SUFFICES ASSUME NEW i \in 1 .. Len(tasks'[w]), (tasks[w][i] \in Bound)' PROVE Fits(w, tasks[w][i])'
    BY DEF TasksFit
  <2>1. /\ i + 1 \in 2 .. Len(tasks[w]) /\ tasks'[w][i] = tasks[w][i + 1] /\ tasks[w][i + 1] \in Bound
        /\ i + 1 \in 1 .. Len(tasks[w])
    BY <1>1 DEF Started, Bound, Tool!Mounts
  <2>2. Fits(w, tasks[w][i + 1]) /\ tasks[w][i + 1].do # "touch"
    BY <1>4, <2>1 DEF PatientAt, TasksFit
  <2> QED
    BY <1>3, <2>1, <2>2 DEF Fits
<1>7. CallsFit(w)'
  <2> SUFFICES ASSUME NEW c \in toolCalls', c.win = w PROVE Fits(w, c.task)'
    BY DEF CallsFit
  <2>1. c.task.do = "answer"
    BY <1>4 DEF TwShows
  <2>2. c.task.mount = mount[w]
    BY DEF TwShows, PatientAt, CallsFit, Fits
  <2> QED
    BY <1>3, <2>1, <2>2 DEF Fits
<1>8. FirstClicked(w)' /\ SwitchesAlone(w)' /\ ViewsGuarded(w)'
  BY <1>1, TwNext DEF PatientAt
<1> QED
  BY <1>3, <1>5, <1>6, <1>7, <1>8 DEF PatientAt

\* A row and Back of the Packages panel preserve the invariant.
LEMMA TwRunView ==
  ASSUME Tool!ToolConstants, TwInv, NEW w \in ToolWindows, harm = None, Tool!RunRow(w) \/ Tool!RunBack(w)
  PROVE  TwInv'
<1>0. TwHost /\ TwUi /\ TwWork /\ TwHarm /\ TwWindows /\ TwPatient /\ TwShown /\ Tool!NobodyDead
  BY DEF TwInv, TwFacts
<1>1. PICK do \in {"row", "back"} : TwTaken(w, do)
  BY <1>0, TwTake DEF Tool!RunRow, Tool!RunBack, TwWork
<1>2. HostRests /\ MountRests /\ StyleRests /\ UNCHANGED <<shown, harm>>
  BY DEF Tool!RunRow, Tool!RunBack, HostRests, MountRests, StyleRests, Tool!hosted, Tool!opened
<1>3. Head(tasks[w]) \in Bound
  BY <1>1, TwBoundFirst
<1>4. \/ Head(tasks[w]).mount = mount[w] /\ \E one \in BOOLEAN : Tool!Show(w, Head(tasks[w]), one)
      \/ UNCHANGED <<toolView, detail, toolRows, toolCalls>>
  BY DEF Tool!RunRow, Tool!RunBack
<1>5. PICK m : TwShows(w, m) /\ (m = mount[w] \/ toolCalls' = toolCalls)
  <2>1. CASE UNCHANGED <<toolView, detail, toolRows, toolCalls>>
    <3>1. /\ toolView' \in [ToolWindows -> [Tool!Mounts -> Nat]] /\ toolView' = toolView
          /\ detail' \in [ToolWindows -> BOOLEAN] /\ toolRows' \in [ToolWindows -> BOOLEAN]
      BY <1>0, <2>1 DEF TwUi
    <3>2. toolCalls' = toolCalls /\ toolCalls' \subseteq AdbCalls
      BY <1>0, <2>1 DEF TwWork
    <3> QED
      BY <3>1, <3>2, Zenon DEF TwShows
  <2>2. CASE Head(tasks[w]).mount = mount[w] /\ \E one \in BOOLEAN : Tool!Show(w, Head(tasks[w]), one)
    BY <1>0, <1>3, <2>2, TwShow
  <2> QED
    BY <1>4, <2>1, <2>2
<1>6. TwFacts' /\ TwWindows'
  <2>1. TwHost' /\ TwWindows'
    BY <1>0, <1>2, TwHostRests
  <2>2. TwUi'
    BY <1>0, <1>2, <1>5 DEF TwUi, TwShows, MountRests, StyleRests
  <2>3. TwWork'
    BY <1>1, <1>5 DEF TwWork, TwTaken, TwShows
  <2>4. TwHarm'
    BY <1>0, <1>2 DEF TwHarm
  <2> QED
    BY <2>1, <2>2, <2>3, <2>4 DEF TwFacts
<1>7. OthersRest(w) /\ ShownRests(w)
  BY <1>1, <1>2, <1>5, TwAlone DEF ShownRests, HostRests, MountRests, StyleRests, TwTaken, TwShows
<1>8. patient => PatientAt(w)'
  BY <1>0, <1>1, <1>2, <1>5, TwShowsPatient DEF TwPatient, TwShows, TwWork
<1>9. ShownAt(w)'
  BY <1>0, <1>1, <1>7, TwStillQueued DEF TwShown, ShownAt, ShownRests, TwTaken
<1>10. Tool!NobodyDead'
  BY <1>0, <1>2 DEF Tool!NobodyDead, HostRests
<1> QED
  BY <1>0, <1>2, <1>6, <1>7, <1>8, <1>9, <1>10, TwOthersRest DEF TwInv, HostRests

\* The task of appendLogLine() preserves the invariant: from then on all lines are shown.
LEMMA TwRunLog ==
  ASSUME Tool!ToolConstants, TwInv, NEW w \in ToolWindows, harm = None, Tool!RunLog(w)
  PROVE  TwInv'
<1>0. TwHost /\ TwUi /\ TwWork /\ TwHarm /\ TwWindows /\ TwPatient /\ TwShown /\ Tool!NobodyDead
  BY DEF TwInv, TwFacts
<1>1. TwTaken(w, "log")
  BY <1>0, TwTake DEF Tool!RunLog, TwWork
<1>2. HostRests /\ MountRests /\ StyleRests /\ UNCHANGED <<toolCalls, toolView, detail, toolRows, harm>>
  BY DEF Tool!RunLog, HostRests, MountRests, StyleRests, Tool!hosted, Tool!opened
<1>3. shown' = [shown EXCEPT ![w] = IF toolPanel[w] = "logcat" /\ mount[w] # 0 THEN toolLog[w] ELSE shown[w]]
  BY DEF Tool!RunLog
<1>4. /\ shown' \in [ToolWindows -> Nat] /\ \A v \in ToolWindows : v # w => shown'[v] = shown[v]
      /\ toolPanel[w] = "logcat" /\ mount[w] # 0 => shown'[w] = toolLog[w]
  BY <1>0, <1>3 DEF TwUi
<1>5. TwFacts' /\ TwWindows'
  <2>1. TwHost' /\ TwWindows'
    BY <1>0, <1>2, TwHostRests
  <2>2. TwUi'
    BY <1>0, <1>2, <1>4 DEF TwUi, MountRests, StyleRests
  <2>3. TwWork'
    BY <1>0, <1>1, <1>2 DEF TwWork, TwTaken
  <2>4. TwHarm'
    BY <1>0, <1>2 DEF TwHarm
  <2> QED
    BY <2>1, <2>2, <2>3, <2>4 DEF TwFacts
<1>6. Rests(w) /\ OthersRest(w) /\ Started(w, "log")
  BY <1>1, <1>2, <1>4, TwAlone DEF Rests, HostRests, MountRests, StyleRests, TwTaken
<1>7. patient => PatientAt(w)'
  BY <1>0, <1>6, TwStartedRests DEF TwPatient
<1>8. ShownAt(w)'
  <2>1. HasTask(w, "sidebar") => HasTask(w, "sidebar")'
    BY <1>6, TwStillQueued
  <2> QED
    BY <1>0, <1>2, <1>4, <2>1 DEF TwShown, ShownAt, HostRests, MountRests, StyleRests
<1>9. Tool!NobodyDead'
  BY <1>0, <1>2 DEF Tool!NobodyDead, HostRests
<1> QED
  BY <1>0, <1>2, <1>5, <1>6, <1>7, <1>8, <1>9, TwOthersRest DEF TwInv, HostRests

\* rebuildSidebar() preserves the invariant: from then on all panels are shown.
LEMMA TwRunSidebar ==
  ASSUME Tool!ToolConstants, TwInv, NEW w \in ToolWindows, harm = None, Tool!RunSidebar(w)
  PROVE  TwInv'
<1>0. TwHost /\ TwUi /\ TwWork /\ TwHarm /\ TwWindows /\ TwPatient /\ TwShown /\ Tool!NobodyDead
  BY DEF TwInv, TwFacts
<1>1. TwTaken(w, "sidebar")
  BY <1>0, TwTake DEF Tool!RunSidebar, TwWork
<1>2. HostRests /\ MountRests /\ UNCHANGED <<toolCalls, toolView, detail, toolRows, shown, toolSelected, watching, toolLog, harm>>
  BY DEF Tool!RunSidebar, HostRests, MountRests, Tool!hosted, Tool!opened, Tool!mounted
<1>3. sidebar' = [sidebar EXCEPT ![w] = registered]
  BY DEF Tool!RunSidebar
<1>4. /\ sidebar' \in [ToolWindows -> 0 .. 1] /\ \A v \in ToolWindows : v # w => sidebar'[v] = sidebar[v]
      /\ sidebar'[w] = registered
  BY <1>0, <1>3 DEF TwUi, TwHost
<1>5. TwFacts' /\ TwWindows'
  <2>1. TwHost' /\ TwWindows'
    BY <1>0, <1>2, TwHostRests
  <2>2. TwUi'
    BY <1>0, <1>2, <1>4 DEF TwUi, MountRests
  <2>3. TwWork'
    BY <1>0, <1>1, <1>2 DEF TwWork, TwTaken
  <2>4. TwHarm'
    BY <1>0, <1>2 DEF TwHarm
  <2> QED
    BY <2>1, <2>2, <2>3, <2>4 DEF TwFacts
<1>6. Rests(w) /\ OthersRest(w) /\ Started(w, "sidebar")
  BY <1>1, <1>2, <1>4, TwAlone DEF Rests, HostRests, MountRests, TwTaken
<1>7. patient => PatientAt(w)'
  BY <1>0, <1>6, TwStartedRests DEF TwPatient
<1>8. ShownAt(w)'
  <2>1. HasTask(w, "log") => HasTask(w, "log")'
    BY <1>6, TwStillQueued
  <2> QED
    BY <1>0, <1>2, <1>4, <2>1 DEF TwShown, ShownAt, HostRests, MountRests
<1>9. Tool!NobodyDead'
  BY <1>0, <1>2 DEF Tool!NobodyDead, HostRests
<1> QED
  BY <1>0, <1>2, <1>5, <1>6, <1>7, <1>8, <1>9, TwOthersRest DEF TwInv, HostRests

\* A panel is left: nothing is mounted, and the next is being built.
TwLeft(w) ==
    /\ render' \in [ToolWindows -> {"none", "idle", "building", "ended"}]
    /\ toolPanel' \in [ToolWindows -> Tool!Panels \cup {"none"}] /\ mount' \in [ToolWindows -> {0} \cup Tool!Mounts]
    /\ toolView' \in [ToolWindows -> [Tool!Mounts -> Nat]] /\ detail' \in [ToolWindows -> BOOLEAN]
    /\ toolRows' \in [ToolWindows -> BOOLEAN] /\ shown' \in [ToolWindows -> Nat]
    /\ mount'[w] = 0
    /\ \A v \in ToolWindows : v # w => /\ render'[v] = render[v] /\ toolPanel'[v] = toolPanel[v] /\ mount'[v] = mount[v]
                                   /\ toolView'[v] = toolView[v] /\ shown'[v] = shown[v]

\* A panel that is left takes its number with it, unless somebody refers to it.
LEMMA TwLeave ==
  ASSUME TwUi, NEW w \in ToolWindows, NEW p \in Tool!Panels \cup {"none"}, Tool!Leave(w, p)
  PROVE  TwLeft(w)
<1>1. /\ render' \in [ToolWindows -> {"none", "idle", "building", "ended"}]
      /\ \A v \in ToolWindows : v # w => render'[v] = render[v]
  BY DEF Tool!Leave, TwUi
<1>2. toolPanel' \in [ToolWindows -> Tool!Panels \cup {"none"}] /\ \A v \in ToolWindows : v # w => toolPanel'[v] = toolPanel[v]
  BY DEF Tool!Leave, TwUi
<1>3. /\ mount' \in [ToolWindows -> {0} \cup Tool!Mounts] /\ mount'[w] = 0
      /\ \A v \in ToolWindows : v # w => mount'[v] = mount[v]
  BY DEF Tool!Leave, TwUi
<1>4. toolView' \in [ToolWindows -> [Tool!Mounts -> Nat]] /\ \A v \in ToolWindows : v # w => toolView'[v] = toolView[v]
  <2> DEFINE kept == [m \in Tool!Mounts |-> IF Tool!Refers(w, m) THEN toolView[w][m] ELSE 0]
  <2>1. toolView' = [toolView EXCEPT ![w] = kept]
    BY DEF Tool!Leave
  <2>2. kept \in [Tool!Mounts -> Nat]
    BY DEF TwUi
  <2> HIDE DEF kept
  <2> QED
    BY <2>1, <2>2 DEF TwUi
<1>5. detail' \in [ToolWindows -> BOOLEAN] /\ toolRows' \in [ToolWindows -> BOOLEAN]
  BY DEF Tool!Leave, TwUi
<1>6. shown' \in [ToolWindows -> Nat] /\ \A v \in ToolWindows : v # w => shown'[v] = shown[v]
  BY DEF Tool!Leave, TwUi
<1> QED
  BY <1>1, <1>2, <1>3, <1>4, <1>5, <1>6, Zenon DEF TwLeft

\* A patient user's window has nothing under way when its panel is left.
LEMMA TwLeftPatient ==
  ASSUME NEW w \in ToolWindows, NEW do \in {"switch", "select"}, TwTaken(w, do), PatientAt(w), HostRests,
         toolCalls' = toolCalls
  PROVE  PatientAt(w)'
<1>0. Started(w, do)
  BY DEF TwTaken
<1>1. Started(w, do) /\ 1 \in 1 .. Len(tasks[w]) /\ Len(tasks[w]) > 0 /\ tasks[w][1].do = do
  <2>1. Len(tasks[w]) \in Nat \ {0} /\ tasks[w][1].do = do
    BY <1>0 DEF Started
  <2> QED
    BY <1>0, <2>1
<1>2. w \notin shut'
  BY <1>1 DEF PatientAt, Waits, StillFrom, HostRests
<1>3. StillFrom(w, 2) /\ NoCallsOf(w)
  BY <1>1 DEF PatientAt, SwitchesAlone
<1>4. StillFrom(w, 1)' /\ NoCallsOf(w)'
  BY <1>1, <1>3 DEF Started, StillFrom, NoCallsOf
<1>5. Waits(w)'
  BY <1>4 DEF Waits
<1>6. TasksFit(w)'
  BY <1>4 DEF TasksFit, StillFrom, Bound
<1>7. CallsFit(w)'
  BY <1>4 DEF CallsFit, NoCallsOf
<1>8. FirstClicked(w)' /\ SwitchesAlone(w)' /\ ViewsGuarded(w)'
  BY <1>1, TwNext DEF PatientAt
<1> QED
  BY <1>2, <1>5, <1>6, <1>7, <1>8 DEF PatientAt

\* switchPanel() preserves the invariant: for a patient user nothing is under way.
LEMMA TwRunSwitch ==
  ASSUME Tool!ToolConstants, TwInv, NEW w \in ToolWindows, harm = None, Tool!RunSwitch(w)
  PROVE  TwInv'
<1>0. TwHost /\ TwUi /\ TwWork /\ TwHarm /\ TwWindows /\ TwPatient /\ TwShown /\ Tool!NobodyDead
  BY DEF TwInv, TwFacts
<1>1. TwTaken(w, "switch")
  BY <1>0, TwTake DEF Tool!RunSwitch, TwWork
<1>2. HostRests /\ StyleRests /\ UNCHANGED <<toolCalls, harm>>
  BY DEF Tool!RunSwitch, HostRests, StyleRests, Tool!hosted, Tool!opened
<1>3. Head(tasks[w]).panel \in Tool!Panels \cup {"none"}
  BY <1>1 DEF TwTaken, Started, TaskSet, Bound, Loose
<1>4. TwLeft(w)
  BY <1>0, <1>3, TwLeave DEF Tool!RunSwitch
<1>5. TwFacts' /\ TwWindows'
  <2>1. TwHost' /\ TwWindows'
    BY <1>0, <1>2, TwHostRests
  <2>2. TwUi'
    BY <1>0, <1>2, <1>4 DEF TwUi, StyleRests, TwLeft
  <2>3. TwWork'
    BY <1>0, <1>1, <1>2 DEF TwWork, TwTaken
  <2>4. TwHarm'
    BY <1>0, <1>2 DEF TwHarm
  <2> QED
    BY <2>1, <2>2, <2>3, <2>4 DEF TwFacts
<1>6. OthersRest(w) /\ Started(w, "switch")
  BY <1>1, <1>2, <1>4, TwAlone DEF HostRests, StyleRests, TwTaken, TwLeft
<1>7. patient => PatientAt(w)'
  BY <1>0, <1>1, <1>2, TwLeftPatient DEF TwPatient
<1>8. ShownAt(w)'
  <2>1. HasTask(w, "sidebar") => HasTask(w, "sidebar")'
    BY <1>6, TwStillQueued
  <2> QED
    BY <1>0, <1>2, <1>4, <2>1 DEF TwShown, ShownAt, HostRests, StyleRests, TwLeft
<1>9. Tool!NobodyDead'
  BY <1>0, <1>2 DEF Tool!NobodyDead, HostRests
<1> QED
  BY <1>0, <1>2, <1>5, <1>6, <1>7, <1>8, <1>9, TwOthersRest DEF TwInv, HostRests

\* selectDevice() preserves the invariant: for a patient user nothing is under way.
LEMMA TwRunSelect ==
  ASSUME Tool!ToolConstants, TwInv, NEW w \in ToolWindows, harm = None, Tool!RunSelect(w)
  PROVE  TwInv'
<1>0. TwHost /\ TwUi /\ TwWork /\ TwHarm /\ TwWindows /\ TwPatient /\ TwShown /\ Tool!NobodyDead
  BY DEF TwInv, TwFacts
<1>1. TwTaken(w, "select")
  BY <1>0, TwTake DEF Tool!RunSelect, TwWork
<1>2. HostRests /\ UNCHANGED <<toolCalls, watching, sidebar, toolLog, harm>>
  BY DEF Tool!RunSelect, HostRests, Tool!hosted, Tool!opened
<1>3. toolSelected' \in [ToolWindows -> {None, Serial}]
  BY <1>0 DEF Tool!RunSelect, TwUi
<1>4. TwLeft(w) \/ UNCHANGED <<render, toolPanel, mount, toolView, detail, toolRows, shown>>
  BY <1>0, TwLeave DEF Tool!RunSelect, Tool!mounted, Tool!Panels
<1>5. TwFacts' /\ TwWindows'
  <2>1. TwHost' /\ TwWindows'
    BY <1>0, <1>2, TwHostRests
  <2>2. TwUi'
    <3>1. CASE TwLeft(w)
      BY <1>0, <1>2, <1>3, <3>1 DEF TwUi, TwLeft
    <3>2. CASE UNCHANGED <<render, toolPanel, mount, toolView, detail, toolRows, shown>>
      BY <1>0, <1>2, <1>3, <3>2 DEF TwUi
    <3> QED
      BY <1>4, <3>1, <3>2
  <2>3. TwWork'
    BY <1>0, <1>1, <1>2 DEF TwWork, TwTaken
  <2>4. TwHarm'
    BY <1>0, <1>2 DEF TwHarm
  <2> QED
    BY <2>1, <2>2, <2>3, <2>4 DEF TwFacts
<1>6. OthersRest(w) /\ Started(w, "select")
  BY <1>1, <1>2, <1>4, TwAlone DEF HostRests, TwTaken, TwLeft
<1>7. patient => PatientAt(w)'
  BY <1>0, <1>1, <1>2, TwLeftPatient DEF TwPatient
<1>8. ShownAt(w)'
  <2>1. HasTask(w, "sidebar") => HasTask(w, "sidebar")'
    BY <1>6, TwStillQueued
  <2>2. HasTask(w, "log") => HasTask(w, "log")'
    BY <1>6, TwStillQueued
  <2> QED
    BY <1>0, <1>2, <1>4, <2>1, <2>2 DEF TwShown, ShownAt, HostRests, TwLeft
<1>9. Tool!NobodyDead'
  BY <1>0, <1>2 DEF Tool!NobodyDead, HostRests
<1> QED
  BY <1>0, <1>2, <1>5, <1>6, <1>7, <1>8, <1>9, TwOthersRest DEF TwInv, HostRests

\* A panel that has been built: a patient user has waited for it.
LEMMA TwBuiltPatient ==
  ASSUME NEW w \in ToolWindows, PatientAt(w), render[w] = "building", shut' = shut, tasks' = tasks,
         render'[w] = "idle", CallsFit(w)'
  PROVE  PatientAt(w)'
<1>1. StillFrom(w, 1) /\ w \notin shut
  BY DEF PatientAt, Waits
<1>2. StillFrom(w, 1)' /\ w \notin shut'
  BY <1>1 DEF StillFrom
<1>3. Waits(w)'
  BY <1>2 DEF Waits
<1>4. FirstClicked(w)' /\ TasksFit(w)'
  BY <1>2 DEF FirstClicked, TasksFit, StillFrom, Clicks, Bound
<1>5. SwitchesAlone(w)' /\ ViewsGuarded(w)'
  <2>1. ASSUME Len(tasks'[w]) > 0, tasks'[w][1].do \in Clicks PROVE FALSE
    BY <1>1, <2>1 DEF PatientAt, SwitchesAlone, ViewsGuarded, StillFrom, Clicks
  <2> QED
    BY <2>1 DEF SwitchesAlone, ViewsGuarded, Clicks
<1> QED
  BY <1>2, <1>3, <1>4, <1>5 DEF PatientAt

\* What a panel asks adb for as it is built is for itself.
LEMMA TwFirstCalls ==
  ASSUME NEW w \in ToolWindows, NEW m \in Tool!Mounts, NEW c \in Tool!FirstCalls(w, m)
  PROVE  /\ c \in AdbCalls /\ c.win = w /\ c.task.mount = m
         /\ c.task.do = "touch" => toolPanel[w] = "devices"
<1>1. \/ toolPanel[w] = "devices" /\ c = Tool!NewCall(w, Tool!Task("touch", m, 1))
      \/ toolPanel[w] = "packages" /\ c = Tool!NewCall(w, Tool!Task("answer", m, 1))
  BY DEF Tool!FirstCalls
<1>2. /\ Tool!Task("touch", m, 1) \in Answers /\ Tool!Task("touch", m, 1).mount = m
      /\ Tool!Task("answer", m, 1) \in Answers /\ Tool!Task("answer", m, 1).mount = m
      /\ Tool!Task("answer", m, 1).do = "answer"
  BY DEF Tool!Task, Answers
<1>3. \A t \in Answers : Tool!NewCall(w, t) \in AdbCalls /\ Tool!NewCall(w, t).win = w /\ Tool!NewCall(w, t).task = t
  BY DEF Tool!NewCall, AdbCalls
<1> QED
  BY <1>1, <1>2, <1>3

\* Building a panel preserves the invariant: its number is nobody's, its generation the first.
LEMMA TwBuildPanel ==
  ASSUME Tool!ToolConstants, TwInv, NEW w \in ToolWindows, harm = None, Tool!BuildPanel(w)
  PROVE  TwInv'
<1>0. TwHost /\ TwUi /\ TwWork /\ TwHarm /\ TwWindows /\ TwPatient /\ TwShown /\ Tool!NobodyDead
  BY DEF TwInv, TwFacts
<1>1. HostRests /\ StyleRests /\ UNCHANGED <<tasks, toolPanel, detail, toolRows, harm>>
  BY DEF Tool!BuildPanel, HostRests, StyleRests, Tool!hosted, Tool!opened, Tool!mounted
<1>2. render[w] = "building" /\ render' = [render EXCEPT ![w] = "idle"]
  BY DEF Tool!BuildPanel
<1>3. /\ render' \in [ToolWindows -> {"none", "idle", "building", "ended"}] /\ render'[w] = "idle"
      /\ \A v \in ToolWindows : v # w => render'[v] = render[v]
  BY <1>0, <1>2 DEF TwUi
<1>4. /\ mount' \in [ToolWindows -> {0} \cup Tool!Mounts] /\ toolView' \in [ToolWindows -> [Tool!Mounts -> Nat]]
      /\ shown' \in [ToolWindows -> Nat] /\ toolCalls' \subseteq AdbCalls
      /\ \A v \in ToolWindows : v # w => mount'[v] = mount[v] /\ toolView'[v] = toolView[v] /\ shown'[v] = shown[v]
      /\ \A c \in toolCalls' : c \in toolCalls \/ (c.win = w /\ c.task.mount = mount'[w]
                                             /\ (c.task.do = "touch" => toolPanel[w] = "devices"))
      /\ (mount' = mount /\ shown' = shown) \/ (toolPanel[w] = "logcat" => shown'[w] = toolLog[w])
  <2>1. CASE UNCHANGED <<toolCalls, Tool!mounted>>
    <3>1. UNCHANGED <<toolCalls, mount, toolView, shown>>
      BY <2>1 DEF Tool!mounted
    <3> QED
      BY <1>0, <3>1 DEF TwUi, TwWork
  <2>2. CASE w \in Tool!Open /\ ~UNCHANGED <<toolCalls, Tool!mounted>>
    <3>1. PICK m \in Tool!Mounts :
            /\ mount' = [mount EXCEPT ![w] = m] /\ toolView' = [toolView EXCEPT ![w][m] = 1]
            /\ toolCalls' = toolCalls \cup Tool!FirstCalls(w, m)
            /\ shown' = [shown EXCEPT ![w] = IF toolPanel[w] = "logcat" THEN Tool!FirstShown(w) ELSE shown[w]]
      BY <2>2 DEF Tool!BuildPanel
    <3>2. /\ mount' \in [ToolWindows -> {0} \cup Tool!Mounts] /\ mount'[w] = m
          /\ \A v \in ToolWindows : v # w => mount'[v] = mount[v]
      BY <1>0, <3>1 DEF TwUi
    <3>3. toolView' \in [ToolWindows -> [Tool!Mounts -> Nat]] /\ \A v \in ToolWindows : v # w => toolView'[v] = toolView[v]
      <4>1. toolView[w] \in [Tool!Mounts -> Nat]
        BY <1>0 DEF TwUi
      <4>2. [toolView[w] EXCEPT ![m] = 1] \in [Tool!Mounts -> Nat]
        BY <4>1
      <4> QED
        BY <1>0, <3>1, <4>2 DEF TwUi
    <3>4. /\ shown' \in [ToolWindows -> Nat] /\ \A v \in ToolWindows : v # w => shown'[v] = shown[v]
          /\ toolPanel[w] = "logcat" => shown'[w] = toolLog[w]
      BY <1>0, <3>1 DEF TwUi, Tool!FirstShown
    <3>5. PICK first : first = Tool!FirstCalls(w, m)
      OBVIOUS
    <3>6. toolCalls' = toolCalls \cup first /\ toolCalls \subseteq AdbCalls /\ mount'[w] = m
      BY <1>0, <3>1, <3>2, <3>5 DEF TwWork
    <3>7. \A c \in first : /\ c \in AdbCalls /\ c.win = w /\ c.task.mount = m
                           /\ c.task.do = "touch" => toolPanel[w] = "devices"
      BY <3>5, TwFirstCalls
    <3>8. toolCalls' \subseteq AdbCalls
      BY <3>6, <3>7
    <3>9. \A c \in toolCalls' : c \in toolCalls \/ (c.win = w /\ c.task.mount = mount'[w]
                                              /\ (c.task.do = "touch" => toolPanel[w] = "devices"))
      BY <3>6, <3>7
    <3> QED
      BY <3>2, <3>3, <3>4, <3>8, <3>9
  <2> QED
    BY <2>1, <2>2 DEF Tool!BuildPanel
<1>5. TwFacts' /\ TwWindows'
  <2>1. TwHost' /\ TwWindows'
    BY <1>0, <1>1, TwHostRests
  <2>2. TwUi'
    BY <1>0, <1>1, <1>3, <1>4 DEF TwUi, StyleRests
  <2>3. TwWork'
    BY <1>0, <1>1, <1>4 DEF TwWork
  <2>4. TwHarm'
    BY <1>0, <1>1 DEF TwHarm
  <2> QED
    BY <2>1, <2>2, <2>3, <2>4 DEF TwFacts
<1>6. OthersRest(w)
  BY <1>1, <1>3, <1>4, TwAlone DEF StyleRests
<1>7. patient => PatientAt(w)'
  <2> SUFFICES ASSUME patient PROVE PatientAt(w)'
    OBVIOUS
  <2>1. PatientAt(w) /\ NoCallsOf(w)
    BY <1>0, <1>2 DEF TwPatient, PatientAt, Waits
  <2>2. CallsFit(w)'
    BY <1>1, <1>4, <2>1 DEF CallsFit, NoCallsOf, Fits
  <2> QED
    BY <1>1, <1>2, <1>3, <2>1, <2>2, TwBuiltPatient DEF HostRests
<1>8. ShownAt(w)'
  <2>1. \A d : HasTask(w, d) => HasTask(w, d)'
    BY <1>1 DEF HasTask
  <2> QED
    BY <1>0, <1>1, <1>4, <2>1 DEF TwShown, ShownAt, HostRests, StyleRests
<1>9. Tool!NobodyDead'
  BY <1>0, <1>1 DEF Tool!NobodyDead, HostRests
<1> QED
  BY <1>0, <1>1, <1>5, <1>6, <1>7, <1>8, <1>9, TwOthersRest DEF TwInv, HostRests

\* A render thread that ends preserves the invariant.
LEMMA TwRenderEnds ==
  ASSUME Tool!ToolConstants, TwInv, NEW w \in ToolWindows, harm = None, Tool!RenderEnds(w)
  PROVE  TwInv'
<1>0. TwHost /\ TwUi /\ TwWork /\ TwHarm /\ TwWindows /\ TwPatient /\ TwShown /\ Tool!NobodyDead
  BY DEF TwInv, TwFacts
<1>1. /\ UNCHANGED <<patient, toolMutex, supervisor, toolTarget, requests, registered, toolState, shut, tasks, toolCalls>>
      /\ UNCHANGED <<toolPanel, mount, toolView, detail, toolRows, shown, toolSelected, watching, sidebar, toolLog, harm>>
  BY DEF Tool!RenderEnds, Tool!hosted, Tool!content, Tool!mounted
<1>2. /\ toolClosed' = toolClosed \cup {w} /\ toolClosed' \subseteq shut'
      /\ render' \in [ToolWindows -> {"none", "idle", "building", "ended"}] /\ render'[w] = "ended"
      /\ \A v \in ToolWindows : v # w => render'[v] = render[v]
  BY <1>0, <1>1 DEF Tool!RenderEnds, TwHost, TwUi
<1>3. TwHost'
  BY <1>0, <1>1, <1>2 DEF TwHost
<1>4. TwUi'
  BY <1>0, <1>1, <1>2 DEF TwUi
<1>5. TwWork' /\ TwHarm'
  BY <1>0, <1>1 DEF TwWork, TwHarm
<1>6. TwWindows'
  BY <1>0, <1>1, <1>2 DEF TwWindows
<1>7. \A v \in ToolWindows : v # w => tasks'[v] = tasks[v] /\ Rests(v) /\ ShownRests(v)
  BY <1>1, <1>2 DEF Rests, ShownRests
<1>8. patient => PatientAt(w)'
  <2> SUFFICES ASSUME patient PROVE PatientAt(w)'
    OBVIOUS
  <2>1. PatientAt(w)
    BY <1>0 DEF TwPatient
  <2>2. StillFrom(w, 1)' = StillFrom(w, 1) /\ StillFrom(w, 2)' = StillFrom(w, 2)
    BY <1>1 DEF StillFrom
  <2>3. NoCallsOf(w)' = NoCallsOf(w)
    BY <1>1 DEF NoCallsOf
  <2>4. Waits(w)' /\ (w \in shut' => render'[w] # "building")
    BY <1>1, <1>2, <2>1, <2>2, <2>3 DEF PatientAt, Waits
  <2>5. FirstClicked(w)' /\ TasksFit(w)' /\ CallsFit(w)'
    BY <1>1, <2>1 DEF PatientAt, FirstClicked, TasksFit, CallsFit, Fits
  <2>6. SwitchesAlone(w)' /\ ViewsGuarded(w)'
    BY <1>1, <2>1, <2>2, <2>3 DEF PatientAt, SwitchesAlone, ViewsGuarded
  <2> QED
    BY <2>4, <2>5, <2>6 DEF PatientAt
<1>9. ShownAt(w)'
  BY <1>0, <1>1 DEF TwShown, ShownAt, HasTask
<1>10. Tool!NobodyDead'
  BY <1>0, <1>1 DEF Tool!NobodyDead
<1> QED
  BY <1>0, <1>1, <1>3, <1>4, <1>5, <1>6, <1>7, <1>8, <1>9, <1>10, TwOthersRest DEF TwInv, TwFacts, OthersRest

-----------------------------------------------------------------------------
\* What the supervisor does.

\* A window's tasks and what it shows stay while windows come and go.
QueuesRest == UNCHANGED <<tasks, toolCalls, mount, toolView, detail, toolRows, shown, watching, toolLog, harm>>

\* openWindow() preserves the invariant while it makes a window.
LEMMA TwOpenBegin ==
  ASSUME Tool!ToolConstants, TwInv, harm = None, Tool!OpenBegin
  PROVE  TwInv'
<1>0. TwHost /\ TwUi /\ TwWork /\ TwHarm /\ TwWindows /\ TwPatient /\ TwShown /\ Tool!NobodyDead
  BY DEF TwInv, TwFacts
<1>1. /\ UNCHANGED <<patient, toolMutex, registered, shut, toolClosed>> /\ QueuesRest
      /\ supervisor = "looping" /\ requests # <<>> /\ requests' = Tail(requests)
  BY DEF Tool!OpenBegin, QueuesRest
<1>2. requests' \in Seq({None, Serial}) /\ Head(requests) \in {None, Serial}
  BY <1>0, <1>1 DEF TwHost
<1>3. TwWork' /\ TwHarm' /\ Tool!NobodyDead'
  BY <1>0, <1>1 DEF TwWork, TwHarm, Tool!NobodyDead, QueuesRest
<1>4. CASE UNCHANGED <<supervisor, toolTarget, toolState, render, toolSelected, sidebar, toolPanel>>
  <2>1. TwHost' /\ TwWindows'
    BY <1>0, <1>1, <1>2, <1>4 DEF TwHost, TwWindows
  <2>2. TwUi'
    BY <1>0, <1>1, <1>4 DEF TwUi, QueuesRest
  <2>3. \A v \in ToolWindows : tasks'[v] = tasks[v] /\ Rests(v) /\ ShownRests(v)
    BY <1>1, <1>4 DEF QueuesRest, Rests, ShownRests
  <2>4. TwPatient' /\ TwShown'
    <3>1. \A v \in ToolWindows : \A d : HasTask(v, d) => HasTask(v, d)'
      BY <1>1 DEF HasTask, QueuesRest
    <3> QED
      BY <1>0, <1>1, <2>3, <3>1, TwRests, TwShownRests DEF TwPatient, TwShown
  <2> QED
    BY <1>3, <2>1, <2>2, <2>4 DEF TwInv, TwFacts
<1>5. CASE ~UNCHANGED <<supervisor, toolTarget, toolState, render, toolSelected, sidebar, toolPanel>>
  <2>1. PICK w \in ToolWindows :
          /\ toolState[w] = "none" /\ supervisor' = "opening" /\ toolTarget' = w
          /\ toolState' = [toolState EXCEPT ![w] = "rendering"] /\ render' = [render EXCEPT ![w] = "idle"]
          /\ toolSelected' = [toolSelected EXCEPT ![w] = Head(requests)]
          /\ sidebar' = [sidebar EXCEPT ![w] = registered]
          /\ toolPanel' = [toolPanel EXCEPT ![w] = "devices"]
    <3>1. Tool!NextWindow \in ToolWindows
      BY DEF Tool!NextWindow, Tool!ToolConstants
    <3> QED
      BY <1>5, <3>1 DEF Tool!OpenBegin
  <2>2. /\ toolState' \in [ToolWindows -> {"none", "rendering", "open", "gone"}] /\ toolState'[w] = "rendering"
        /\ \A v \in ToolWindows : v # w => toolState'[v] = toolState[v]
    BY <1>0, <2>1 DEF TwHost
  <2>3. /\ render' \in [ToolWindows -> {"none", "idle", "building", "ended"}] /\ render'[w] = "idle"
        /\ \A v \in ToolWindows : v # w => render'[v] = render[v]
    BY <1>0, <2>1 DEF TwUi
  <2>4. /\ toolPanel' \in [ToolWindows -> Tool!Panels \cup {"none"}] /\ toolPanel'[w] = "devices"
        /\ \A v \in ToolWindows : v # w => toolPanel'[v] = toolPanel[v]
    BY <1>0, <2>1 DEF TwUi, Tool!Panels
  <2>5. /\ sidebar' \in [ToolWindows -> 0 .. 1] /\ sidebar'[w] = registered
        /\ \A v \in ToolWindows : v # w => sidebar'[v] = sidebar[v]
    BY <1>0, <2>1 DEF TwUi, TwHost
  <2>6. toolSelected' \in [ToolWindows -> {None, Serial}]
    BY <1>0, <1>2, <2>1 DEF TwUi
  <2>7. TwHost'
    BY <1>0, <1>1, <1>2, <2>1, <2>2 DEF TwHost
  <2>8. TwUi'
    BY <1>0, <1>1, <2>3, <2>4, <2>5, <2>6 DEF TwUi, QueuesRest
  <2>9. TwWindows'
    BY <1>0, <1>1, <2>1, <2>2 DEF TwWindows
  <2>10. OthersRest(w)
    BY <1>1, <2>2, <2>3, <2>4, <2>5 DEF OthersRest, Rests, ShownRests, QueuesRest
  <2>11. patient => PatientAt(w)'
    <3> SUFFICES ASSUME patient PROVE PatientAt(w)'
      OBVIOUS
    <3>1. PatientAt(w)
      BY <1>0 DEF TwPatient
    <3>2. /\ StillFrom(w, 1)' = StillFrom(w, 1) /\ StillFrom(w, 2)' = StillFrom(w, 2)
          /\ NoCallsOf(w)' = NoCallsOf(w)
      BY <1>1 DEF StillFrom, NoCallsOf, QueuesRest
    <3>3. Waits(w)' /\ (w \in shut' => render'[w] # "building")
      BY <1>1, <2>3, <3>1, <3>2 DEF PatientAt, Waits
    <3>4. FirstClicked(w)' /\ TasksFit(w)' /\ CallsFit(w)'
      BY <1>1, <2>4, <3>1 DEF PatientAt, FirstClicked, TasksFit, CallsFit, Fits, QueuesRest
    <3>5. SwitchesAlone(w)' /\ ViewsGuarded(w)'
      BY <1>1, <3>1, <3>2 DEF PatientAt, SwitchesAlone, ViewsGuarded, QueuesRest
    <3> QED
      BY <3>3, <3>4, <3>5 DEF PatientAt
  <2>12. ShownAt(w)'
    BY <1>1, <2>4, <2>5 DEF ShownAt
  <2> QED
    BY <1>0, <1>1, <1>3, <2>7, <2>8, <2>9, <2>10, <2>11, <2>12, TwOthersRest DEF TwInv, TwFacts
<1> QED
  BY <1>4, <1>5

\* A window that openWindow() enters shows all that is there.
LEMMA TwOpenEnd ==
  ASSUME Tool!ToolConstants, TwInv, harm = None, Tool!OpenEnd
  PROVE  TwInv'
<1>0. TwHost /\ TwUi /\ TwWork /\ TwHarm /\ TwWindows /\ TwPatient /\ TwShown /\ Tool!NobodyDead
  BY DEF TwInv, TwFacts
<1>1. /\ UNCHANGED <<patient, toolMutex, requests, registered, shut, toolClosed, render, toolPanel>> /\ QueuesRest
      /\ UNCHANGED <<toolSelected, sidebar>>
      /\ supervisor = "opening" /\ supervisor' = "looping" /\ toolTarget' = None
      /\ toolState' = [toolState EXCEPT ![toolTarget] = "open"]
  BY DEF Tool!OpenEnd, QueuesRest, Tool!content, Tool!mounted
<1>2. PICK w \in ToolWindows : w = toolTarget /\ toolState[w] = "rendering"
  BY <1>0, <1>1 DEF TwWindows
<1>3. /\ toolState' \in [ToolWindows -> {"none", "rendering", "open", "gone"}] /\ toolState'[w] = "open"
      /\ \A v \in ToolWindows : v # w => toolState'[v] = toolState[v]
  BY <1>0, <1>1, <1>2 DEF TwHost
<1>4. TwHost'
  BY <1>0, <1>1, <1>3 DEF TwHost
<1>5. TwUi' /\ TwWork' /\ TwHarm' /\ Tool!NobodyDead'
  BY <1>0, <1>1 DEF TwUi, TwWork, TwHarm, Tool!NobodyDead, QueuesRest
<1>6. TwWindows'
  BY <1>0, <1>1, <1>2, <1>3 DEF TwWindows
<1>7. OthersRest(w) /\ Rests(w) /\ tasks'[w] = tasks[w]
  BY <1>1, <1>3 DEF OthersRest, Rests, ShownRests, QueuesRest
<1>8. patient => PatientAt(w)'
  BY <1>0, <1>7, TwRests DEF TwPatient
<1>9. ShownAt(w)'
  BY <1>0, <1>1, <1>2 DEF TwShown, ShownAt, HasTask, QueuesRest
<1> QED
  BY <1>0, <1>1, <1>4, <1>5, <1>6, <1>7, <1>8, <1>9, TwOthersRest DEF TwInv, TwFacts

\* Choosing a window to reap, and returning, preserve the invariant.
LEMMA TwReap ==
  ASSUME Tool!ToolConstants, TwInv, harm = None, Tool!Reap \/ Tool!Return
  PROVE  TwInv'
<1>0. TwHost /\ TwUi /\ TwWork /\ TwHarm /\ TwWindows /\ TwPatient /\ TwShown /\ Tool!NobodyDead
  BY DEF TwInv, TwFacts
<1>1. /\ UNCHANGED <<patient, requests, registered, toolState, shut, toolClosed>> /\ QueuesRest
      /\ UNCHANGED <<render, toolPanel, toolSelected, sidebar>> /\ supervisor = "looping"
  BY DEF Tool!Reap, Tool!Return, QueuesRest, Tool!opened, Tool!content, Tool!mounted
<1>2. TwHost' /\ TwWindows'
  <2>1. CASE Tool!Reap
    <3>1. /\ toolTarget' \in ToolWindows /\ toolTarget' \in toolClosed /\ toolState[toolTarget'] = "open"
          /\ supervisor' = "reaping" /\ toolMutex' = "host"
      BY <2>1 DEF Tool!Reap, Tool!Open
    <3> QED
      BY <1>0, <1>1, <3>1 DEF TwHost, TwWindows
  <2>2. CASE Tool!Return
    <3>1. supervisor' = "returned" /\ toolTarget' = toolTarget /\ toolMutex' = toolMutex
      BY <2>2 DEF Tool!Return
    <3> QED
      BY <1>0, <1>1, <3>1 DEF TwHost, TwWindows
  <2> QED
    BY <2>1, <2>2
<1>3. TwUi' /\ TwWork' /\ TwHarm' /\ Tool!NobodyDead'
  BY <1>0, <1>1 DEF TwUi, TwWork, TwHarm, Tool!NobodyDead, QueuesRest
<1>4. \A v \in ToolWindows : tasks'[v] = tasks[v] /\ Rests(v) /\ ShownRests(v)
  BY <1>1 DEF QueuesRest, Rests, ShownRests
<1>5. \A v \in ToolWindows : \A d : HasTask(v, d) => HasTask(v, d)'
  BY <1>1 DEF HasTask, QueuesRest
<1>6. TwPatient' /\ TwShown'
  BY <1>0, <1>1, <1>4, <1>5, TwRests, TwShownRests DEF TwPatient, TwShown
<1> QED
  BY <1>2, <1>3, <1>6 DEF TwInv, TwFacts

\* closeAndDestroyWindow() finds the thread joined and, for a patient user, no call of adb
\* under way.
LEMMA TwReaped ==
  ASSUME Tool!ToolConstants, TwInv, harm = None, Tool!Reaped
  PROVE  TwInv'
<1>0. TwHost /\ TwUi /\ TwWork /\ TwHarm /\ TwWindows /\ TwPatient /\ TwShown /\ Tool!NobodyDead
  BY DEF TwInv, TwFacts
<1>1. /\ UNCHANGED <<patient, requests, registered, shut, toolClosed, render, toolCalls, toolView, sidebar>>
      /\ supervisor = "reaping" /\ supervisor' = "looping" /\ toolTarget' = None /\ toolMutex' = None
  BY DEF Tool!Reaped
<1>2. PICK w \in ToolWindows : w = toolTarget /\ toolState[w] = "open" /\ w \in shut /\ render[w] = "ended"
  BY <1>0, <1>1 DEF TwWindows, TwHost, Tool!Reaped, Tool!Joined
<1>3. /\ toolState' \in [ToolWindows -> {"none", "rendering", "open", "gone"}] /\ toolState'[w] = "gone"
      /\ \A v \in ToolWindows : v # w => toolState'[v] = toolState[v]
  BY <1>0, <1>2 DEF TwHost, Tool!Reaped
<1>4. /\ tasks' \in TaskLists /\ tasks'[w] = <<>>
      /\ \A v \in ToolWindows : v # w => tasks'[v] = tasks[v]
  <2>1. tasks' = [tasks EXCEPT ![w] = <<>>] /\ <<>> \in Seq(TaskSet)
    BY <1>2 DEF Tool!Reaped
  <2> QED
    BY <1>0, <2>1 DEF TwWork, TaskLists
<1>5. /\ toolPanel' \in [ToolWindows -> Tool!Panels \cup {"none"}] /\ toolPanel'[w] = "none"
      /\ \A v \in ToolWindows : v # w => toolPanel'[v] = toolPanel[v]
  BY <1>0, <1>2 DEF TwUi, Tool!Reaped
<1>6. mount' \in [ToolWindows -> {0} \cup Tool!Mounts] /\ \A v \in ToolWindows : v # w => mount'[v] = mount[v]
  BY <1>0, <1>2 DEF TwUi, Tool!Reaped
<1>7. detail' \in [ToolWindows -> BOOLEAN] /\ toolRows' \in [ToolWindows -> BOOLEAN]
  BY <1>0, <1>2 DEF TwUi, Tool!Reaped
<1>8. shown' \in [ToolWindows -> Nat] /\ \A v \in ToolWindows : v # w => shown'[v] = shown[v]
  BY <1>0, <1>2 DEF TwUi, Tool!Reaped
<1>9. toolLog' \in [ToolWindows -> Nat] /\ \A v \in ToolWindows : v # w => toolLog'[v] = toolLog[v]
  BY <1>0, <1>2 DEF TwUi, Tool!Reaped
<1>10. toolSelected' \in [ToolWindows -> {None, Serial}] /\ watching' \in [ToolWindows -> {None, Serial}]
  BY <1>0, <1>2 DEF TwUi, Tool!Reaped
<1>11. harm' = None
  BY <1>2 DEF Tool!Reaped
<1>12. TwHost'
  BY <1>0, <1>1, <1>3 DEF TwHost
<1>13. TwUi'
  BY <1>0, <1>1, <1>5, <1>6, <1>7, <1>8, <1>9, <1>10 DEF TwUi
<1>14. TwWork' /\ TwHarm'
  BY <1>0, <1>1, <1>4, <1>11 DEF TwWork, TwHarm
<1>15. TwWindows'
  BY <1>0, <1>1, <1>2, <1>3 DEF TwWindows
<1>16. OthersRest(w)
  BY <1>1, <1>3, <1>4, <1>5, <1>6, <1>8, <1>9 DEF OthersRest, Rests, ShownRests
<1>17. patient => PatientAt(w)'
  <2> SUFFICES ASSUME patient PROVE PatientAt(w)'
    OBVIOUS
  <2>1. PatientAt(w) /\ NoCallsOf(w)
    BY <1>0, <1>2 DEF TwPatient, PatientAt, Waits
  <2>2. NoCallsOf(w)' /\ Len(tasks'[w]) = 0 /\ render'[w] # "building"
    BY <1>1, <1>2, <1>4, <2>1 DEF NoCallsOf
  <2>3. Waits(w)' /\ FirstClicked(w)' /\ TasksFit(w)'
    BY <2>2 DEF Waits, StillFrom, FirstClicked, TasksFit
  <2>4. CallsFit(w)' /\ SwitchesAlone(w)' /\ ViewsGuarded(w)'
    BY <2>2 DEF CallsFit, SwitchesAlone, ViewsGuarded, NoCallsOf
  <2> QED
    BY <2>2, <2>3, <2>4 DEF PatientAt
<1>18. ShownAt(w)'
  BY <1>3, <1>5 DEF ShownAt
<1>19. Tool!NobodyDead'
  BY <1>1, <1>11 DEF Tool!NobodyDead, Tool!ToolConstants
<1> QED
  BY <1>0, <1>1, <1>12, <1>13, <1>14, <1>15, <1>16, <1>17, <1>18, <1>19, TwOthersRest DEF TwInv, TwFacts

-----------------------------------------------------------------------------
\* What is pushed while others wait: an answer, or a line or a panel to be shown.
LEMMA TwAddedPatient ==
  ASSUME NEW w \in ToolWindows, NEW t \in TaskSet, PatientAt(w), Rests(w), Added(w, t), t.do \notin Clicks,
         t.do \in {"log", "sidebar"} \/ \E c \in toolCalls : c.win = w /\ t = c.task /\ c \in AdbCalls
  PROVE  PatientAt(w)'
<1>1. /\ Len(tasks[w]) \in Nat /\ Len(tasks'[w]) = Len(tasks[w]) + 1
      /\ \A i \in 1 .. Len(tasks'[w]) : \/ i \in 1 .. Len(tasks[w]) /\ tasks'[w][i] = tasks[w][i]
                                        \/ i = Len(tasks[w]) + 1 /\ tasks'[w][i] = t
  BY DEF Added
<1>2. NoCallsOf(w) => NoCallsOf(w)' /\ t.do \in {"log", "sidebar"}
  BY DEF NoCallsOf, Rests
<1>3. NoCallsOf(w) /\ StillFrom(w, 1) => StillFrom(w, 1)'
  BY <1>1, <1>2 DEF StillFrom
<1>4. NoCallsOf(w) /\ StillFrom(w, 2) => StillFrom(w, 2)'
  BY <1>1, <1>2 DEF StillFrom
<1>5. Waits(w)' /\ (w \in shut' => render'[w] # "building")
  BY <1>2, <1>3 DEF PatientAt, Waits, Rests
<1>6. FirstClicked(w)'
  BY <1>1 DEF PatientAt, FirstClicked
<1>7. TasksFit(w)'
  <2> SUFFICES ASSUME NEW i \in 1 .. Len(tasks'[w]), (tasks[w][i] \in Bound)' PROVE Fits(w, tasks[w][i])'
    BY DEF TasksFit
  <2>1. CASE i \in 1 .. Len(tasks[w]) /\ tasks'[w][i] = tasks[w][i]
    <3>1. tasks[w][i] \in Bound
      BY <2>1 DEF Bound, Tool!Mounts
    <3> QED
      BY <2>1, <3>1 DEF PatientAt, TasksFit, Fits, Rests
  <2>2. CASE tasks'[w][i] = t
    <3>1. t \in Bound
      BY <2>2 DEF Bound, Tool!Mounts
    <3>2. Fits(w, t)
      BY <3>1 DEF Bound, PatientAt, CallsFit
    <3> QED
      BY <2>2, <3>2 DEF Fits, Rests
  <2> QED
    BY <1>1, <2>1, <2>2
<1>8. CallsFit(w)'
  BY DEF PatientAt, CallsFit, Fits, Rests
<1>9. /\ tasks'[w][1].do \in Clicks => Len(tasks[w]) > 0 /\ tasks'[w][1] = tasks[w][1]
  BY <1>1
<1>10. SwitchesAlone(w)'
  BY <1>2, <1>4, <1>9 DEF PatientAt, SwitchesAlone, Clicks
<1>11. ViewsGuarded(w)'
  <2> SUFFICES ASSUME tasks'[w][1].do \in {"row", "back"}
               PROVE  /\ \A i \in 2 .. Len(tasks'[w]) : tasks'[w][i].do # "touch"
                      /\ \A c \in toolCalls' : c.win = w => c.task.do = "answer"
    BY DEF ViewsGuarded
  <2>1. /\ \A i \in 2 .. Len(tasks[w]) : tasks[w][i].do # "touch"
        /\ \A c \in toolCalls : c.win = w => c.task.do = "answer"
    BY <1>9 DEF PatientAt, ViewsGuarded, Clicks
  <2>2. t.do # "touch"
    BY <2>1
  <2>3. \A c \in toolCalls' : c.win = w => c.task.do = "answer"
    BY <2>1 DEF Rests
  <2> QED
    BY <1>1, <2>1, <2>2, <2>3
<1> QED
  BY <1>5, <1>6, <1>7, <1>8, <1>10, <1>11 DEF PatientAt

\* An answer of adb is queued where it fits or is guarded.
LEMMA TwCallReturns ==
  ASSUME Tool!ToolConstants, TwInv, harm = None, Tool!CallReturns
  PROVE  TwInv'
<1>0. TwHost /\ TwUi /\ TwWork /\ TwHarm /\ TwWindows /\ TwPatient /\ TwShown /\ Tool!NobodyDead
  BY DEF TwInv, TwFacts
<1>1. HostRests /\ MountRests /\ StyleRests /\ UNCHANGED <<toolView, detail, toolRows, shown>>
  BY DEF Tool!CallReturns, HostRests, MountRests, StyleRests, Tool!hosted, Tool!opened, Tool!content, Tool!mounted
<1>2. PICK c \in toolCalls :
        /\ toolCalls' = toolCalls \ {c}
        /\ \/ toolState[c.win] = "gone" /\ harm' = "window" /\ tasks' = tasks
           \/ Tool!Push(c.win, c.task) /\ harm' = harm
  BY DEF Tool!CallReturns
<1>3. PICK w \in ToolWindows : w = c.win
  BY <1>0 DEF TwWork, AdbCalls
<1>4. c \in AdbCalls /\ c.task \in Answers /\ c.task \in TaskSet /\ c.task.do \notin Clicks
  BY <1>0 DEF TwWork, AdbCalls, Answers, TaskSet, Bound, Clicks
<1>5. /\ tasks' \in TaskLists /\ \A v \in ToolWindows : v # w => tasks'[v] = tasks[v]
      /\ \/ toolState[w] = "gone" /\ harm' = "window" /\ tasks' = tasks
         \/ Added(w, c.task) /\ harm' = harm
  <2>1. CASE Tool!Push(c.win, c.task) /\ harm' = harm
    BY <1>0, <1>3, <1>4, <2>1, TwPush DEF TwWork, TwPushed
  <2> QED
    BY <1>0, <1>2, <1>3, <2>1 DEF TwWork
<1>6. Rests(w) /\ ShownRests(w) /\ OthersRest(w)
  BY <1>1, <1>2, <1>5, TwAlone DEF Rests, ShownRests, HostRests, MountRests, StyleRests
<1>7. patient => PatientAt(w) /\ ~NoCallsOf(w)
  BY <1>0, <1>3 DEF TwPatient, NoCallsOf
<1>8. patient => PatientAt(w)' /\ harm' = None
  <2> SUFFICES ASSUME patient PROVE PatientAt(w)' /\ harm' = None
    OBVIOUS
  <2>1. toolState[w] # "gone"
    BY <1>0, <1>7 DEF TwWindows, PatientAt, Waits
  <2> QED
    BY <1>3, <1>4, <1>5, <1>6, <1>7, <2>1, TwAddedPatient
<1>9. ShownAt(w)'
  <2>1. \A d : HasTask(w, d) => HasTask(w, d)'
    <3>1. CASE tasks' = tasks
      BY <3>1 DEF HasTask
    <3> QED
      BY <1>5, <3>1, TwQueued
  <2> QED
    BY <1>0, <1>6, <2>1, TwShownRests DEF TwShown
<1>10. harm' \in {None, "window"} /\ patient' = patient
  BY <1>1, <1>5 DEF HostRests
<1>11. TwFacts' /\ TwWindows'
  <2>1. TwHost' /\ TwWindows'
    BY <1>0, <1>1, TwHostRests
  <2>2. TwUi'
    BY <1>0, <1>1 DEF TwUi, MountRests, StyleRests
  <2>3. TwWork'
    BY <1>0, <1>2, <1>5 DEF TwWork
  <2>4. TwHarm'
    BY <1>10 DEF TwHarm
  <2> QED
    BY <2>1, <2>2, <2>3, <2>4 DEF TwFacts
<1>12. Tool!NobodyDead'
  BY <1>8, <1>10 DEF Tool!NobodyDead, Tool!ToolConstants
<1> QED
  BY <1>0, <1>6, <1>8, <1>9, <1>10, <1>11, <1>12, TwOthersRest DEF TwInv

-----------------------------------------------------------------------------
\* What the user does.

\* What a patient user clicks is the first task; what is pushed for an element fits.
LEMMA TwClickedPatient ==
  ASSUME NEW w \in ToolWindows, NEW t \in TaskSet, PatientAt(w), Rests(w), Added(w, t),
         Len(tasks[w]) = 0, w \notin shut, render[w] = "idle",
         t \in Bound => Fits(w, t),
         t.do \in {"switch", "select"} => NoCallsOf(w),
         t.do \in {"row", "back"} => \A c \in toolCalls : c.win = w => c.task.do = "answer"
  PROVE  PatientAt(w)'
<1>1. Len(tasks'[w]) = 1 /\ tasks'[w][1] = t /\ \A i \in 1 .. Len(tasks'[w]) : i = 1
  BY DEF Added
<1>2. Waits(w)' /\ (w \in shut' => render'[w] # "building")
  BY DEF Waits, Rests
<1>3. FirstClicked(w)'
  BY <1>1 DEF FirstClicked
<1>4. TasksFit(w)'
  <2> SUFFICES ASSUME NEW i \in 1 .. Len(tasks'[w]), (tasks[w][i] \in Bound)' PROVE Fits(w, tasks[w][i])'
    BY DEF TasksFit
  <2>1. tasks'[w][i] = t /\ t \in Bound
    BY <1>1 DEF Bound, Tool!Mounts
  <2> QED
    BY <2>1 DEF Fits, Rests
<1>5. CallsFit(w)'
  BY DEF PatientAt, CallsFit, Fits, Rests
<1>6. SwitchesAlone(w)'
  BY <1>1 DEF SwitchesAlone, StillFrom, NoCallsOf, Rests
<1>7. ViewsGuarded(w)'
  BY <1>1 DEF ViewsGuarded, Rests
<1> QED
  BY <1>2, <1>3, <1>4, <1>5, <1>6, <1>7 DEF PatientAt

\* What a click leaves as it is.
ClickRests == HostRests /\ MountRests /\ UNCHANGED <<toolView, detail, toolRows, shown, toolSelected, sidebar, toolLog, harm>>

\* A click leaves what the windows show.
LEMMA TwClickRests ==
  ASSUME TwUi, TwHarm, Tool!NobodyDead, ClickRests, watching' \in [ToolWindows -> {None, Serial}]
  PROVE  TwUi' /\ TwHarm' /\ Tool!NobodyDead' /\ \A v \in ToolWindows : ShownRests(v)
<1>1. TwUi'
  BY DEF TwUi, ClickRests, MountRests
<1>2. TwHarm' /\ Tool!NobodyDead'
  BY DEF TwHarm, Tool!NobodyDead, ClickRests, HostRests
<1>3. \A v \in ToolWindows : ShownRests(v)
  BY DEF ShownRests, ClickRests, HostRests, MountRests
<1> QED
  BY <1>1, <1>2, <1>3

\* A click that pushes a task.
LEMMA TwClickPush ==
  ASSUME TwInv, NEW w \in ToolWindows, NEW t \in TaskSet, Tool!Push(w, t), ClickRests, toolCalls' = toolCalls,
         watching' = watching,
         patient => /\ tasks[w] = <<>> /\ w \notin shut /\ render[w] = "idle"
                    /\ t \in Bound => Fits(w, t)
                    /\ t.do \in {"switch", "select"} => NoCallsOf(w)
                    /\ t.do \in {"row", "back"} => \A c \in toolCalls : c.win = w => c.task.do = "answer"
  PROVE  TwInv'
<1>0. TwHost /\ TwUi /\ TwWork /\ TwHarm /\ TwWindows /\ TwPatient /\ TwShown /\ Tool!NobodyDead
  BY DEF TwInv, TwFacts
<1>1. TwPushed(w, t)
  BY <1>0, TwPush DEF TwWork
<1>2. TwHost' /\ TwWindows'
  BY <1>0, TwHostRests DEF ClickRests
<1>3. TwUi' /\ TwHarm' /\ Tool!NobodyDead' /\ ShownRests(w)
  <2>1. watching' \in [ToolWindows -> {None, Serial}]
    BY <1>0 DEF TwUi
  <2> QED
    BY <1>0, <2>1, TwClickRests
<1>4. TwWork'
  BY <1>0, <1>1 DEF TwWork, TwPushed
<1>5. Rests(w) /\ OthersRest(w) /\ Added(w, t)
  BY <1>1, TwAlone DEF TwPushed, Rests, ClickRests, HostRests, MountRests
<1>6. patient => PatientAt(w)'
  <2>1. patient => Len(tasks[w]) = 0
    OBVIOUS
  <2> QED
    BY <1>0, <1>5, <2>1, TwClickedPatient DEF TwPatient
<1>7. ShownAt(w)'
  BY <1>0, <1>3, <1>5, TwQueued, TwShownRests DEF TwShown
<1> QED
  BY <1>0, <1>2, <1>3, <1>4, <1>5, <1>6, <1>7, TwOthersRest DEF TwInv, TwFacts, ClickRests, HostRests

\* A click that starts a call.
LEMMA TwClickCalls ==
  ASSUME TwInv, NEW w \in ToolWindows, NEW t \in Answers, ClickRests, UNCHANGED <<tasks, watching>>,
         toolCalls' = toolCalls \cup {Tool!NewCall(w, t)},
         patient => tasks[w] = <<>> /\ w \notin shut /\ render[w] = "idle" /\ Fits(w, t)
  PROVE  TwInv'
<1>0. TwHost /\ TwUi /\ TwWork /\ TwHarm /\ TwWindows /\ TwPatient /\ TwShown /\ Tool!NobodyDead
  BY DEF TwInv, TwFacts
<1>1. Tool!NewCall(w, t) \in AdbCalls /\ Tool!NewCall(w, t).win = w /\ Tool!NewCall(w, t).task = t
  BY DEF Tool!NewCall, AdbCalls
<1>2. TwHost' /\ TwWindows'
  BY <1>0, TwHostRests DEF ClickRests
<1>3. TwUi' /\ TwHarm' /\ Tool!NobodyDead' /\ ShownRests(w)
  <2>1. watching' \in [ToolWindows -> {None, Serial}]
    BY <1>0 DEF TwUi
  <2> QED
    BY <1>0, <2>1, TwClickRests
<1>4. TwWork'
  BY <1>0, <1>1 DEF TwWork
<1>5. OthersRest(w)
  BY <1>1, TwAlone DEF ClickRests, HostRests, MountRests
<1>6. patient => PatientAt(w)'
  <2> SUFFICES ASSUME patient PROVE PatientAt(w)'
    OBVIOUS
  <2>1. PatientAt(w) /\ Len(tasks'[w]) = 0 /\ w \notin shut' /\ render'[w] = "idle"
    BY <1>0 DEF TwPatient, ClickRests, HostRests, MountRests
  <2>2. Waits(w)' /\ FirstClicked(w)' /\ TasksFit(w)'
    BY <2>1 DEF Waits, FirstClicked, TasksFit
  <2>3. CallsFit(w)'
    BY <1>1, <2>1 DEF PatientAt, CallsFit, Fits, ClickRests, MountRests
  <2>4. SwitchesAlone(w)' /\ ViewsGuarded(w)'
    BY <2>1 DEF SwitchesAlone, ViewsGuarded
  <2> QED
    BY <2>1, <2>2, <2>3, <2>4 DEF PatientAt
<1>7. ShownAt(w)'
  BY <1>0, <1>3, TwShownRests DEF TwShown, HasTask
<1> QED
  BY <1>0, <1>2, <1>3, <1>4, <1>5, <1>6, <1>7, TwOthersRest DEF TwInv, TwFacts, ClickRests, HostRests

\* What an element of a mounted panel stands for.
LEMMA TwHere ==
  ASSUME TwUi, NEW w \in ToolWindows, mount[w] # 0, NEW do \in {"touch", "answer", "row", "back"}
  PROVE  /\ Tool!Here(w, do) \in Bound /\ Tool!Here(w, do) \in TaskSet /\ Tool!Here(w, do).do = do /\ Fits(w, Tool!Here(w, do))
         /\ do \in {"touch", "answer"} => Tool!Here(w, do) \in Answers
<1>1. mount[w] \in Tool!Mounts /\ toolView[w][mount[w]] \in Nat
  BY DEF TwUi
<1> QED
  BY <1>1 DEF Tool!Here, Tool!Task, Bound, TaskSet, Answers, Fits

\* What a click says of the window: a patient user has waited.
LEMMA TwClick ==
  ASSUME NEW w \in ToolWindows, Tool!Click(w)
  PROVE  patient => tasks[w] = <<>> /\ w \notin shut /\ render[w] = "idle"
  BY DEF Tool!Click, Tool!Quiet

\* A click that pushes a task preserves the invariant: a patient user had waited.
LEMMA TwClicked ==
  ASSUME Tool!ToolConstants, TwInv, NEW w \in ToolWindows, harm = None,
         Tool!ClickPanel(w) \/ Tool!ClickDevice(w) \/ Tool!ClickView(w) \/ Tool!ClickNoDevice(w)
  PROVE  TwInv'
<1>0. TwUi
  BY DEF TwInv, TwFacts
<1>1. Tool!Click(w)
  BY DEF Tool!ClickPanel, Tool!ClickDevice, Tool!ClickView, Tool!ClickNoDevice, Tool!In
<1>2. ClickRests /\ UNCHANGED <<toolCalls, watching>>
  BY DEF Tool!ClickPanel, Tool!ClickDevice, Tool!ClickView, Tool!ClickNoDevice, ClickRests, HostRests, MountRests,
         Tool!hosted, Tool!opened, Tool!content, Tool!mounted
<1>3. Tool!NoCalls(w) => (patient => NoCallsOf(w))
  BY DEF Tool!NoCalls, NoCallsOf, Tool!CallsOf
<1>4. CASE Tool!ClickPanel(w)
  <2>1. PICK p \in Tool!Panels : Tool!Push(w, Tool!Switch(p))
    BY <1>4 DEF Tool!ClickPanel
  <2>2. Tool!Switch(p) = [do |-> "switch", mount |-> 0, view |-> 0, panel |-> p]
    BY DEF Tool!Switch, Tool!Task
  <2>3. Tool!Switch(p) \in TaskSet /\ Tool!Switch(p).do = "switch" /\ Tool!Switch(p) \notin Bound
    BY <2>2 DEF TaskSet, Loose, Bound
  <2>4. patient => NoCallsOf(w)
    BY <1>3, <1>4 DEF Tool!ClickPanel
  <2> QED
    BY <1>1, <1>2, <2>1, <2>3, <2>4, TwClick, TwClickPush
<1>5. CASE Tool!ClickDevice(w)
  <2>1. Tool!Push(w, Tool!Task("select", 0, 0)) /\ (patient => NoCallsOf(w))
    BY <1>3, <1>5 DEF Tool!ClickDevice
  <2>2. /\ Tool!Task("select", 0, 0) \in TaskSet /\ Tool!Task("select", 0, 0).do = "select"
        /\ Tool!Task("select", 0, 0) \notin Bound
    BY DEF Tool!Task, TaskSet, Loose, Bound
  <2> QED
    BY <1>1, <1>2, <2>1, <2>2, TwClick, TwClickPush
<1>6. CASE Tool!ClickView(w)
  <2>1. PICK do \in {"row", "back"} : Tool!Push(w, Tool!Here(w, do))
    BY <1>6 DEF Tool!ClickView
  <2>2. mount[w] # 0 /\ (patient => \A c \in toolCalls : c.win = w => c.task.do = "answer")
    BY <1>6 DEF Tool!ClickView, Tool!In, Tool!Guarded, Tool!CallsOf
  <2>3. /\ Tool!Here(w, do) \in Bound /\ Tool!Here(w, do) \in TaskSet /\ Tool!Here(w, do).do = do
        /\ Fits(w, Tool!Here(w, do))
    BY <1>0, <2>2, TwHere
  <2> QED
    BY <1>1, <1>2, <2>1, <2>2, <2>3, TwClick, TwClickPush
<1>7. CASE Tool!ClickNoDevice(w)
  <2>1. Tool!Push(w, Tool!Here(w, "touch")) /\ mount[w] # 0
    BY <1>7 DEF Tool!ClickNoDevice, Tool!In
  <2>2. /\ Tool!Here(w, "touch") \in Bound /\ Tool!Here(w, "touch") \in TaskSet /\ Tool!Here(w, "touch").do = "touch"
        /\ Fits(w, Tool!Here(w, "touch"))
    BY <1>0, <2>1, TwHere
  <2> QED
    BY <1>1, <1>2, <2>1, <2>2, TwClick, TwClickPush
<1> QED
  BY <1>4, <1>5, <1>6, <1>7

\* A click that starts a call of adb preserves the invariant.
LEMMA TwCalled ==
  ASSUME Tool!ToolConstants, TwInv, NEW w \in ToolWindows, harm = None, Tool!ClickCall(w) \/ Tool!ClickGuarded(w)
  PROVE  TwInv'
<1>0. TwUi
  BY DEF TwInv, TwFacts
<1>1. Tool!Click(w) /\ mount[w] # 0
  BY DEF Tool!ClickCall, Tool!ClickGuarded, Tool!In
<1>2. ClickRests /\ UNCHANGED <<tasks, watching>>
  BY DEF Tool!ClickCall, Tool!ClickGuarded, ClickRests, HostRests, MountRests, Tool!hosted, Tool!opened, Tool!content, Tool!mounted
<1>3. PICK do \in {"touch", "answer"} : toolCalls' = toolCalls \cup {Tool!NewCall(w, Tool!Here(w, do))}
  BY DEF Tool!ClickCall, Tool!ClickGuarded
<1>4. Tool!Here(w, do) \in Answers /\ Fits(w, Tool!Here(w, do))
  BY <1>0, <1>1, TwHere
<1> QED
  BY <1>1, <1>2, <1>3, <1>4, TwClick, TwClickCalls

\* Where a step touches no window's queue, calls or elements.
LEMMA TwNothingMoves ==
  ASSUME TwPatient, TwShown, patient' = patient, shut' = shut, MountRests,
         UNCHANGED <<toolState, registered, tasks, toolCalls, toolView, shown, sidebar, toolLog>>
  PROVE  TwPatient' /\ TwShown'
<1>1. \A v \in ToolWindows : tasks'[v] = tasks[v] /\ Rests(v) /\ ShownRests(v)
  BY DEF Rests, ShownRests, MountRests
<1>2. \A v \in ToolWindows : \A d : HasTask(v, d) => HasTask(v, d)'
  BY DEF HasTask
<1> QED
  BY <1>1, <1>2, TwRests, TwShownRests DEF TwPatient, TwShown

\* A click on Open or Start, and the event of closing, preserve the invariant.
LEMMA TwClickHost ==
  ASSUME Tool!ToolConstants, TwInv, NEW w \in ToolWindows, harm = None,
         Tool!ClickOpen(w) \/ Tool!ClickStart(w) \/ Tool!ClosedEvent(w)
  PROVE  TwInv'
<1>0. TwHost /\ TwUi /\ TwWork /\ TwHarm /\ TwWindows /\ TwPatient /\ TwShown /\ Tool!NobodyDead
  BY DEF TwInv, TwFacts
<1>1. /\ UNCHANGED <<patient, toolMutex, supervisor, toolTarget, registered, toolState, shut, tasks, toolCalls>>
      /\ MountRests /\ UNCHANGED <<toolView, detail, toolRows, shown, toolSelected, sidebar, toolLog, harm>>
  BY DEF Tool!ClickOpen, Tool!ClickStart, Tool!ClosedEvent, MountRests, Tool!hosted, Tool!opened, Tool!content, Tool!mounted
<1>2. requests' \in Seq({None, Serial})
  <2>1. toolSelected[w] \in {None, Serial} /\ requests \in Seq({None, Serial})
    BY <1>0 DEF TwUi, TwHost
  <2>2. requests' = requests \/ requests' = Append(requests, toolSelected[w])
    BY DEF Tool!ClickOpen, Tool!ClickStart, Tool!ClosedEvent, Tool!hosted
  <2> QED
    BY <2>1, <2>2
<1>3. watching' \in [ToolWindows -> {None, Serial}]
  <2>1. watching' = watching \/ watching' = [watching EXCEPT ![w] = toolSelected[w]]
    BY DEF Tool!ClickOpen, Tool!ClickStart, Tool!ClosedEvent, Tool!content
  <2> QED
    BY <1>0, <2>1 DEF TwUi
<1>4. toolClosed \subseteq toolClosed' /\ toolClosed' \subseteq shut
  BY <1>0 DEF Tool!ClickOpen, Tool!ClickStart, Tool!ClosedEvent, TwHost, Tool!opened
<1>5. TwHost' /\ TwWindows'
  BY <1>0, <1>1, <1>2, <1>4 DEF TwHost, TwWindows
<1>6. TwUi' /\ TwWork' /\ TwHarm' /\ Tool!NobodyDead'
  BY <1>0, <1>1, <1>3 DEF TwUi, TwWork, TwHarm, Tool!NobodyDead, MountRests
<1>7. TwPatient' /\ TwShown'
  BY <1>0, <1>1, TwNothingMoves
<1> QED
  BY <1>5, <1>6, <1>7 DEF TwInv, TwFacts

\* Closing a window preserves the invariant: a patient user leaves nothing under way.
LEMMA TwClose ==
  ASSUME Tool!ToolConstants, TwInv, NEW w \in ToolWindows, harm = None, Tool!Close(w)
  PROVE  TwInv'
<1>0. TwHost /\ TwUi /\ TwWork /\ TwHarm /\ TwWindows /\ TwPatient /\ TwShown /\ Tool!NobodyDead
  BY DEF TwInv, TwFacts
<1>1. /\ UNCHANGED <<patient, toolMutex, supervisor, toolTarget, requests, registered, toolState, toolClosed, tasks, toolCalls>>
      /\ MountRests /\ StyleRests /\ UNCHANGED <<toolView, detail, toolRows, shown, harm>>
      /\ shut' = shut \cup {w}
  BY DEF Tool!Close, MountRests, StyleRests, Tool!hosted, Tool!content, Tool!mounted
<1>2. TwHost' /\ TwWindows'
  BY <1>0, <1>1 DEF TwHost, TwWindows
<1>3. TwUi' /\ TwWork' /\ TwHarm' /\ Tool!NobodyDead'
  BY <1>0, <1>1 DEF TwUi, TwWork, TwHarm, Tool!NobodyDead, MountRests, StyleRests
<1>4. OthersRest(w)
  BY <1>1 DEF OthersRest, Rests, ShownRests, MountRests, StyleRests
<1>5. patient => PatientAt(w)'
  <2> SUFFICES ASSUME patient PROVE PatientAt(w)'
    OBVIOUS
  <2>1. PatientAt(w) /\ Len(tasks'[w]) = 0 /\ render'[w] = "idle" /\ NoCallsOf(w)'
    BY <1>0, <1>1 DEF TwPatient, Tool!Close, Tool!Quiet, Tool!NoCalls, Tool!CallsOf, NoCallsOf, MountRests
  <2>2. Waits(w)' /\ FirstClicked(w)' /\ TasksFit(w)'
    BY <2>1 DEF Waits, StillFrom, FirstClicked, TasksFit
  <2>3. CallsFit(w)' /\ SwitchesAlone(w)' /\ ViewsGuarded(w)'
    BY <2>1 DEF CallsFit, NoCallsOf, SwitchesAlone, ViewsGuarded
  <2> QED
    BY <2>1, <2>2, <2>3 DEF PatientAt
<1>6. ShownAt(w)'
  BY <1>0, <1>1 DEF TwShown, ShownAt, HasTask, MountRests, StyleRests
<1> QED
  BY <1>0, <1>1, <1>2, <1>3, <1>4, <1>5, <1>6, TwOthersRest DEF TwInv, TwFacts

-----------------------------------------------------------------------------
\* What all windows are told.
LEMMA TwTell ==
  ASSUME tasks \in TaskLists, NEW some, NEW t \in TaskSet, Tool!Told(some, t)
  PROVE  /\ tasks' \in TaskLists
         /\ \A v \in ToolWindows : (v \in some => Added(v, t)) /\ (v \notin some => tasks'[v] = tasks[v])
<1>1. \A v \in ToolWindows : tasks'[v] = IF v \in some THEN Append(tasks[v], t) ELSE tasks[v]
  BY DEF Tool!Told
<1>2. \A v \in ToolWindows : tasks[v] \in Seq(TaskSet)
  BY DEF TaskLists
<1>0. \A s \in Seq(TaskSet) :
        /\ Append(s, t) \in Seq(TaskSet) /\ Len(s) \in Nat /\ Len(Append(s, t)) = Len(s) + 1
        /\ Append(s, t)[Len(s) + 1] = t /\ \A i \in 1 .. Len(s) : Append(s, t)[i] = s[i]
  BY TwAppended
<1>3. ASSUME NEW v \in ToolWindows PROVE tasks'[v] \in Seq(TaskSet)
  <2>1. Append(tasks[v], t) \in Seq(TaskSet)
    BY <1>0, <1>2
  <2> QED
    BY <1>1, <1>2, <2>1
<1>4. tasks' \in TaskLists
  BY <1>3 DEF Tool!Told, TaskLists
<1>5. ASSUME NEW v \in ToolWindows, v \in some PROVE Added(v, t)
  <2>1. tasks[v] \in Seq(TaskSet) /\ tasks'[v] = Append(tasks[v], t)
    BY <1>1, <1>2, <1>5
  <2> QED
    BY <1>0, <2>1 DEF Added
<1> QED
  BY <1>1, <1>4, <1>5

\* A line or a panel that is told of waits for nobody.
LEMMA TwTold ==
  ASSUME NEW some, NEW t \in TaskSet, tasks \in TaskLists, Tool!Told(some, t), t.do \in {"log", "sidebar"},
         TwPatient, patient' = patient, shut' = shut, MountRests, toolCalls' = toolCalls, toolView' = toolView
  PROVE  TwPatient'
<1> SUFFICES ASSUME patient, NEW v \in ToolWindows PROVE PatientAt(v)'
  BY DEF TwPatient
<1>1. PatientAt(v) /\ Rests(v)
  BY DEF TwPatient, Rests, MountRests
<1>2. CASE v \in some
  BY <1>1, <1>2, TwTell, TwAddedPatient DEF Clicks
<1>3. CASE v \notin some
  BY <1>1, <1>3, TwTell, TwRests
<1> QED
  BY <1>2, <1>3

\* A line of logcat is told to every window that watches its device.
LEMMA TwLine ==
  ASSUME Tool!ToolConstants, TwInv, harm = None, Tool!Line
  PROVE  TwInv'
<1>0. TwHost /\ TwUi /\ TwWork /\ TwHarm /\ TwWindows /\ TwPatient /\ TwShown /\ Tool!NobodyDead
  BY DEF TwInv, TwFacts
<1>1. HostRests /\ MountRests /\ UNCHANGED <<toolCalls, toolView, detail, toolRows, shown, toolSelected, sidebar, watching>>
  BY DEF Tool!Line, HostRests, MountRests, Tool!hosted, Tool!opened, Tool!mounted
<1> DEFINE some == {w \in Tool!Open : watching[w] = Serial}
           line == Tool!Task("log", 0, 0)
<1>2. line \in TaskSet /\ line.do = "log"
  BY DEF Tool!Task, TaskSet, Loose
<1>3. \/ ~patient /\ harm' = "host" /\ UNCHANGED <<toolLog, tasks>>
      \/ /\ toolLog' = [w \in ToolWindows |-> IF w \in some THEN toolLog[w] + 1 ELSE toolLog[w]]
         /\ Tool!Told(some, line) /\ harm' = harm
  BY DEF Tool!Line
<1>4. TwHost' /\ TwWindows' /\ patient' = patient
  BY <1>0, <1>1, TwHostRests DEF HostRests
<1>5. CASE ~patient /\ harm' = "host" /\ UNCHANGED <<toolLog, tasks>>
  <2>1. TwUi' /\ TwWork' /\ TwHarm'
    BY <1>0, <1>1, <1>5 DEF TwUi, TwWork, TwHarm, MountRests
  <2>2. Tool!NobodyDead'
    BY <1>4, <1>5 DEF Tool!NobodyDead
  <2>3. TwPatient' /\ TwShown'
    BY <1>0, <1>1, <1>5, TwNothingMoves DEF HostRests
  <2> QED
    BY <1>4, <2>1, <2>2, <2>3 DEF TwInv, TwFacts
<1>6. CASE /\ toolLog' = [w \in ToolWindows |-> IF w \in some THEN toolLog[w] + 1 ELSE toolLog[w]]
           /\ Tool!Told(some, line) /\ harm' = harm
  <2> HIDE DEF some, line
  <2>1. /\ tasks' \in TaskLists
        /\ \A v \in ToolWindows : (v \in some => Added(v, line)) /\ (v \notin some => tasks'[v] = tasks[v])
    BY <1>0, <1>2, <1>6, TwTell DEF TwWork
  <2>2. toolLog' \in [ToolWindows -> Nat] /\ \A v \in ToolWindows : v \notin some => toolLog'[v] = toolLog[v]
    BY <1>0, <1>6 DEF TwUi
  <2>3. TwUi' /\ TwWork' /\ TwHarm' /\ Tool!NobodyDead'
    BY <1>0, <1>1, <1>4, <1>6, <2>1, <2>2 DEF TwUi, TwWork, TwHarm, Tool!NobodyDead, MountRests
  <2>4. TwPatient'
    BY <1>0, <1>1, <1>2, <1>6, TwTold DEF TwWork, HostRests
  <2>5. TwShown'
    <3> SUFFICES ASSUME NEW v \in ToolWindows PROVE ShownAt(v)'
      BY DEF TwShown
    <3>1. ShownAt(v)
      BY <1>0 DEF TwShown
    <3>2. CASE v \in some
      <4>1. HasTask(v, "log")' /\ (HasTask(v, "sidebar") => HasTask(v, "sidebar")')
        BY <1>2, <2>1, <3>2, TwQueued
      <4> QED
        BY <1>1, <3>1, <4>1 DEF ShownAt, HostRests, MountRests
    <3>3. CASE v \notin some
      <4>1. \A d : HasTask(v, d) => HasTask(v, d)'
        BY <2>1, <3>3 DEF HasTask
      <4>2. ShownRests(v)
        BY <1>1, <2>2, <3>3 DEF ShownRests, HostRests, MountRests
      <4> QED
        BY <3>1, <4>1, <4>2, TwShownRests
    <3> QED
      BY <3>2, <3>3
  <2> QED
    BY <1>4, <2>3, <2>4, <2>5 DEF TwInv, TwFacts
<1> QED
  BY <1>3, <1>5, <1>6

\* A panel that is registered is told to every window there is.
LEMMA TwRegisterPanel ==
  ASSUME Tool!ToolConstants, TwInv, harm = None, Tool!RegisterPanel
  PROVE  TwInv'
<1>0. TwHost /\ TwUi /\ TwWork /\ TwHarm /\ TwWindows /\ TwPatient /\ TwShown /\ Tool!NobodyDead
  BY DEF TwInv, TwFacts
<1>1. /\ UNCHANGED <<patient, toolMutex, supervisor, toolTarget, requests, toolState, shut, toolClosed, toolCalls>>
      /\ MountRests /\ StyleRests /\ UNCHANGED <<toolView, detail, toolRows, shown, harm>>
      /\ supervisor # "opening" /\ registered' = 1
  BY DEF Tool!RegisterPanel, MountRests, StyleRests, Tool!opened, Tool!content, Tool!mounted
<1> DEFINE panels == Tool!Task("sidebar", 0, 0)
<1>2. panels \in TaskSet /\ panels.do = "sidebar" /\ Tool!Told(Tool!Open, panels)
  BY DEF Tool!RegisterPanel, Tool!AllTold, Tool!Task, TaskSet, Loose
<1> HIDE DEF panels
<1>3. /\ tasks' \in TaskLists
      /\ \A v \in ToolWindows : (v \in Tool!Open => Added(v, panels)) /\ (v \notin Tool!Open => tasks'[v] = tasks[v])
  BY <1>0, <1>2, TwTell DEF TwWork
<1>4. TwHost' /\ TwWindows'
  BY <1>0, <1>1 DEF TwHost, TwWindows
<1>5. TwUi' /\ TwWork' /\ TwHarm' /\ Tool!NobodyDead'
  BY <1>0, <1>1, <1>3 DEF TwUi, TwWork, TwHarm, Tool!NobodyDead, MountRests, StyleRests
<1>6. TwPatient'
  BY <1>0, <1>1, <1>2, TwTold DEF TwWork
<1>7. TwShown'
  <2> SUFFICES ASSUME NEW v \in ToolWindows PROVE ShownAt(v)'
    BY DEF TwShown
  <2>1. ShownAt(v)
    BY <1>0 DEF TwShown
  <2>2. CASE v \in Tool!Open
    <3>1. HasTask(v, "sidebar")' /\ (HasTask(v, "log") => HasTask(v, "log")')
      BY <1>2, <1>3, <2>2, TwQueued
    <3> QED
      BY <1>1, <2>1, <3>1 DEF ShownAt, MountRests, StyleRests
  <2>3. CASE v \notin Tool!Open
    <3>1. toolState'[v] \notin {"rendering", "open"}
      BY <1>0, <1>1, <2>3 DEF TwWindows, Tool!Open
    <3>2. HasTask(v, "log") => HasTask(v, "log")'
      BY <1>3, <2>3 DEF HasTask
    <3> QED
      BY <1>1, <2>1, <3>1, <3>2 DEF ShownAt, MountRests, StyleRests
  <2> QED
    BY <2>2, <2>3
<1> QED
  BY <1>4, <1>5, <1>6, <1>7 DEF TwInv, TwFacts

-----------------------------------------------------------------------------

\* Before runGui(), the adb tool satisfies the invariant.
LEMMA TwInit == Tool!ToolConstants /\ Tool!Init => TwInv
<1> SUFFICES ASSUME Tool!ToolConstants, Tool!Init PROVE TwInv
  OBVIOUS
<1>1. TwHost
  BY DEF Tool!Init, TwHost
<1>2. TwUi
  BY DEF Tool!Init, TwUi
<1>3. TwWork /\ TwHarm
  BY DEF Tool!Init, TwWork, TwHarm, TaskLists
<1>4. TwWindows
  BY DEF Tool!Init, TwWindows
<1>5. TwPatient
  BY DEF Tool!Init, TwPatient, PatientAt, Waits, FirstClicked, TasksFit, CallsFit, SwitchesAlone, ViewsGuarded
<1>6. TwShown
  BY DEF Tool!Init, TwShown, ShownAt
<1>7. Tool!NobodyDead
  BY DEF Tool!Init, Tool!NobodyDead, Tool!ToolConstants
<1> QED
  BY <1>1, <1>2, <1>3, <1>4, <1>5, <1>6, <1>7 DEF TwInv, TwFacts

\* A step of somebody else preserves the invariant.
LEMMA TwStays == TwInv /\ UNCHANGED Tool!vars => TwInv'
<1> SUFFICES ASSUME TwInv, UNCHANGED Tool!vars PROVE TwInv'
  OBVIOUS
<1>0. TwHost /\ TwUi /\ TwWork /\ TwHarm /\ TwWindows /\ TwPatient /\ TwShown /\ Tool!NobodyDead
  BY DEF TwInv, TwFacts
<1>1. HostRests /\ MountRests /\ StyleRests /\ UNCHANGED <<tasks, toolCalls, toolView, detail, toolRows, shown, harm>>
  BY DEF Tool!vars, Tool!hosted, Tool!opened, Tool!content, Tool!mounted, HostRests, MountRests, StyleRests
<1>2. TwHost' /\ TwWindows'
  BY <1>0, <1>1, TwHostRests
<1>3. TwUi' /\ TwWork' /\ TwHarm' /\ Tool!NobodyDead'
  BY <1>0, <1>1 DEF TwUi, TwWork, TwHarm, Tool!NobodyDead, HostRests, MountRests, StyleRests
<1>4. TwPatient' /\ TwShown'
  BY <1>0, <1>1, TwNothingMoves DEF HostRests, StyleRests
<1> QED
  BY <1>2, <1>3, <1>4 DEF TwInv, TwFacts

\* Each step of the supervisor, a render thread, adb and the user preserves the invariant.
LEMMA TwStep == Tool!ToolConstants /\ TwInv /\ [Tool!Next]_(Tool!vars) => TwInv'
<1> SUFFICES ASSUME Tool!ToolConstants, TwInv, [Tool!Next]_(Tool!vars) PROVE TwInv'
  OBVIOUS
<1>1. CASE harm = None /\ Tool!Supervise
  BY <1>1, TwOpenBegin, TwOpenEnd, TwReap, TwReaped DEF Tool!Supervise
<1>2. CASE harm = None /\ Tool!CallReturns
  BY <1>2, TwCallReturns
<1>3. ASSUME NEW w \in ToolWindows, harm = None, Tool!RenderStep(w) PROVE TwInv'
  BY <1>3, TwRunTouch, TwRunAnswer, TwRunView, TwRunLog, TwRunSidebar, TwRunSwitch, TwRunSelect,
     TwBuildPanel, TwRenderEnds DEF Tool!RenderStep
<1>4. ASSUME NEW w \in ToolWindows, harm = None, Tool!ClosedEvent(w) PROVE TwInv'
  BY <1>4, TwClickHost
<1>5. ASSUME NEW w \in ToolWindows, harm = None, Tool!Clicked(w) PROVE TwInv'
  BY <1>5, TwClicked, TwCalled, TwClickHost, TwClose DEF Tool!Clicked
<1>6. CASE harm = None /\ Tool!Line
  BY <1>6, TwLine
<1>7. CASE harm = None /\ Tool!RegisterPanel
  BY <1>7, TwRegisterPanel
<1>8. CASE UNCHANGED Tool!vars
  BY <1>8, TwStays
<1> QED
  BY <1>1, <1>2, <1>3, <1>4, <1>5, <1>6, <1>7, <1>8 DEF Tool!Next, Tool!GoesOn

\* From it: what an earlier view asked for touches nothing, a window is destroyed after its
\* thread, a patient user meets nothing that was destroyed, and a window with nothing left to
\* do shows all there is.
LEMMA TwSafe == Tool!ToolConstants /\ TwInv => Tool!Inv
<1> SUFFICES ASSUME Tool!ToolConstants, TwInv PROVE Tool!Inv
  OBVIOUS
<1>1. Tool!TypeOK
  BY DEF TwInv, TwFacts, TwHost, TwUi, TwHarm, Tool!TypeOK
<1>2. Tool!InStep
  <2> SUFFICES ASSUME NEW w \in Tool!Open, tasks[w] = <<>>
               PROVE  /\ sidebar[w] = registered
                      /\ toolPanel[w] = "logcat" /\ mount[w] # 0 => shown[w] = toolLog[w]
    BY DEF Tool!InStep
  <2>1. w \in ToolWindows /\ toolState[w] = "open" /\ ShownAt(w)
    BY DEF Tool!Open, TwInv, TwShown
  <2>2. ~HasTask(w, "sidebar") /\ ~HasTask(w, "log")
    BY DEF HasTask
  <2> QED
    BY <2>1, <2>2 DEF ShownAt
<1> QED
  BY <1>1, <1>2 DEF Tool!Inv, TwInv

-----------------------------------------------------------------------------
(* Together.                                                               *)

\* The component a behaviour is of has its invariant.
IfInv ==
    /\ kind \in {"window", "frames", "objects", "events", "layout", "text", "lists", "tool"}
    /\ kind = "window" => WmInv
    /\ kind = "frames" => VfInv
    /\ kind = "objects" => VrInv
    /\ kind = "tool" => TwInv

\* Each component begins where its invariant holds.
LEMMA IfInit == Init => IfInv
<1> SUFFICES ASSUME Init PROVE IfInv
  OBVIOUS
<1>0. kind \in {"window", "frames", "objects", "events", "layout", "text", "lists", "tool"}
  BY DEF Init
<1>1. kind = "window" => WmInv
  BY InterfaceAssumption, WmInit DEF Init
<1>2. kind = "frames" => VfInv
  BY InterfaceAssumption, VfInit DEF Init
<1>3. kind = "objects" => VrInv
  BY InterfaceAssumption, VrInit DEF Init
<1>4. kind = "tool" => TwInv
  BY InterfaceAssumption, TwInit DEF Init
<1> QED
  BY <1>0, <1>1, <1>2, <1>3, <1>4 DEF IfInv

\* A step is one of the component the behaviour is of, and preserves its invariant.
LEMMA IfStep == IfInv /\ [Next]_vars => IfInv'
<1> SUFFICES ASSUME IfInv, [Next]_vars PROVE IfInv'
  OBVIOUS
<1>0. kind' = kind
  BY DEF Next, vars
<1>1. CASE kind = "window"
  <2>1. [Window!Next]_(Window!vars)
    <3>1. CASE UNCHANGED vars
      BY <3>1 DEF vars, windowVars, Window!vars
    <3> QED
      BY <1>1, <3>1 DEF Next
  <2> QED
    BY <1>1, <1>0, <2>1, InterfaceAssumption, WmStep DEF IfInv
<1>2. CASE kind = "frames"
  <2>1. [Frames!Next]_(Frames!vars)
    <3>1. CASE UNCHANGED vars
      BY <3>1 DEF vars, framesVars, Frames!vars, Frames!driver, Frames!swapchain, Frames!renderer, Frames!window, Frames!device
    <3> QED
      BY <1>2, <3>1 DEF Next
  <2> QED
    BY <1>2, <1>0, <2>1, InterfaceAssumption, VfStep DEF IfInv
<1>3. CASE kind = "objects"
  <2>1. [Objects!Next]_(Objects!vars)
    <3>1. CASE UNCHANGED vars
      BY <3>1 DEF vars, objectsVars, Objects!vars
    <3> QED
      BY <1>3, <3>1 DEF Next
  <2> QED
    BY <1>3, <1>0, <2>1, InterfaceAssumption, VrStep DEF IfInv
<1>4. CASE kind = "tool"
  <2>1. [Tool!Next]_(Tool!vars)
    <3>1. CASE UNCHANGED vars
      BY <3>1 DEF vars, toolVars, Tool!vars, Tool!hosted, Tool!opened, Tool!content, Tool!mounted, Tool!counts
    <3> QED
      BY <1>4, <3>1 DEF Next
  <2> QED
    BY <1>4, <1>0, <2>1, InterfaceAssumption, TwStep DEF IfInv
<1> QED
  BY <1>0, <1>1, <1>2, <1>3, <1>4 DEF IfInv

\* What the components promise follows from their invariants.
LEMMA IfSafe == IfInv => WindowsSafe /\ ToolSafe
  BY InterfaceAssumption, WmSafe, VfSafe, VrSafe, TwSafe DEF IfInv, WindowsSafe, ToolSafe

\* The invariant of the components is one of the specification.
LEMMA IfAlways == Spec => []IfInv
  BY IfInit, IfStep, PTL DEF Spec

\* Windows and what is drawn into them (window_module.cpp, vulkan_module.cpp,
\* vulkan_ui_renderer.cpp): a hook is not called once it was cleared, a closing is told once,
\* nothing is written, recorded or destroyed while the GPU uses it, and on every path of
\* failure what exists is what somebody still refers to.
THEOREM WindowsSafeAlways == Spec => []WindowsSafe
  BY IfAlways, IfSafe, PTL

\* The windows of the adb tool (gui_mode.cpp): the answer of an earlier view of the Packages
\* panel touches nothing, whatever the user does, and a window is destroyed after its thread
\* was joined; for a user who waits, nothing that was destroyed is used at all; and a window
\* with nothing left to do shows every panel and every line of its log.
THEOREM ToolSafeAlways == Spec => []ToolSafe
  BY IfAlways, IfSafe, PTL
=============================================================================
