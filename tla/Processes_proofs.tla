-------------------------- MODULE Processes_proofs ---------------------------
(***************************************************************************)
(* Whoever waits for an answer gets it once, a child process leaves nothing *)
(* behind, and the Android bridge tells what it knows: the invariants of    *)
(* Processes for every number of requests, writers, callers, devices and    *)
(* calls.  Each component has an inductive invariant of its own; a step of  *)
(* Processes is a step of the component it is about, or of none.            *)
(***************************************************************************)
EXTENDS Processes, FiniteSetTheorems, SequenceTheorems, TLAPS

-----------------------------------------------------------------------------
\* The channel.

\* Where r's onDone is to be called from.
Inserting(r) == caller[r] = "insert"
Entered(r)   == r \in entries
Replied(r)   == reader \in {"cancel", "call"} /\ reply = r
Draining(r)  == r \in drained

\* One of them has it, or it has been called.
IpcParties ==
    \A r \in Requests :
        /\ calls[r] \in {0, 1}
        /\ Inserting(r) => ~Entered(r) /\ ~Replied(r) /\ ~Draining(r) /\ calls[r] = 0
        /\ Entered(r)   => ~Replied(r) /\ ~Draining(r) /\ calls[r] = 0
        /\ Replied(r)   => ~Draining(r) /\ calls[r] = 0
        /\ Draining(r)  => calls[r] = 0
        /\ ~Ipc!Begun(r)    => ~Entered(r) /\ ~Replied(r) /\ ~Draining(r) /\ calls[r] = 0
        /\ Ipc!Begun(r)     => Inserting(r) \/ Entered(r) \/ Replied(r) \/ Draining(r) \/ calls[r] = 1

\* The table stays empty once close() has emptied it, and close() has what was in it.
IpcClosing ==
    /\ closed <=> closing # "no"
    /\ closing \notin {"no", "swap"} => entries = {}
    /\ closing \in {"no", "swap"} => drained = {}
    /\ closing \in {"stop", "join", "fail", "done"} => held = {}
    /\ reader \in {"cancel", "call"} => reply \in Requests

\* Somebody will cancel a timer that is armed: its caller, the holder of the entry or
\* the reader.
IpcTimers ==
    \A r \in Requests :
        timer[r] = "armed" => caller[r] = "store" \/ r \in held \/ (reader = "cancel" /\ reply = r)

IpcInv == Ipc!TypeOK /\ IpcClosing /\ IpcParties /\ IpcTimers

\* Before its first step, an IPC channel (ipc_channel.cpp) satisfies the invariant.
LEMMA IpcInit == Ipc!IpcConstants /\ Ipc!Init => IpcInv
<1> SUFFICES ASSUME Ipc!IpcConstants, Ipc!Init PROVE IpcInv
  OBVIOUS
<1> USE DEF Ipc!IpcConstants, Ipc!Init
<1>1. batch \in Seq(Ipc!Frames) /\ reply \in Ipc!Frames /\ frames \in 0 .. MaxFrames
  BY DEF Ipc!Frames
<1>2. Ipc!TypeOK
  BY <1>1 DEF Ipc!TypeOK
<1>3. IpcParties
  BY DEF IpcParties, Inserting, Entered, Replied, Draining, Ipc!Begun
<1>4. IpcClosing /\ IpcTimers
  BY DEF IpcClosing, IpcTimers
<1> QED
  BY <1>2, <1>3, <1>4 DEF IpcInv

\* Each step of an IPC channel (ipc_channel.cpp) preserves the invariant, part by part.
LEMMA IpcStep == Ipc!IpcConstants /\ IpcInv /\ [Ipc!Next]_(Ipc!vars) => IpcInv'
<1> SUFFICES ASSUME Ipc!IpcConstants, IpcInv, [Ipc!Next]_(Ipc!vars) PROVE IpcInv'
  OBVIOUS
<1> USE DEF IpcInv, Ipc!TypeOK, IpcClosing, IpcParties, IpcTimers, Inserting, Entered, Replied, Draining, Ipc!Begun, Ipc!rvars, Ipc!tvars, Ipc!ivars, Ipc!cvars
<1>1. ASSUME NEW r \in Requests, Ipc!Request(r) PROVE IpcInv'
  <2>1. Ipc!TypeOK'
    <3>1. calls' \in [Requests -> Nat] /\ caller' \in [Requests -> {"new", "insert", "arm", "store", "send", "returned"}]
      BY <1>1 DEF Ipc!Request, Ipc!CallerAt, Ipc!Call
    <3> QED
      BY <1>1, <3>1 DEF Ipc!Request
  <2>2. IpcClosing'
    BY <1>1 DEF Ipc!Request, Ipc!CallerAt, Ipc!TimerAt, Ipc!Call
  <2>3. IpcParties'
    BY <1>1 DEF Ipc!Request, Ipc!CallerAt, Ipc!TimerAt, Ipc!Call
  <2>4. IpcTimers'
    BY <1>1 DEF Ipc!Request, Ipc!CallerAt, Ipc!TimerAt, Ipc!Call
  <2> QED
    BY <2>1, <2>2, <2>3, <2>4
<1>2. ASSUME NEW r \in Requests, Ipc!Insert(r) PROVE IpcInv'
  <2>1. Ipc!TypeOK'
    BY <1>2 DEF Ipc!Insert, Ipc!ClosedMeanwhile, Ipc!CallerAt, Ipc!TimerAt, Ipc!Call
  <2>2. IpcClosing'
    BY <1>2 DEF Ipc!Insert, Ipc!ClosedMeanwhile, Ipc!CallerAt, Ipc!TimerAt, Ipc!Call
  <2>3. IpcParties'
    BY <1>2 DEF Ipc!Insert, Ipc!ClosedMeanwhile, Ipc!CallerAt, Ipc!TimerAt, Ipc!Call
  <2>4. IpcTimers'
    BY <1>2 DEF Ipc!Insert, Ipc!ClosedMeanwhile, Ipc!CallerAt, Ipc!TimerAt, Ipc!Call
  <2> QED
    BY <2>1, <2>2, <2>3, <2>4
<1>3. ASSUME NEW r \in Requests, Ipc!ArmTimeout(r) PROVE IpcInv'
  <2>1. Ipc!TypeOK'
    BY <1>3 DEF Ipc!ArmTimeout, Ipc!CallerAt, Ipc!TimerAt, Ipc!Call
  <2>2. IpcClosing'
    BY <1>3 DEF Ipc!ArmTimeout, Ipc!CallerAt, Ipc!TimerAt, Ipc!Call
  <2>3. IpcParties'
    BY <1>3 DEF Ipc!ArmTimeout, Ipc!CallerAt, Ipc!TimerAt, Ipc!Call
  <2>4. IpcTimers'
    BY <1>3 DEF Ipc!ArmTimeout, Ipc!CallerAt, Ipc!TimerAt, Ipc!Call
  <2> QED
    BY <2>1, <2>2, <2>3, <2>4
<1>4. ASSUME NEW r \in Requests, Ipc!StoreTimer(r) PROVE IpcInv'
  BY <1>4 DEF Ipc!StoreTimer, Ipc!DropTimer, Ipc!Cancel, Ipc!CallerAt, Ipc!TimerAt, Ipc!Call
<1>5. ASSUME NEW r \in Requests, Ipc!Send(r) PROVE IpcInv'
  BY <1>5 DEF Ipc!Send, Ipc!CallerAt, Ipc!TimerAt, Ipc!Call
<1>6. ASSUME NEW r \in Requests, Ipc!Fire(r) PROVE IpcInv'
  BY <1>6 DEF Ipc!Fire, Ipc!CallerAt, Ipc!TimerAt, Ipc!Call
<1>7. ASSUME NEW r \in Requests, Ipc!Expire(r) PROVE IpcInv'
  <2>1. Ipc!TypeOK'
    BY <1>7 DEF Ipc!Expire, Ipc!Remove, Ipc!CallerAt, Ipc!TimerAt, Ipc!Call
  <2>2. IpcClosing'
    BY <1>7 DEF Ipc!Expire, Ipc!Remove, Ipc!CallerAt, Ipc!TimerAt, Ipc!Call
  <2>3. IpcParties'
    BY <1>7 DEF Ipc!Expire, Ipc!Remove, Ipc!CallerAt, Ipc!TimerAt, Ipc!Call
  <2>4. IpcTimers'
    BY <1>7 DEF Ipc!Expire, Ipc!Remove, Ipc!CallerAt, Ipc!TimerAt, Ipc!Call
  <2> QED
    BY <2>1, <2>2, <2>3, <2>4
<1>8. ASSUME NEW r \in Requests, Ipc!Expired(r) PROVE IpcInv'
  BY <1>8 DEF Ipc!Expired, Ipc!CallerAt, Ipc!TimerAt, Ipc!Call
<1>9. CASE Ipc!StopShared
  BY <1>9 DEF Ipc!StopShared, Ipc!Discard
<1>10. CASE Ipc!Receive
  <2>1. Ipc!TypeOK'
    <3>1. PICK n \in 1 .. (MaxFrames - frames) :
             \E f \in [1 .. n -> sent \cup {Incoming}] : batch' = f /\ frames' = frames + Len(f)
      BY <1>10 DEF Ipc!Receive
    <3>2. PICK f \in [1 .. n -> sent \cup {Incoming}] : batch' = f /\ frames' = frames + Len(f)
      BY <3>1
    <3>3. f \in Seq(Ipc!Frames) /\ Len(f) = n
      BY <3>2 DEF Ipc!Frames
    <3> QED
      BY <1>10, <3>1, <3>2, <3>3 DEF Ipc!Receive, Ipc!IpcConstants
  <2>2. IpcClosing'
    BY <1>10 DEF Ipc!Receive, Ipc!Frames
  <2>3. IpcParties'
    BY <1>10 DEF Ipc!Receive, Ipc!Frames
  <2>4. IpcTimers'
    BY <1>10 DEF Ipc!Receive, Ipc!Frames
  <2> QED
    BY <2>1, <2>2, <2>3, <2>4
<1>11. CASE Ipc!TakeReply
  BY <1>11 DEF Ipc!TakeReply, Ipc!Remove, Ipc!Frames
<1>12. CASE Ipc!CancelTimer
  BY <1>12 DEF Ipc!CancelTimer, Ipc!Cancel
<1>13. CASE Ipc!CallOnDone
  BY <1>13 DEF Ipc!CallOnDone, Ipc!Call
<1>14. CASE Ipc!Serve
  BY <1>14 DEF Ipc!Serve, Ipc!Frames
<1>15. CASE Ipc!Handled
  BY <1>15 DEF Ipc!Handled, Ipc!Frames
<1>16. CASE Ipc!BatchDone
  BY <1>16 DEF Ipc!BatchDone, Ipc!Frames
<1>17. ASSUME NEW x \in Requests \cup {User, Reader}, Ipc!Close(x) PROVE IpcInv'
  BY <1>17 DEF Ipc!Close, Ipc!Frames
<1>18. CASE Ipc!CloseSwap
  BY <1>18 DEF Ipc!CloseSwap, Ipc!Frames
<1>19. CASE Ipc!CloseCancel
  BY <1>19 DEF Ipc!CloseCancel, Ipc!Cancel
<1>20. CASE Ipc!CloseStop
  BY <1>20 DEF Ipc!CloseStop, Ipc!Discard
<1>21. CASE Ipc!CloseJoin
  BY <1>21 DEF Ipc!CloseJoin, Ipc!Frames
<1>22. CASE Ipc!CloseFail
  BY <1>22 DEF Ipc!CloseFail, Ipc!Call
<1>23. CASE UNCHANGED Ipc!vars
  BY <1>23 DEF Ipc!vars
<1> QED
  BY <1>1, <1>2, <1>3, <1>4, <1>5, <1>6, <1>7, <1>8, <1>9, <1>10, <1>11, <1>12, <1>13, <1>14, <1>15, <1>16, <1>17, <1>18, <1>19, <1>20, <1>21, <1>22, <1>23 DEF Ipc!Next, Ipc!Caller, Ipc!TimerTask, Ipc!Read, Ipc!CloseStep

\* The four who may hold an onDone, counted.
\* The sets that Ipc counts are counted as everywhere.
LEMMA IpcCardinality == \A S : Ipc!Cardinality(S) = Cardinality(S)
  BY Zenon DEF Ipc!Cardinality, Cardinality

\* From it: of a request under way exactly one of its caller, the table, the reader and
\* close() has onDone to call, or it was called once, and no timer of it stays armed.
LEMMA IpcSafe == IpcInv => Ipc!Inv /\ Ipc!NoStrayTimer
<1> SUFFICES ASSUME IpcInv PROVE Ipc!Inv /\ Ipc!NoStrayTimer
  OBVIOUS
<1> USE DEF IpcInv, IpcParties, Inserting, Entered, Replied, Draining
<1>1. ASSUME NEW r \in Requests
      PROVE  Ipc!Cardinality({h \in {"caller", "table", "reader", "closer"} :
                 \/ h = "caller" /\ caller[r] = "insert"
                 \/ h = "table"  /\ r \in entries
                 \/ h = "reader" /\ reader \in {"cancel", "call"} /\ reply = r
                 \/ h = "closer" /\ r \in drained}) + calls[r]
             = IF Ipc!Begun(r) THEN 1 ELSE 0
  <2> DEFINE H == {h \in {"caller", "table", "reader", "closer"} :
                     \/ h = "caller" /\ caller[r] = "insert"
                     \/ h = "table"  /\ r \in entries
                     \/ h = "reader" /\ reader \in {"cancel", "call"} /\ reply = r
                     \/ h = "closer" /\ r \in drained}
  <2>1. Ipc!Cardinality({}) = 0 /\ \A h : Ipc!Cardinality({h}) = 1
    BY FS_EmptySet, FS_Singleton, IpcCardinality
  <2>2. CASE H = {}
    <3>1. calls[r] = IF Ipc!Begun(r) THEN 1 ELSE 0
      BY <2>2
    <3> QED
      BY <2>1, <2>2, <3>1
  <2>3. CASE H # {}
    <3>1. \E h : H = {h}
      <4>1. CASE Inserting(r)
        <5>1. H = {"caller"}
          BY <4>1
        <5> QED
          BY <5>1
      <4>2. CASE Entered(r)
        <5>1. H = {"table"}
          BY <4>2
        <5> QED
          BY <5>1
      <4>3. CASE Replied(r)
        <5>1. H = {"reader"}
          BY <4>3
        <5> QED
          BY <5>1
      <4>4. CASE Draining(r)
        <5>1. H = {"closer"}
          BY <4>4
        <5> QED
          BY <5>1
      <4> QED
        BY <2>3, <4>1, <4>2, <4>3, <4>4
    <3>2. calls[r] = 0 /\ Ipc!Begun(r)
      BY <2>3 DEF Ipc!Begun
    <3>3. Ipc!Cardinality(H) = 1
      BY <2>1, <3>1
    <3> QED
      BY <3>2, <3>3
  <2> QED
    BY <2>2, <2>3
<1>2. Ipc!NoStrayTimer
  BY DEF Ipc!NoStrayTimer, IpcTimers, Ipc!TypeOK
<1> QED
  BY <1>1, <1>2 DEF Ipc!Inv

-----------------------------------------------------------------------------
\* Coroutines.

\* Where the coroutine is with its await.
CoPlaces ==
    /\ co \in {"new", "queued", "none"} => coAt = "none"
    /\ co = "suspended" => coAt # "none" /\ answer = "none" /\ resumes = 0
    /\ co = "posted" => coAt = "left" /\ answer = "none" /\ resumes = 1
    /\ co = "running" /\ coAt # "none" => answer # "none"
    /\ co = "ended" => answer # "none"
    /\ answer # "none" => co \in {"running", "ended"} /\ coAt # "none"
    /\ coAt = "none" => resumes = 0
    /\ resumes \in {0, 1}

\* What belongs to a sleep alone, and to a callback alone.
CoKinds ==
    /\ awaited \in {"sleep", "callback", "hop"}
    /\ coAt \in {"checked", "armed", "hooking"} => awaited = "sleep"
    /\ coAt = "given" => awaited = "callback"
    /\ coAt \in {"begun", "checked", "given"} => co = "suspended"
    /\ coTimer # "none" => awaited = "sleep" /\ coAt \in {"armed", "hooking", "left"}
    /\ coAt \in {"armed", "hooking"} => coTimer # "none"
    /\ coAt \in {"none", "begun"} \/ awaited # "callback" => ~completed /\ ~arrived

\* A sleep: whoever set `claimed` has the coroutine to resume, or has resumed it.
CoSleeps ==
    /\ coTimer \in {"none", "armed", "due", "firing", "dropping", "won", "over"}
    /\ hook \in {"none", "set", "running", "claimed", "over"}
    /\ coTimer = "none" => hook = "none" /\ coClaimed = "nobody"
    /\ coTimer = "none" /\ awaited = "sleep" /\ answer # "none" => answer = "no" /\ stops # {}
    /\ coTimer = "none" /\ awaited = "sleep" => resumes = 0
    /\ coAt \in {"armed", "hooking"} => hook = "none"
    /\ coTimer \in {"none", "armed", "due", "firing"} => ~refused
    /\ coTimer = "dropping" => "scheduler" \in stops \/ refused
    /\ hook = "running" => "token" \in stops
    /\ coClaimed = "nobody" => ~coResult
    /\ coClaimed = "nobody" /\ coTimer # "none" =>
           /\ coTimer \in {"armed", "due", "firing", "dropping"} /\ hook \in {"none", "set", "running"}
           /\ co = "suspended"
    /\ coClaimed = "timer" =>
           /\ coTimer \in {"won", "over"} /\ hook # "claimed"
           /\ IF coResult THEN ~refused ELSE "scheduler" \in stops \/ refused
           /\ coTimer = "won" => co = "suspended"
           /\ coTimer = "over" => answer = (IF coResult THEN "yes" ELSE "no")
    /\ coClaimed = "stop" =>
           /\ hook \in {"claimed", "over"} /\ coTimer \in {"due", "firing", "dropping", "over"}
           /\ ~coResult /\ "token" \in stops
           /\ hook = "claimed" => co = "suspended"
           /\ hook = "over" => co = "posted" \/ answer = "no"

\* A callback: of await_suspend() and the first call the second is still to resume.
CoCalls ==
    /\ coCall \in [Calls -> {"none", "first", "over"}]
    /\ ~completed => \A c \in Calls : coCall[c] = "none"
    /\ \A c, d \in Calls : coCall[c] = "first" /\ coCall[d] = "first" => c = d
    /\ coAt = "given" /\ arrived => completed /\ \A c \in Calls : coCall[c] # "first"
    /\ awaited = "callback" /\ coAt = "left" => arrived
    /\ \A c \in Calls : coCall[c] = "first" => co = "suspended"
    /\ awaited = "callback" /\ coAt = "left" /\ ~completed => co = "suspended"

CoFacts == stops \subseteq {"token", "scheduler"} /\ {coResult, coRefusing, refused, arrived, completed} \subseteq BOOLEAN

CoInv == Coroutine!TypeOK /\ CoFacts /\ Coroutine!FutureFollows /\ CoPlaces /\ CoKinds /\ CoSleeps /\ CoCalls

\* Before its first step, a coroutine (scheduler.cpp) satisfies the invariant.
LEMMA CoInit == Coroutine!Init => CoInv
<1> SUFFICES ASSUME Coroutine!Init PROVE CoInv
  OBVIOUS
<1>1. Coroutine!TypeOK /\ CoFacts /\ Coroutine!FutureFollows
  BY DEF Coroutine!Init, Coroutine!TypeOK, CoFacts, Coroutine!FutureFollows
<1>2. CoPlaces /\ CoKinds
  BY DEF Coroutine!Init, CoPlaces, CoKinds
<1>3. CoSleeps
  BY DEF Coroutine!Init, CoSleeps
<1>4. CoCalls
  BY DEF Coroutine!Init, CoCalls
<1> QED
  BY <1>1, <1>2, <1>3, <1>4 DEF CoInv

\* Each step of a coroutine (scheduler.cpp) preserves the invariant, part by part.
LEMMA CoStep == CoInv /\ [Coroutine!Next]_(Coroutine!vars) => CoInv'
<1> SUFFICES ASSUME CoInv, [Coroutine!Next]_(Coroutine!vars) PROVE CoInv'
  OBVIOUS
<1> USE DEF CoInv, Coroutine!TypeOK, CoFacts, Coroutine!FutureFollows, CoPlaces, CoKinds, CoSleeps, CoCalls
<1> USE DEF Coroutine!spawned, Coroutine!sleep, Coroutine!calling
<1>1. CASE Coroutine!Spawn
  BY <1>1 DEF Coroutine!Spawn, Coroutine!Yes, Coroutine!GoOn, Coroutine!ResumeHere, Coroutine!ResumeOn, Coroutine!Outcome, Coroutine!Free, Coroutine!PostOrResume, Coroutine!FirstCall, Coroutine!SecondHere
<1>2. CASE Coroutine!Started
  BY <1>2 DEF Coroutine!Started, Coroutine!Yes, Coroutine!GoOn, Coroutine!ResumeHere, Coroutine!ResumeOn, Coroutine!Outcome, Coroutine!Free, Coroutine!PostOrResume, Coroutine!FirstCall, Coroutine!SecondHere
<1>3. CASE Coroutine!Discarded
  BY <1>3 DEF Coroutine!Discarded, Coroutine!Yes, Coroutine!GoOn, Coroutine!ResumeHere, Coroutine!ResumeOn, Coroutine!Outcome, Coroutine!Free, Coroutine!PostOrResume, Coroutine!FirstCall, Coroutine!SecondHere
<1>4. CASE Coroutine!Ends
  BY <1>4 DEF Coroutine!Ends, Coroutine!Yes, Coroutine!GoOn, Coroutine!ResumeHere, Coroutine!ResumeOn, Coroutine!Outcome, Coroutine!Free, Coroutine!PostOrResume, Coroutine!FirstCall, Coroutine!SecondHere
<1>5. CASE Coroutine!Refuse
  BY <1>5 DEF Coroutine!Refuse, Coroutine!Yes, Coroutine!GoOn, Coroutine!ResumeHere, Coroutine!ResumeOn, Coroutine!Outcome, Coroutine!Free, Coroutine!PostOrResume, Coroutine!FirstCall, Coroutine!SecondHere
<1>6. CASE Coroutine!Await
  BY <1>6 DEF Coroutine!Await, Coroutine!Yes, Coroutine!GoOn, Coroutine!ResumeHere, Coroutine!ResumeOn, Coroutine!Outcome, Coroutine!Free, Coroutine!PostOrResume, Coroutine!FirstCall, Coroutine!SecondHere
<1>7. CASE Coroutine!Resumed
  BY <1>7 DEF Coroutine!Resumed, Coroutine!Yes, Coroutine!GoOn, Coroutine!ResumeHere, Coroutine!ResumeOn, Coroutine!Outcome, Coroutine!Free, Coroutine!PostOrResume, Coroutine!FirstCall, Coroutine!SecondHere
<1>8. CASE Coroutine!Hop
  BY <1>8 DEF Coroutine!Hop, Coroutine!Yes, Coroutine!GoOn, Coroutine!ResumeHere, Coroutine!ResumeOn, Coroutine!Outcome, Coroutine!Free, Coroutine!PostOrResume, Coroutine!FirstCall, Coroutine!SecondHere
<1>9. CASE Coroutine!Check
  BY <1>9 DEF Coroutine!Check, Coroutine!Yes, Coroutine!GoOn, Coroutine!ResumeHere, Coroutine!ResumeOn, Coroutine!Outcome, Coroutine!Free, Coroutine!PostOrResume, Coroutine!FirstCall, Coroutine!SecondHere
<1>10. CASE Coroutine!Schedule
  BY <1>10 DEF Coroutine!Schedule, Coroutine!Yes, Coroutine!GoOn, Coroutine!ResumeHere, Coroutine!ResumeOn, Coroutine!Outcome, Coroutine!Free, Coroutine!PostOrResume, Coroutine!FirstCall, Coroutine!SecondHere
<1>11. CASE Coroutine!HookBegin
  BY <1>11 DEF Coroutine!HookBegin, Coroutine!Yes, Coroutine!GoOn, Coroutine!ResumeHere, Coroutine!ResumeOn, Coroutine!Outcome, Coroutine!Free, Coroutine!PostOrResume, Coroutine!FirstCall, Coroutine!SecondHere
<1>12. CASE Coroutine!HookEnd
  BY <1>12 DEF Coroutine!HookEnd, Coroutine!Yes, Coroutine!GoOn, Coroutine!ResumeHere, Coroutine!ResumeOn, Coroutine!Outcome, Coroutine!Free, Coroutine!PostOrResume, Coroutine!FirstCall, Coroutine!SecondHere
<1>13. CASE Coroutine!StopToken
  BY <1>13 DEF Coroutine!StopToken, Coroutine!Yes, Coroutine!GoOn, Coroutine!ResumeHere, Coroutine!ResumeOn, Coroutine!Outcome, Coroutine!Free, Coroutine!PostOrResume, Coroutine!FirstCall, Coroutine!SecondHere
<1>14. CASE Coroutine!StopScheduler
  BY <1>14 DEF Coroutine!StopScheduler, Coroutine!Yes, Coroutine!GoOn, Coroutine!ResumeHere, Coroutine!ResumeOn, Coroutine!Outcome, Coroutine!Free, Coroutine!PostOrResume, Coroutine!FirstCall, Coroutine!SecondHere
<1>15. CASE Coroutine!Fire
  BY <1>15 DEF Coroutine!Fire, Coroutine!Yes, Coroutine!GoOn, Coroutine!ResumeHere, Coroutine!ResumeOn, Coroutine!Outcome, Coroutine!Free, Coroutine!PostOrResume, Coroutine!FirstCall, Coroutine!SecondHere
<1>16. CASE Coroutine!Dispatch
  BY <1>16 DEF Coroutine!Dispatch, Coroutine!Yes, Coroutine!GoOn, Coroutine!ResumeHere, Coroutine!ResumeOn, Coroutine!Outcome, Coroutine!Free, Coroutine!PostOrResume, Coroutine!FirstCall, Coroutine!SecondHere
<1>17. CASE Coroutine!FinishSleep
  <2>1. CoSleeps'
    BY ZenonT(60), <1>17 DEF Coroutine!FinishSleep, Coroutine!Free
  <2>2. Coroutine!TypeOK' /\ CoFacts' /\ Coroutine!FutureFollows'
    BY <1>17 DEF Coroutine!FinishSleep, Coroutine!Free
  <2>3. CoPlaces' /\ CoKinds' /\ CoCalls'
    BY <1>17 DEF Coroutine!FinishSleep, Coroutine!Free
  <2> QED
    BY <2>1, <2>2, <2>3
<1>18. CASE Coroutine!TimerResumes
  BY <1>18 DEF Coroutine!TimerResumes, Coroutine!Yes, Coroutine!GoOn, Coroutine!ResumeHere, Coroutine!ResumeOn, Coroutine!Outcome, Coroutine!Free, Coroutine!PostOrResume, Coroutine!FirstCall, Coroutine!SecondHere
<1>19. CASE Coroutine!AbortSleep
  <2>1. CoSleeps'
    BY ZenonT(60), <1>19 DEF Coroutine!AbortSleep, Coroutine!Free
  <2>2. Coroutine!TypeOK' /\ CoFacts' /\ Coroutine!FutureFollows'
    BY <1>19 DEF Coroutine!AbortSleep, Coroutine!Free
  <2>3. CoPlaces' /\ CoKinds' /\ CoCalls'
    BY <1>19 DEF Coroutine!AbortSleep, Coroutine!Free
  <2> QED
    BY <2>1, <2>2, <2>3
<1>20. CASE Coroutine!AbortResumes
  BY <1>20 DEF Coroutine!AbortResumes, Coroutine!Yes, Coroutine!GoOn, Coroutine!ResumeHere, Coroutine!ResumeOn, Coroutine!Outcome, Coroutine!Free, Coroutine!PostOrResume, Coroutine!FirstCall, Coroutine!SecondHere
<1>21. CASE Coroutine!GiveCallback
  BY <1>21 DEF Coroutine!GiveCallback, Coroutine!Yes, Coroutine!GoOn, Coroutine!ResumeHere, Coroutine!ResumeOn, Coroutine!Outcome, Coroutine!Free, Coroutine!PostOrResume, Coroutine!FirstCall, Coroutine!SecondHere
<1>22. CASE Coroutine!Suspends
  BY <1>22 DEF Coroutine!Suspends, Coroutine!Yes, Coroutine!GoOn, Coroutine!ResumeHere, Coroutine!ResumeOn, Coroutine!Outcome, Coroutine!Free, Coroutine!PostOrResume, Coroutine!FirstCall, Coroutine!SecondHere
<1>23. ASSUME NEW c \in Calls, Coroutine!Call(c) PROVE CoInv'
  BY <1>23 DEF Coroutine!Call, Coroutine!FirstCall
<1>24. ASSUME NEW c \in Calls, Coroutine!CallArrives(c) PROVE CoInv'
  BY <1>24 DEF Coroutine!CallArrives, Coroutine!SecondHere, Coroutine!ResumeOn, Coroutine!ResumeHere, Coroutine!Yes
<1>25. CASE UNCHANGED Coroutine!vars
  BY <1>25 DEF Coroutine!vars
<1> QED
  BY ZenonT(60), <1>1, <1>2, <1>3, <1>4, <1>5, <1>6, <1>7, <1>8, <1>9, <1>10, <1>11, <1>12, <1>13, <1>14, <1>15, <1>16, <1>17, <1>18, <1>19, <1>20, <1>21, <1>22, <1>23, <1>24, <1>25 DEF Coroutine!Next, Coroutine!GoesOn

\* From it: a suspended coroutine is resumed once, is told truly why, and its future
\* follows its end.
LEMMA CoSafe == CoInv => Coroutine!Inv
  BY DEF CoInv, Coroutine!TypeOK, CoFacts, Coroutine!FutureFollows, CoPlaces, CoKinds, CoSleeps, CoCalls, Coroutine!Inv, Coroutine!ResumedOnce, Coroutine!AnswerHonest

-----------------------------------------------------------------------------
\* A child process.

SuFacts ==
    /\ childRunning \in BOOLEAN /\ childExited \in BOOLEAN /\ closeRequested \in BOOLEAN
    /\ stop \in BOOLEAN /\ stdinOpen \in BOOLEAN
    /\ chunk \in Nat /\ asked \in Nat /\ toldExit \in Nat
    /\ childReaders \in [Child!Pipes -> {"none", "blocked", "calling", "ending", "done"}]
    /\ stdinThread \in {"none", "waiting", "writing", "done"}
    /\ waiterThread \in {"none", "blocked", "reaped", "noting", "calling", "done"}

\* What the thread that waits for the exit has told so far.
SuWaiter ==
    /\ waiterThread \in {"none", "blocked", "reaped"} <=> childRunning
    /\ waiterThread = "reaped" => child = "exited"
    /\ waiterThread \in {"calling", "done"} <=> childExited
    /\ ~childRunning => child = "exited"
    /\ toldExit \in {0, 1} /\ (toldExit = 1 => waiterThread = "done")
    /\ childWaiter = "returned" => childExited

\* The threads run from the constructor's end to the destructor's.
SuThreads ==
    /\ childOwner = "new" =>
           /\ child = "none" /\ ~stdinOpen /\ childSent = 0 /\ asked = 0 /\ chunk = 0
           /\ stdinThread = "none" /\ waiterThread = "none" /\ \A p \in Child!Pipes : childReaders[p] = "none"
    /\ childOwner = "gone" =>
           /\ child # "running" /\ ~stdinOpen
           /\ {stdinThread, waiterThread} \subseteq {"none", "done"}
           /\ \A p \in Child!Pipes : childReaders[p] \in {"none", "done"}

\* Nothing that was asked for before closeStdin() is anywhere but at the child, with the
\* writer or in the queue.
SuInput ==
    /\ asked <= childSent + chunk + stdinQueue
    /\ stdinThread = "waiting" => chunk = 0
    /\ ~stdinOpen /\ childOwner = "ready" => closeRequested /\ childSent >= asked

SuInv == Child!TypeOK /\ SuFacts /\ SuWaiter /\ SuThreads /\ SuInput

\* Before its first step, a child process (subprocess_posix.cpp, subprocess_win32.cpp) satisfies the invariant.
LEMMA SuInit == Child!SubprocessConstants /\ Child!Init => SuInv
<1> SUFFICES ASSUME Child!SubprocessConstants, Child!Init PROVE SuInv
  OBVIOUS
<1> USE DEF Child!SubprocessConstants, Child!Init
<1>1. Child!TypeOK
  BY DEF Child!TypeOK
<1>2. SuFacts
  BY DEF SuFacts
<1>3. SuWaiter /\ SuThreads /\ SuInput
  BY DEF SuWaiter, SuThreads, SuInput
<1> QED
  BY <1>1, <1>2, <1>3 DEF SuInv

\* Each step of a child process (subprocess_posix.cpp, subprocess_win32.cpp) preserves the invariant, part by part.
LEMMA SuStep == Child!SubprocessConstants /\ SuInv /\ [Child!Next]_(Child!vars) => SuInv'
<1> SUFFICES ASSUME Child!SubprocessConstants, SuInv, [Child!Next]_(Child!vars) PROVE SuInv'
  OBVIOUS
<1> USE DEF Child!Pipes, Child!process, Child!stdin, Child!outputs, Child!exit
<1>0. Child!TypeOK /\ SuFacts /\ SuWaiter /\ SuThreads /\ SuInput
  BY DEF SuInv
<1>1. CASE Child!Spawn
  <2>1. Child!TypeOK'
    BY <1>0, <1>1 DEF Child!TypeOK, Child!SubprocessConstants, Child!Spawn
  <2>2. SuFacts'
    BY <1>0, <1>1 DEF SuFacts, Child!TypeOK, Child!Spawn
  <2>3. SuWaiter'
    BY <1>0, <1>1 DEF SuWaiter, SuFacts, SuThreads, Child!Spawn
  <2>4. SuThreads'
    BY <1>0, <1>1 DEF SuThreads, SuFacts, SuWaiter, Child!TypeOK, Child!Spawn
  <2>5. SuInput'
    <3>1. asked = 0 /\ childSent = 0 /\ chunk = 0 /\ stdinQueue \in Nat /\ stdinOpen' /\ chunk' = chunk
      BY <1>0, <1>1 DEF Child!TypeOK, SuFacts, SuThreads, Child!Spawn
    <3> QED
      BY <1>0, <1>1, <3>1 DEF SuInput, Child!Spawn
  <2> QED
    BY <2>1, <2>2, <2>3, <2>4, <2>5 DEF SuInv
<1>2. CASE Child!SpawnFails
  <2>1. Child!TypeOK'
    BY <1>0, <1>2 DEF Child!TypeOK, Child!SubprocessConstants, Child!SpawnFails
  <2>2. SuFacts'
    BY <1>0, <1>2 DEF SuFacts, Child!TypeOK, Child!SpawnFails
  <2>3. SuWaiter'
    BY <1>0, <1>2 DEF SuWaiter, SuFacts, SuThreads, Child!SpawnFails
  <2>4. SuThreads'
    BY <1>0, <1>2 DEF SuThreads, SuFacts, SuWaiter, Child!TypeOK, Child!SpawnFails
  <2>5. SuInput'
    BY <1>0, <1>2 DEF SuInput, Child!TypeOK, SuFacts, SuThreads, Child!SpawnFails
  <2> QED
    BY <2>1, <2>2, <2>3, <2>4, <2>5 DEF SuInv
<1>3. ASSUME NEW name \in Child!Pipes \cup {"exit"}, Child!SetCallback(name) PROVE SuInv'
  <2>1. Child!TypeOK'
    BY <1>0, <1>3 DEF Child!TypeOK, Child!SubprocessConstants, Child!SetCallback
  <2>2. SuFacts'
    BY <1>0, <1>3 DEF SuFacts, Child!TypeOK, Child!SetCallback
  <2>3. SuWaiter'
    BY <1>0, <1>3 DEF SuWaiter, SuFacts, SuThreads, Child!SetCallback
  <2>4. SuThreads'
    BY <1>0, <1>3 DEF SuThreads, SuFacts, SuWaiter, Child!TypeOK, Child!SetCallback
  <2>5. SuInput'
    BY <1>0, <1>3 DEF SuInput, Child!TypeOK, SuFacts, SuThreads, Child!SetCallback
  <2> QED
    BY <2>1, <2>2, <2>3, <2>4, <2>5 DEF SuInv
<1>4. CASE Child!WriteStdin
  <2>1. Child!TypeOK'
    BY <1>0, <1>4 DEF Child!TypeOK, Child!SubprocessConstants, Child!WriteStdin
  <2>2. SuFacts'
    BY <1>0, <1>4 DEF SuFacts, Child!TypeOK, Child!WriteStdin
  <2>3. SuWaiter'
    BY <1>0, <1>4 DEF SuWaiter, SuFacts, SuThreads, Child!WriteStdin
  <2>4. SuThreads'
    BY <1>0, <1>4 DEF SuThreads, SuFacts, SuWaiter, Child!TypeOK, Child!WriteStdin
  <2>5. SuInput'
    BY <1>0, <1>4 DEF SuInput, Child!TypeOK, SuFacts, SuThreads, Child!WriteStdin
  <2> QED
    BY <2>1, <2>2, <2>3, <2>4, <2>5 DEF SuInv
<1>5. CASE Child!CloseStdin
  <2>1. Child!TypeOK'
    BY <1>0, <1>5 DEF Child!TypeOK, Child!SubprocessConstants, Child!CloseStdin
  <2>2. SuFacts'
    BY <1>0, <1>5 DEF SuFacts, Child!TypeOK, Child!CloseStdin
  <2>3. SuWaiter'
    BY <1>0, <1>5 DEF SuWaiter, SuFacts, SuThreads, Child!CloseStdin
  <2>4. SuThreads'
    BY <1>0, <1>5 DEF SuThreads, SuFacts, SuWaiter, Child!TypeOK, Child!CloseStdin
  <2>5. SuInput'
    BY <1>0, <1>5 DEF SuInput, Child!TypeOK, SuFacts, SuThreads, Child!CloseStdin
  <2> QED
    BY <2>1, <2>2, <2>3, <2>4, <2>5 DEF SuInv
<1>6. CASE Child!Wait
  <2>1. Child!TypeOK'
    BY <1>0, <1>6 DEF Child!TypeOK, Child!SubprocessConstants, Child!Wait
  <2>2. SuFacts'
    BY <1>0, <1>6 DEF SuFacts, Child!TypeOK, Child!Wait
  <2>3. SuWaiter'
    BY <1>0, <1>6 DEF SuWaiter, SuFacts, SuThreads, Child!Wait
  <2>4. SuThreads'
    BY <1>0, <1>6 DEF SuThreads, SuFacts, SuWaiter, Child!TypeOK, Child!Wait
  <2>5. SuInput'
    BY <1>0, <1>6 DEF SuInput, Child!TypeOK, SuFacts, SuThreads, Child!Wait
  <2> QED
    BY <2>1, <2>2, <2>3, <2>4, <2>5 DEF SuInv
<1>7. CASE Child!WaitReturns
  <2>1. Child!TypeOK'
    BY <1>0, <1>7 DEF Child!TypeOK, Child!SubprocessConstants, Child!WaitReturns
  <2>2. SuFacts'
    BY <1>0, <1>7 DEF SuFacts, Child!TypeOK, Child!WaitReturns
  <2>3. SuWaiter'
    BY <1>0, <1>7 DEF SuWaiter, SuFacts, SuThreads, Child!WaitReturns
  <2>4. SuThreads'
    BY <1>0, <1>7 DEF SuThreads, SuFacts, SuWaiter, Child!TypeOK, Child!WaitReturns
  <2>5. SuInput'
    BY <1>0, <1>7 DEF SuInput, Child!TypeOK, SuFacts, SuThreads, Child!WaitReturns
  <2> QED
    BY <2>1, <2>2, <2>3, <2>4, <2>5 DEF SuInv
<1>8. CASE Child!Destroy
  <2>1. Child!TypeOK'
    BY <1>0, <1>8 DEF Child!TypeOK, Child!SubprocessConstants, Child!Destroy, Child!Killed
  <2>2. SuFacts'
    BY <1>0, <1>8 DEF SuFacts, Child!TypeOK, Child!Destroy, Child!Killed
  <2>3. SuWaiter'
    BY <1>0, <1>8 DEF SuWaiter, SuFacts, SuThreads, Child!Destroy, Child!Killed
  <2>4. SuThreads'
    BY <1>0, <1>8 DEF SuThreads, SuFacts, SuWaiter, Child!TypeOK, Child!Destroy, Child!Killed
  <2>5. SuInput'
    BY <1>0, <1>8 DEF SuInput, Child!TypeOK, SuFacts, SuThreads, Child!Destroy, Child!Killed
  <2> QED
    BY <2>1, <2>2, <2>3, <2>4, <2>5 DEF SuInv
<1>9. CASE Child!Destroyed
  <2>1. Child!TypeOK'
    BY <1>0, <1>9 DEF Child!TypeOK, Child!SubprocessConstants, Child!Destroyed, Child!Joined, Child!Threads
  <2>2. SuFacts'
    BY <1>0, <1>9 DEF SuFacts, Child!TypeOK, Child!Destroyed, Child!Joined, Child!Threads
  <2>3. SuWaiter'
    BY <1>0, <1>9 DEF SuWaiter, SuFacts, SuThreads, Child!Destroyed, Child!Joined, Child!Threads
  <2>4. SuThreads'
    BY <1>0, <1>9 DEF SuThreads, SuFacts, SuWaiter, Child!TypeOK, Child!Destroyed, Child!Joined, Child!Threads
  <2>5. SuInput'
    BY <1>0, <1>9 DEF SuInput, Child!TypeOK, SuFacts, SuThreads, Child!Destroyed, Child!Joined, Child!Threads
  <2> QED
    BY <2>1, <2>2, <2>3, <2>4, <2>5 DEF SuInv
<1>10. CASE Child!StdinDone
  <2>1. Child!TypeOK'
    BY <1>0, <1>10 DEF Child!TypeOK, Child!SubprocessConstants, Child!StdinDone
  <2>2. SuFacts'
    BY <1>0, <1>10 DEF SuFacts, Child!TypeOK, Child!StdinDone
  <2>3. SuWaiter'
    BY <1>0, <1>10 DEF SuWaiter, SuFacts, SuThreads, Child!StdinDone
  <2>4. SuThreads'
    BY <1>0, <1>10 DEF SuThreads, SuFacts, SuWaiter, Child!TypeOK, Child!StdinDone
  <2>5. SuInput'
    BY <1>0, <1>10 DEF SuInput, Child!TypeOK, SuFacts, SuThreads, Child!StdinDone
  <2> QED
    BY <2>1, <2>2, <2>3, <2>4, <2>5 DEF SuInv
<1>11. CASE Child!StdinTake
  <2>1. Child!TypeOK'
    BY <1>0, <1>11 DEF Child!TypeOK, Child!SubprocessConstants, Child!StdinTake
  <2>2. SuFacts'
    BY <1>0, <1>11 DEF SuFacts, Child!TypeOK, Child!StdinTake
  <2>3. SuWaiter'
    BY <1>0, <1>11 DEF SuWaiter, SuFacts, SuThreads, Child!StdinTake
  <2>4. SuThreads'
    BY <1>0, <1>11 DEF SuThreads, SuFacts, SuWaiter, Child!TypeOK, Child!StdinTake
  <2>5. SuInput'
    BY <1>0, <1>11 DEF SuInput, Child!TypeOK, SuFacts, SuThreads, Child!StdinTake
  <2> QED
    BY <2>1, <2>2, <2>3, <2>4, <2>5 DEF SuInv
<1>12. CASE Child!StdinWritten
  <2>1. Child!TypeOK'
    <3>1. childSent' \in Nat
      BY <1>0, <1>12 DEF Child!TypeOK, SuFacts, Child!StdinWritten
    <3> QED
      BY <1>0, <1>12, <3>1 DEF Child!TypeOK, Child!StdinWritten
  <2>2. SuFacts'
    BY <1>0, <1>12 DEF SuFacts, Child!TypeOK, Child!StdinWritten
  <2>3. SuWaiter'
    BY <1>0, <1>12 DEF SuWaiter, SuFacts, SuThreads, Child!StdinWritten
  <2>4. SuThreads'
    BY <1>0, <1>12 DEF SuThreads, SuFacts, SuWaiter, Child!TypeOK, Child!StdinWritten
  <2>5. SuInput'
    BY <1>0, <1>12 DEF SuInput, Child!TypeOK, SuFacts, SuThreads, Child!StdinWritten
  <2> QED
    BY <2>1, <2>2, <2>3, <2>4, <2>5 DEF SuInv
<1>13. CASE Child!StdinBroken
  <2>1. Child!TypeOK'
    BY <1>0, <1>13 DEF Child!TypeOK, Child!SubprocessConstants, Child!StdinBroken
  <2>2. SuFacts'
    BY <1>0, <1>13 DEF SuFacts, Child!TypeOK, Child!StdinBroken
  <2>3. SuWaiter'
    BY <1>0, <1>13 DEF SuWaiter, SuFacts, SuThreads, Child!StdinBroken
  <2>4. SuThreads'
    BY <1>0, <1>13 DEF SuThreads, SuFacts, SuWaiter, Child!TypeOK, Child!StdinBroken
  <2>5. SuInput'
    BY <1>0, <1>13 DEF SuInput, Child!TypeOK, SuFacts, SuThreads, Child!StdinBroken
  <2> QED
    BY <2>1, <2>2, <2>3, <2>4, <2>5 DEF SuInv
<1>14. CASE Child!StdinEnd
  <2>1. Child!TypeOK'
    BY <1>0, <1>14 DEF Child!TypeOK, Child!SubprocessConstants, Child!StdinEnd, Child!MayClose
  <2>2. SuFacts'
    BY <1>0, <1>14 DEF SuFacts, Child!TypeOK, Child!StdinEnd, Child!MayClose
  <2>3. SuWaiter'
    BY <1>0, <1>14 DEF SuWaiter, SuFacts, SuThreads, Child!StdinEnd, Child!MayClose
  <2>4. SuThreads'
    BY <1>0, <1>14 DEF SuThreads, SuFacts, SuWaiter, Child!TypeOK, Child!StdinEnd, Child!MayClose
  <2>5. SuInput'
    BY <1>0, <1>14 DEF SuInput, Child!TypeOK, SuFacts, SuThreads, Child!StdinEnd, Child!MayClose
  <2> QED
    BY <2>1, <2>2, <2>3, <2>4, <2>5 DEF SuInv
<1>15. ASSUME NEW p \in Child!Pipes, Child!Read(p) PROVE SuInv'
  <2>1. Child!TypeOK'
    BY <1>0, <1>15 DEF Child!TypeOK, Child!SubprocessConstants, Child!Read, Child!Becomes
  <2>2. SuFacts'
    BY <1>0, <1>15 DEF SuFacts, Child!TypeOK, Child!Read, Child!Becomes
  <2>3. SuWaiter'
    BY <1>0, <1>15 DEF SuWaiter, SuFacts, SuThreads, Child!Read, Child!Becomes
  <2>4. SuThreads'
    BY <1>0, <1>15 DEF SuThreads, SuFacts, SuWaiter, Child!TypeOK, Child!Read, Child!Becomes
  <2>5. SuInput'
    BY <1>0, <1>15 DEF SuInput, Child!TypeOK, SuFacts, SuThreads, Child!Read, Child!Becomes
  <2> QED
    BY <2>1, <2>2, <2>3, <2>4, <2>5 DEF SuInv
<1>16. ASSUME NEW p \in Child!Pipes, Child!Called(p) PROVE SuInv'
  <2>1. Child!TypeOK'
    BY <1>0, <1>16 DEF Child!TypeOK, Child!SubprocessConstants, Child!Called, Child!Becomes
  <2>2. SuFacts'
    BY <1>0, <1>16 DEF SuFacts, Child!TypeOK, Child!Called, Child!Becomes
  <2>3. SuWaiter'
    BY <1>0, <1>16 DEF SuWaiter, SuFacts, SuThreads, Child!Called, Child!Becomes
  <2>4. SuThreads'
    BY <1>0, <1>16 DEF SuThreads, SuFacts, SuWaiter, Child!TypeOK, Child!Called, Child!Becomes
  <2>5. SuInput'
    BY <1>0, <1>16 DEF SuInput, Child!TypeOK, SuFacts, SuThreads, Child!Called, Child!Becomes
  <2> QED
    BY <2>1, <2>2, <2>3, <2>4, <2>5 DEF SuInv
<1>17. ASSUME NEW p \in Child!Pipes, Child!ReadEnds(p) PROVE SuInv'
  <2>1. Child!TypeOK'
    BY <1>0, <1>17 DEF Child!TypeOK, Child!SubprocessConstants, Child!ReadEnds, Child!Becomes
  <2>2. SuFacts'
    BY <1>0, <1>17 DEF SuFacts, Child!TypeOK, Child!ReadEnds, Child!Becomes
  <2>3. SuWaiter'
    BY <1>0, <1>17 DEF SuWaiter, SuFacts, SuThreads, Child!ReadEnds, Child!Becomes
  <2>4. SuThreads'
    BY <1>0, <1>17 DEF SuThreads, SuFacts, SuWaiter, Child!TypeOK, Child!ReadEnds, Child!Becomes
  <2>5. SuInput'
    BY <1>0, <1>17 DEF SuInput, Child!TypeOK, SuFacts, SuThreads, Child!ReadEnds, Child!Becomes
  <2> QED
    BY <2>1, <2>2, <2>3, <2>4, <2>5 DEF SuInv
<1>18. CASE Child!Reap
  <2>1. Child!TypeOK'
    BY <1>0, <1>18 DEF Child!TypeOK, Child!SubprocessConstants, Child!Reap
  <2>2. SuFacts'
    BY <1>0, <1>18 DEF SuFacts, Child!TypeOK, Child!Reap
  <2>3. SuWaiter'
    BY <1>0, <1>18 DEF SuWaiter, SuFacts, SuThreads, Child!Reap
  <2>4. SuThreads'
    BY <1>0, <1>18 DEF SuThreads, SuFacts, SuWaiter, Child!TypeOK, Child!Reap
  <2>5. SuInput'
    BY <1>0, <1>18 DEF SuInput, Child!TypeOK, SuFacts, SuThreads, Child!Reap
  <2> QED
    BY <2>1, <2>2, <2>3, <2>4, <2>5 DEF SuInv
<1>19. CASE Child!NotRunning
  <2>1. Child!TypeOK'
    BY <1>0, <1>19 DEF Child!TypeOK, Child!SubprocessConstants, Child!NotRunning
  <2>2. SuFacts'
    BY <1>0, <1>19 DEF SuFacts, Child!TypeOK, Child!NotRunning
  <2>3. SuWaiter'
    BY <1>0, <1>19 DEF SuWaiter, SuFacts, SuThreads, Child!NotRunning
  <2>4. SuThreads'
    BY <1>0, <1>19 DEF SuThreads, SuFacts, SuWaiter, Child!TypeOK, Child!NotRunning
  <2>5. SuInput'
    BY <1>0, <1>19 DEF SuInput, Child!TypeOK, SuFacts, SuThreads, Child!NotRunning
  <2> QED
    BY <2>1, <2>2, <2>3, <2>4, <2>5 DEF SuInv
<1>20. CASE Child!Note
  <2>1. Child!TypeOK'
    BY <1>0, <1>20 DEF Child!TypeOK, Child!SubprocessConstants, Child!Note
  <2>2. SuFacts'
    BY <1>0, <1>20 DEF SuFacts, Child!TypeOK, Child!Note
  <2>3. SuWaiter'
    BY <1>0, <1>20 DEF SuWaiter, SuFacts, SuThreads, Child!Note
  <2>4. SuThreads'
    BY <1>0, <1>20 DEF SuThreads, SuFacts, SuWaiter, Child!TypeOK, Child!Note
  <2>5. SuInput'
    BY <1>0, <1>20 DEF SuInput, Child!TypeOK, SuFacts, SuThreads, Child!Note
  <2> QED
    BY <2>1, <2>2, <2>3, <2>4, <2>5 DEF SuInv
<1>21. CASE Child!TellExit
  <2>1. Child!TypeOK'
    BY <1>0, <1>21 DEF Child!TypeOK, Child!SubprocessConstants, Child!TellExit
  <2>2. SuFacts'
    BY <1>0, <1>21 DEF SuFacts, Child!TypeOK, Child!TellExit
  <2>3. SuWaiter'
    BY <1>0, <1>21 DEF SuWaiter, SuFacts, SuThreads, Child!TellExit
  <2>4. SuThreads'
    BY <1>0, <1>21 DEF SuThreads, SuFacts, SuWaiter, Child!TypeOK, Child!TellExit
  <2>5. SuInput'
    BY <1>0, <1>21 DEF SuInput, Child!TypeOK, SuFacts, SuThreads, Child!TellExit
  <2> QED
    BY <2>1, <2>2, <2>3, <2>4, <2>5 DEF SuInv
<1>22. CASE Child!ChildWrites
  <2>1. Child!TypeOK'
    BY <1>0, <1>22 DEF Child!TypeOK, Child!SubprocessConstants, Child!ChildWrites
  <2>2. SuFacts'
    BY <1>0, <1>22 DEF SuFacts, Child!TypeOK, Child!ChildWrites
  <2>3. SuWaiter'
    BY <1>0, <1>22 DEF SuWaiter, SuFacts, SuThreads, Child!ChildWrites
  <2>4. SuThreads'
    BY <1>0, <1>22 DEF SuThreads, SuFacts, SuWaiter, Child!TypeOK, Child!ChildWrites
  <2>5. SuInput'
    BY <1>0, <1>22 DEF SuInput, Child!TypeOK, SuFacts, SuThreads, Child!ChildWrites
  <2> QED
    BY <2>1, <2>2, <2>3, <2>4, <2>5 DEF SuInv
<1>23. CASE Child!ChildExits
  <2>1. Child!TypeOK'
    BY <1>0, <1>23 DEF Child!TypeOK, Child!SubprocessConstants, Child!ChildExits
  <2>2. SuFacts'
    BY <1>0, <1>23 DEF SuFacts, Child!TypeOK, Child!ChildExits
  <2>3. SuWaiter'
    BY <1>0, <1>23 DEF SuWaiter, SuFacts, SuThreads, Child!ChildExits
  <2>4. SuThreads'
    BY <1>0, <1>23 DEF SuThreads, SuFacts, SuWaiter, Child!TypeOK, Child!ChildExits
  <2>5. SuInput'
    BY <1>0, <1>23 DEF SuInput, Child!TypeOK, SuFacts, SuThreads, Child!ChildExits
  <2> QED
    BY <2>1, <2>2, <2>3, <2>4, <2>5 DEF SuInv
<1>24. CASE UNCHANGED Child!vars
  BY <1>0, <1>24 DEF SuInv, Child!vars, Child!TypeOK, SuFacts, SuWaiter, SuThreads, SuInput
<1> QED
  BY <1>1, <1>2, <1>3, <1>4, <1>5, <1>6, <1>7, <1>8, <1>9, <1>10, <1>11, <1>12, <1>13, <1>14, <1>15, <1>16, <1>17, <1>18, <1>19, <1>20, <1>21, <1>22, <1>23, <1>24 DEF Child!Next, Child!Owner, Child!GoesOn, Child!StdinLoop, Child!ReadLoop

\* From it: a destroyed Subprocess leaves no thread and no child running, closeStdin()
\* ends the input only after all of it, and the exit is told once.
LEMMA SuSafe == SuInv => Child!Inv
  BY DEF SuInv, Child!TypeOK, SuFacts, SuWaiter, SuThreads, SuInput, Child!Inv, Child!NothingLeft, Child!Threads, Child!InputComplete, Child!ExitOnce

-----------------------------------------------------------------------------
\* The module that connects processes.

Purposes == {"line", "CLI line reader", "child"}

IoFacts ==
    /\ {ioRunning, notified} \subseteq BOOLEAN
    /\ ioQueue \in Seq(Writers) /\ ioHeld \subseteq Writers /\ ioEntries \subseteq Callers
    /\ write \in [Writers -> {"idle", "locked", "asleep", "done"}]
    /\ sink \in [Writers -> {"nowhere", "stdout", "stderr"}]
    /\ object \in [Callers -> {"none", "alive", "destroyed"}]
    /\ ioCall \in [Callers -> {"idle", "claiming", "wiring", "spawning", "entering",
                             "connected", "threw"}]

\* The worker lives from onInit() to onShutdown(), and leaves nothing in the queue.
IoWorker ==
    /\ ioRunning <=> module = "up"
    /\ module \in {"new", "down"} <=> worker = "none"
    /\ worker \in {"none", "gone"} => ioQueue = <<>>
    /\ worker # "delivering" => ioHeld = {}
    /\ worker = "gone" => module = "stopping"

\* Who wires standard input has claimed it, and so has who reads it.
IoClaim ==
    /\ \A r \in readers : r[1] = claimed /\ claimed # Io!Nobody
    /\ \A c \in Callers : ioCall[c] = "wiring" => claimed = "child"

\* A subprocess is its spawner's own until it is entered.
IoRegistry ==
    /\ \A c, d \in ioEntries : c = d
    /\ \A c \in Callers : object[c] = "alive" => ioCall[c] \in {"entering", "connected"}

IoInv == Io!TypeOK /\ IoFacts /\ IoWorker /\ Io!NoTextLost /\ IoClaim /\ IoRegistry /\ Io!Registered

\* Before its first step, the module that connects processes (io_module.cpp) satisfies the invariant.
LEMMA IoInit == Io!IoConstants /\ Io!Init => IoInv
<1> SUFFICES ASSUME Io!IoConstants, Io!Init PROVE IoInv
  OBVIOUS
<1> USE DEF Io!IoConstants, Io!Init
<1>1. ioQueue \in Seq(Writers) /\ Len(ioQueue) = 0
  OBVIOUS
<1>2. Io!TypeOK /\ IoWorker
  BY <1>1 DEF Io!TypeOK, IoWorker, Io!Nobody
<1>4. IoFacts
  BY <1>1 DEF IoFacts
<1>3. Io!NoTextLost /\ IoClaim /\ IoRegistry /\ Io!Registered
  BY DEF Io!NoTextLost, IoClaim, IoRegistry, Io!Registered, Io!Connected, Io!At
<1> QED
  BY <1>2, <1>3, <1>4 DEF IoInv

\* Each step of the module that connects processes (io_module.cpp) preserves the invariant, part by part.
LEMMA IoStep == Io!IoConstants /\ IoInv /\ [Io!Next]_(Io!vars) => IoInv'
<1> SUFFICES ASSUME Io!IoConstants, IoInv, [Io!Next]_(Io!vars) PROVE IoInv'
  OBVIOUS
<1> USE DEF Io!queueing, Io!wire, Io!registry, Io!At, Io!Nobody
<1>0. Io!TypeOK /\ IoFacts /\ IoWorker /\ Io!NoTextLost /\ IoClaim /\ IoRegistry /\ Io!Registered
  BY DEF IoInv
<1>1. ASSUME NEW w \in Writers, Io!WriteStart(w) PROVE IoInv'
  <2>1. Io!TypeOK' /\ IoWorker' /\ IoClaim' /\ IoRegistry' /\ Io!Registered'
    BY <1>0, <1>1 DEF Io!TypeOK, IoWorker, IoClaim, IoRegistry, Io!Registered, Io!Connected, Io!WriteStart, Io!Goto, Io!Deliver
  <2>2. IoFacts'
    BY <1>0, <1>1 DEF IoFacts, Io!Connected, Io!WriteStart, Io!Goto, Io!Deliver
  <2>3. Io!NoTextLost'
    BY <1>0, <1>1 DEF Io!NoTextLost, IoFacts, IoWorker, Io!Connected, Io!WriteStart, Io!Goto, Io!Deliver
  <2> QED
    BY <2>1, <2>2, <2>3 DEF IoInv
<1>2. ASSUME NEW w \in Writers, Io!WriteSleep(w) PROVE IoInv'
  <2>1. Io!TypeOK' /\ IoWorker' /\ IoClaim' /\ IoRegistry' /\ Io!Registered'
    BY <1>0, <1>2 DEF Io!TypeOK, IoWorker, IoClaim, IoRegistry, Io!Registered, Io!Connected, Io!WriteSleep, Io!HasRoom, Io!Goto
  <2>2. IoFacts'
    BY <1>0, <1>2 DEF IoFacts, Io!Connected, Io!WriteSleep, Io!HasRoom, Io!Goto
  <2>3. Io!NoTextLost'
    BY <1>0, <1>2 DEF Io!NoTextLost, IoFacts, IoWorker, Io!Connected, Io!WriteSleep, Io!HasRoom, Io!Goto
  <2> QED
    BY <2>1, <2>2, <2>3 DEF IoInv
<1>3. ASSUME NEW w \in Writers, Io!WriteQueue(w) PROVE IoInv'
  <2>1. IoClaim' /\ IoRegistry' /\ Io!Registered'
    BY <1>0, <1>3 DEF IoClaim, IoRegistry, Io!Registered, Io!Connected, Io!WriteQueue, Io!HasRoom, Io!Goto
  <2>2. Io!TypeOK'
    <3>1. Len(ioQueue') = Len(ioQueue) + 1 /\ Len(ioQueue) \in Nat
      BY <1>0, <1>3 DEF IoFacts, Io!WriteQueue
    <3>2. MaxQueue \in Nat /\ (MaxQueue = 0 \/ Len(ioQueue) < MaxQueue)
      BY <1>3 DEF Io!IoConstants, Io!WriteQueue, Io!HasRoom
    <3>3. MaxQueue > 0 => Len(ioQueue') <= MaxQueue
      BY <3>1, <3>2
    <3> QED
      BY <1>0, <1>3, <3>3 DEF Io!TypeOK, Io!WriteQueue
  <2>3. IoFacts'
    BY <1>0, <1>3 DEF IoFacts, Io!Connected, Io!WriteQueue, Io!HasRoom, Io!Goto
  <2>4. IoWorker'
    BY <1>0, <1>3 DEF IoWorker, IoFacts, Io!TypeOK, Io!Connected, Io!WriteQueue, Io!HasRoom, Io!Goto
  <2>5. Io!NoTextLost'
    <3>1. /\ DOMAIN ioQueue' = 1 .. Len(ioQueue) + 1 /\ ioQueue'[Len(ioQueue) + 1] = w
          /\ \A i \in DOMAIN ioQueue : i \in DOMAIN ioQueue' /\ ioQueue'[i] = ioQueue[i]
      BY <1>0, <1>3 DEF IoFacts, Io!WriteQueue
    <3>3. module = "up" /\ Len(ioQueue) + 1 \in DOMAIN ioQueue'
      BY <1>0, <1>3, <3>1 DEF IoWorker, IoFacts, Io!WriteQueue
    <3> QED
      BY <1>0, <1>3, <3>1, <3>3 DEF Io!NoTextLost, IoFacts, Io!WriteQueue, Io!Goto
  <2> QED
    BY <2>1, <2>2, <2>3, <2>4, <2>5 DEF IoInv
<1>4. ASSUME NEW w \in Writers, Io!WriteDirect(w) PROVE IoInv'
  <2>1. Io!TypeOK' /\ IoWorker' /\ IoClaim' /\ IoRegistry' /\ Io!Registered'
    BY <1>0, <1>4 DEF Io!TypeOK, IoWorker, IoClaim, IoRegistry, Io!Registered, Io!Connected, Io!WriteDirect, Io!Goto, Io!Deliver
  <2>2. IoFacts'
    BY <1>0, <1>4 DEF IoFacts, Io!Connected, Io!WriteDirect, Io!Goto, Io!Deliver
  <2>3. Io!NoTextLost'
    BY <1>0, <1>4 DEF Io!NoTextLost, IoFacts, IoWorker, Io!Connected, Io!WriteDirect, Io!Goto, Io!Deliver
  <2> QED
    BY <2>1, <2>2, <2>3 DEF IoInv
<1>5. CASE Io!WorkerTake
  <2>1. IoClaim' /\ IoRegistry' /\ Io!Registered'
    BY <1>0, <1>5 DEF IoClaim, IoRegistry, Io!Registered, Io!Connected, Io!WorkerTake, Io!Asleep, Io!Wake
  <2>2. Io!TypeOK'
    <3>1. Len(ioQueue') = Len(ioQueue) - 1 /\ Len(ioQueue) \in Nat
      BY <1>0, <1>5 DEF IoFacts, Io!WorkerTake
    <3>2. MaxQueue \in Nat /\ (MaxQueue > 0 => Len(ioQueue) <= MaxQueue)
      BY <1>0 DEF Io!IoConstants, Io!TypeOK
    <3>3. MaxQueue > 0 => Len(ioQueue') <= MaxQueue
      BY <3>1, <3>2
    <3> QED
      BY <1>0, <1>5, <3>3 DEF Io!TypeOK, Io!WorkerTake
  <2>3. IoFacts'
    BY <1>0, <1>5 DEF IoFacts, Io!Connected, Io!WorkerTake, Io!Asleep, Io!Wake
  <2>4. IoWorker'
    BY <1>0, <1>5 DEF IoWorker, IoFacts, Io!TypeOK, Io!Connected, Io!WorkerTake, Io!Asleep, Io!Wake
  <2>5. Io!NoTextLost'
    <3>1. \A i \in DOMAIN ioQueue : ioQueue[i] \in ioHeld' \/ \E j \in DOMAIN ioQueue' : ioQueue'[j] = ioQueue[i]
      <4> SUFFICES ASSUME NEW i \in DOMAIN ioQueue, i # 1
                   PROVE  \E j \in DOMAIN ioQueue' : ioQueue'[j] = ioQueue[i]
        BY <1>5 DEF Io!WorkerTake
      <4>1. i - 1 \in DOMAIN ioQueue' /\ ioQueue'[i - 1] = ioQueue[i]
        BY <1>0, <1>5 DEF IoFacts, Io!WorkerTake
      <4> QED
        BY <4>1
    <3>2. ioHeld = {} /\ sink' = sink /\ module' = module
      BY <1>0, <1>5 DEF IoWorker, Io!WorkerTake
    <3>3. \A w \in Writers : write'[w] = "done" => write[w] = "done"
      BY <1>0, <1>5 DEF IoFacts, Io!WorkerTake, Io!Asleep, Io!Wake
    <3> QED
      BY <1>0, <3>1, <3>2, <3>3 DEF Io!NoTextLost
  <2> QED
    BY <2>1, <2>2, <2>3, <2>4, <2>5 DEF IoInv
<1>6. CASE Io!WorkerDeliver
  <2>1. IoClaim' /\ IoRegistry' /\ Io!Registered'
    BY <1>0, <1>6 DEF IoClaim, IoRegistry, Io!Registered, Io!Connected, Io!WorkerDeliver
  <2>2. Io!TypeOK'
    BY <1>0, <1>6 DEF Io!TypeOK, IoFacts, Io!IoConstants, Io!Connected, Io!WorkerDeliver
  <2>3. IoFacts'
    BY <1>0, <1>6 DEF IoFacts, Io!Connected, Io!WorkerDeliver
  <2>4. IoWorker'
    BY <1>0, <1>6 DEF IoWorker, IoFacts, Io!TypeOK, Io!Connected, Io!WorkerDeliver
  <2>5. Io!NoTextLost'
    BY <1>0, <1>6 DEF Io!NoTextLost, IoFacts, IoWorker, Io!Connected, Io!WorkerDeliver
  <2> QED
    BY <2>1, <2>2, <2>3, <2>4, <2>5 DEF IoInv
<1>7. CASE Io!WorkerSleep
  <2>1. Io!TypeOK' /\ IoWorker' /\ Io!NoTextLost' /\ IoClaim' /\ IoRegistry' /\ Io!Registered'
    BY <1>0, <1>7 DEF Io!TypeOK, IoWorker, Io!NoTextLost, IoClaim, IoRegistry, Io!Registered, Io!Connected, Io!WorkerSleep
  <2>2. IoFacts'
    BY <1>0, <1>7 DEF IoFacts, Io!Connected, Io!WorkerSleep
  <2> QED
    BY <2>1, <2>2 DEF IoInv
<1>8. CASE Io!WorkerLeave
  <2>1. Io!NoTextLost' /\ IoClaim' /\ IoRegistry' /\ Io!Registered'
    BY <1>0, <1>8 DEF Io!NoTextLost, IoClaim, IoRegistry, Io!Registered, Io!Connected, Io!WorkerLeave, Io!MayLeave
  <2>2. Io!TypeOK'
    BY <1>0, <1>8 DEF Io!TypeOK, IoFacts, Io!IoConstants, Io!Connected, Io!WorkerLeave, Io!MayLeave
  <2>3. IoFacts'
    BY <1>0, <1>8 DEF IoFacts, Io!Connected, Io!WorkerLeave, Io!MayLeave
  <2>4. IoWorker'
    BY <1>0, <1>8 DEF IoWorker, IoFacts, Io!TypeOK, Io!Connected, Io!WorkerLeave, Io!MayLeave
  <2> QED
    BY <2>1, <2>2, <2>3, <2>4 DEF IoInv
<1>9. CASE Io!Start
  <2>1. IoClaim' /\ IoRegistry' /\ Io!Registered'
    BY <1>0, <1>9 DEF IoClaim, IoRegistry, Io!Registered, Io!Connected, Io!Start
  <2>2. Io!TypeOK'
    BY <1>0, <1>9 DEF Io!TypeOK, IoFacts, Io!IoConstants, Io!Connected, Io!Start
  <2>3. IoFacts'
    BY <1>0, <1>9 DEF IoFacts, Io!Connected, Io!Start
  <2>4. IoWorker'
    BY <1>0, <1>9 DEF IoWorker, IoFacts, Io!TypeOK, Io!Connected, Io!Start
  <2>5. Io!NoTextLost'
    BY <1>0, <1>9 DEF Io!NoTextLost, IoFacts, IoWorker, Io!Connected, Io!Start
  <2> QED
    BY <2>1, <2>2, <2>3, <2>4, <2>5 DEF IoInv
<1>10. CASE Io!StopWorker
  <2>1. IoClaim' /\ IoRegistry' /\ Io!Registered'
    BY <1>0, <1>10 DEF IoClaim, IoRegistry, Io!Registered, Io!Connected, Io!StopWorker, Io!WakeAll, Io!Wake, Io!Asleep
  <2>2. Io!TypeOK'
    BY <1>0, <1>10 DEF Io!TypeOK, IoFacts, Io!IoConstants, Io!Connected, Io!StopWorker, Io!WakeAll, Io!Wake, Io!Asleep
  <2>3. IoFacts'
    BY <1>0, <1>10 DEF IoFacts, Io!Connected, Io!StopWorker, Io!WakeAll, Io!Wake, Io!Asleep
  <2>4. IoWorker'
    BY <1>0, <1>10 DEF IoWorker, IoFacts, Io!TypeOK, Io!Connected, Io!StopWorker, Io!WakeAll, Io!Wake, Io!Asleep
  <2>5. Io!NoTextLost'
    BY <1>0, <1>10 DEF Io!NoTextLost, IoFacts, IoWorker, Io!Connected, Io!StopWorker, Io!WakeAll, Io!Wake, Io!Asleep
  <2> QED
    BY <2>1, <2>2, <2>3, <2>4, <2>5 DEF IoInv
<1>11. CASE Io!Shutdown
  <2>1. IoClaim'
    BY <1>0, <1>11 DEF IoClaim, Io!Connected, Io!Shutdown
  <2>2. Io!TypeOK'
    BY <1>0, <1>11 DEF Io!TypeOK, IoFacts, Io!IoConstants, Io!Connected, Io!Shutdown
  <2>3. IoFacts'
    BY <1>0, <1>11 DEF IoFacts, Io!Connected, Io!Shutdown
  <2>4. IoWorker'
    BY <1>0, <1>11 DEF IoWorker, IoFacts, Io!TypeOK, Io!Connected, Io!Shutdown
  <2>5. Io!NoTextLost'
    BY <1>0, <1>11 DEF Io!NoTextLost, IoFacts, IoWorker, Io!Connected, Io!Shutdown
  <2>6. IoRegistry'
    BY <1>0, <1>11 DEF IoRegistry, IoFacts, Io!Connected, Io!Shutdown
  <2>7. Io!Registered'
    BY <1>0, <1>11 DEF Io!Registered, Io!Connected, IoFacts, IoRegistry, Io!Shutdown
  <2> QED
    BY <2>1, <2>2, <2>3, <2>4, <2>5, <2>6, <2>7 DEF IoInv
<1>12. CASE Io!Disconnect
  <2>1. Io!TypeOK' /\ IoWorker' /\ Io!NoTextLost' /\ IoClaim'
    BY <1>0, <1>12 DEF Io!TypeOK, IoWorker, Io!NoTextLost, IoClaim, Io!Connected, Io!Disconnect
  <2>2. IoFacts'
    BY <1>0, <1>12 DEF IoFacts, Io!Connected, Io!Disconnect
  <2>3. IoRegistry'
    BY <1>0, <1>12 DEF IoRegistry, IoFacts, Io!Connected, Io!Disconnect
  <2>4. Io!Registered'
    BY <1>0, <1>12 DEF Io!Registered, Io!Connected, IoFacts, IoRegistry, Io!Disconnect
  <2> QED
    BY <2>1, <2>2, <2>3, <2>4 DEF IoInv
<1>13. ASSUME NEW c \in Callers, NEW purpose \in {"line", "CLI line reader"}, Io!ReadFor(c, purpose) PROVE IoInv'
  <2>1. IoWorker' /\ Io!NoTextLost'
    BY <1>0, <1>13 DEF IoWorker, Io!NoTextLost, Io!Connected, Io!ReadFor, Io!MayCall, Io!Throw, Io!Becomes
  <2>2. Io!TypeOK'
    BY <1>0, <1>13 DEF Io!TypeOK, IoFacts, Io!IoConstants, Io!Connected, Io!ReadFor, Io!MayCall, Io!Throw, Io!Becomes
  <2>3. IoFacts'
    BY <1>0, <1>13 DEF IoFacts, Io!Connected, Io!ReadFor, Io!MayCall, Io!Throw, Io!Becomes
  <2>4. IoClaim'
    <3>1. CASE claimed \in {Io!Nobody, purpose}
      <4>1. claimed' = purpose /\ readers' = readers \cup {<<purpose, c>>} /\ ioCall' = [ioCall EXCEPT ![c] = "connected"]
        BY <1>13, <3>1 DEF Io!ReadFor, Io!Becomes
      <4>2. \A r \in readers' : r[1] = claimed' /\ claimed' # Io!Nobody
        <5>1. purpose # Io!Nobody /\ <<purpose, c>>[1] = purpose
          OBVIOUS
        <5>2. \A r \in readers : r[1] = purpose
          BY <1>0, <3>1 DEF IoClaim
        <5> QED
          BY <4>1, <5>1, <5>2
      <4>3. \A d \in Callers : ioCall'[d] = "wiring" => claimed' = "child"
        BY <1>0, <3>1, <4>1 DEF IoClaim, IoFacts
      <4> QED
        BY <4>2, <4>3 DEF IoClaim
    <3>2. CASE claimed \notin {Io!Nobody, purpose}
      BY <1>0, <1>13, <3>2 DEF IoClaim, IoFacts, Io!ReadFor, Io!Throw, Io!Becomes
    <3> QED
      BY <3>1, <3>2
  <2>5. IoRegistry'
    BY <1>0, <1>13 DEF IoRegistry, IoFacts, Io!Connected, Io!ReadFor, Io!MayCall, Io!Throw, Io!Becomes
  <2>6. Io!Registered'
    BY <1>0, <1>13 DEF Io!Registered, Io!Connected, IoFacts, IoRegistry, Io!ReadFor, Io!MayCall, Io!Throw, Io!Becomes
  <2> QED
    BY <2>1, <2>2, <2>3, <2>4, <2>5, <2>6 DEF IoInv
<1>14. ASSUME NEW c \in Callers, Io!ChildCheck(c) PROVE IoInv'
  <2>1. Io!TypeOK' /\ IoWorker' /\ Io!NoTextLost'
    BY <1>0, <1>14 DEF Io!TypeOK, IoWorker, Io!NoTextLost, Io!Connected, Io!ChildCheck, Io!MayCall, Io!Throw, Io!Becomes
  <2>2. IoFacts'
    BY <1>0, <1>14 DEF IoFacts, Io!Connected, Io!ChildCheck, Io!MayCall, Io!Throw, Io!Becomes
  <2>3. IoClaim'
    BY <1>0, <1>14 DEF IoClaim, IoFacts, Io!Connected, Io!ChildCheck, Io!MayCall, Io!Throw, Io!Becomes
  <2>4. IoRegistry'
    BY <1>0, <1>14 DEF IoRegistry, IoFacts, Io!Connected, Io!ChildCheck, Io!MayCall, Io!Throw, Io!Becomes
  <2>5. Io!Registered'
    BY <1>0, <1>14 DEF Io!Registered, Io!Connected, IoFacts, IoRegistry, Io!ChildCheck, Io!MayCall, Io!Throw, Io!Becomes
  <2> QED
    BY <2>1, <2>2, <2>3, <2>4, <2>5 DEF IoInv
<1>15. ASSUME NEW c \in Callers, Io!ChildClaim(c) PROVE IoInv'
  <2>1. IoWorker' /\ Io!NoTextLost'
    BY <1>0, <1>15 DEF IoWorker, Io!NoTextLost, Io!Connected, Io!ChildClaim, Io!Throw, Io!Becomes
  <2>2. Io!TypeOK'
    BY <1>0, <1>15 DEF Io!TypeOK, IoFacts, Io!IoConstants, Io!Connected, Io!ChildClaim, Io!Throw, Io!Becomes
  <2>3. IoFacts'
    BY <1>0, <1>15 DEF IoFacts, Io!Connected, Io!ChildClaim, Io!Throw, Io!Becomes
  <2>4. IoClaim'
    BY <1>0, <1>15 DEF IoClaim, IoFacts, Io!Connected, Io!ChildClaim, Io!Throw, Io!Becomes
  <2>5. IoRegistry'
    BY <1>0, <1>15 DEF IoRegistry, IoFacts, Io!Connected, Io!ChildClaim, Io!Throw, Io!Becomes
  <2>6. Io!Registered'
    BY <1>0, <1>15 DEF Io!Registered, Io!Connected, IoFacts, IoRegistry, Io!ChildClaim, Io!Throw, Io!Becomes
  <2> QED
    BY <2>1, <2>2, <2>3, <2>4, <2>5, <2>6 DEF IoInv
<1>16. ASSUME NEW c \in Callers, Io!ChildWire(c) PROVE IoInv'
  <2>1. Io!TypeOK' /\ IoWorker' /\ Io!NoTextLost'
    BY <1>0, <1>16 DEF Io!TypeOK, IoWorker, Io!NoTextLost, Io!Connected, Io!ChildWire, Io!Becomes
  <2>2. IoFacts'
    BY <1>0, <1>16 DEF IoFacts, Io!Connected, Io!ChildWire, Io!Becomes
  <2>3. IoClaim'
    BY <1>0, <1>16 DEF IoClaim, IoFacts, Io!Connected, Io!ChildWire, Io!Becomes
  <2>4. IoRegistry'
    BY <1>0, <1>16 DEF IoRegistry, IoFacts, Io!Connected, Io!ChildWire, Io!Becomes
  <2>5. Io!Registered'
    BY <1>0, <1>16 DEF Io!Registered, Io!Connected, IoFacts, IoRegistry, Io!ChildWire, Io!Becomes
  <2> QED
    BY <2>1, <2>2, <2>3, <2>4, <2>5 DEF IoInv
<1>17. ASSUME NEW c \in Callers, Io!SubprocessCheck(c) PROVE IoInv'
  <2>1. Io!TypeOK' /\ IoWorker' /\ Io!NoTextLost'
    BY <1>0, <1>17 DEF Io!TypeOK, IoWorker, Io!NoTextLost, Io!Connected, Io!SubprocessCheck, Io!MayCall, Io!NameInUse, Io!Throw, Io!Becomes
  <2>2. IoFacts'
    BY <1>0, <1>17 DEF IoFacts, Io!Connected, Io!SubprocessCheck, Io!MayCall, Io!NameInUse, Io!Throw, Io!Becomes
  <2>3. IoClaim'
    BY <1>0, <1>17 DEF IoClaim, IoFacts, Io!Connected, Io!SubprocessCheck, Io!MayCall, Io!NameInUse, Io!Throw, Io!Becomes
  <2>4. IoRegistry'
    BY <1>0, <1>17 DEF IoRegistry, IoFacts, Io!Connected, Io!SubprocessCheck, Io!MayCall, Io!NameInUse, Io!Throw, Io!Becomes
  <2>5. Io!Registered'
    BY <1>0, <1>17 DEF Io!Registered, Io!Connected, IoFacts, IoRegistry, Io!SubprocessCheck, Io!MayCall, Io!NameInUse, Io!Throw, Io!Becomes
  <2> QED
    BY <2>1, <2>2, <2>3, <2>4, <2>5 DEF IoInv
<1>18. ASSUME NEW c \in Callers, Io!SubprocessSpawn(c) PROVE IoInv'
  <2>1. Io!TypeOK' /\ IoWorker' /\ Io!NoTextLost'
    BY <1>0, <1>18 DEF Io!TypeOK, IoWorker, Io!NoTextLost, Io!Connected, Io!SubprocessSpawn, Io!Becomes
  <2>2. IoFacts'
    BY <1>0, <1>18 DEF IoFacts, Io!Connected, Io!SubprocessSpawn, Io!Becomes
  <2>3. IoClaim'
    BY <1>0, <1>18 DEF IoClaim, IoFacts, Io!Connected, Io!SubprocessSpawn, Io!Becomes
  <2>4. IoRegistry'
    BY <1>0, <1>18 DEF IoRegistry, IoFacts, Io!Connected, Io!SubprocessSpawn, Io!Becomes
  <2>5. Io!Registered'
    BY <1>0, <1>18 DEF Io!Registered, Io!Connected, IoFacts, IoRegistry, Io!SubprocessSpawn, Io!Becomes
  <2> QED
    BY <2>1, <2>2, <2>3, <2>4, <2>5 DEF IoInv
<1>19. ASSUME NEW c \in Callers, Io!SpawnFails(c) PROVE IoInv'
  <2>1. Io!TypeOK' /\ IoWorker' /\ Io!NoTextLost'
    BY <1>0, <1>19 DEF Io!TypeOK, IoWorker, Io!NoTextLost, Io!Connected, Io!SpawnFails, Io!Throw, Io!Becomes
  <2>2. IoFacts'
    BY <1>0, <1>19 DEF IoFacts, Io!Connected, Io!SpawnFails, Io!Throw, Io!Becomes
  <2>3. IoClaim'
    BY <1>0, <1>19 DEF IoClaim, IoFacts, Io!Connected, Io!SpawnFails, Io!Throw, Io!Becomes
  <2>4. IoRegistry'
    BY <1>0, <1>19 DEF IoRegistry, IoFacts, Io!Connected, Io!SpawnFails, Io!Throw, Io!Becomes
  <2>5. Io!Registered'
    BY <1>0, <1>19 DEF Io!Registered, Io!Connected, IoFacts, IoRegistry, Io!SpawnFails, Io!Throw, Io!Becomes
  <2> QED
    BY <2>1, <2>2, <2>3, <2>4, <2>5 DEF IoInv
<1>20. ASSUME NEW c \in Callers, Io!SubprocessEnter(c) PROVE IoInv'
  <2>1. Io!TypeOK' /\ IoWorker' /\ Io!NoTextLost'
    BY <1>0, <1>20 DEF Io!TypeOK, IoWorker, Io!NoTextLost, Io!Connected, Io!SubprocessEnter, Io!NameInUse, Io!Becomes
  <2>2. IoFacts'
    BY <1>0, <1>20 DEF IoFacts, Io!Connected, Io!SubprocessEnter, Io!NameInUse, Io!Becomes
  <2>3. IoClaim'
    BY <1>0, <1>20 DEF IoClaim, IoFacts, Io!Connected, Io!SubprocessEnter, Io!NameInUse, Io!Becomes
  <2>4. IoRegistry'
    BY <1>0, <1>20 DEF IoRegistry, IoFacts, Io!Connected, Io!SubprocessEnter, Io!NameInUse, Io!Becomes
  <2>5. Io!Registered'
    BY <1>0, <1>20 DEF Io!Registered, Io!Connected, IoFacts, IoRegistry, Io!SubprocessEnter, Io!NameInUse, Io!Becomes
  <2> QED
    BY <2>1, <2>2, <2>3, <2>4, <2>5 DEF IoInv
<1>21. CASE UNCHANGED Io!vars
  BY <1>0, <1>21 DEF IoInv, Io!vars, Io!TypeOK, IoFacts, IoWorker, Io!NoTextLost, IoClaim, IoRegistry, Io!Registered, Io!Connected
<1> QED
  BY <1>1, <1>2, <1>3, <1>4, <1>5, <1>6, <1>7, <1>8, <1>9, <1>10, <1>11, <1>12, <1>13, <1>14, <1>15, <1>16, <1>17, <1>18, <1>19, <1>20, <1>21 DEF Io!Next, Io!Write, Io!Worker, Io!Connect, Io!EnableStdin, Io!ReadStdinLine

\* From it: what write() took is queued, held or delivered, standard input is read for
\* one purpose, and a channel belongs to the process that is registered.
LEMMA IoSafe == IoInv => Io!Inv
  BY DEF IoInv, IoClaim, Io!Inv, Io!OnePurpose

-----------------------------------------------------------------------------
\* The devices.

Phases == {"idle", "asking", "answered", "telling"}
DvFacts ==
    /\ Bridge!TypeOK
    /\ refresh \in [Bridge!Refreshers -> [at : Phases, new : SUBSET Devices, added : SUBSET Devices, removed : SUBSET Devices]]
    /\ adbOwner \in {"new", "inited", "up", "stopped", "shut", "gone"}
    /\ stopping \in {"no", "call", "onStop", "destructor"}
    /\ "watch" \notin Refreshing

\* Who has still to tell that d came, or that it went.
Adders(d)   == {c \in Bridge!Refreshers : Bridge!Telling(c) /\ d \in refresh[c].added}
Removers(d) == {c \in Bridge!Refreshers : Bridge!Telling(c) /\ d \in refresh[c].removed}
DvOwed == \A d \in Devices : IsFiniteSet(Adders(d)) /\ IsFiniteSet(Removers(d))
\* What was told and what is still to be told make the snapshot.
DvTold ==
    ~unheard => \A d \in Devices :
        told[d] + Cardinality(Adders(d)) = (IF d \in snapshot THEN 1 ELSE 0) + Cardinality(Removers(d))

\* The watch has a timer or a thread while it is active, and gives it up first.
DvWatch ==
    /\ adbTimer <=> usingTimer
    /\ adbTimer => ~adbRunning
    /\ stopping # "no" => ~adbTimer /\ ~adbRunning
    /\ ~adbActive => ~adbTimer /\ ~adbRunning /\ adbThread = "none" /\ refresh["watch"].at = "idle"

DvInv == DvFacts /\ DvOwed /\ DvTold /\ DvWatch

\* Before its first step, the device watch (adb_module.cpp) satisfies the invariant.
LEMMA DvInit == Bridge!AdbConstants /\ Bridge!Init => DvInv
<1> SUFFICES ASSUME Bridge!AdbConstants, Bridge!Init PROVE DvInv
  OBVIOUS
<1> USE DEF Bridge!AdbConstants, Bridge!Init
<1>1. Bridge!TypeOK
  <2>1. told \in [Devices -> Int]
    OBVIOUS
  <2>2. {unheard, adbActive, usingTimer, adbTimer, adbRunning} \subseteq BOOLEAN
    OBVIOUS
  <2> QED
    BY <2>1, <2>2 DEF Bridge!TypeOK
<1>2. DvFacts
  BY <1>1 DEF DvFacts, Bridge!Idle, Phases
<1>3. \A d \in Devices : Adders(d) = {} /\ Removers(d) = {}
  BY DEF Adders, Removers, Bridge!Telling, Bridge!Idle
<1>4. DvOwed /\ DvTold
  BY <1>3, FS_EmptySet DEF DvOwed, DvTold
<1>5. DvWatch
  BY DEF DvWatch, Bridge!Refreshers, Bridge!Idle
<1> QED
  BY <1>2, <1>4, <1>5 DEF DvInv

\* Each step of the device watch (adb_module.cpp) preserves the invariant, part by part.
LEMMA DvStep == DvInv /\ [Bridge!Next]_(Bridge!vars) => DvInv'
<1> SUFFICES ASSUME DvInv, [Bridge!Next]_(Bridge!vars) PROVE DvInv'
  OBVIOUS
<1> USE DEF Bridge!Refreshers, Bridge!world, Bridge!known, Bridge!watch, Bridge!life
<1>0. DvFacts /\ DvOwed /\ DvTold /\ DvWatch
  BY DEF DvInv
<1>1. CASE Bridge!Plug
  <2>1. DvOwed' /\ DvTold' /\ DvWatch'
    BY <1>0, <1>1 DEF DvOwed, DvTold, DvWatch, Adders, Removers, Bridge!Telling, Bridge!TypeOK, Bridge!Plug
  <2>2. DvFacts'
    <3>1. refresh' \in [Bridge!Refreshers -> [at : Phases, new : SUBSET Devices, added : SUBSET Devices, removed : SUBSET Devices]]
      BY <1>0, <1>1 DEF DvFacts, Bridge!TypeOK, Phases, Bridge!Idle, Bridge!Plug
    <3>2. Bridge!TypeOK'
      BY <1>0, <1>1 DEF DvFacts, Bridge!TypeOK, Bridge!Plug
    <3> QED
      BY <1>0, <1>1, <3>1, <3>2 DEF DvFacts, Bridge!Plug
  <2> QED
    BY <2>1, <2>2 DEF DvInv
<1>2. ASSUME NEW c \in Bridge!Refreshers, Bridge!Answer(c) PROVE DvInv'
  <2>1. DvFacts'
    <3>1. refresh' \in [Bridge!Refreshers -> [at : Phases, new : SUBSET Devices, added : SUBSET Devices, removed : SUBSET Devices]]
      BY <1>0, <1>2 DEF DvFacts, Bridge!TypeOK, Phases, Bridge!Idle, Bridge!Answer, Bridge!Answered
    <3>2. Bridge!TypeOK'
      BY <1>0, <1>2 DEF DvFacts, Bridge!TypeOK, Bridge!Answer, Bridge!Answered
    <3> QED
      BY <1>0, <1>2, <3>1, <3>2 DEF DvFacts, Bridge!Answer, Bridge!Answered
  <2>2. DvOwed'
    <3>1. \A d \in Devices : Adders(d)' = Adders(d) /\ Removers(d)' = Removers(d)
      BY <1>0, <1>2 DEF DvFacts, Adders, Removers, Bridge!Telling, Bridge!Answer, Bridge!Answered
    <3> QED
      BY <1>0, <1>2, <3>1 DEF DvOwed, Bridge!Answer, Bridge!Answered
  <2>3. DvTold'
    <3>1. \A d \in Devices : Adders(d)' = Adders(d) /\ Removers(d)' = Removers(d)
      BY <1>0, <1>2 DEF DvFacts, Adders, Removers, Bridge!Telling, Bridge!Answer, Bridge!Answered
    <3> QED
      BY <1>0, <1>2, <3>1 DEF DvTold, Bridge!Answer, Bridge!Answered
  <2>4. DvWatch'
    BY <1>0, <1>2 DEF DvWatch, DvFacts, Bridge!TypeOK, Adders, Removers, Bridge!Telling, Bridge!Answer, Bridge!Answered
  <2> QED
    BY <2>1, <2>2, <2>3, <2>4 DEF DvInv
<1>3. ASSUME NEW c \in Bridge!Refreshers, Bridge!AnswerCut(c) PROVE DvInv'
  <2>1. DvFacts'
    <3>1. refresh' \in [Bridge!Refreshers -> [at : Phases, new : SUBSET Devices, added : SUBSET Devices, removed : SUBSET Devices]]
      BY <1>0, <1>3 DEF DvFacts, Bridge!TypeOK, Phases, Bridge!Idle, Bridge!AnswerCut, Bridge!Answered
    <3>2. Bridge!TypeOK'
      BY <1>0, <1>3 DEF DvFacts, Bridge!TypeOK, Bridge!AnswerCut, Bridge!Answered
    <3> QED
      BY <1>0, <1>3, <3>1, <3>2 DEF DvFacts, Bridge!AnswerCut, Bridge!Answered
  <2>2. DvOwed'
    <3>1. \A d \in Devices : Adders(d)' = Adders(d) /\ Removers(d)' = Removers(d)
      BY <1>0, <1>3 DEF DvFacts, Adders, Removers, Bridge!Telling, Bridge!AnswerCut, Bridge!Answered
    <3> QED
      BY <1>0, <1>3, <3>1 DEF DvOwed, Bridge!AnswerCut, Bridge!Answered
  <2>3. DvTold'
    <3>1. \A d \in Devices : Adders(d)' = Adders(d) /\ Removers(d)' = Removers(d)
      BY <1>0, <1>3 DEF DvFacts, Adders, Removers, Bridge!Telling, Bridge!AnswerCut, Bridge!Answered
    <3> QED
      BY <1>0, <1>3, <3>1 DEF DvTold, Bridge!AnswerCut, Bridge!Answered
  <2>4. DvWatch'
    BY <1>0, <1>3 DEF DvWatch, DvFacts, Bridge!TypeOK, Adders, Removers, Bridge!Telling, Bridge!AnswerCut, Bridge!Answered
  <2> QED
    BY <2>1, <2>2, <2>3, <2>4 DEF DvInv
<1>4. ASSUME NEW c \in Bridge!Refreshers, Bridge!AskFails(c) PROVE DvInv'
  <2>1. DvFacts'
    <3>1. refresh' \in [Bridge!Refreshers -> [at : Phases, new : SUBSET Devices, added : SUBSET Devices, removed : SUBSET Devices]]
      BY <1>0, <1>4 DEF DvFacts, Bridge!TypeOK, Phases, Bridge!Idle, Bridge!AskFails, Bridge!Idle
    <3>2. Bridge!TypeOK'
      BY <1>0, <1>4 DEF DvFacts, Bridge!TypeOK, Bridge!AskFails, Bridge!Idle
    <3> QED
      BY <1>0, <1>4, <3>1, <3>2 DEF DvFacts, Bridge!AskFails, Bridge!Idle
  <2>2. DvOwed'
    <3>1. \A d \in Devices : Adders(d)' = Adders(d) /\ Removers(d)' = Removers(d)
      BY <1>0, <1>4 DEF DvFacts, Adders, Removers, Bridge!Telling, Bridge!AskFails, Bridge!Idle
    <3> QED
      BY <1>0, <1>4, <3>1 DEF DvOwed, Bridge!AskFails, Bridge!Idle
  <2>3. DvTold'
    <3>1. \A d \in Devices : Adders(d)' = Adders(d) /\ Removers(d)' = Removers(d)
      BY <1>0, <1>4 DEF DvFacts, Adders, Removers, Bridge!Telling, Bridge!AskFails, Bridge!Idle
    <3> QED
      BY <1>0, <1>4, <3>1 DEF DvTold, Bridge!AskFails, Bridge!Idle
  <2>4. DvWatch'
    BY <1>0, <1>4 DEF DvWatch, DvFacts, Bridge!TypeOK, Adders, Removers, Bridge!Telling, Bridge!AskFails, Bridge!Idle
  <2> QED
    BY <2>1, <2>2, <2>3, <2>4 DEF DvInv
<1>5. ASSUME NEW c \in Bridge!Refreshers, Bridge!Exchange(c) PROVE DvInv'
  <2>1. DvFacts'
    <3>1. refresh' \in [Bridge!Refreshers -> [at : Phases, new : SUBSET Devices, added : SUBSET Devices, removed : SUBSET Devices]]
      BY <1>0, <1>5 DEF DvFacts, Bridge!TypeOK, Phases, Bridge!Idle, Bridge!Exchange, Bridge!Idle, Bridge!Previous
    <3>2. Bridge!TypeOK'
      BY <1>0, <1>5 DEF DvFacts, Bridge!TypeOK, Bridge!Exchange, Bridge!Idle, Bridge!Previous
    <3> QED
      BY <1>0, <1>5, <3>1, <3>2 DEF DvFacts, Bridge!Exchange, Bridge!Idle, Bridge!Previous
  <2>2. DvOwed'
    <3>1. CASE Bridge!HasContext
      <4>1. \A d \in Devices : /\ Adders(d)' \in {Adders(d), Adders(d) \cup {c}}
                              /\ Removers(d)' \in {Removers(d), Removers(d) \cup {c}}
        BY <1>0, <1>5, <3>1 DEF DvFacts, Adders, Removers, Bridge!Telling, Bridge!Exchange
      <4>2. \A d \in Devices : IsFiniteSet(Adders(d) \cup {c}) /\ IsFiniteSet(Removers(d) \cup {c})
        BY <1>0, FS_AddElement DEF DvOwed
      <4> QED
        BY <1>0, <4>1, <4>2 DEF DvOwed
    <3>2. CASE ~Bridge!HasContext
      <4>1. \A d \in Devices : Adders(d)' = Adders(d) /\ Removers(d)' = Removers(d)
        BY <1>0, <1>5, <3>2 DEF DvFacts, Adders, Removers, Bridge!Telling, Bridge!Exchange, Bridge!Idle
      <4> QED
        BY <1>0, <4>1 DEF DvOwed
    <3> QED
      BY <3>1, <3>2
  <2>3. DvTold'
    <3>1. CASE Bridge!HasContext
      <4> SUFFICES ASSUME ~unheard, NEW d \in Devices
                   PROVE  told'[d] + Cardinality(Adders(d)')
                            = (IF d \in snapshot' THEN 1 ELSE 0) + Cardinality(Removers(d)')
        BY <1>5, <3>1 DEF DvTold, Bridge!Exchange
      <4>1. snapshot' = refresh[c].new /\ told' = told
        BY <1>5 DEF Bridge!Exchange
      <4>2. c \notin Adders(d) /\ c \notin Removers(d)
        BY <1>5 DEF Bridge!Exchange, Adders, Removers, Bridge!Telling
      <4>3. Adders(d)' = IF d \in refresh[c].new \ snapshot THEN Adders(d) \cup {c} ELSE Adders(d)
        BY <1>0, <1>5, <3>1 DEF DvFacts, Adders, Bridge!Telling, Bridge!Exchange, Bridge!Previous
      <4>4. Removers(d)' = IF d \in snapshot \ refresh[c].new THEN Removers(d) \cup {c} ELSE Removers(d)
        BY <1>0, <1>5, <3>1 DEF DvFacts, Removers, Bridge!Telling, Bridge!Exchange, Bridge!Previous
      <4>5. /\ Cardinality(Adders(d) \cup {c}) = Cardinality(Adders(d)) + 1
            /\ Cardinality(Removers(d) \cup {c}) = Cardinality(Removers(d)) + 1
        BY <1>0, <4>2, FS_AddElement DEF DvOwed
      <4>6. Cardinality(Adders(d)) \in Nat /\ Cardinality(Removers(d)) \in Nat /\ told[d] \in Int
        BY <1>0, FS_CardinalityType DEF DvOwed, DvFacts, Bridge!TypeOK
      <4> QED
        BY <1>0, <4>1, <4>3, <4>4, <4>5, <4>6 DEF DvTold
    <3>2. CASE ~Bridge!HasContext
      BY <1>5, <3>2 DEF DvTold, Bridge!Exchange
    <3> QED
      BY <3>1, <3>2
  <2>4. DvWatch'
    BY <1>0, <1>5 DEF DvWatch, DvFacts, Bridge!TypeOK, Adders, Removers, Bridge!Telling, Bridge!Exchange, Bridge!Idle, Bridge!Previous
  <2> QED
    BY <2>1, <2>2, <2>3, <2>4 DEF DvInv
<1>6. ASSUME NEW c \in Bridge!Refreshers, Bridge!TellAdded(c) PROVE DvInv'
  <2>1. DvFacts'
    <3>1. refresh' \in [Bridge!Refreshers -> [at : Phases, new : SUBSET Devices, added : SUBSET Devices, removed : SUBSET Devices]]
      BY <1>0, <1>6 DEF DvFacts, Bridge!TypeOK, Phases, Bridge!Idle, Bridge!TellAdded
    <3>2. Bridge!TypeOK'
      BY <1>0, <1>6 DEF DvFacts, Bridge!TypeOK, Bridge!TellAdded
    <3> QED
      BY <1>0, <1>6, <3>1, <3>2 DEF DvFacts, Bridge!TellAdded
  <2>2. DvOwed'
    <3>1. PICK x \in refresh[c].added :
             told' = [told EXCEPT ![x] = @ + 1] /\ refresh' = [refresh EXCEPT ![c].added = @ \ {x}]
      BY <1>6 DEF Bridge!TellAdded
    <3>2. x \in Devices /\ c \in Adders(x)
      BY <1>0, <1>6, <3>1 DEF Bridge!TellAdded, DvFacts, Adders, Bridge!Telling
    <3>3. \A d \in Devices : Adders(d)' = IF d = x THEN Adders(d) \ {c} ELSE Adders(d)
      BY <1>0, <1>6, <3>1 DEF Bridge!TellAdded, DvFacts, Adders, Bridge!Telling
    <3>4. \A d \in Devices : Removers(d)' = Removers(d)
      BY <1>0, <1>6, <3>1 DEF Bridge!TellAdded, DvFacts, Removers, Bridge!Telling
    <3> QED
      BY <1>0, <3>3, <3>4, FS_RemoveElement DEF DvOwed
  <2>3. DvTold'
    <3>1. PICK x \in refresh[c].added :
             told' = [told EXCEPT ![x] = @ + 1] /\ refresh' = [refresh EXCEPT ![c].added = @ \ {x}]
      BY <1>6 DEF Bridge!TellAdded
    <3>2. x \in Devices /\ c \in Adders(x)
      BY <1>0, <1>6, <3>1 DEF Bridge!TellAdded, DvFacts, Adders, Bridge!Telling
    <3>3. \A d \in Devices : Adders(d)' = IF d = x THEN Adders(d) \ {c} ELSE Adders(d)
      BY <1>0, <1>6, <3>1 DEF Bridge!TellAdded, DvFacts, Adders, Bridge!Telling
    <3>4. \A d \in Devices : Removers(d)' = Removers(d)
      BY <1>0, <1>6, <3>1 DEF Bridge!TellAdded, DvFacts, Removers, Bridge!Telling
    <3>5. Cardinality(Adders(x) \ {c}) = Cardinality(Adders(x)) - 1
      BY <1>0, <3>2, FS_RemoveElement DEF DvOwed
    <3>6. \A d \in Devices : /\ Cardinality(Adders(d)) \in Nat /\ Cardinality(Removers(d)) \in Nat
                            /\ told[d] \in Int
      BY <1>0, FS_CardinalityType DEF DvOwed, DvFacts, Bridge!TypeOK
    <3>7. snapshot' = snapshot /\ unheard' = unheard /\ \A d \in Devices : told'[d] = IF d = x THEN told[d] + 1 ELSE told[d]
      BY <1>0, <1>6, <3>1 DEF Bridge!TellAdded, DvFacts, Bridge!TypeOK
    <3> SUFFICES ASSUME ~unheard, NEW d \in Devices
                 PROVE  told'[d] + Cardinality(Adders(d)')
                          = (IF d \in snapshot THEN 1 ELSE 0) + Cardinality(Removers(d)')
      BY <3>7 DEF DvTold
    <3>8. told[d] + Cardinality(Adders(d)) = (IF d \in snapshot THEN 1 ELSE 0) + Cardinality(Removers(d))
      BY <1>0 DEF DvTold
    <3>9. CASE d = x
      <4>1. Cardinality(Adders(x)') = Cardinality(Adders(x)) - 1 /\ Cardinality(Removers(x)') = Cardinality(Removers(x))
        BY <3>2, <3>3, <3>4, <3>5
      <4> QED
        BY <3>6, <3>7, <3>8, <3>9, <4>1
    <3>10. CASE d # x
      BY <3>3, <3>4, <3>6, <3>7, <3>8, <3>10
    <3> QED
      BY <3>9, <3>10
  <2>4. DvWatch'
    BY <1>0, <1>6 DEF DvWatch, DvFacts, Bridge!TypeOK, Adders, Removers, Bridge!Telling, Bridge!TellAdded
  <2> QED
    BY <2>1, <2>2, <2>3, <2>4 DEF DvInv
<1>7. ASSUME NEW c \in Bridge!Refreshers, Bridge!TellRemoved(c) PROVE DvInv'
  <2>1. DvFacts'
    <3>1. refresh' \in [Bridge!Refreshers -> [at : Phases, new : SUBSET Devices, added : SUBSET Devices, removed : SUBSET Devices]]
      BY <1>0, <1>7 DEF DvFacts, Bridge!TypeOK, Phases, Bridge!Idle, Bridge!TellRemoved
    <3>2. Bridge!TypeOK'
      BY <1>0, <1>7 DEF DvFacts, Bridge!TypeOK, Bridge!TellRemoved
    <3> QED
      BY <1>0, <1>7, <3>1, <3>2 DEF DvFacts, Bridge!TellRemoved
  <2>2. DvOwed'
    <3>1. PICK x \in refresh[c].removed :
             told' = [told EXCEPT ![x] = @ - 1] /\ refresh' = [refresh EXCEPT ![c].removed = @ \ {x}]
      BY <1>7 DEF Bridge!TellRemoved
    <3>2. x \in Devices /\ c \in Removers(x)
      BY <1>0, <1>7, <3>1 DEF Bridge!TellRemoved, DvFacts, Removers, Bridge!Telling
    <3>3. \A d \in Devices : Removers(d)' = IF d = x THEN Removers(d) \ {c} ELSE Removers(d)
      BY <1>0, <1>7, <3>1 DEF Bridge!TellRemoved, DvFacts, Removers, Bridge!Telling
    <3>4. \A d \in Devices : Adders(d)' = Adders(d)
      BY <1>0, <1>7, <3>1 DEF Bridge!TellRemoved, DvFacts, Adders, Bridge!Telling
    <3> QED
      BY <1>0, <3>3, <3>4, FS_RemoveElement DEF DvOwed
  <2>3. DvTold'
    <3>1. PICK x \in refresh[c].removed :
             told' = [told EXCEPT ![x] = @ - 1] /\ refresh' = [refresh EXCEPT ![c].removed = @ \ {x}]
      BY <1>7 DEF Bridge!TellRemoved
    <3>2. x \in Devices /\ c \in Removers(x)
      BY <1>0, <1>7, <3>1 DEF Bridge!TellRemoved, DvFacts, Removers, Bridge!Telling
    <3>3. \A d \in Devices : Removers(d)' = IF d = x THEN Removers(d) \ {c} ELSE Removers(d)
      BY <1>0, <1>7, <3>1 DEF Bridge!TellRemoved, DvFacts, Removers, Bridge!Telling
    <3>4. \A d \in Devices : Adders(d)' = Adders(d)
      BY <1>0, <1>7, <3>1 DEF Bridge!TellRemoved, DvFacts, Adders, Bridge!Telling
    <3>5. Cardinality(Removers(x) \ {c}) = Cardinality(Removers(x)) - 1
      BY <1>0, <3>2, FS_RemoveElement DEF DvOwed
    <3>6. \A d \in Devices : /\ Cardinality(Adders(d)) \in Nat /\ Cardinality(Removers(d)) \in Nat
                            /\ told[d] \in Int
      BY <1>0, FS_CardinalityType DEF DvOwed, DvFacts, Bridge!TypeOK
    <3>7. snapshot' = snapshot /\ unheard' = unheard /\ \A d \in Devices : told'[d] = IF d = x THEN told[d] - 1 ELSE told[d]
      BY <1>0, <1>7, <3>1 DEF Bridge!TellRemoved, DvFacts, Bridge!TypeOK
    <3> SUFFICES ASSUME ~unheard, NEW d \in Devices
                 PROVE  told'[d] + Cardinality(Adders(d)')
                          = (IF d \in snapshot THEN 1 ELSE 0) + Cardinality(Removers(d)')
      BY <3>7 DEF DvTold
    <3>8. told[d] + Cardinality(Adders(d)) = (IF d \in snapshot THEN 1 ELSE 0) + Cardinality(Removers(d))
      BY <1>0 DEF DvTold
    <3>9. CASE d = x
      <4>1. Cardinality(Removers(x)') = Cardinality(Removers(x)) - 1 /\ Cardinality(Adders(x)') = Cardinality(Adders(x))
        BY <3>2, <3>3, <3>4, <3>5
      <4> QED
        BY <3>6, <3>7, <3>8, <3>9, <4>1
    <3>10. CASE d # x
      BY <3>3, <3>4, <3>6, <3>7, <3>8, <3>10
    <3> QED
      BY <3>9, <3>10
  <2>4. DvWatch'
    BY <1>0, <1>7 DEF DvWatch, DvFacts, Bridge!TypeOK, Adders, Removers, Bridge!Telling, Bridge!TellRemoved
  <2> QED
    BY <2>1, <2>2, <2>3, <2>4 DEF DvInv
<1>8. ASSUME NEW c \in Bridge!Refreshers, Bridge!Refreshed(c) PROVE DvInv'
  <2>1. DvFacts'
    <3>1. refresh' \in [Bridge!Refreshers -> [at : Phases, new : SUBSET Devices, added : SUBSET Devices, removed : SUBSET Devices]]
      BY <1>0, <1>8 DEF DvFacts, Bridge!TypeOK, Phases, Bridge!Idle, Bridge!Refreshed, Bridge!Idle
    <3>2. Bridge!TypeOK'
      BY <1>0, <1>8 DEF DvFacts, Bridge!TypeOK, Bridge!Refreshed, Bridge!Idle
    <3> QED
      BY <1>0, <1>8, <3>1, <3>2 DEF DvFacts, Bridge!Refreshed, Bridge!Idle
  <2>2. DvOwed'
    <3>1. \A d \in Devices : Adders(d)' = Adders(d) /\ Removers(d)' = Removers(d)
      BY <1>0, <1>8 DEF DvFacts, Adders, Removers, Bridge!Telling, Bridge!Refreshed, Bridge!Idle
    <3> QED
      BY <1>0, <1>8, <3>1 DEF DvOwed, Bridge!Refreshed, Bridge!Idle
  <2>3. DvTold'
    <3>1. \A d \in Devices : Adders(d)' = Adders(d) /\ Removers(d)' = Removers(d)
      BY <1>0, <1>8 DEF DvFacts, Adders, Removers, Bridge!Telling, Bridge!Refreshed, Bridge!Idle
    <3> QED
      BY <1>0, <1>8, <3>1 DEF DvTold, Bridge!Refreshed, Bridge!Idle
  <2>4. DvWatch'
    BY <1>0, <1>8 DEF DvWatch, DvFacts, Bridge!TypeOK, Adders, Removers, Bridge!Telling, Bridge!Refreshed, Bridge!Idle
  <2> QED
    BY <2>1, <2>2, <2>3, <2>4 DEF DvInv
<1>9. ASSUME NEW c \in Refreshing, Bridge!CallRefresh(c) PROVE DvInv'
  <2>1. DvFacts'
    <3>1. refresh' \in [Bridge!Refreshers -> [at : Phases, new : SUBSET Devices, added : SUBSET Devices, removed : SUBSET Devices]]
      BY <1>0, <1>9 DEF DvFacts, Bridge!TypeOK, Phases, Bridge!Idle, Bridge!CallRefresh, Bridge!Ask
    <3>2. Bridge!TypeOK'
      BY <1>0, <1>9 DEF DvFacts, Bridge!TypeOK, Bridge!CallRefresh, Bridge!Ask
    <3> QED
      BY <1>0, <1>9, <3>1, <3>2 DEF DvFacts, Bridge!CallRefresh, Bridge!Ask
  <2>2. DvOwed'
    <3>1. \A d \in Devices : Adders(d)' = Adders(d) /\ Removers(d)' = Removers(d)
      BY <1>0, <1>9 DEF DvFacts, Adders, Removers, Bridge!Telling, Bridge!CallRefresh, Bridge!Ask
    <3> QED
      BY <1>0, <1>9, <3>1 DEF DvOwed, Bridge!CallRefresh, Bridge!Ask
  <2>3. DvTold'
    <3>1. \A d \in Devices : Adders(d)' = Adders(d) /\ Removers(d)' = Removers(d)
      BY <1>0, <1>9 DEF DvFacts, Adders, Removers, Bridge!Telling, Bridge!CallRefresh, Bridge!Ask
    <3> QED
      BY <1>0, <1>9, <3>1 DEF DvTold, Bridge!CallRefresh, Bridge!Ask
  <2>4. DvWatch'
    BY <1>0, <1>9 DEF DvWatch, DvFacts, Bridge!TypeOK, Adders, Removers, Bridge!Telling, Bridge!CallRefresh, Bridge!Ask
  <2> QED
    BY <2>1, <2>2, <2>3, <2>4 DEF DvInv
<1>10. CASE Bridge!TimerRuns
  <2>1. DvFacts'
    <3>1. refresh' \in [Bridge!Refreshers -> [at : Phases, new : SUBSET Devices, added : SUBSET Devices, removed : SUBSET Devices]]
      BY <1>0, <1>10 DEF DvFacts, Bridge!TypeOK, Phases, Bridge!Idle, Bridge!TimerRuns, Bridge!Ask
    <3>2. Bridge!TypeOK'
      BY <1>0, <1>10 DEF DvFacts, Bridge!TypeOK, Bridge!TimerRuns, Bridge!Ask
    <3> QED
      BY <1>0, <1>10, <3>1, <3>2 DEF DvFacts, Bridge!TimerRuns, Bridge!Ask
  <2>2. DvOwed'
    <3>1. \A d \in Devices : Adders(d)' = Adders(d) /\ Removers(d)' = Removers(d)
      BY <1>0, <1>10 DEF DvFacts, Adders, Removers, Bridge!Telling, Bridge!TimerRuns, Bridge!Ask
    <3> QED
      BY <1>0, <1>10, <3>1 DEF DvOwed, Bridge!TimerRuns, Bridge!Ask
  <2>3. DvTold'
    <3>1. \A d \in Devices : Adders(d)' = Adders(d) /\ Removers(d)' = Removers(d)
      BY <1>0, <1>10 DEF DvFacts, Adders, Removers, Bridge!Telling, Bridge!TimerRuns, Bridge!Ask
    <3> QED
      BY <1>0, <1>10, <3>1 DEF DvTold, Bridge!TimerRuns, Bridge!Ask
  <2>4. DvWatch'
    BY <1>0, <1>10 DEF DvWatch, DvFacts, Bridge!TypeOK, Adders, Removers, Bridge!Telling, Bridge!TimerRuns, Bridge!Ask
  <2> QED
    BY <2>1, <2>2, <2>3, <2>4 DEF DvInv
<1>11. CASE Bridge!ThreadTicks
  <2>1. DvFacts'
    <3>1. refresh' \in [Bridge!Refreshers -> [at : Phases, new : SUBSET Devices, added : SUBSET Devices, removed : SUBSET Devices]]
      BY <1>0, <1>11 DEF DvFacts, Bridge!TypeOK, Phases, Bridge!Idle, Bridge!ThreadTicks, Bridge!Ask, Bridge!MayTick
    <3>2. Bridge!TypeOK'
      BY <1>0, <1>11 DEF DvFacts, Bridge!TypeOK, Bridge!ThreadTicks, Bridge!Ask, Bridge!MayTick
    <3> QED
      BY <1>0, <1>11, <3>1, <3>2 DEF DvFacts, Bridge!ThreadTicks, Bridge!Ask, Bridge!MayTick
  <2>2. DvOwed'
    <3>1. \A d \in Devices : Adders(d)' = Adders(d) /\ Removers(d)' = Removers(d)
      BY <1>0, <1>11 DEF DvFacts, Adders, Removers, Bridge!Telling, Bridge!ThreadTicks, Bridge!Ask, Bridge!MayTick
    <3> QED
      BY <1>0, <1>11, <3>1 DEF DvOwed, Bridge!ThreadTicks, Bridge!Ask, Bridge!MayTick
  <2>3. DvTold'
    <3>1. \A d \in Devices : Adders(d)' = Adders(d) /\ Removers(d)' = Removers(d)
      BY <1>0, <1>11 DEF DvFacts, Adders, Removers, Bridge!Telling, Bridge!ThreadTicks, Bridge!Ask, Bridge!MayTick
    <3> QED
      BY <1>0, <1>11, <3>1 DEF DvTold, Bridge!ThreadTicks, Bridge!Ask, Bridge!MayTick
  <2>4. DvWatch'
    BY <1>0, <1>11 DEF DvWatch, DvFacts, Bridge!TypeOK, Adders, Removers, Bridge!Telling, Bridge!ThreadTicks, Bridge!Ask, Bridge!MayTick
  <2> QED
    BY <2>1, <2>2, <2>3, <2>4 DEF DvInv
<1>12. CASE Bridge!ThreadTicked
  <2>1. DvOwed' /\ DvTold'
    BY <1>0, <1>12 DEF DvOwed, DvTold, Adders, Removers, Bridge!Telling, Bridge!TypeOK, Bridge!ThreadTicked
  <2>2. DvFacts'
    <3>1. refresh' \in [Bridge!Refreshers -> [at : Phases, new : SUBSET Devices, added : SUBSET Devices, removed : SUBSET Devices]]
      BY <1>0, <1>12 DEF DvFacts, Bridge!TypeOK, Phases, Bridge!Idle, Bridge!ThreadTicked
    <3>2. Bridge!TypeOK'
      BY <1>0, <1>12 DEF DvFacts, Bridge!TypeOK, Bridge!ThreadTicked
    <3> QED
      BY <1>0, <1>12, <3>1, <3>2 DEF DvFacts, Bridge!ThreadTicked
  <2>3. DvWatch'
    BY <1>0, <1>12 DEF DvWatch, DvFacts, Bridge!TypeOK, Adders, Removers, Bridge!Telling, Bridge!ThreadTicked
  <2> QED
    BY <2>1, <2>2, <2>3 DEF DvInv
<1>13. CASE Bridge!ThreadEnds
  <2>1. DvOwed' /\ DvTold'
    BY <1>0, <1>13 DEF DvOwed, DvTold, Adders, Removers, Bridge!Telling, Bridge!TypeOK, Bridge!ThreadEnds
  <2>2. DvFacts'
    <3>1. refresh' \in [Bridge!Refreshers -> [at : Phases, new : SUBSET Devices, added : SUBSET Devices, removed : SUBSET Devices]]
      BY <1>0, <1>13 DEF DvFacts, Bridge!TypeOK, Phases, Bridge!Idle, Bridge!ThreadEnds
    <3>2. Bridge!TypeOK'
      BY <1>0, <1>13 DEF DvFacts, Bridge!TypeOK, Bridge!ThreadEnds
    <3> QED
      BY <1>0, <1>13, <3>1, <3>2 DEF DvFacts, Bridge!ThreadEnds
  <2>3. DvWatch'
    BY <1>0, <1>13 DEF DvWatch, DvFacts, Bridge!TypeOK, Adders, Removers, Bridge!Telling, Bridge!ThreadEnds
  <2> QED
    BY <2>1, <2>2, <2>3 DEF DvInv
<1>14. CASE Bridge!StartDeviceWatch
  <2>1. DvOwed' /\ DvTold'
    BY <1>0, <1>14 DEF DvOwed, DvTold, Adders, Removers, Bridge!Telling, Bridge!TypeOK, Bridge!StartDeviceWatch, Bridge!Watch, Bridge!OnTimer, Bridge!OnThread
  <2>2. DvFacts'
    <3>1. refresh' \in [Bridge!Refreshers -> [at : Phases, new : SUBSET Devices, added : SUBSET Devices, removed : SUBSET Devices]]
      BY <1>0, <1>14 DEF DvFacts, Bridge!TypeOK, Phases, Bridge!Idle, Bridge!StartDeviceWatch, Bridge!Watch, Bridge!OnTimer, Bridge!OnThread
    <3>2. Bridge!TypeOK'
      BY <1>0, <1>14 DEF DvFacts, Bridge!TypeOK, Bridge!StartDeviceWatch, Bridge!Watch, Bridge!OnTimer, Bridge!OnThread
    <3> QED
      BY <1>0, <1>14, <3>1, <3>2 DEF DvFacts, Bridge!StartDeviceWatch, Bridge!Watch, Bridge!OnTimer, Bridge!OnThread
  <2>3. DvWatch'
    BY <1>0, <1>14 DEF DvWatch, DvFacts, Bridge!TypeOK, Adders, Removers, Bridge!Telling, Bridge!StartDeviceWatch, Bridge!Watch, Bridge!OnTimer, Bridge!OnThread
  <2> QED
    BY <2>1, <2>2, <2>3 DEF DvInv
<1>15. CASE Bridge!OnInit
  <2>1. DvOwed' /\ DvTold' /\ DvWatch'
    BY <1>0, <1>15 DEF DvOwed, DvTold, DvWatch, Adders, Removers, Bridge!Telling, Bridge!TypeOK, Bridge!OnInit
  <2>2. DvFacts'
    <3>1. refresh' \in [Bridge!Refreshers -> [at : Phases, new : SUBSET Devices, added : SUBSET Devices, removed : SUBSET Devices]]
      BY <1>0, <1>15 DEF DvFacts, Bridge!TypeOK, Phases, Bridge!Idle, Bridge!OnInit
    <3>2. Bridge!TypeOK'
      BY <1>0, <1>15 DEF DvFacts, Bridge!TypeOK, Bridge!OnInit
    <3> QED
      BY <1>0, <1>15, <3>1, <3>2 DEF DvFacts, Bridge!OnInit
  <2> QED
    BY <2>1, <2>2 DEF DvInv
<1>16. CASE Bridge!OnStart
  <2>1. DvOwed' /\ DvTold'
    BY <1>0, <1>16 DEF DvOwed, DvTold, Adders, Removers, Bridge!Telling, Bridge!TypeOK, Bridge!OnStart, Bridge!Watch, Bridge!OnTimer, Bridge!OnThread
  <2>2. DvFacts'
    <3>1. refresh' \in [Bridge!Refreshers -> [at : Phases, new : SUBSET Devices, added : SUBSET Devices, removed : SUBSET Devices]]
      BY <1>0, <1>16 DEF DvFacts, Bridge!TypeOK, Phases, Bridge!Idle, Bridge!OnStart, Bridge!Watch, Bridge!OnTimer, Bridge!OnThread
    <3>2. Bridge!TypeOK'
      BY <1>0, <1>16 DEF DvFacts, Bridge!TypeOK, Bridge!OnStart, Bridge!Watch, Bridge!OnTimer, Bridge!OnThread
    <3> QED
      BY <1>0, <1>16, <3>1, <3>2 DEF DvFacts, Bridge!OnStart, Bridge!Watch, Bridge!OnTimer, Bridge!OnThread
  <2>3. DvWatch'
    <3>1. CASE Bridge!Watch
      <4>1. stopping' = "no" /\ adbActive'
        BY <1>16, <3>1 DEF Bridge!OnStart, Bridge!Watch
      <4>2. (adbTimer' <=> usingTimer') /\ (adbTimer' => ~adbRunning')
        BY <1>0, <3>1 DEF DvWatch, Bridge!Watch, Bridge!OnTimer, Bridge!OnThread
      <4> QED
        BY <4>1, <4>2 DEF DvWatch
    <3>2. CASE UNCHANGED <<Bridge!watch, starts>>
      BY <1>0, <1>16, <3>2 DEF DvWatch, Bridge!OnStart
    <3> QED
      BY <1>16, <3>1, <3>2 DEF Bridge!OnStart
  <2> QED
    BY <2>1, <2>2, <2>3 DEF DvInv
<1>17. ASSUME NEW why \in {"call", "onStop", "destructor"}, Bridge!StopWatch(why) PROVE DvInv'
  <2>1. DvOwed' /\ DvTold'
    BY <1>0, <1>17 DEF DvOwed, DvTold, Adders, Removers, Bridge!Telling, Bridge!TypeOK, Bridge!StopWatch
  <2>2. DvFacts'
    <3>1. refresh' \in [Bridge!Refreshers -> [at : Phases, new : SUBSET Devices, added : SUBSET Devices, removed : SUBSET Devices]]
      BY <1>0, <1>17 DEF DvFacts, Bridge!TypeOK, Phases, Bridge!Idle, Bridge!StopWatch
    <3>2. Bridge!TypeOK'
      BY <1>0, <1>17 DEF DvFacts, Bridge!TypeOK, Bridge!StopWatch
    <3> QED
      BY <1>0, <1>17, <3>1, <3>2 DEF DvFacts, Bridge!StopWatch
  <2>3. DvWatch'
    <3>1. ~adbTimer' /\ ~adbRunning' /\ ~usingTimer'
      BY <1>0, <1>17 DEF DvWatch, Bridge!StopWatch
    <3> QED
      BY <1>0, <1>17, <3>1 DEF DvWatch, Bridge!StopWatch
  <2> QED
    BY <2>1, <2>2, <2>3 DEF DvInv
<1>18. CASE Bridge!WatchStopped
  <2>1. DvOwed' /\ DvTold'
    BY <1>0, <1>18 DEF DvOwed, DvTold, Adders, Removers, Bridge!Telling, Bridge!TypeOK, Bridge!WatchStopped, Bridge!Quiet
  <2>2. DvFacts'
    <3>1. refresh' \in [Bridge!Refreshers -> [at : Phases, new : SUBSET Devices, added : SUBSET Devices, removed : SUBSET Devices]]
      BY <1>0, <1>18 DEF DvFacts, Bridge!TypeOK, Phases, Bridge!Idle, Bridge!WatchStopped, Bridge!Quiet
    <3>2. Bridge!TypeOK'
      BY <1>0, <1>18 DEF DvFacts, Bridge!TypeOK, Bridge!WatchStopped, Bridge!Quiet
    <3> QED
      BY <1>0, <1>18, <3>1, <3>2 DEF DvFacts, Bridge!WatchStopped, Bridge!Quiet
  <2>3. DvWatch'
    BY <1>0, <1>18 DEF DvWatch, DvFacts, Bridge!TypeOK, Adders, Removers, Bridge!Telling, Bridge!WatchStopped, Bridge!Quiet
  <2> QED
    BY <2>1, <2>2, <2>3 DEF DvInv
<1>19. CASE Bridge!OnShutdown
  <2>1. DvOwed' /\ DvTold' /\ DvWatch'
    BY <1>0, <1>19 DEF DvOwed, DvTold, DvWatch, Adders, Removers, Bridge!Telling, Bridge!TypeOK, Bridge!OnShutdown
  <2>2. DvFacts'
    <3>1. refresh' \in [Bridge!Refreshers -> [at : Phases, new : SUBSET Devices, added : SUBSET Devices, removed : SUBSET Devices]]
      BY <1>0, <1>19 DEF DvFacts, Bridge!TypeOK, Phases, Bridge!Idle, Bridge!OnShutdown
    <3>2. Bridge!TypeOK'
      BY <1>0, <1>19 DEF DvFacts, Bridge!TypeOK, Bridge!OnShutdown
    <3> QED
      BY <1>0, <1>19, <3>1, <3>2 DEF DvFacts, Bridge!OnShutdown
  <2> QED
    BY <2>1, <2>2 DEF DvInv
<1>20. CASE UNCHANGED Bridge!vars
  BY <1>0, <1>20 DEF DvInv, Bridge!vars, DvFacts, DvOwed, DvTold, DvWatch, Adders, Removers, Bridge!Telling, Bridge!TypeOK
<1> QED
  BY <1>1, <1>2, <1>3, <1>4, <1>5, <1>6, <1>7, <1>8, <1>9, <1>10, <1>11, <1>12, <1>13, <1>14, <1>15, <1>16, <1>17, <1>18, <1>19, <1>20 DEF Bridge!Next, Bridge!Ticks, Bridge!Owner, Bridge!RefreshStep, Bridge!StopDeviceWatch, Bridge!OnStop, Bridge!Destroy

\* From it: whoever counts the events knows the snapshot, and after stopDeviceWatch()
\* no tick runs or is still to come.
LEMMA DvSafe == DvInv => Bridge!Inv
<1> SUFFICES ASSUME DvInv PROVE Bridge!Inv
  OBVIOUS
<1>1. Bridge!TypeOK /\ Bridge!StoppedIsQuiet
  BY DEF DvInv, DvFacts, DvWatch, Bridge!StoppedIsQuiet
<1>2. Bridge!EventsAddUp
  <2> SUFFICES ASSUME \A c \in Bridge!Refreshers : ~Bridge!Telling(c), ~unheard, NEW d \in Devices
               PROVE  told[d] = IF d \in snapshot THEN 1 ELSE 0
    BY DEF Bridge!EventsAddUp, Bridge!Heard
  <2>1. Adders(d) = {} /\ Removers(d) = {}
    BY DEF Adders, Removers
  <2>2. told[d] + 0 = (IF d \in snapshot THEN 1 ELSE 0) + 0 /\ told[d] \in Int
    BY <2>1, FS_EmptySet DEF DvInv, DvTold, DvFacts, Bridge!TypeOK
  <2> QED
    BY <2>2
<1> QED
  BY <1>1, <1>2 DEF Bridge!Inv

-----------------------------------------------------------------------------
\* The logcats.

Alive == {"running", "exited"}
Holders == Callers \cup {Logcat!Module}
LcFacts ==
    /\ Logcat!TypeOK
    /\ logcatReader \in [Logcats -> {"blocked", "calling", "telling", "done"}]
    /\ logcatWaiter \in [Logcats -> {"blocked", "telling", "done"}]
    /\ logcatCaller \in [Callers -> {"idle", "looking", "reaping", "spawning", "hooking", "entering", "destroying"}]
    /\ logcatHeld \in [Holders -> Logcats \cup {None}]
    /\ logcatOwner \in {"up", "stopping", "stopped", "destroying", "gone"}
    /\ overlapped \in BOOLEAN

\* Which calls hold a process, and who holds the mutex across steps.
LcCalls ==
    /\ \A c \in Callers : logcatHeld[c] = None <=> logcatCaller[c] \in {"idle", "looking", "spawning"}
    /\ logcatOwner \notin {"stopping", "destroying"} => logcatHeld[Logcat!Module] = None
    /\ \A c \in Callers : mutex = c <=> logcatCaller[c] = "reaping"
    /\ logcatOwner \in {"destroying", "gone"} => entry = None /\ \A c \in Callers : logcatCaller[c] = "idle"

\* Each process that lives has one keeper, and who keeps one keeps a living one.
LcKept ==
    /\ \A x \in Holders : logcatHeld[x] # None => logcatProcess[logcatHeld[x]] \in Alive /\ logcatHeld[x] # entry
    /\ \A x, y \in Holders : logcatHeld[x] = logcatHeld[y] /\ logcatHeld[x] # None => x = y
    /\ entry # None => logcatProcess[entry] \in Alive
    /\ \A p \in Logcats : logcatProcess[p] \in Alive => entry = p \/ \E x \in Holders : logcatHeld[x] = p

\* A reader that still calls back is one of a process that is not freed.
LcReads == \A p \in Logcats : logcatReader[p] \in {"calling", "telling"} => logcatProcess[p] \in Alive

\* As long as no two calls overlapped, whoever works has emptied the table first.
LcAlone ==
    ~overlapped =>
        /\ logcatBuffer \subseteq {entry}
        /\ \A c, d \in Callers : logcatCaller[c] # "idle" /\ logcatCaller[d] # "idle" => c = d
        /\ logcatOwner \in {"stopping", "destroying"} => entry = None /\ \A c \in Callers : logcatCaller[c] = "idle"
        /\ \A c \in Callers : logcatCaller[c] \notin {"idle", "looking"} => entry = None

LcInv == LcFacts /\ LcCalls /\ LcKept /\ LcReads /\ LcAlone

\* Before its first step, the logcats (adb_module.cpp) satisfies the invariant.
LEMMA LcInit == Logcat!LogcatConstants /\ Logcat!Init => LcInv
<1> SUFFICES ASSUME Logcat!LogcatConstants, Logcat!Init PROVE LcInv
  OBVIOUS
<1> USE DEF Logcat!LogcatConstants, Logcat!Init
<1>1. LcFacts
  BY DEF LcFacts, Logcat!TypeOK, Holders
<1>2. LcCalls /\ LcReads /\ LcAlone
  BY DEF LcCalls, LcReads, LcAlone, Logcat!Module
<1>3. LcKept
  BY DEF LcKept, Alive, Holders
<1> QED
  BY <1>1, <1>2, <1>3 DEF LcInv

\* Each step of the logcats (adb_module.cpp) preserves the invariant, part by part.
LEMMA LcStep == Logcat!LogcatConstants /\ LcInv /\ [Logcat!Next]_(Logcat!vars) => LcInv'
<1> SUFFICES ASSUME Logcat!LogcatConstants, LcInv, [Logcat!Next]_(Logcat!vars) PROVE LcInv'
  OBVIOUS
<1> USE DEF Holders, Alive, Logcat!entries, Logcat!threads, Logcat!calls, Logcat!Module
<1>0. LcFacts /\ LcCalls /\ LcKept /\ LcReads /\ LcAlone
  BY DEF LcInv
<1>1. ASSUME NEW c \in Callers, Logcat!Start(c) PROVE LcInv'
  <2>1. LcKept' /\ LcReads'
    BY <1>0, <1>1 DEF LcKept, LcReads, Logcat!TypeOK, Logcat!Start, Logcat!Goto, Logcat!Idle, Logcat!Exists
  <2>2. LcFacts'
    BY <1>0, <1>1 DEF LcFacts, Logcat!TypeOK, Logcat!Start, Logcat!Goto, Logcat!Idle, Logcat!Exists
  <2>3. LcCalls'
    BY <1>0, <1>1 DEF LcCalls, LcFacts, Logcat!LogcatConstants, Logcat!TypeOK, Logcat!Start, Logcat!Goto, Logcat!Idle, Logcat!Exists
  <2>4. LcAlone'
    <3>1. CASE ~Logcat!Idle
      BY <1>1, <3>1 DEF LcAlone, Logcat!Start, Logcat!Goto
    <3>2. CASE Logcat!Idle
      <4>1. /\ \A d \in Callers : logcatCaller'[d] # "idle" => d = c
            /\ logcatOwner' \notin {"stopping", "destroying"} /\ logcatCaller'[c] = "looking"
        BY <1>0, <1>1, <3>2 DEF LcFacts, Logcat!Idle, Logcat!Start, Logcat!Goto
      <4>2. (~overlapped => logcatBuffer' \subseteq {entry'}) /\ (overlapped' = FALSE => ~overlapped)
        BY <1>0, <1>1 DEF LcAlone, LcFacts, Logcat!Start, Logcat!Goto
      <4>3. logcatCaller'[c] = "destroying" => entry' = None
        BY <1>1 DEF Logcat!Start, Logcat!Goto
      <4> QED
        BY <4>1, <4>2, <4>3 DEF LcAlone
    <3> QED
      BY <3>1, <3>2
  <2> QED
    BY <2>1, <2>2, <2>3, <2>4 DEF LcInv
<1>2. ASSUME NEW c \in Callers, Logcat!AlreadyRunning(c) PROVE LcInv'
  <2>1. LcKept' /\ LcReads'
    BY <1>0, <1>2 DEF LcKept, LcReads, Logcat!TypeOK, Logcat!AlreadyRunning, Logcat!Goto
  <2>2. LcFacts'
    BY <1>0, <1>2 DEF LcFacts, Logcat!TypeOK, Logcat!AlreadyRunning, Logcat!Goto
  <2>3. LcCalls'
    BY <1>0, <1>2 DEF LcCalls, LcFacts, Logcat!LogcatConstants, Logcat!TypeOK, Logcat!AlreadyRunning, Logcat!Goto
  <2>4. LcAlone'
    BY <1>0, <1>2 DEF LcAlone, LcFacts, LcCalls, LcKept, LcReads, Logcat!TypeOK, Logcat!AlreadyRunning, Logcat!Goto
  <2> QED
    BY <2>1, <2>2, <2>3, <2>4 DEF LcInv
<1>3. ASSUME NEW c \in Callers, Logcat!Unregistered(c) PROVE LcInv'
  <2>1. LcKept' /\ LcReads'
    BY <1>0, <1>3 DEF LcKept, LcReads, Logcat!TypeOK, Logcat!Unregistered, Logcat!Goto
  <2>2. LcFacts'
    BY <1>0, <1>3 DEF LcFacts, Logcat!TypeOK, Logcat!Unregistered, Logcat!Goto
  <2>3. LcCalls'
    BY <1>0, <1>3 DEF LcCalls, LcFacts, Logcat!LogcatConstants, Logcat!TypeOK, Logcat!Unregistered, Logcat!Goto
  <2>4. LcAlone'
    BY <1>0, <1>3 DEF LcAlone, LcFacts, LcCalls, LcKept, LcReads, Logcat!TypeOK, Logcat!Unregistered, Logcat!Goto
  <2> QED
    BY <2>1, <2>2, <2>3, <2>4 DEF LcInv
<1>4. ASSUME NEW c \in Callers, Logcat!Reap(c) PROVE LcInv'
  <2>1. LcReads'
    BY <1>0, <1>4 DEF LcReads, Logcat!TypeOK, Logcat!Reap, Logcat!Hold, Logcat!Goto, Logcat!Reapable
  <2>2. LcFacts'
    BY <1>0, <1>4 DEF LcFacts, Logcat!TypeOK, Logcat!Reap, Logcat!Hold, Logcat!Goto, Logcat!Reapable
  <2>3. LcCalls'
    BY <1>0, <1>4 DEF LcCalls, LcFacts, Logcat!LogcatConstants, Logcat!TypeOK, Logcat!Reap, Logcat!Hold, Logcat!Goto, Logcat!Reapable
  <2>4. LcKept'
    BY <1>0, <1>4 DEF LcKept, LcFacts, LcCalls, Logcat!LogcatConstants, Logcat!TypeOK, Logcat!Reap, Logcat!Hold, Logcat!Goto, Logcat!Reapable
  <2>5. LcAlone'
    BY <1>0, <1>4 DEF LcAlone, LcFacts, LcCalls, LcKept, LcReads, Logcat!TypeOK, Logcat!Reap, Logcat!Hold, Logcat!Goto, Logcat!Reapable
  <2> QED
    BY <2>1, <2>2, <2>3, <2>4, <2>5 DEF LcInv
<1>5. ASSUME NEW c \in Callers, Logcat!Reaped(c) PROVE LcInv'
  <2>1. LcFacts'
    BY <1>0, <1>5 DEF LcFacts, Logcat!TypeOK, Logcat!Reaped, Logcat!Joined, Logcat!Hold, Logcat!Goto
  <2>2. LcCalls'
    BY <1>0, <1>5 DEF LcCalls, LcFacts, Logcat!LogcatConstants, Logcat!TypeOK, Logcat!Reaped, Logcat!Joined, Logcat!Hold, Logcat!Goto
  <2>3. LcKept'
    BY <1>0, <1>5 DEF LcKept, LcFacts, LcCalls, Logcat!LogcatConstants, Logcat!TypeOK, Logcat!Reaped, Logcat!Joined, Logcat!Hold, Logcat!Goto
  <2>4. LcReads'
    BY <1>0, <1>5 DEF LcReads, LcFacts, LcCalls, LcKept, Logcat!TypeOK, Logcat!Reaped, Logcat!Joined, Logcat!Hold, Logcat!Goto
  <2>5. LcAlone'
    BY <1>0, <1>5 DEF LcAlone, LcFacts, LcCalls, LcKept, LcReads, Logcat!TypeOK, Logcat!Reaped, Logcat!Joined, Logcat!Hold, Logcat!Goto
  <2> QED
    BY <2>1, <2>2, <2>3, <2>4, <2>5 DEF LcInv
<1>6. ASSUME NEW c \in Callers, Logcat!Spawn(c) PROVE LcInv'
  <2>1. LcFacts'
    BY <1>0, <1>6 DEF LcFacts, Logcat!TypeOK, Logcat!Spawn, Logcat!Hold, Logcat!Goto
  <2>2. LcCalls'
    BY <1>0, <1>6 DEF LcCalls, LcFacts, Logcat!LogcatConstants, Logcat!TypeOK, Logcat!Spawn, Logcat!Hold, Logcat!Goto
  <2>3. LcKept'
    BY <1>0, <1>6 DEF LcKept, LcFacts, LcCalls, Logcat!LogcatConstants, Logcat!TypeOK, Logcat!Spawn, Logcat!Hold, Logcat!Goto
  <2>4. LcReads'
    BY <1>0, <1>6 DEF LcReads, LcFacts, LcCalls, LcKept, Logcat!TypeOK, Logcat!Spawn, Logcat!Hold, Logcat!Goto
  <2>5. LcAlone'
    BY <1>0, <1>6 DEF LcAlone, LcFacts, LcCalls, LcKept, LcReads, Logcat!TypeOK, Logcat!Spawn, Logcat!Hold, Logcat!Goto
  <2> QED
    BY <2>1, <2>2, <2>3, <2>4, <2>5 DEF LcInv
<1>7. ASSUME NEW c \in Callers, Logcat!SpawnFails(c) PROVE LcInv'
  <2>1. LcKept' /\ LcReads'
    BY <1>0, <1>7 DEF LcKept, LcReads, Logcat!TypeOK, Logcat!SpawnFails, Logcat!Goto
  <2>2. LcFacts'
    BY <1>0, <1>7 DEF LcFacts, Logcat!TypeOK, Logcat!SpawnFails, Logcat!Goto
  <2>3. LcCalls'
    BY <1>0, <1>7 DEF LcCalls, LcFacts, Logcat!LogcatConstants, Logcat!TypeOK, Logcat!SpawnFails, Logcat!Goto
  <2>4. LcAlone'
    BY <1>0, <1>7 DEF LcAlone, LcFacts, LcCalls, LcKept, LcReads, Logcat!TypeOK, Logcat!SpawnFails, Logcat!Goto
  <2> QED
    BY <2>1, <2>2, <2>3, <2>4 DEF LcInv
<1>8. ASSUME NEW c \in Callers, Logcat!Hook(c) PROVE LcInv'
  <2>1. LcKept' /\ LcReads'
    BY <1>0, <1>8 DEF LcKept, LcReads, Logcat!TypeOK, Logcat!Hook, Logcat!Goto
  <2>2. LcFacts'
    <3>1. logcatHeld[c] \in Logcats
      BY <1>0, <1>8 DEF LcFacts, LcCalls, Logcat!Hook
    <3> QED
      BY <1>0, <1>8, <3>1 DEF LcFacts, Logcat!TypeOK, Logcat!Hook, Logcat!Goto
  <2>3. LcCalls'
    BY <1>0, <1>8 DEF LcCalls, LcFacts, Logcat!LogcatConstants, Logcat!TypeOK, Logcat!Hook, Logcat!Goto
  <2>4. LcAlone'
    BY <1>0, <1>8 DEF LcAlone, LcFacts, LcCalls, LcKept, LcReads, Logcat!TypeOK, Logcat!Hook, Logcat!Goto
  <2> QED
    BY <2>1, <2>2, <2>3, <2>4 DEF LcInv
<1>9. ASSUME NEW c \in Callers, Logcat!Enter(c) PROVE LcInv'
  <2>1. LcReads'
    BY <1>0, <1>9 DEF LcReads, Logcat!TypeOK, Logcat!Enter, Logcat!Taken, Logcat!Hold, Logcat!Goto
  <2>2. LcFacts'
    BY <1>0, <1>9 DEF LcFacts, Logcat!TypeOK, Logcat!Enter, Logcat!Taken, Logcat!Hold, Logcat!Goto
  <2>3. LcCalls'
    BY <1>0, <1>9 DEF LcCalls, LcFacts, Logcat!LogcatConstants, Logcat!TypeOK, Logcat!Enter, Logcat!Taken, Logcat!Hold, Logcat!Goto
  <2>4. LcKept'
    BY <1>0, <1>9 DEF LcKept, LcFacts, LcCalls, Logcat!LogcatConstants, Logcat!TypeOK, Logcat!Enter, Logcat!Taken, Logcat!Hold, Logcat!Goto
  <2>5. LcAlone'
    BY <1>0, <1>9 DEF LcAlone, LcFacts, LcCalls, LcKept, LcReads, Logcat!TypeOK, Logcat!Enter, Logcat!Taken, Logcat!Hold, Logcat!Goto
  <2> QED
    BY <2>1, <2>2, <2>3, <2>4, <2>5 DEF LcInv
<1>10. ASSUME NEW c \in Callers, Logcat!EnterLate(c) PROVE LcInv'
  <2>1. LcKept' /\ LcReads'
    BY <1>0, <1>10 DEF LcKept, LcReads, Logcat!TypeOK, Logcat!EnterLate, Logcat!Taken, Logcat!Goto
  <2>2. LcFacts'
    BY <1>0, <1>10 DEF LcFacts, Logcat!TypeOK, Logcat!EnterLate, Logcat!Taken, Logcat!Goto
  <2>3. LcCalls'
    BY <1>0, <1>10 DEF LcCalls, LcFacts, Logcat!LogcatConstants, Logcat!TypeOK, Logcat!EnterLate, Logcat!Taken, Logcat!Goto
  <2>4. LcAlone'
    BY <1>0, <1>10 DEF LcAlone, LcFacts, LcCalls, LcKept, LcReads, Logcat!TypeOK, Logcat!EnterLate, Logcat!Taken, Logcat!Goto
  <2> QED
    BY <2>1, <2>2, <2>3, <2>4 DEF LcInv
<1>11. ASSUME NEW c \in Callers, Logcat!Stop(c) PROVE LcInv'
  <2>1. LcReads'
    BY <1>0, <1>11 DEF LcReads, Logcat!TypeOK, Logcat!Stop, Logcat!Exists, Logcat!TakeOut, Logcat!Hold, Logcat!Goto, Logcat!Idle
  <2>2. LcFacts'
    BY <1>0, <1>11 DEF LcFacts, Logcat!TypeOK, Logcat!Stop, Logcat!Exists, Logcat!TakeOut, Logcat!Hold, Logcat!Goto, Logcat!Idle
  <2>3. LcCalls'
    BY <1>0, <1>11 DEF LcCalls, LcFacts, Logcat!LogcatConstants, Logcat!TypeOK, Logcat!Stop, Logcat!Exists, Logcat!TakeOut, Logcat!Hold, Logcat!Goto, Logcat!Idle
  <2>4. LcKept'
    BY <1>0, <1>11 DEF LcKept, LcFacts, LcCalls, Logcat!LogcatConstants, Logcat!TypeOK, Logcat!Stop, Logcat!Exists, Logcat!TakeOut, Logcat!Hold, Logcat!Goto, Logcat!Idle
  <2>5. LcAlone'
    <3>1. CASE ~Logcat!Idle
      BY <1>11, <3>1 DEF LcAlone, Logcat!Stop, Logcat!TakeOut, Logcat!Goto
    <3>2. CASE Logcat!Idle
      <4>1. /\ \A d \in Callers : logcatCaller'[d] # "idle" => d = c
            /\ logcatOwner' \notin {"stopping", "destroying"} /\ logcatCaller'[c] = "destroying"
        BY <1>0, <1>11, <3>2 DEF LcFacts, Logcat!Idle, Logcat!Stop, Logcat!TakeOut, Logcat!Goto
      <4>2. (~overlapped => logcatBuffer' \subseteq {entry'}) /\ (overlapped' = FALSE => ~overlapped)
        BY <1>0, <1>11 DEF LcAlone, LcFacts, Logcat!Stop, Logcat!TakeOut, Logcat!Goto
      <4>3. logcatCaller'[c] = "destroying" => entry' = None
        BY <1>11 DEF Logcat!Stop, Logcat!TakeOut, Logcat!Goto
      <4> QED
        BY <4>1, <4>2, <4>3 DEF LcAlone
    <3> QED
      BY <3>1, <3>2
  <2> QED
    BY <2>1, <2>2, <2>3, <2>4, <2>5 DEF LcInv
<1>12. CASE Logcat!OnStop
  <2>1. LcReads'
    BY <1>0, <1>12 DEF LcReads, Logcat!TypeOK, Logcat!OnStop, Logcat!TakeOut, Logcat!Hold, Logcat!Idle
  <2>2. LcFacts'
    BY <1>0, <1>12 DEF LcFacts, Logcat!TypeOK, Logcat!OnStop, Logcat!TakeOut, Logcat!Hold, Logcat!Idle
  <2>3. LcCalls'
    BY <1>0, <1>12 DEF LcCalls, LcFacts, Logcat!LogcatConstants, Logcat!TypeOK, Logcat!OnStop, Logcat!TakeOut, Logcat!Hold, Logcat!Idle
  <2>4. LcKept'
    BY <1>0, <1>12 DEF LcKept, LcFacts, LcCalls, Logcat!LogcatConstants, Logcat!TypeOK, Logcat!OnStop, Logcat!TakeOut, Logcat!Hold, Logcat!Idle
  <2>5. LcAlone'
    BY <1>0, <1>12 DEF LcAlone, LcFacts, LcCalls, LcKept, LcReads, Logcat!TypeOK, Logcat!OnStop, Logcat!TakeOut, Logcat!Hold, Logcat!Idle
  <2> QED
    BY <2>1, <2>2, <2>3, <2>4, <2>5 DEF LcInv
<1>13. CASE Logcat!Destroy
  <2>1. LcReads'
    BY <1>0, <1>13 DEF LcReads, Logcat!TypeOK, Logcat!Destroy, Logcat!Exists, Logcat!TakeOut, Logcat!Hold, Logcat!Idle
  <2>2. LcFacts'
    BY <1>0, <1>13 DEF LcFacts, Logcat!TypeOK, Logcat!Destroy, Logcat!Exists, Logcat!TakeOut, Logcat!Hold, Logcat!Idle
  <2>3. LcCalls'
    BY <1>0, <1>13 DEF LcCalls, LcFacts, Logcat!LogcatConstants, Logcat!TypeOK, Logcat!Destroy, Logcat!Exists, Logcat!TakeOut, Logcat!Hold, Logcat!Idle
  <2>4. LcKept'
    BY <1>0, <1>13 DEF LcKept, LcFacts, LcCalls, Logcat!LogcatConstants, Logcat!TypeOK, Logcat!Destroy, Logcat!Exists, Logcat!TakeOut, Logcat!Hold, Logcat!Idle
  <2>5. LcAlone'
    BY <1>0, <1>13 DEF LcAlone, LcFacts, LcCalls, LcKept, LcReads, Logcat!TypeOK, Logcat!Destroy, Logcat!Exists, Logcat!TakeOut, Logcat!Hold, Logcat!Idle
  <2> QED
    BY <2>1, <2>2, <2>3, <2>4, <2>5 DEF LcInv
<1>14. ASSUME NEW who \in Holders, Logcat!Kill(who) PROVE LcInv'
  <2>1. LcCalls' /\ LcAlone'
    BY <1>0, <1>14 DEF LcCalls, LcAlone, Logcat!TypeOK, Logcat!Kill, Logcat!Killed
  <2>2. LcFacts'
    BY <1>0, <1>14 DEF LcFacts, Logcat!TypeOK, Logcat!Kill, Logcat!Killed
  <2>3. LcKept'
    BY <1>0, <1>14 DEF LcKept, LcFacts, LcCalls, Logcat!LogcatConstants, Logcat!TypeOK, Logcat!Kill, Logcat!Killed
  <2>4. LcReads'
    BY <1>0, <1>14 DEF LcReads, LcFacts, LcCalls, LcKept, Logcat!TypeOK, Logcat!Kill, Logcat!Killed
  <2> QED
    BY <2>1, <2>2, <2>3, <2>4 DEF LcInv
<1>15. ASSUME NEW c \in Callers, Logcat!Destroyed(c) PROVE LcInv'
  <2>1. LcFacts'
    BY <1>0, <1>15 DEF LcFacts, Logcat!TypeOK, Logcat!Destroyed, Logcat!Joined, Logcat!Hold, Logcat!Goto
  <2>2. LcCalls'
    BY <1>0, <1>15 DEF LcCalls, LcFacts, Logcat!LogcatConstants, Logcat!TypeOK, Logcat!Destroyed, Logcat!Joined, Logcat!Hold, Logcat!Goto
  <2>3. LcKept'
    BY <1>0, <1>15 DEF LcKept, LcFacts, LcCalls, Logcat!LogcatConstants, Logcat!TypeOK, Logcat!Destroyed, Logcat!Joined, Logcat!Hold, Logcat!Goto
  <2>4. LcReads'
    BY <1>0, <1>15 DEF LcReads, LcFacts, LcCalls, LcKept, Logcat!TypeOK, Logcat!Destroyed, Logcat!Joined, Logcat!Hold, Logcat!Goto
  <2>5. LcAlone'
    BY <1>0, <1>15 DEF LcAlone, LcFacts, LcCalls, LcKept, LcReads, Logcat!TypeOK, Logcat!Destroyed, Logcat!Joined, Logcat!Hold, Logcat!Goto
  <2> QED
    BY <2>1, <2>2, <2>3, <2>4, <2>5 DEF LcInv
<1>16. CASE Logcat!ModuleDone
  <2>1. LcFacts'
    BY <1>0, <1>16 DEF LcFacts, Logcat!TypeOK, Logcat!ModuleDone, Logcat!Joined, Logcat!Hold
  <2>2. LcCalls'
    BY <1>0, <1>16 DEF LcCalls, LcFacts, Logcat!LogcatConstants, Logcat!TypeOK, Logcat!ModuleDone, Logcat!Joined, Logcat!Hold
  <2>3. LcKept'
    BY <1>0, <1>16 DEF LcKept, LcFacts, LcCalls, Logcat!LogcatConstants, Logcat!TypeOK, Logcat!ModuleDone, Logcat!Joined, Logcat!Hold
  <2>4. LcReads'
    <3>1. ASSUME NEW p \in Logcats, p = logcatHeld[Logcat!Module] PROVE logcatReader[p] = "done"
      BY <1>16, <3>1 DEF Logcat!ModuleDone, Logcat!Joined, Logcat!LogcatConstants
    <3> QED
      BY <1>0, <1>16, <3>1 DEF LcReads, LcFacts, Logcat!TypeOK, Logcat!ModuleDone
  <2>5. LcAlone'
    BY <1>0, <1>16 DEF LcAlone, LcFacts, LcCalls, LcKept, LcReads, Logcat!TypeOK, Logcat!ModuleDone, Logcat!Joined, Logcat!Hold
  <2> QED
    BY <2>1, <2>2, <2>3, <2>4, <2>5 DEF LcInv
<1>17. ASSUME NEW p \in Logcats, Logcat!Exit(p) PROVE LcInv'
  <2>1. LcCalls' /\ LcAlone'
    BY <1>0, <1>17 DEF LcCalls, LcAlone, Logcat!TypeOK, Logcat!Exit
  <2>2. LcFacts'
    BY <1>0, <1>17 DEF LcFacts, Logcat!TypeOK, Logcat!Exit
  <2>3. LcKept'
    BY <1>0, <1>17 DEF LcKept, LcFacts, LcCalls, Logcat!LogcatConstants, Logcat!TypeOK, Logcat!Exit
  <2>4. LcReads'
    BY <1>0, <1>17 DEF LcReads, LcFacts, LcCalls, LcKept, Logcat!TypeOK, Logcat!Exit
  <2> QED
    BY <2>1, <2>2, <2>3, <2>4 DEF LcInv
<1>18. ASSUME NEW p \in Logcats, Logcat!Read(p) PROVE LcInv'
  <2>1. LcCalls' /\ LcKept' /\ LcAlone'
    BY <1>0, <1>18 DEF LcCalls, LcKept, LcAlone, Logcat!TypeOK, Logcat!Read
  <2>2. LcFacts'
    BY <1>0, <1>18 DEF LcFacts, Logcat!TypeOK, Logcat!Read
  <2>3. LcReads'
    BY <1>0, <1>18 DEF LcReads, LcFacts, LcCalls, LcKept, Logcat!TypeOK, Logcat!Read
  <2> QED
    BY <2>1, <2>2, <2>3 DEF LcInv
<1>19. ASSUME NEW p \in Logcats, Logcat!Deliver(p) PROVE LcInv'
  <2>1. LcCalls' /\ LcKept'
    BY <1>0, <1>19 DEF LcCalls, LcKept, Logcat!TypeOK, Logcat!Deliver
  <2>2. LcFacts'
    BY <1>0, <1>19 DEF LcFacts, Logcat!TypeOK, Logcat!Deliver
  <2>3. LcReads'
    BY <1>0, <1>19 DEF LcReads, LcFacts, LcCalls, LcKept, Logcat!TypeOK, Logcat!Deliver
  <2>4. LcAlone'
    <3>1. UNCHANGED <<entry, logcatCaller, logcatOwner, overlapped>>
      BY <1>19 DEF Logcat!Deliver
    <3>2. ASSUME ~overlapped PROVE logcatBuffer' \subseteq {entry}
      <4>1. CASE entry = None
        BY <1>0, <1>19, <3>2, <4>1 DEF LcAlone, Logcat!Deliver
      <4>2. CASE entry # None
        <5>1. \A x \in Holders : logcatHeld[x] = None
          BY <1>0, <3>2, <4>2 DEF LcAlone, LcCalls
        <5>2. entry = p
          BY <1>0, <1>19, <5>1 DEF LcReads, LcKept, Logcat!Deliver, Logcat!LogcatConstants
        <5> QED
          BY <1>0, <1>19, <3>2, <5>2 DEF LcAlone, Logcat!Deliver
      <4> QED
        BY <4>1, <4>2
    <3> QED
      BY <1>0, <3>1, <3>2 DEF LcAlone
  <2> QED
    BY <2>1, <2>2, <2>3, <2>4 DEF LcInv
<1>20. ASSUME NEW p \in Logcats, Logcat!LinesTold(p) PROVE LcInv'
  <2>1. LcCalls' /\ LcKept' /\ LcAlone'
    BY <1>0, <1>20 DEF LcCalls, LcKept, LcAlone, Logcat!TypeOK, Logcat!LinesTold
  <2>2. LcFacts'
    BY <1>0, <1>20 DEF LcFacts, Logcat!TypeOK, Logcat!LinesTold
  <2>3. LcReads'
    BY <1>0, <1>20 DEF LcReads, LcFacts, LcCalls, LcKept, Logcat!TypeOK, Logcat!LinesTold
  <2> QED
    BY <2>1, <2>2, <2>3 DEF LcInv
<1>21. ASSUME NEW p \in Logcats, Logcat!ReadEnd(p) PROVE LcInv'
  <2>1. LcCalls' /\ LcKept' /\ LcAlone'
    BY <1>0, <1>21 DEF LcCalls, LcKept, LcAlone, Logcat!TypeOK, Logcat!ReadEnd
  <2>2. LcFacts'
    BY <1>0, <1>21 DEF LcFacts, Logcat!TypeOK, Logcat!ReadEnd
  <2>3. LcReads'
    BY <1>0, <1>21 DEF LcReads, LcFacts, LcCalls, LcKept, Logcat!TypeOK, Logcat!ReadEnd
  <2> QED
    BY <2>1, <2>2, <2>3 DEF LcInv
<1>22. ASSUME NEW p \in Logcats, Logcat!Notice(p) PROVE LcInv'
  <2>1. LcCalls' /\ LcKept' /\ LcReads' /\ LcAlone'
    BY <1>0, <1>22 DEF LcCalls, LcKept, LcReads, LcAlone, Logcat!TypeOK, Logcat!Notice
  <2>2. LcFacts'
    BY <1>0, <1>22 DEF LcFacts, Logcat!TypeOK, Logcat!Notice
  <2> QED
    BY <2>1, <2>2 DEF LcInv
<1>23. ASSUME NEW p \in Logcats, Logcat!TellExit(p) PROVE LcInv'
  <2>1. LcCalls' /\ LcKept' /\ LcReads' /\ LcAlone'
    BY <1>0, <1>23 DEF LcCalls, LcKept, LcReads, LcAlone, Logcat!TypeOK, Logcat!TellExit
  <2>2. LcFacts'
    BY <1>0, <1>23 DEF LcFacts, Logcat!TypeOK, Logcat!TellExit
  <2> QED
    BY <2>1, <2>2 DEF LcInv
<1>24. CASE UNCHANGED Logcat!vars
  BY <1>0, <1>24 DEF LcInv, Logcat!vars, LcFacts, LcCalls, LcKept, LcReads, LcAlone, Logcat!TypeOK
<1> QED
  BY <1>1, <1>2, <1>3, <1>4, <1>5, <1>6, <1>7, <1>8, <1>9, <1>10, <1>11, <1>12, <1>13, <1>14, <1>15, <1>16, <1>17, <1>18, <1>19, <1>20, <1>21, <1>22, <1>23, <1>24 DEF Logcat!Next, Logcat!CallStep, Logcat!ProcessStep

\* The sets that Logcat counts are counted as everywhere.
LEMMA LcCardinality == \A S : Logcat!Cardinality(S) = Cardinality(S)
  BY Zenon DEF Logcat!Cardinality, Cardinality

\* From it: a logcat has one keeper, at most one process of a serial runs between calls,
\* and its lines are put together from its own output.
LEMMA LcSafe == Logcat!LogcatConstants /\ LcInv => Logcat!Inv
<1> SUFFICES ASSUME Logcat!LogcatConstants, LcInv PROVE Logcat!Inv
  OBVIOUS
<1> USE DEF LcInv, LcFacts, Holders, Alive
<1>1. Logcat!OneKeeper
  <2> SUFFICES ASSUME NEW p \in Logcats
               PROVE  Logcat!Cardinality(Logcat!Keepers(p)) + (IF entry = p THEN 1 ELSE 0)
                        = IF logcatProcess[p] \in {"running", "exited"} THEN 1 ELSE 0
    BY DEF Logcat!OneKeeper
  <2> USE DEF LcKept, Logcat!Keepers
  <2>1. Logcat!Cardinality({}) = 0 /\ \A x : Logcat!Cardinality({x}) = 1
    BY FS_EmptySet, FS_Singleton, LcCardinality
  <2>2. p # None
    BY DEF Logcat!LogcatConstants
  <2>3. CASE \E x \in Holders : logcatHeld[x] = p
    <3>1. PICK x \in Holders : logcatHeld[x] = p
      BY <2>3
    <3>2. Logcat!Keepers(p) = {x}
      BY <2>2, <3>1
    <3> QED
      <4>1. Logcat!Cardinality(Logcat!Keepers(p)) = 1
        BY <2>1, <3>2
      <4>2. logcatProcess[p] \in Alive /\ entry # p
        BY <2>2, <3>1
      <4> QED
        BY <4>1, <4>2 DEF Alive
  <2>4. CASE ~ \E x \in Holders : logcatHeld[x] = p
    <3>1. Logcat!Keepers(p) = {}
      BY <2>4
    <3>2. logcatProcess[p] \in {"running", "exited"} <=> entry = p
      BY <2>2, <2>4
    <3>3. Logcat!Cardinality(Logcat!Keepers(p)) = 0
      BY <2>1, <3>1
    <3> QED
      BY <3>2, <3>3
  <2> QED
    BY <2>3, <2>4
<1>2. Logcat!OneRuns
  <2>1. Logcat!Cardinality({}) = 0 /\ \A x : Logcat!Cardinality({x}) = 1
    BY FS_EmptySet, FS_Singleton, LcCardinality
  <2>2. ASSUME Logcat!Idle PROVE {p \in Logcats : logcatProcess[p] = "running"} \subseteq {entry}
    <3>1. \A x \in Holders : logcatHeld[x] = None
      BY <2>2 DEF Logcat!Idle, LcCalls
    <3> QED
      BY <3>1 DEF LcKept, Logcat!LogcatConstants
  <2>3. ASSUME Logcat!Idle PROVE {p \in Logcats : logcatProcess[p] = "running"} \in {{}, {entry}}
    BY <2>2, <2>3
  <2>4. ASSUME logcatOwner = "gone", NEW p \in Logcats PROVE logcatProcess[p] \in {"fresh", "gone"}
    <3>1. entry = None /\ \A x \in Holders : logcatHeld[x] = None
      BY <2>4 DEF LcCalls
    <3>2. logcatProcess[p] \notin Alive
      BY <3>1 DEF LcKept, Logcat!LogcatConstants
    <3> QED
      BY <3>2 DEF Logcat!TypeOK
  <2>5. ASSUME Logcat!Idle PROVE Logcat!Cardinality({p \in Logcats : logcatProcess[p] = "running"}) <= 1
    <3>1. CASE {p \in Logcats : logcatProcess[p] = "running"} = {}
      BY <2>1, <3>1
    <3>2. CASE {p \in Logcats : logcatProcess[p] = "running"} = {entry}
      <4>1. Logcat!Cardinality({entry}) = 1
        BY FS_Singleton, LcCardinality
      <4> QED
        BY <3>2, <4>1
    <3> QED
      BY <2>3, <2>5, <3>1, <3>2
  <2> QED
    BY <2>4, <2>5 DEF Logcat!OneRuns
<1>3. Logcat!OwnLines
  BY DEF Logcat!OwnLines, LcAlone
<1> QED
  BY <1>1, <1>2, <1>3 DEF Logcat!Inv

-----------------------------------------------------------------------------
\* Commands on many devices.

States == {"fresh", "queued", "running", "value", "error"}
CmFacts ==
    /\ cmdItems \in [Calls -> 0 .. MaxItems]
    /\ cmdCall \in [Calls -> {"new", "posting", "getting", "returned"}]
    /\ cmdAt \in [Calls -> Nat] /\ \A c \in Calls : cmdAt[c] \in 1 .. (cmdItems[c] + 1)
    /\ DOMAIN cmdTask = Calls /\ \A c \in Calls : cmdTask[c] \in [1 .. cmdItems[c] -> States]
    /\ cmdResults \in [Calls -> Seq(States)] /\ firstError \in [Calls -> Nat]
    /\ cmdQueue \in Seq(Calls \X (1 .. MaxItems))

\* A task is queued once, and nothing else is.
CmQueue ==
    /\ \A n \in 1 .. Len(cmdQueue) : cmdQueue[n] \in Commands!Tasks /\ cmdTask[cmdQueue[n][1]][cmdQueue[n][2]] = "queued"
    /\ \A n, m \in 1 .. Len(cmdQueue) : cmdQueue[n] = cmdQueue[m] => n = m

\* Before its item is posted a task is fresh, and no longer after.
CmPosted ==
    \A c \in Calls :
        /\ cmdCall[c] = "new" => cmdAt[c] = 1
        /\ cmdCall[c] \in {"new", "posting"} =>
             \A i \in 1 .. cmdItems[c] : cmdTask[c][i] = "fresh" <=> i >= cmdAt[c]
        /\ cmdCall[c] \in {"getting", "returned"} => \A i \in 1 .. cmdItems[c] : cmdTask[c][i] # "fresh"
        /\ cmdCall[c] = "returned" => cmdAt[c] = cmdItems[c] + 1

\* What was taken so far.
Got(c) == IF cmdCall[c] \in {"getting", "returned"} THEN cmdAt[c] - 1 ELSE 0
CmTaken ==
    \A c \in Calls :
        /\ Len(cmdResults[c]) = Got(c)
        /\ \A i \in 1 .. Got(c) : cmdTask[c][i] \in Commands!Ended /\ cmdResults[c][i] = cmdTask[c][i]
        /\ firstError[c] <= Got(c)
        /\ \A i \in 1 .. Got(c) : cmdTask[c][i] = "error" => firstError[c] \in 1 .. i

CmInv == CmFacts /\ CmQueue /\ CmPosted /\ CmTaken

\* What Become does to the tasks, one by one.
CmBecomes(c, n, state) ==
    /\ DOMAIN cmdTask' = Calls /\ \A d \in Calls : cmdTask'[d] \in [1 .. cmdItems[d] -> States]
    /\ \A d \in Calls : \A i \in 1 .. cmdItems[d] :
         cmdTask'[d][i] = IF d = c /\ i = n THEN state ELSE cmdTask[d][i]

\* Become changes one task and no other.
LEMMA CmBecome ==
  ASSUME CmFacts, NEW c \in Calls, NEW n \in 1 .. cmdItems[c], NEW state \in States, Commands!Become(<<c, n>>, state)
  PROVE  CmBecomes(c, n, state)
<1>1. cmdTask' = [cmdTask EXCEPT ![c] = [cmdTask[c] EXCEPT ![n] = state]]
  BY DEF Commands!Become
<1>2. cmdTask[c] \in [1 .. cmdItems[c] -> States] /\ DOMAIN cmdTask = Calls
  BY DEF CmFacts
<1>3. DOMAIN cmdTask' = Calls /\ cmdTask'[c] = [cmdTask[c] EXCEPT ![n] = state] /\ \A d \in Calls \ {c} : cmdTask'[d] = cmdTask[d]
  BY <1>1, <1>2
<1>4. cmdTask'[c] \in [1 .. cmdItems[c] -> States] /\ \A i \in 1 .. cmdItems[c] : cmdTask'[c][i] = IF i = n THEN state ELSE cmdTask[c][i]
  BY <1>2, <1>3
<1> QED
  BY <1>3, <1>4 DEF CmFacts, CmBecomes

\* A task that has not ended may change: its result was not taken.
LEMMA CmTakenKept ==
  ASSUME CmFacts, CmTaken, UNCHANGED <<cmdItems, Commands!taking>>, \A d \in Calls : Got(d)' = Got(d),
         NEW c \in Calls, NEW n \in 1 .. cmdItems[c], NEW state \in States, cmdTask[c][n] \notin Commands!Ended,
         CmBecomes(c, n, state)
  PROVE  CmTaken'
<1>1. ASSUME NEW d \in Calls, NEW i \in 1 .. Got(d) PROVE cmdTask'[d][i] = cmdTask[d][i]
  <2>1. i \in 1 .. cmdItems[d] /\ cmdTask[d][i] \in Commands!Ended
    BY <1>1 DEF CmTaken, CmFacts, Got
  <2> QED
    BY <2>1 DEF CmBecomes
<1> QED
  BY <1>1 DEF CmTaken, Commands!taking

\* Before its first step, parallelForEach() (command_executor.cpp) satisfies the invariant.
LEMMA CmInit == Commands!CommandConstants /\ Commands!Init => CmInv
<1> SUFFICES ASSUME Commands!CommandConstants, Commands!Init PROVE CmInv
  OBVIOUS
<1> USE DEF Commands!CommandConstants, Commands!Init
<1>1. CmFacts
  BY DEF CmFacts, States
<1>2. CmQueue
  BY DEF CmQueue
<1>3. CmPosted /\ CmTaken
  BY DEF CmPosted, CmTaken, Got
<1> QED
  BY <1>1, <1>2, <1>3 DEF CmInv

\* Each step of parallelForEach() (command_executor.cpp) preserves the invariant, part by part.
LEMMA CmStep == Commands!CommandConstants /\ CmInv /\ [Commands!Next]_(Commands!vars) => CmInv'
<1> SUFFICES ASSUME Commands!CommandConstants, CmInv, [Commands!Next]_(Commands!vars) PROVE CmInv'
  OBVIOUS
<1> USE DEF Commands!taking, Commands!pool
<1>0. CmFacts /\ CmQueue /\ CmPosted /\ CmTaken
  BY DEF CmInv
<1>1. ASSUME NEW c \in Calls, Commands!Begin(c) PROVE CmInv'
  <2>1. CmQueue'
    BY <1>0, <1>1 DEF CmQueue, Commands!Begin, Commands!Tasks
  <2>2. CmFacts' /\ CmPosted' /\ CmTaken'
    BY <1>0, <1>1 DEF CmFacts, CmPosted, CmTaken, Got, Commands!Begin
  <2> QED
    BY <2>1, <2>2 DEF CmInv
\* A task is posted, or run by the caller.
<1>2. ASSUME NEW c \in Calls, NEW state \in {"queued"} \cup Commands!Ended, cmdCall[c] = "posting", cmdAt[c] <= cmdItems[c],
             Commands!Become(Commands!Mine(c), state), cmdAt' = [cmdAt EXCEPT ![c] = @ + 1],
             UNCHANGED <<cmdItems, cmdCall, cmdResults, firstError>>,
             cmdQueue' = IF state = "queued" THEN Append(cmdQueue, Commands!Mine(c)) ELSE cmdQueue
      PROVE  CmInv'
  <2>1. cmdAt[c] \in 1 .. cmdItems[c] /\ cmdItems[c] \in 0 .. MaxItems /\ MaxItems \in Nat /\ state \in States
    BY <1>0, <1>2 DEF CmFacts, Commands!CommandConstants, States, Commands!Ended
  <2>2. CmBecomes(c, cmdAt[c], state)
    BY <1>0, <1>2, <2>1, CmBecome DEF Commands!Mine
  <2>3. cmdTask[c][cmdAt[c]] = "fresh"
    BY <1>0, <1>2, <2>1 DEF CmPosted
  <2>4. Commands!Mine(c) \in Commands!Tasks /\ Commands!Mine(c) \in Calls \X (1 .. MaxItems) /\ Commands!Mine(c) = <<c, cmdAt[c]>>
    BY <2>1 DEF Commands!Mine, Commands!Tasks
  <2>5. CmTaken'
    BY <1>0, <1>2, <2>1, <2>2, <2>3, CmTakenKept DEF Got, Commands!Ended
  <2>6. CmPosted'
    <3>1. cmdAt'[c] = cmdAt[c] + 1 /\ cmdAt[c] \in Nat /\ (\A d \in Calls \ {c} : cmdAt'[d] = cmdAt[d]) /\ state # "fresh"
      BY <1>0, <1>2, <2>1 DEF CmFacts, Commands!Ended
    <3>2. \A i \in 1 .. cmdItems[c] : cmdTask'[c][i] = "fresh" <=> i >= cmdAt[c] + 1
      BY <1>0, <1>2, <2>1, <2>2, <3>1 DEF CmPosted, CmBecomes
    <3>3. \A d \in Calls \ {c} : \A i \in 1 .. cmdItems[d] : cmdTask'[d][i] = cmdTask[d][i]
      BY <2>2 DEF CmBecomes
    <3> QED
      BY <1>0, <1>2, <3>1, <3>2, <3>3 DEF CmPosted
  <2>7. CmFacts'
    <3>1. cmdQueue' \in Seq(Calls \X (1 .. MaxItems))
      BY <1>0, <1>2, <2>4 DEF CmFacts
    <3>2. cmdAt' \in [Calls -> Nat] /\ \A d \in Calls : cmdAt'[d] \in 1 .. (cmdItems[d] + 1)
      <4>1. cmdAt \in [Calls -> Nat] /\ \A d \in Calls : cmdAt[d] \in 1 .. (cmdItems[d] + 1)
        BY <1>0 DEF CmFacts
      <4>2. cmdAt' = [cmdAt EXCEPT ![c] = cmdAt[c] + 1]
        BY <1>2
      <4> QED
        BY <2>1, <4>1, <4>2
    <3> QED
      BY <1>0, <1>2, <2>2, <3>1, <3>2 DEF CmFacts, CmBecomes
  <2>8. \A n \in 1 .. Len(cmdQueue) : /\ cmdQueue[n] \in Commands!Tasks /\ cmdQueue[n] # Commands!Mine(c)
                                  /\ cmdTask'[cmdQueue[n][1]][cmdQueue[n][2]] = "queued"
    <3> SUFFICES ASSUME NEW n \in 1 .. Len(cmdQueue)
                 PROVE  /\ cmdQueue[n] \in Commands!Tasks /\ cmdQueue[n] # Commands!Mine(c)
                        /\ cmdTask'[cmdQueue[n][1]][cmdQueue[n][2]] = "queued"
      OBVIOUS
    <3>1. cmdQueue[n] \in Commands!Tasks /\ cmdTask[cmdQueue[n][1]][cmdQueue[n][2]] = "queued"
      BY <1>0 DEF CmQueue
    <3>2. cmdQueue[n][1] \in Calls /\ cmdQueue[n][2] \in 1 .. cmdItems[cmdQueue[n][1]]
      BY <1>0, <3>1 DEF Commands!Tasks, CmFacts
    <3>3. cmdQueue[n] # Commands!Mine(c) /\ ~(cmdQueue[n][1] = c /\ cmdQueue[n][2] = cmdAt[c])
      BY <2>3, <2>4, <3>1
    <3> QED
      BY <2>2, <3>1, <3>2, <3>3 DEF CmBecomes
  <2>9. CmQueue'
    <3>1. Commands!Tasks' = Commands!Tasks
      BY <1>2 DEF Commands!Tasks
    <3>2. CASE state # "queued"
      BY <1>0, <1>2, <2>8, <3>1, <3>2 DEF CmQueue
    <3>3. CASE state = "queued"
      <4>1. /\ Len(cmdQueue) \in Nat /\ Len(cmdQueue') = Len(cmdQueue) + 1 /\ cmdQueue'[Len(cmdQueue) + 1] = <<c, cmdAt[c]>>
            /\ \A n \in 1 .. Len(cmdQueue) : cmdQueue'[n] = cmdQueue[n]
        BY <1>0, <1>2, <2>4, <3>3 DEF CmFacts
      <4>2. cmdTask'[c][cmdAt[c]] = "queued" /\ <<c, cmdAt[c]>>[1] = c /\ <<c, cmdAt[c]>>[2] = cmdAt[c]
        BY <2>1, <2>2, <3>3 DEF CmBecomes
      <4>3. \A n \in 1 .. Len(cmdQueue') : n = Len(cmdQueue) + 1 \/ n \in 1 .. Len(cmdQueue)
        BY <4>1
      <4>4. \A n \in 1 .. Len(cmdQueue') :
              cmdQueue'[n] \in Commands!Tasks /\ cmdTask'[cmdQueue'[n][1]][cmdQueue'[n][2]] = "queued"
        BY <2>4, <2>8, <4>1, <4>2, <4>3
      <4>5. \A n, m \in 1 .. Len(cmdQueue') : cmdQueue'[n] = cmdQueue'[m] => n = m
        BY <1>0, <2>4, <2>8, <4>1, <4>3 DEF CmQueue
      <4> QED
        BY <3>1, <4>4, <4>5 DEF CmQueue
    <3> QED
      BY <3>2, <3>3
  <2> QED
    BY <2>5, <2>6, <2>7, <2>9 DEF CmInv
<1>3. ASSUME NEW c \in Calls, Commands!Posted(c) PROVE CmInv'
  <2>1. CmQueue'
    BY <1>0, <1>3 DEF CmQueue, Commands!Posted, Commands!Tasks
  <2>2. cmdAt[c] = cmdItems[c] + 1 /\ cmdItems[c] \in Nat
    BY <1>0, <1>3 DEF CmFacts, Commands!Posted
  <2>3. CmFacts'
    BY <1>0, <1>3, <2>2 DEF CmFacts, Commands!Posted
  <2>5. CmTaken'
    <3>1. \A d \in Calls : Got(d)' = Got(d)
      BY <1>0, <1>3 DEF CmFacts, Got, Commands!Posted
    <3> QED
      BY <1>0, <1>3, <3>1 DEF CmTaken, Commands!Posted
  <2>4. CmPosted'
    <3>1. \A i \in 1 .. cmdItems[c] : ~(i >= cmdAt[c])
      BY <2>2
    <3> QED
      BY <1>0, <1>3, <3>1 DEF CmPosted, CmFacts, Commands!Posted
  <2> QED
    BY <2>1, <2>3, <2>4, <2>5 DEF CmInv
<1>4. ASSUME NEW c \in Calls, Commands!Get(c) PROVE CmInv'
  <2>1. CmQueue'
    BY <1>0, <1>4 DEF CmQueue, Commands!Get, Commands!Tasks
  <2>2. cmdAt[c] \in 1 .. cmdItems[c] /\ cmdItems[c] \in Nat /\ cmdTask[c][cmdAt[c]] \in States /\ cmdResults[c] \in Seq(States)
    BY <1>0, <1>4 DEF CmFacts, Commands!Get
  <2>3. /\ cmdResults' = [cmdResults EXCEPT ![c] = Append(cmdResults[c], cmdTask[c][cmdAt[c]])]
        /\ cmdAt' = [cmdAt EXCEPT ![c] = @ + 1] /\ UNCHANGED <<cmdItems, cmdCall, cmdTask, cmdQueue>>
        /\ firstError' = [firstError EXCEPT ![c] = IF cmdTask[c][cmdAt[c]] = "error" /\ @ = 0 THEN cmdAt[c] ELSE @]
    BY <1>4 DEF Commands!Get, Commands!Taken
  <2>4. CmFacts'
    <3>1. Append(cmdResults[c], cmdTask[c][cmdAt[c]]) \in Seq(States)
      BY <2>2
    <3> QED
      BY <1>0, <2>2, <2>3, <3>1 DEF CmFacts
  <2>5. CmPosted'
    <3>1. cmdCall[c] = "getting" /\ \A d \in Calls \ {c} : cmdAt'[d] = cmdAt[d]
      BY <1>0, <1>4, <2>3 DEF Commands!Get, CmFacts
    <3> QED
      BY <1>0, <2>3, <3>1 DEF CmPosted
  <2>6. CmTaken'
    <3>1. Got(c) = cmdAt[c] - 1 /\ Got(c)' = cmdAt[c] /\ \A d \in Calls \ {c} : Got(d)' = Got(d)
      BY <1>0, <1>4, <2>2, <2>3 DEF Got, Commands!Get, CmFacts
    <3>2. /\ Len(cmdResults'[c]) = cmdAt[c] /\ cmdResults'[c][cmdAt[c]] = cmdTask[c][cmdAt[c]]
          /\ \A i \in 1 .. cmdAt[c] - 1 : cmdResults'[c][i] = cmdResults[c][i]
      BY <1>0, <2>2, <2>3, <3>1 DEF CmTaken, CmFacts
    <3>3. cmdTask[c][cmdAt[c]] \in Commands!Ended
      BY <1>4 DEF Commands!Get
    <3>4. \A i \in 1 .. cmdAt[c] : i = cmdAt[c] \/ i \in 1 .. cmdAt[c] - 1
      BY <2>2
    <3>5. /\ Len(cmdResults'[c]) = Got(c)'
          /\ \A i \in 1 .. cmdAt[c] : cmdTask[c][i] \in Commands!Ended /\ cmdResults'[c][i] = cmdTask[c][i]
      BY <1>0, <3>1, <3>2, <3>3, <3>4 DEF CmTaken
    <3>6. firstError'[c] <= cmdAt[c] /\ \A i \in 1 .. cmdAt[c] : cmdTask[c][i] = "error" => firstError'[c] \in 1 .. i
      <4>1. firstError[c] \in Nat /\ firstError[c] <= cmdAt[c] - 1
        BY <1>0, <3>1 DEF CmTaken, CmFacts
      <4>2. firstError'[c] = IF cmdTask[c][cmdAt[c]] = "error" /\ firstError[c] = 0 THEN cmdAt[c] ELSE firstError[c]
        BY <1>0, <2>3 DEF CmFacts
      <4>3. \A i \in 1 .. cmdAt[c] - 1 : cmdTask[c][i] = "error" => firstError[c] \in 1 .. i
        BY <1>0, <3>1 DEF CmTaken
      <4> QED
        BY <2>2, <3>4, <4>1, <4>2, <4>3
    <3>7. \A d \in Calls \ {c} : cmdResults'[d] = cmdResults[d] /\ firstError'[d] = firstError[d]
      BY <1>0, <2>3 DEF CmFacts
    <3> QED
      BY <1>0, <2>3, <3>1, <3>5, <3>6, <3>7 DEF CmTaken
  <2> QED
    BY <2>1, <2>4, <2>5, <2>6 DEF CmInv
<1>5. ASSUME NEW c \in Calls, Commands!Return(c) PROVE CmInv'
  <2>1. CmQueue'
    BY <1>0, <1>5 DEF CmQueue, Commands!Return, Commands!Tasks
  <2>2. cmdAt[c] = cmdItems[c] + 1 /\ cmdItems[c] \in Nat
    BY <1>0, <1>5 DEF CmFacts, Commands!Return, Commands!MayReturn
  <2>3. CmFacts' /\ CmTaken'
    BY <1>0, <1>5, <2>2 DEF CmFacts, CmTaken, Got, Commands!Return
  <2>4. CmPosted'
    <3>1. /\ cmdCall[c] = "getting" /\ cmdCall'[c] = "returned" /\ \A d \in Calls \ {c} : cmdCall'[d] = cmdCall[d]
          /\ UNCHANGED <<cmdItems, cmdAt, cmdTask>>
      BY <1>0, <1>5 DEF Commands!Return, CmFacts
    <3> QED
      BY <1>0, <2>2, <3>1 DEF CmPosted
  <2> QED
    BY <2>1, <2>3, <2>4 DEF CmInv
<1>6. CASE Commands!Take
  <2>1. /\ cmdQueue # <<>> /\ Commands!Become(Head(cmdQueue), "running") /\ cmdQueue' = Tail(cmdQueue)
        /\ UNCHANGED <<cmdItems, cmdCall, cmdAt, cmdResults, firstError>>
    BY <1>6 DEF Commands!Take
  <2>2. /\ Len(cmdQueue) \in Nat /\ Len(cmdQueue) > 0 /\ Head(cmdQueue) = cmdQueue[1] /\ Len(cmdQueue') = Len(cmdQueue) - 1
        /\ \A n \in 1 .. Len(cmdQueue') : cmdQueue'[n] = cmdQueue[n + 1]
        /\ cmdQueue' \in Seq(Calls \X (1 .. MaxItems))
    BY <1>0, <2>1 DEF CmFacts
  <2>3. cmdQueue[1] \in Commands!Tasks /\ cmdTask[cmdQueue[1][1]][cmdQueue[1][2]] = "queued"
    BY <1>0, <2>2 DEF CmQueue
  <2>4. PICK c \in Calls, n \in 1 .. MaxItems : cmdQueue[1] = <<c, n>>
    BY <2>3 DEF Commands!Tasks
  <2>5. n \in 1 .. cmdItems[c] /\ cmdTask[c][n] = "queued"
    BY <1>0, <2>3, <2>4 DEF Commands!Tasks, CmFacts
  <2>6. CmBecomes(c, n, "running")
    BY <1>0, <2>1, <2>2, <2>4, <2>5, CmBecome DEF States
  <2>7. CmTaken'
    BY <1>0, <2>1, <2>5, <2>6, CmTakenKept DEF Got, Commands!Ended, States
  <2>8. CmFacts' /\ CmPosted'
    <3>1. CmFacts'
      BY <1>0, <2>1, <2>2, <2>6 DEF CmFacts, CmBecomes
    <3>2. \A d \in Calls : \A i \in 1 .. cmdItems[d] : cmdTask'[d][i] = "fresh" <=> cmdTask[d][i] = "fresh"
      BY <2>5, <2>6 DEF CmBecomes
    <3> QED
      BY <1>0, <2>1, <3>1, <3>2 DEF CmPosted
  <2>9. CmQueue'
    <3>1. ASSUME NEW m \in 1 .. Len(cmdQueue')
          PROVE  cmdQueue'[m] \in Commands!Tasks /\ cmdTask'[cmdQueue'[m][1]][cmdQueue'[m][2]] = "queued"
      <4>1. m + 1 \in 1 .. Len(cmdQueue) /\ cmdQueue'[m] = cmdQueue[m + 1] /\ 1 \in 1 .. Len(cmdQueue) /\ m + 1 # 1
        BY <2>2
      <4>2. cmdQueue[m + 1] \in Commands!Tasks /\ cmdTask[cmdQueue[m + 1][1]][cmdQueue[m + 1][2]] = "queued" /\ cmdQueue[m + 1] # cmdQueue[1]
        BY <1>0, <4>1 DEF CmQueue
      <4>3. PICK d \in Calls, i \in 1 .. MaxItems : cmdQueue[m + 1] = <<d, i>>
        BY <4>2 DEF Commands!Tasks
      <4>4. i \in 1 .. cmdItems[d] /\ cmdTask[d][i] = "queued" /\ ~(d = c /\ i = n)
        BY <1>0, <2>4, <4>2, <4>3 DEF Commands!Tasks, CmFacts
      <4> QED
        BY <2>6, <4>1, <4>2, <4>3, <4>4 DEF CmBecomes
    <3>2. \A m, k \in 1 .. Len(cmdQueue') : cmdQueue'[m] = cmdQueue'[k] => m = k
      <4> SUFFICES ASSUME NEW m \in 1 .. Len(cmdQueue'), NEW k \in 1 .. Len(cmdQueue'), cmdQueue'[m] = cmdQueue'[k]
                   PROVE  m = k
        OBVIOUS
      <4>1. m + 1 \in 1 .. Len(cmdQueue) /\ k + 1 \in 1 .. Len(cmdQueue) /\ cmdQueue[m + 1] = cmdQueue[k + 1]
        BY <2>2
      <4>2. m + 1 = k + 1
        BY <1>0, <4>1 DEF CmQueue
      <4> QED
        BY <4>2
    <3>3. Commands!Tasks' = Commands!Tasks
      BY <2>1 DEF Commands!Tasks
    <3> QED
      BY <3>1, <3>2, <3>3 DEF CmQueue
  <2> QED
    BY <2>7, <2>8, <2>9 DEF CmInv
<1>7. CASE Commands!Finish
  <2>1. PICK x \in Commands!Running, state \in Commands!Ended : Commands!Become(x, state)
    BY <1>7 DEF Commands!Finish
  <2>2. PICK c \in Calls, n \in 1 .. MaxItems : x = <<c, n>>
    BY DEF Commands!Running, Commands!Tasks
  <2>3. n \in 1 .. cmdItems[c] /\ cmdTask[c][n] = "running"
    BY <1>0, <2>2 DEF Commands!Running, Commands!Tasks, CmFacts
  <2>4. CmBecomes(c, n, state)
    BY <1>0, <2>1, <2>2, <2>3, CmBecome DEF Commands!Ended, States
  <2>5. UNCHANGED <<cmdItems, cmdCall, cmdAt, cmdResults, firstError, cmdQueue>>
    BY <1>7 DEF Commands!Finish
  <2>6. CmTaken'
    BY <1>0, <2>3, <2>4, <2>5, CmTakenKept DEF Got, Commands!Ended, States
  <2>7. CmFacts' /\ CmPosted'
    <3>1. CmFacts'
      BY <1>0, <2>4, <2>5 DEF CmFacts, CmBecomes
    <3>2. \A d \in Calls : \A i \in 1 .. cmdItems[d] : cmdTask'[d][i] = "fresh" <=> cmdTask[d][i] = "fresh"
      BY <2>3, <2>4 DEF CmBecomes, Commands!Ended
    <3> QED
      BY <1>0, <2>5, <3>1, <3>2 DEF CmPosted
  <2>8. CmQueue'
    <3>1. ASSUME NEW m \in 1 .. Len(cmdQueue)
          PROVE  cmdQueue[m] \in Commands!Tasks /\ cmdTask'[cmdQueue[m][1]][cmdQueue[m][2]] = "queued"
      <4>1. cmdQueue[m] \in Commands!Tasks /\ cmdTask[cmdQueue[m][1]][cmdQueue[m][2]] = "queued"
        BY <1>0 DEF CmQueue
      <4>2. PICK d \in Calls, i \in 1 .. MaxItems : cmdQueue[m] = <<d, i>>
        BY <4>1 DEF Commands!Tasks
      <4>3. i \in 1 .. cmdItems[d] /\ cmdTask[d][i] = "queued" /\ ~(d = c /\ i = n)
        <5>1. cmdQueue[m][1] = d /\ cmdQueue[m][2] = i
          BY <4>2
        <5>2. i <= cmdItems[d] /\ cmdTask[d][i] = "queued"
          BY <4>1, <5>1 DEF Commands!Tasks
        <5> QED
          BY <1>0, <2>3, <5>2 DEF CmFacts
      <4> QED
        BY <2>4, <4>1, <4>2, <4>3 DEF CmBecomes
    <3>2. Commands!Tasks' = Commands!Tasks
      BY <2>5 DEF Commands!Tasks
    <3> QED
      BY <1>0, <2>5, <3>1, <3>2 DEF CmQueue
  <2> QED
    BY <2>6, <2>7, <2>8 DEF CmInv
<1>8. CASE Commands!Refuse
  BY <1>0, <1>8 DEF CmInv, CmFacts, CmQueue, CmPosted, CmTaken, Got, Commands!Tasks, Commands!Refuse
<1>9. CASE UNCHANGED Commands!vars
  BY <1>0, <1>9 DEF CmInv, CmFacts, CmQueue, CmPosted, CmTaken, Got, Commands!Tasks, Commands!vars
<1>10. ASSUME NEW c \in Calls, Commands!Post(c) PROVE CmInv'
  BY <1>2, <1>10 DEF Commands!Post
<1>11. ASSUME NEW c \in Calls, Commands!RunRefused(c) PROVE CmInv'
  <2>1. PICK state \in Commands!Ended : Commands!Become(Commands!Mine(c), state)
    BY <1>11 DEF Commands!RunRefused
  <2> QED
    BY <1>2, <1>11, <2>1 DEF Commands!RunRefused, Commands!Ended
<1> QED
  BY <1>1, <1>3, <1>4, <1>5, <1>6, <1>7, <1>8, <1>9, <1>10, <1>11 DEF Commands!Next, Commands!GoesOn

\* From it: no task is left for a call that has returned, and results stand where their
\* items do, with the first failure by index the one that is thrown.
LEMMA CmSafe == CmInv => Commands!Inv
<1> SUFFICES ASSUME CmInv PROVE Commands!Inv
  OBVIOUS
<1> USE DEF CmInv
<1>1. Commands!TypeOK
  <2>1. \A i \in DOMAIN cmdQueue : cmdQueue[i] \in Commands!Tasks
    BY DEF CmFacts, CmQueue
  <2> QED
    BY <2>1 DEF Commands!TypeOK, CmFacts
<1>2. Commands!FrameOutlivesTasks
  BY DEF Commands!FrameOutlivesTasks, CmFacts, CmPosted, CmTaken, Got
<1>3. Commands!ResultsAligned
  <2> SUFFICES ASSUME NEW c \in Calls
               PROVE  /\ cmdResults[c] = [i \in 1..Len(cmdResults[c]) |-> cmdTask[c][i]]
                      /\ cmdCall[c] = "returned" =>
                           /\ Len(cmdResults[c]) = cmdItems[c]
                           /\ \A i \in 1..cmdItems[c] : cmdTask[c][i] = "error" => firstError[c] \in 1..i
    BY DEF Commands!ResultsAligned
  <2>1. cmdResults[c] \in Seq(States) /\ \A i \in 1 .. Len(cmdResults[c]) : cmdResults[c][i] = cmdTask[c][i]
    BY DEF CmFacts, CmTaken
  <2>2. cmdResults[c] = [i \in 1..Len(cmdResults[c]) |-> cmdTask[c][i]]
    BY <2>1
  <2> QED
    BY <2>2 DEF CmFacts, CmPosted, CmTaken, Got
<1> QED
  BY <1>1, <1>2, <1>3 DEF Commands!Inv

-----------------------------------------------------------------------------
\* All of them: the one component that moves has its invariant.
PcInv ==
    /\ kind = "ipc" => IpcInv
    /\ kind = "coroutine" => CoInv
    /\ kind = "child" => SuInv
    /\ kind = "io" => IoInv
    /\ kind = "devices" => DvInv
    /\ kind = "logcat" => LcInv
    /\ kind = "commands" => CmInv

\* The initial states: no component has begun.
LEMMA PcInit == Init => PcInv
<1> SUFFICES ASSUME Init PROVE PcInv
  OBVIOUS
<1>1. kind = "ipc" => IpcInv
  BY ProcessesAssumption, IpcInit DEF Init
<1>2. kind = "coroutine" => CoInv
  BY ProcessesAssumption, CoInit DEF Init
<1>3. kind = "child" => SuInv
  BY ProcessesAssumption, SuInit DEF Init
<1>4. kind = "io" => IoInv
  BY ProcessesAssumption, IoInit DEF Init
<1>5. kind = "devices" => DvInv
  BY ProcessesAssumption, DvInit DEF Init
<1>6. kind = "logcat" => LcInv
  BY ProcessesAssumption, LcInit DEF Init
<1>7. kind = "commands" => CmInv
  BY ProcessesAssumption, CmInit DEF Init
<1> QED
  BY <1>1, <1>2, <1>3, <1>4, <1>5, <1>6, <1>7 DEF PcInv

\* A step is one of the component it is about.
LEMMA PcStep == PcInv /\ [Next]_vars => PcInv'
<1> SUFFICES ASSUME PcInv, [Next]_vars PROVE PcInv'
  OBVIOUS
<1>0. kind' = kind
  BY DEF Next, vars
<1>1. CASE kind = "ipc"
  <2>1. [Ipc!Next]_(Ipc!vars)
    <3>1. CASE UNCHANGED vars
      BY <3>1 DEF vars, ipcVars, Ipc!vars, Ipc!rvars, Ipc!tvars, Ipc!ivars, Ipc!cvars
    <3> QED
      BY <1>1, <3>1 DEF Next
  <2> QED
    BY <1>1, <1>0, <2>1, ProcessesAssumption, IpcStep DEF PcInv
<1>2. CASE kind = "coroutine"
  <2>1. [Coroutine!Next]_(Coroutine!vars)
    <3>1. CASE UNCHANGED vars
      BY <3>1 DEF vars, coroutineVars, Coroutine!vars
    <3> QED
      BY <1>2, <3>1 DEF Next
  <2> QED
    BY <1>2, <1>0, <2>1, ProcessesAssumption, CoStep DEF PcInv
<1>3. CASE kind = "child"
  <2>1. [Child!Next]_(Child!vars)
    <3>1. CASE UNCHANGED vars
      BY <3>1 DEF vars, childVars, Child!vars, Child!process, Child!stdin, Child!outputs, Child!exit
    <3> QED
      BY <1>3, <3>1 DEF Next
  <2> QED
    BY <1>3, <1>0, <2>1, ProcessesAssumption, SuStep DEF PcInv
<1>4. CASE kind = "io"
  <2>1. [Io!Next]_(Io!vars)
    <3>1. CASE UNCHANGED vars
      BY <3>1 DEF vars, ioVars, Io!vars, Io!queueing, Io!wire, Io!registry
    <3> QED
      BY <1>4, <3>1 DEF Next
  <2> QED
    BY <1>4, <1>0, <2>1, ProcessesAssumption, IoStep DEF PcInv
<1>5. CASE kind = "devices"
  <2>1. [Bridge!Next]_(Bridge!vars)
    <3>1. CASE UNCHANGED vars
      BY <3>1 DEF vars, devicesVars, Bridge!vars
    <3> QED
      BY <1>5, <3>1 DEF Next
  <2> QED
    BY <1>5, <1>0, <2>1, ProcessesAssumption, DvStep DEF PcInv
<1>6. CASE kind = "logcat"
  <2>1. [Logcat!Next]_(Logcat!vars)
    <3>1. CASE UNCHANGED vars
      BY <3>1 DEF vars, logcatVars, Logcat!vars
    <3> QED
      BY <1>6, <3>1 DEF Next
  <2> QED
    BY <1>6, <1>0, <2>1, ProcessesAssumption, LcStep DEF PcInv
<1>7. CASE kind = "commands"
  <2>1. [Commands!Next]_(Commands!vars)
    <3>1. CASE UNCHANGED vars
      BY <3>1 DEF vars, commandsVars, Commands!vars
    <3> QED
      BY <1>7, <3>1 DEF Next
  <2> QED
    BY <1>7, <1>0, <2>1, ProcessesAssumption, CmStep DEF PcInv
<1> QED
  BY <1>0, <1>1, <1>2, <1>3, <1>4, <1>5, <1>6, <1>7 DEF PcInv

\* What the components promise follows from their invariants.
LEMMA PcSafe == PcInv => AnsweredOnce /\ ProcessesSafe /\ BridgeSafe
  BY ProcessesAssumption, IpcSafe, CoSafe, SuSafe, IoSafe, DvSafe, LcSafe, CmSafe
     DEF PcInv, AnsweredOnce, ProcessesSafe, BridgeSafe

\* The invariant of the components is one of the specification.
LEMMA PcAlways == Spec => []PcInv
  BY PcInit, PcStep, PTL DEF Spec

\* IPC and coroutines (ipc_channel.cpp, scheduler.cpp): however the reply, the timer, the
\* failing send and close() are interleaved, one of them calls onDone, once, and leaves no
\* timer armed; of the timer, the stop token and stop() one resumes the coroutine, once,
\* and tells it truly why.
THEOREM AnsweredOnceAlways == Spec => []AnsweredOnce
  BY PcAlways, PcSafe, PTL

\* Child processes and their module (subprocess_posix.cpp, subprocess_win32.cpp,
\* io_module.cpp): a destructor that has returned leaves no thread and no child behind, no
\* text that was taken is lost, standard input has one reader and a name one process.
THEOREM ProcessesSafeAlways == Spec => []ProcessesSafe
  BY PcAlways, PcSafe, PTL

\* The Android bridge (adb_module.cpp, command_executor.cpp): whoever counts the events
\* knows the snapshot however refreshes overlap, a logcat has one keeper, and no task of
\* parallelForEach() outlives the call whose frame it uses.
THEOREM BridgeSafeAlways == Spec => []BridgeSafe
  BY PcAlways, PcSafe, PTL
=============================================================================
