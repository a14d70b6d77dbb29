----------------------------- MODULE AdbCommands -----------------------------
(***************************************************************************)
(* AdbCommandExecutor::parallelForEach() (dsbox_android_adb): a call posts  *)
(* one task for each item to the pool, runs by itself those the pool        *)
(* refuses, waits for the results in the order of the items and throws the  *)
(* first error.  The tasks refer to the caller's frame.                     *)
(*                                                                         *)
(* External: the work, a run of adb, which ends with a value or an          *)
(* exception and may make another call itself; and the pool, which takes    *)
(* its jobs in order (ThreadPool).                                          *)
(***************************************************************************)
EXTENDS Naturals, Sequences, FiniteSets

CONSTANTS Calls,    \* calls of parallelForEach()
          MaxItems, \* bound: items of a call
          Workers   \* threads of the pool

\* Assumed of the constants.
CommandConstants == IsFiniteSet(Calls) /\ MaxItems \in Nat /\ Workers \in Nat \ {0}

VARIABLES items,    \* call |-> how many items it has
          call,     \* call |-> new, posting, getting, returned
          maker,    \* call |-> the tasks that make it: none, or one
          at,       \* call |-> the item it posts, or whose result it waits for
          task,     \* call |-> item |-> fresh, queued, running, value, error
          results,  \* call |-> what was taken from the futures so far
          firstError, \* call |-> the item whose exception it will throw, or 0
          queue,    \* the pool's queue, of <<call, item>>
          refusing  \* whether the pool was shut down

taking == <<results, firstError>>
pool == <<queue, refusing>>
vars == <<items, call, maker, at, task, results, firstError, queue, refusing>>

Init ==
    /\ items \in [Calls -> 0..MaxItems]
    /\ call = [c \in Calls |-> "new"] /\ maker = [c \in Calls |-> {}] /\ at = [c \in Calls |-> 1]
    /\ task = [c \in Calls |-> [i \in 1..items[c] |-> "fresh"]]
    /\ results = [c \in Calls |-> <<>>] /\ firstError = [c \in Calls |-> 0]
    /\ queue = <<>> /\ refusing = FALSE

-----------------------------------------------------------------------------
Ended == {"value", "error"}
Tasks == {x \in Calls \X (1..MaxItems) : x[2] <= items[x[1]]}
Running == {x \in Tasks : task[x[1]][x[2]] = "running"}
Become(x, state) == task' = [task EXCEPT ![x[1]][x[2]] = state]
\* A task that makes a call has its thread wait for it.
Waiting == UNION {maker[c] : c \in {d \in Calls : call[d] # "returned"}}

\* A call by a thread of its own, or by a task of another call.
Begin(c) ==
    /\ call[c] = "new" /\ call' = [call EXCEPT ![c] = "posting"]
    /\ \E by \in {{}} \cup {{x} : x \in Running \ Waiting} : maker' = [maker EXCEPT ![c] = by]
    /\ UNCHANGED <<items, at, task, taking, pool>>
\* post(): it is queued, or refused and run by the caller here and now.
Mine(c) == <<c, at[c]>>
Post(c) ==
    /\ call[c] = "posting" /\ at[c] <= items[c] /\ ~refusing
    /\ queue' = Append(queue, Mine(c)) /\ Become(Mine(c), "queued")
    /\ at' = [at EXCEPT ![c] = @ + 1]
    /\ UNCHANGED <<items, call, maker, taking, refusing>>
RunRefused(c) ==
    /\ call[c] = "posting" /\ at[c] <= items[c] /\ refusing
    /\ \E outcome \in Ended : Become(Mine(c), outcome)
    /\ at' = [at EXCEPT ![c] = @ + 1]
    /\ UNCHANGED <<items, call, maker, taking, pool>>
Posted(c) ==
    /\ call[c] = "posting" /\ at[c] > items[c]
    /\ call' = [call EXCEPT ![c] = "getting"] /\ at' = [at EXCEPT ![c] = 1]
    /\ UNCHANGED <<items, maker, task, taking, pool>>
\* A mutated form: a failed item leaves no place.
ValuesOnly(c) == IF task[c][at[c]] = "error" THEN results[c] ELSE Append(results[c], task[c][at[c]])
\* future.get(): an error keeps its place, the first one is thrown at the end.
Taken(c) == Append(results[c], task[c][at[c]])
Get(c) ==
    /\ call[c] = "getting" /\ at[c] <= items[c] /\ task[c][at[c]] \in Ended
    /\ results' = [results EXCEPT ![c] = Taken(c)]
    /\ firstError' = [firstError EXCEPT ![c] = IF task[c][at[c]] = "error" /\ @ = 0 THEN at[c] ELSE @]
    /\ at' = [at EXCEPT ![c] = @ + 1]
    /\ UNCHANGED <<items, call, maker, task, pool>>
\* A mutated form: the first error is thrown at once.
ThrowFirst(c) == at[c] > items[c] \/ firstError[c] # 0
MayReturn(c) == at[c] > items[c]
Return(c) ==
    /\ call[c] = "getting" /\ MayReturn(c)
    /\ call' = [call EXCEPT ![c] = "returned"]
    /\ UNCHANGED <<items, maker, at, task, taking, pool>>

\* The pool: a free worker takes the next task, and the work ends.
Take ==
    /\ queue # <<>> /\ Cardinality(Running) < Workers
    /\ Become(Head(queue), "running") /\ queue' = Tail(queue)
    /\ UNCHANGED <<items, call, maker, at, taking, refusing>>
Finish ==
    /\ \E x \in Running \ Waiting, outcome \in Ended : Become(x, outcome)
    /\ UNCHANGED <<items, call, maker, at, taking, pool>>
\* Its shutdown, which only the executor's destructor makes: what is queued is still run.
Refuse ==
    /\ ~refusing /\ refusing' = TRUE
    /\ UNCHANGED <<items, call, maker, at, task, taking, queue>>

GoesOn ==
    \/ \E c \in Calls : Post(c) \/ RunRefused(c) \/ Posted(c) \/ Get(c) \/ Return(c)
    \/ Take \/ Finish
Next == GoesOn \/ Refuse \/ \E c \in Calls : Begin(c)

\* Callers and pool threads go on, and adb ends.
Fairness == WF_vars(GoesOn)
Spec == Init /\ [][Next]_vars /\ Fairness

-----------------------------------------------------------------------------
TypeOK ==
    /\ call \in [Calls -> {"new", "posting", "getting", "returned"}]
    /\ \A i \in DOMAIN queue : queue[i] \in Tasks
    /\ \A c \in Calls : at[c] \in 1..(items[c] + 1)

\* No task runs, or is still to run, for a call that has returned or thrown: it would
\* use the caller's frame ("after every invocation has finished running").
FrameOutlivesTasks ==
    \A c \in Calls : call[c] = "returned" => \A i \in 1..items[c] : task[c][i] \in Ended
\* The results stand where their items do, whatever order they came in; one failure
\* changes nothing for the others, and the first by index is the one thrown.
ResultsAligned ==
    \A c \in Calls :
        /\ results[c] = [i \in 1..Len(results[c]) |-> task[c][i]]
        /\ call[c] = "returned" =>
             /\ Len(results[c]) = items[c]
             /\ \A i \in 1..items[c] : task[c][i] = "error" => firstError[c] \in 1..i
Inv == TypeOK /\ FrameOutlivesTasks /\ ResultsAligned

\* Calls return, also "from within a job running on this executor's own pool", as
\* long as a worker is left for their tasks.
Returned == \A c \in Calls : call[c] \in {"new", "returned"}
EventuallyReturned == <>[]Returned
=============================================================================
