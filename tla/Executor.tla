------------------------------ MODULE Executor ------------------------------
(***************************************************************************)
(* The contract of IExecutor (executor.hpp): what a caller of post() may   *)
(* rely on, whatever the executor is.  post() either takes a callback,     *)
(* which is then run at most once, or refuses it, and then it never runs.  *)
(* ThreadPoolExecutor, LoopExecutor and SerialExecutor are shown to        *)
(* implement this specification.                                           *)
(***************************************************************************)
CONSTANT Callbacks   \* the callbacks clients post, each at most once

VARIABLE status      \* what the client and the callback have seen so far

Init == status = [c \in Callbacks |-> "new"]

Move(c, from, to) ==
    /\ status[c] = from
    /\ status' = [status EXCEPT ![c] = to]

\* post() returned true / false.
Take(c)   == Move(c, "new", "taken")
Refuse(c) == Move(c, "new", "refused")

\* One of the executor's threads enters and leaves the callback.
Start(c)  == Move(c, "taken", "running")
Finish(c) == Move(c, "running", "done")

Next == \E c \in Callbacks : Take(c) \/ Refuse(c) \/ Start(c) \/ Finish(c)

Spec == Init /\ [][Next]_status
=============================================================================
