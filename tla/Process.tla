------------------------------- MODULE Process -------------------------------
(***************************************************************************)
(* The life of a gateway process as the tunnel entries see it: a process   *)
(* that runs has found no entry of an earlier one, however that one ended, *)
(* and writes its own; a start that fails writes none, and may already     *)
(* have deleted what was there.                                            *)
(*                                                                         *)
(* Startup implements this link operation by link operation, and           *)
(* NodeReconciler, which takes a start for one step, implements it too.    *)
(***************************************************************************)

VARIABLES
    up,        \* the manager runs
    entries    \* on the interface: "none", this process's "own" or "old" ones

processVars == <<up, entries>>

Init == up = FALSE /\ entries = "none"

Start == ~up /\ up' = TRUE /\ entries' = "none"

StartFails == ~up /\ up' = FALSE /\ entries' = "none"

\* Entries come, and go when their nodes do.
Program == up /\ up' = TRUE /\ entries' \in {"none", "own"}

\* The interface stays.
Exit == up /\ up' = FALSE /\ entries' = IF entries = "own" THEN "old" ELSE entries

\* The interface is torn down.
Terminate == up /\ up' = FALSE /\ entries' = "none"

Next == Start \/ StartFails \/ Program \/ Exit \/ Terminate

Spec == Init /\ [][Next]_processVars
=============================================================================
