------------------------- MODULE IdempotencyContract -------------------------
(***************************************************************************)
(* What the idempotency coordinator promises about one key: the key        *)
(* belongs to one payload at a time; a request starts only with that       *)
(* payload and while no other executes on the key's record; a result is    *)
(* put on record by the execution that produced it.                        *)
(*                                                                         *)
(* The key is condemned only while nobody executes on its record, and only *)
(* a condemned key is swept.  A request that starts between the two loses  *)
(* its record: it executes on, next to those that start on the free key,   *)
(* and its result is not recorded.                                         *)
(*                                                                         *)
(* A key may start again over a result: the coordinator does not promise   *)
(* to execute once, only one after the other.                              *)
(***************************************************************************)
CONSTANTS Requests, Payloads

VARIABLES
  bound,    \* the payload the key belongs to, "none" for a free key
  running,  \* the payload each request is executing, "none" if it is not
  stored,   \* the payload whose result is on record, or "none"
  loose,    \* the requests that execute without a record
  doomed    \* is the key condemned?

contractVars == <<bound, running, stored, loose, doomed>>

Init == /\ bound = "none" /\ stored = "none"
        /\ running = [r \in Requests |-> "none"]
        /\ loose = {} /\ doomed = FALSE

Quiet == \A r \in Requests : running[r] # "none" => r \in loose

\* A result on record is dropped by whoever executes again.
Start(r) == /\ Quiet
            /\ running[r] = "none"
            /\ \E p \in Payloads :
                 /\ bound \in {"none", p}
                 /\ bound' = p
                 /\ running' = [running EXCEPT ![r] = p]
            /\ stored' = "none"
            /\ UNCHANGED <<loose, doomed>>

End(r) == /\ running[r] # "none"
          /\ running' = [running EXCEPT ![r] = "none"]
          /\ loose' = loose \ {r}

Finish(r) == r \notin loose /\ End(r) /\ stored' = running[r] /\ UNCHANGED <<bound, doomed>>

\* The execution fails, its process stops, or it has no record.
Fail(r) == End(r) /\ UNCHANGED <<bound, stored, doomed>>

Condemn == /\ bound # "none" /\ Quiet
           /\ ~ doomed /\ doomed' = TRUE
           /\ UNCHANGED <<bound, running, stored, loose>>

Reprieve == /\ doomed /\ doomed' = FALSE
            /\ UNCHANGED <<bound, running, stored, loose>>

Sweep == /\ doomed /\ doomed' = FALSE
         /\ bound' = "none" /\ stored' = "none"
         /\ loose' = {r \in Requests : running[r] # "none"}
         /\ UNCHANGED running

Next == \/ Condemn \/ Reprieve \/ Sweep
        \/ \E r \in Requests : Start(r) \/ Finish(r) \/ Fail(r)

Spec == Init /\ [][Next]_contractVars
=============================================================================
