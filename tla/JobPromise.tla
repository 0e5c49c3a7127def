----------------------------- MODULE JobPromise -----------------------------
(***************************************************************************)
(* What jobs-mcp promises of one job (docs/specs/jobs-mcp.md section 5),   *)
(* without a queue, a process or a clock: a job is accepted once with a    *)
(* limit that never moves, tried at most that often, given a try back when *)
(* it never got one, and ended once.                                       *)
(***************************************************************************)
EXTENDS Integers

VARIABLES phase, tries, limit, outcome

promise == <<phase, tries, limit, outcome>>

Init == phase = "none" /\ tries = 0 /\ limit = 0 /\ outcome = "none"

Accept ==
  /\ phase = "none"
  /\ phase' = "waiting" /\ limit' \in Nat \ {0}
  /\ UNCHANGED <<tries, outcome>>

Try ==
  /\ phase = "waiting" /\ tries < limit
  /\ phase' = "trying" /\ tries' = tries + 1
  /\ UNCHANGED <<limit, outcome>>

(* The executor was never reached: the try does not count.                 *)
GiveBack ==
  /\ phase = "trying"
  /\ phase' = "waiting" /\ tries' = tries - 1
  /\ UNCHANGED <<limit, outcome>>

Retry ==
  /\ phase = "trying" /\ tries < limit
  /\ phase' = "waiting"
  /\ UNCHANGED <<tries, limit, outcome>>

End(o) ==
  /\ \/ phase = "waiting" /\ o = "canceled"
     \/ phase = "trying" /\ o \in {"succeeded", "terminal"}
     \/ phase = "trying" /\ o = "retries_exhausted" /\ tries = limit
  /\ phase' = "done" /\ outcome' = o
  /\ UNCHANGED <<tries, limit>>

Next ==
  \/ Accept \/ Try \/ GiveBack \/ Retry
  \/ \E o \in {"canceled", "succeeded", "terminal", "retries_exhausted"} : End(o)

Spec == Init /\ [][Next]_promise
=============================================================================
