---------------------------- MODULE MCDispatcher ----------------------------
(***************************************************************************)
(* A small instance of Dispatcher: a keyed job of an urgent priority whose *)
(* type (smoke) has one attempt, and plain jobs of a later priority whose  *)
(* type (sync) has two. A later registry may lack smoke, or every type.    *)
(***************************************************************************)
EXTENDS Dispatcher

CONSTANTS sync, smoke, k1

MCEnvelopes ==
  {[task_type |-> sync, priority |-> 5, key |-> NoKey],
   [task_type |-> smoke, priority |-> 1, key |-> k1]}
MCMaxAttempts == [t \in TaskTypes |-> IF t = sync THEN 2 ELSE 1]
MCRegistries == {{sync, smoke}, {sync}, {}}
=============================================================================
