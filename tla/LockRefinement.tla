--------------------------- MODULE LockRefinement ---------------------------
(* LockLifecycle implements LockPromise: a lock holds while its row is      *)
(* active, and its verdict is the outcome of the incident that started it.  *)
EXTENDS LockLifecycle

Holder == IF ActiveLocks = {} THEN None
          ELSE CHOOSE i \in LockIds : lock[i].state = "active"

Verdict == [i \in LockIds |-> IF lock[i].state = "none" THEN "none"
                              ELSE incident[i].outcome]

Abstract == INSTANCE LockPromise WITH
                Locks <- LockIds, None <- None,
                holder <- Holder, verdict <- Verdict

\* Every behaviour of passes, batches and requests is one of the promise.
KeepsPromise == Abstract!Promise
=============================================================================
