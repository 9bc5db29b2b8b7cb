---------------------------- MODULE MutexHistory ----------------------------
(* Mutex with a history variable that remembers whether the lock has been through  *)
(* one of the two circumstances in which its code can lose a wakeup.               *)
EXTENDS Mutex

VARIABLE lapsed

\* A thread waits a second time in one call of lock(), uncounted.
SecondWait == \E t \in Threads : pc[t] = "count" /\ pc'[t] = "test" /\ added[t]

\* A waiter has registered between an early load of wait_count_ and the store that
\* should have come first.
MissedWaiter == \E t \in Threads : pc[t] = "store" /\ pc'[t] = "idle" /\ wait_count > 0

HistoryInit == Init /\ lapsed = FALSE
HistoryNext == Next /\ lapsed' = (lapsed \/ SecondWait \/ MissedWaiter)
HistorySpec == HistoryInit /\ [][HistoryNext]_<<vars, lapsed>>

\* No wakeup is lost before one of the two circumstances has occurred, whatever the
\* interleaving: registering, testing and sleeping against storing and counting.
WakeupsAreKept == ~lapsed => FreeLockIsRemembered
=============================================================================
