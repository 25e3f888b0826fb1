----------------------------- MODULE RWLockSpec -----------------------------
(***************************************************************************)
(* What the write-first read-write lock of the camera subsystem promises   *)
(* its users, with no counters, flags or condition variables.              *)
(* CPullStreamMng and CVSQueueManager take it through unique_readguard and *)
(* unique_writeguard around every access of their maps.                    *)
(***************************************************************************)
CONSTANT Thread

VARIABLE mode        \* what each thread does with the lock

Modes == {"out", "wantRead", "wantWrite", "read", "write"}

TypeOK == mode \in [Thread -> Modes]

Init == mode = [t \in Thread |-> "out"]

\* No thread holds the lock, for reading or for writing.
Free == \A t \in Thread : mode[t] \notin {"read", "write"}

\* No thread holds or waits for the write lock.
NoWriter == \A t \in Thread : mode[t] \notin {"wantWrite", "write"}

\* A thread has to wait: a reader only for a writer, a writer only for a holder.
BlockRead(t) ==
    /\ mode[t] = "out"
    /\ ~NoWriter
    /\ mode' = [mode EXCEPT ![t] = "wantRead"]

BlockWrite(t) ==
    /\ mode[t] = "out"
    /\ ~Free
    /\ mode' = [mode EXCEPT ![t] = "wantWrite"]

\* Writers first: a reader enters only when no writer holds or waits.
EnterRead(t) ==
    /\ mode[t] \in {"out", "wantRead"}
    /\ NoWriter
    /\ mode' = [mode EXCEPT ![t] = "read"]

EnterWrite(t) ==
    /\ mode[t] \in {"out", "wantWrite"}
    /\ Free
    /\ mode' = [mode EXCEPT ![t] = "write"]

Leave(t) ==
    /\ mode[t] \in {"read", "write"}
    /\ mode' = [mode EXCEPT ![t] = "out"]

Next == \E t \in Thread : \/ BlockRead(t) \/ EnterRead(t)
                          \/ BlockWrite(t) \/ EnterWrite(t)
                          \/ Leave(t)

Spec == Init /\ [][Next]_mode
=============================================================================
