------------------------------- MODULE RWLock -------------------------------
(***************************************************************************)
(* common_cmmobj::WfirstRWLock (common/cmmobj/mutex/RWLock.hpp): two       *)
(* counters, a flag and two condition variables under counter_mutex.       *)
(*                                                                         *)
(* Every method holds counter_mutex from its first statement to its return *)
(* or to the wait of a condition variable, so each such section is one     *)
(* step.  A waiting thread is notified, or wakes spuriously, and then      *)
(* takes counter_mutex again to evaluate its predicate once more.          *)
(***************************************************************************)
EXTENDS Integers, FiniteSets

CONSTANT Thread

ASSUME ThreadAssumption == IsFiniteSet(Thread)

VARIABLES
    read_cnt,      \* readers inside
    write_cnt,     \* writers inside or waiting
    inwriteflag,   \* a writer is inside
    pc             \* where each thread is in the lock's methods

vars == <<read_cnt, write_cnt, inwriteflag, pc>>

\* "readWait" and "writeWait" are the wait sets of cond_r and cond_w;
\* "readWoken" and "writeWoken" left them and compete for counter_mutex.
States == {"idle", "readWait", "readWoken", "reading",
           "writeWait", "writeWoken", "writing"}

At(s) == {t \in Thread : pc[t] = s}

Init ==
    /\ read_cnt = 0
    /\ write_cnt = 0
    /\ inwriteflag = FALSE
    /\ pc = [t \in Thread |-> "idle"]
-----------------------------------------------------------------------------
\* The predicates handed to cond_r.wait and cond_w.wait.
ReadPred == write_cnt = 0
Bug_WritePred == ~inwriteflag
WritePred == read_cnt = 0 /\ ~inwriteflag

\* One evaluation of lock_read's wait loop: ++read_cnt, or back to the wait set.
TryRead(t) ==
    /\ \/ /\ ReadPred
          /\ read_cnt' = read_cnt + 1
          /\ pc' = [pc EXCEPT ![t] = "reading"]
       \/ /\ ~ReadPred
          /\ pc' = [pc EXCEPT ![t] = "readWait"]
          /\ UNCHANGED read_cnt
    /\ UNCHANGED <<write_cnt, inwriteflag>>

lock_read(t) == pc[t] = "idle" /\ TryRead(t)

reread(t) == pc[t] = "readWoken" /\ TryRead(t)

\* One evaluation of lock_write's wait loop.
TryWrite(t) ==
    /\ \/ /\ WritePred
          /\ inwriteflag' = TRUE
          /\ pc' = [pc EXCEPT ![t] = "writing"]
       \/ /\ ~WritePred
          /\ pc' = [pc EXCEPT ![t] = "writeWait"]
          /\ UNCHANGED inwriteflag
    /\ UNCHANGED read_cnt

\* A writer that is counted only once it is inside: readers overtake it.
Bug_lock_write(t) ==
    /\ pc[t] = "idle"
    /\ write_cnt' = IF WritePred THEN write_cnt + 1 ELSE write_cnt
    /\ TryWrite(t)

lock_write(t) ==
    /\ pc[t] = "idle"
    /\ write_cnt' = write_cnt + 1
    /\ TryWrite(t)

rewrite(t) ==
    /\ pc[t] = "writeWoken"
    /\ TryWrite(t)
    /\ UNCHANGED write_cnt

\* cond_w.notify_one() by t, which leaves the lock in the same step.
NotifyWriter(t) ==
    \/ /\ At("writeWait") = {}
       /\ pc' = [pc EXCEPT ![t] = "idle"]
    \/ \E w \in At("writeWait") :
          pc' = [pc EXCEPT ![t] = "idle", ![w] = "writeWoken"]

\* cond_r.notify_all() by t, which leaves the lock in the same step.
NotifyReaders(t) ==
    pc' = [u \in Thread |-> IF u = t THEN "idle"
                            ELSE IF pc[u] = "readWait" THEN "readWoken"
                            ELSE pc[u]]

\* A reader that wakes no writer when it is the last one to leave.
Bug_release_read(t) ==
    /\ pc[t] = "reading"
    /\ read_cnt' = read_cnt - 1
    /\ pc' = [pc EXCEPT ![t] = "idle"]
    /\ UNCHANGED <<write_cnt, inwriteflag>>

release_read(t) ==
    /\ pc[t] = "reading"
    /\ read_cnt' = read_cnt - 1
    /\ IF read_cnt' = 0 /\ write_cnt > 0
         THEN NotifyWriter(t)
         ELSE pc' = [pc EXCEPT ![t] = "idle"]
    /\ UNCHANGED <<write_cnt, inwriteflag>>

\* A writer that always hands over to a writer and forgets the readers.
Bug_release_write(t) ==
    /\ pc[t] = "writing"
    /\ write_cnt' = write_cnt - 1
    /\ NotifyWriter(t)
    /\ inwriteflag' = FALSE
    /\ UNCHANGED read_cnt

release_write(t) ==
    /\ pc[t] = "writing"
    /\ write_cnt' = write_cnt - 1
    /\ IF write_cnt' = 0 THEN NotifyReaders(t) ELSE NotifyWriter(t)
    /\ inwriteflag' = FALSE
    /\ UNCHANGED read_cnt

\* std::condition_variable allows a wait to end without a notification.
SpuriousWakeup(t) ==
    /\ \/ pc[t] = "readWait" /\ pc' = [pc EXCEPT ![t] = "readWoken"]
       \/ pc[t] = "writeWait" /\ pc' = [pc EXCEPT ![t] = "writeWoken"]
    /\ UNCHANGED <<read_cnt, write_cnt, inwriteflag>>

Next == \E t \in Thread : \/ lock_read(t) \/ reread(t) \/ release_read(t)
                          \/ lock_write(t) \/ rewrite(t) \/ release_write(t)
                          \/ SpuriousWakeup(t)

\* A woken thread is scheduled, and a guard is destroyed at the end of its scope.
\* Two scopes do more than touch a map: StartPullStreamObj opens the camera under
\* the read lock and DelPullStreamObj joins the pull thread under the write lock.
\* The fairness of the releases assumes that these end.
Fairness == \A t \in Thread : /\ WF_vars(reread(t)) /\ WF_vars(rewrite(t))
                              /\ WF_vars(release_read(t)) /\ WF_vars(release_write(t))

SafeSpec == Init /\ [][Next]_vars

Spec == SafeSpec /\ Fairness
-----------------------------------------------------------------------------
\* Type correctness: in particular size_t read_cnt and write_cnt never wrap below zero.
TypeOK ==
    /\ read_cnt \in Nat
    /\ write_cnt \in Nat
    /\ inwriteflag \in BOOLEAN
    /\ pc \in [Thread -> States]

Writers == {t \in Thread : pc[t] \in {"writeWait", "writeWoken", "writing"}}

\* The counters and the flag tell the truth about the threads: what release_read
\* and release_write decide from them is what the threads are really doing.
CountersExact ==
    /\ read_cnt = Cardinality(At("reading"))
    /\ write_cnt = Cardinality(Writers)
    /\ inwriteflag <=> At("writing") # {}

\* A writer inside excludes every other thread: a camera object is never deleted
\* from m_mapPSObjs or m_mapVSObjs while another thread looks it up.
MutualExclusion ==
    \A t \in Thread : pc[t] = "writing" => \A u \in Thread \ {t} : pc[u] \notin {"reading", "writing"}

\* No wakeup is lost, although release_read and release_write notify only one
\* writer, or only the readers: a thread that could enter is never left asleep
\* with nobody on the way who enters before it and notifies it in turn.
NoLostWakeup ==
    /\ WritePred /\ At("writeWait") # {} => At("writeWoken") # {}
    /\ ReadPred => At("readWait") = {}

\* What the proofs use: an invariant that every step preserves by itself.
IInv == TypeOK /\ CountersExact /\ MutualExclusion /\ NoLostWakeup

\* The refinement mapping: what each thread does with the lock, seen from outside.
absMode ==
    [t \in Thread |-> IF pc[t] = "idle" THEN "out"
                      ELSE IF pc[t] = "reading" THEN "read"
                      ELSE IF pc[t] = "writing" THEN "write"
                      ELSE IF pc[t] \in {"readWait", "readWoken"} THEN "wantRead"
                      ELSE "wantWrite"]

Abs == INSTANCE RWLockSpec WITH mode <- absMode

\* The lock implements the abstract lock: in particular writers come first.
ImplementsRWLockSpec == Abs!Spec

\* While writers wait, one of them gets in (not each of them: a newcomer may barge).
WriterProgress ==
    (At("writeWait") \cup At("writeWoken") # {}) ~> (At("writing") # {})

\* Writers may starve readers for ever, by design; once they stop coming, every
\* waiting reader gets in.
ReaderProgress ==
    \A t \in Thread :
        (<>[](Writers = {})) => (pc[t] \in {"readWait", "readWoken"} ~> pc[t] = "reading")
=============================================================================
