---------------------------- MODULE RWLock_proofs ----------------------------
(***************************************************************************)
(* Proofs about the write-first read-write lock for any finite number of   *)
(* threads: its invariant is inductive, and the lock implements RWLockSpec.*)
(***************************************************************************)
EXTENDS RWLock, FiniteSetTheorems, TLAPS

\* The counters only ever move by one thread, so these three facts are all the
\* arithmetic of cardinalities the proofs need.
LEMMA CardNat ==
  ASSUME NEW S \in SUBSET Thread
  PROVE  IsFiniteSet(S) /\ Cardinality(S) \in Nat /\ (Cardinality(S) = 0 <=> S = {})
<1>1. IsFiniteSet(S)
  BY ThreadAssumption, FS_Subset
<1>2. QED
  BY <1>1, FS_CardinalityType, FS_EmptySet

\* Adding a thread to a wait set raises its count by one.
LEMMA CardAdd ==
  ASSUME NEW S \in SUBSET Thread, NEW t \in Thread, t \notin S
  PROVE  Cardinality(S \cup {t}) = Cardinality(S) + 1
BY CardNat, FS_AddElement

\* A thread that leaves lowers the count by one.
LEMMA CardRemove ==
  ASSUME NEW S \in SUBSET Thread, NEW t \in S
  PROVE  Cardinality(S \ {t}) = Cardinality(S) - 1
BY CardNat, FS_RemoveElement

\* Every step of the lock preserves the type invariant; the releases need the exact
\* counters, without which they could take an unsigned counter below zero.
LEMMA InductionStep == IInv /\ [Next]_vars => IInv'
<1> SUFFICES ASSUME IInv, [Next]_vars PROVE IInv'
  OBVIOUS
<1> USE DEF IInv, TypeOK, CountersExact, MutualExclusion, NoLostWakeup,
            States, At, Writers, ReadPred, WritePred
<1>a. /\ Cardinality(At("reading")) \in Nat /\ (Cardinality(At("reading")) = 0 <=> At("reading") = {})
      /\ Cardinality(Writers) \in Nat /\ (Cardinality(Writers) = 0 <=> Writers = {})
  BY CardNat
<1>1. ASSUME NEW t \in Thread, lock_read(t) \/ reread(t) PROVE IInv'
  <2>1. CASE ReadPred
    <3>1. /\ read_cnt' = read_cnt + 1 /\ pc' = [pc EXCEPT ![t] = "reading"]
          /\ UNCHANGED <<write_cnt, inwriteflag>> /\ pc[t] \in {"idle", "readWoken"}
      BY <1>1, <2>1 DEF lock_read, reread, TryRead
    <3>2. /\ At("reading")' = At("reading") \cup {t} /\ t \notin At("reading")
          /\ Writers' = Writers /\ At("writing")' = At("writing")
      BY <3>1
    <3>3. Cardinality(At("reading")') = Cardinality(At("reading")) + 1
      BY <3>2, CardAdd
    <3>4. Writers = {}
      BY <1>a, <2>1
    <3>5. TypeOK'
      BY <3>1
    <3>6. read_cnt' = Cardinality(At("reading"))'
      BY <3>1, <3>3
    <3>7. write_cnt' = Cardinality(Writers)' /\ (inwriteflag' <=> At("writing")' # {})
      BY <3>1, <3>2
    <3>8. MutualExclusion' /\ NoLostWakeup'
      BY <3>1, <3>4, <2>1
    <3> QED BY <3>5, <3>6, <3>7, <3>8
  <2>2. CASE ~ReadPred
    <3>1. /\ pc' = [pc EXCEPT ![t] = "readWait"] /\ UNCHANGED <<read_cnt, write_cnt, inwriteflag>>
          /\ pc[t] \in {"idle", "readWoken"}
      BY <1>1, <2>2 DEF lock_read, reread, TryRead
    <3>2. At("reading")' = At("reading") /\ Writers' = Writers
      BY <3>1
    <3>3. TypeOK' /\ CountersExact'
      BY <3>1, <3>2
    <3>4. MutualExclusion' /\ NoLostWakeup'
      BY <3>1, <2>2
    <3> QED BY <3>3, <3>4
  <2> QED BY <2>1, <2>2
<1>2. ASSUME NEW t \in Thread, lock_write(t) \/ rewrite(t) PROVE IInv'
  <2>1. pc[t] \in {"idle", "writeWoken"} /\ UNCHANGED read_cnt
    BY <1>2 DEF lock_write, rewrite, TryWrite
  <2>2. \/ WritePred /\ inwriteflag' = TRUE /\ pc' = [pc EXCEPT ![t] = "writing"]
        \/ ~WritePred /\ UNCHANGED inwriteflag /\ pc' = [pc EXCEPT ![t] = "writeWait"]
    BY <1>2 DEF lock_write, rewrite, TryWrite
  <2>3. Writers' = Writers \cup {t} /\ At("reading")' = At("reading")
    BY <2>1, <2>2
  <2>4. write_cnt' = Cardinality(Writers') /\ write_cnt' # 0 /\ write_cnt' \in Nat
    <3>1. CASE lock_write(t)
      <4>1. t \notin Writers /\ write_cnt' = write_cnt + 1
        BY <3>1 DEF lock_write
      <4> QED BY <4>1, <2>3, <1>a, CardAdd
    <3>2. CASE rewrite(t)
      <4>1. Writers' = Writers /\ Writers # {} /\ write_cnt' = write_cnt
        BY <3>2, <2>3 DEF rewrite
      <4> QED BY <4>1, <1>a
    <3> QED BY <3>1, <3>2, <1>2
  <2>5. TypeOK'
    BY <2>1, <2>2, <2>4
  <2>6. read_cnt' = Cardinality(At("reading"))' /\ write_cnt' = Cardinality(Writers)'
    BY <2>1, <2>3, <2>4
  <2>7. inwriteflag' <=> At("writing")' # {}
    BY <2>1, <2>2
  <2>8. MutualExclusion'
    BY <2>1, <2>2, <1>a
  <2>9. NoLostWakeup'
    BY <2>1, <2>2, <2>4
  <2> QED BY <2>5, <2>6, <2>7, <2>8, <2>9
<1>3. ASSUME NEW t \in Thread, release_read(t) PROVE IInv'
  <2>1. /\ pc[t] = "reading" /\ read_cnt' = read_cnt - 1 /\ UNCHANGED <<write_cnt, inwriteflag>>
    BY <1>3 DEF release_read
  <2>2. \/ pc' = [pc EXCEPT ![t] = "idle"] /\ (WritePred' => At("writeWait") = {})
        \/ \E w \in At("writeWait") : pc' = [pc EXCEPT ![t] = "idle", ![w] = "writeWoken"]
    <3>1. CASE read_cnt' = 0 /\ write_cnt > 0
      BY <1>3, <3>1 DEF release_read, NotifyWriter
    <3>2. CASE ~(read_cnt' = 0 /\ write_cnt > 0)
      <4>1. pc' = [pc EXCEPT ![t] = "idle"]
        BY <1>3, <3>2 DEF release_read
      <4>2. WritePred' => At("writeWait") = {}
        BY <3>2, <1>a
      <4> QED BY <4>1, <4>2
    <3> QED BY <3>1, <3>2
  <2>3. At("reading")' = At("reading") \ {t} /\ t \in At("reading") /\ Writers' = Writers
        /\ At("writing")' = At("writing") /\ At("readWait")' = At("readWait")
    BY <2>1, <2>2
  <2>4. Cardinality(At("reading")') = Cardinality(At("reading")) - 1 /\ Cardinality(At("reading")') \in Nat
    BY <2>3, CardRemove, CardNat
  <2>5. TypeOK' /\ CountersExact'
    BY <2>1, <2>2, <2>3, <2>4
  <2>6. MutualExclusion'
    BY <2>1, <2>2
  <2>7. NoLostWakeup'
    BY <2>1, <2>2, <2>3
  <2> QED BY <2>5, <2>6, <2>7
<1>4. ASSUME NEW t \in Thread, release_write(t) PROVE IInv'
  <2>1. /\ pc[t] = "writing" /\ write_cnt' = write_cnt - 1 /\ inwriteflag' = FALSE
        /\ UNCHANGED read_cnt
    BY <1>4 DEF release_write
  <2>2. \/ /\ write_cnt' = 0
           /\ pc' = [u \in Thread |-> IF u = t THEN "idle"
                                      ELSE IF pc[u] = "readWait" THEN "readWoken" ELSE pc[u]]
        \/ write_cnt' # 0 /\ pc' = [pc EXCEPT ![t] = "idle"] /\ At("writeWait") = {}
        \/ write_cnt' # 0 /\ \E w \in At("writeWait") : pc' = [pc EXCEPT ![t] = "idle", ![w] = "writeWoken"]
    BY <1>4 DEF release_write, NotifyReaders, NotifyWriter
  <2>3. Writers' = Writers \ {t} /\ t \in Writers /\ At("reading")' = At("reading")
        /\ At("writing")' = {}
    BY <2>1, <2>2
  <2>4. Cardinality(Writers') = Cardinality(Writers) - 1 /\ Cardinality(Writers') \in Nat
        /\ (Cardinality(Writers') = 0 => Writers' = {})
    BY <2>3, CardRemove, CardNat
  <2>5. TypeOK' /\ CountersExact'
    BY <2>1, <2>2, <2>3, <2>4
  <2>6. MutualExclusion'
    BY <2>3
  <2>7. NoLostWakeup'
    <3>1. CASE write_cnt' = 0
      BY <2>1, <2>2, <2>3, <2>4, <2>5, <3>1
    <3>2. CASE write_cnt' # 0
      BY <2>1, <2>2, <3>2
    <3> QED BY <3>1, <3>2
  <2> QED BY <2>5, <2>6, <2>7
<1>5. ASSUME NEW t \in Thread, SpuriousWakeup(t) PROVE IInv'
  <2>1. /\ UNCHANGED <<read_cnt, write_cnt, inwriteflag>>
        /\ \/ pc[t] = "readWait" /\ pc' = [pc EXCEPT ![t] = "readWoken"]
           \/ pc[t] = "writeWait" /\ pc' = [pc EXCEPT ![t] = "writeWoken"]
    BY <1>5 DEF SpuriousWakeup
  <2>2. Writers' = Writers /\ At("reading")' = At("reading") /\ At("writing")' = At("writing")
    BY <2>1
  <2>3. TypeOK' /\ CountersExact'
    BY <2>1, <2>2
  <2>4. MutualExclusion' /\ NoLostWakeup'
    BY <2>1
  <2> QED BY <2>3, <2>4
<1>6. CASE UNCHANGED vars
  BY <1>6 DEF vars
<1> QED
  BY <1>1, <1>2, <1>3, <1>4, <1>5, <1>6 DEF Next

\* A lock that was just constructed satisfies the invariant.
LEMMA InitInvariant == Init => IInv
<1> SUFFICES ASSUME Init PROVE IInv
  OBVIOUS
<1>1. At("reading") = {} /\ Writers = {} /\ At("writing") = {}
  BY DEF Init, At, Writers
<1>2. Cardinality({}) = 0
  BY FS_EmptySet
<1>3. TypeOK /\ CountersExact
  BY <1>1, <1>2 DEF Init, TypeOK, CountersExact, States
<1>4. MutualExclusion /\ NoLostWakeup
  BY DEF Init, MutualExclusion, NoLostWakeup, At
<1> QED BY <1>3, <1>4 DEF IInv

\* For any finite set of threads, types, exact counters, mutual exclusion and the
\* absence of lost wakeups hold in every reachable state of WfirstRWLock.
THEOREM Invariance == SafeSpec => []IInv
<1>1. QED
  BY InitInvariant, InductionStep, PTL DEF SafeSpec

\* A thread inside release_write's lock excludes every reader and every other writer.
THEOREM LockExcludes == SafeSpec => []MutualExclusion
<1>1. IInv => MutualExclusion
  BY DEF IInv
<1>2. QED
  BY <1>1, Invariance, PTL

\* read_cnt, write_cnt and inwriteflag always say what the threads do, so that no
\* decrement of a size_t wraps.
THEOREM CountersAgree == SafeSpec => []CountersExact
<1>1. IInv => CountersExact
  BY DEF IInv
<1>2. QED
  BY <1>1, Invariance, PTL

\* Nobody sleeps on cond_r or cond_w with the lock free and no one on the way.
THEOREM NobodyForgotten == SafeSpec => []NoLostWakeup
<1>1. IInv => NoLostWakeup
  BY DEF IInv
<1>2. QED
  BY <1>1, Invariance, PTL

\* The predicate of cond_r means that no writer holds the lock or waits for it.
LEMMA AbsNoWriter == IInv => (Abs!NoWriter <=> ReadPred)
<1> SUFFICES ASSUME IInv PROVE Abs!NoWriter <=> ReadPred
  OBVIOUS
<1>1. write_cnt = 0 <=> Writers = {}
  BY CardNat DEF IInv, CountersExact, Writers
<1> QED
  BY <1>1 DEF Abs!NoWriter, absMode, ReadPred, Writers, IInv, TypeOK, States

\* The predicate of cond_w means that nobody holds the lock.
LEMMA AbsFree == IInv => (Abs!Free <=> WritePred)
<1> SUFFICES ASSUME IInv PROVE Abs!Free <=> WritePred
  OBVIOUS
<1>1. read_cnt = 0 <=> At("reading") = {}
  BY CardNat DEF IInv, CountersExact, At
<1> QED
  BY <1>1 DEF Abs!Free, absMode, WritePred, At, IInv, TypeOK, CountersExact, States

\* Every step of the lock is a step of the abstract write-first lock or leaves it
\* unchanged: a notification, a spurious wakeup and a failed retry are invisible.
THEOREM Refinement == SafeSpec => ImplementsRWLockSpec
<1>1. Init => Abs!Init
  BY DEF Init, Abs!Init, absMode
<1>2. IInv /\ [Next]_vars => [Abs!Next]_absMode
  <2> SUFFICES ASSUME IInv, [Next]_vars PROVE Abs!Next \/ UNCHANGED absMode
    OBVIOUS
  <2> USE DEF absMode, States
  <2>a. pc \in [Thread -> States]
    BY DEF IInv, TypeOK
  <2>1. ASSUME NEW t \in Thread, lock_read(t) \/ reread(t)
        PROVE  Abs!BlockRead(t) \/ Abs!EnterRead(t) \/ UNCHANGED absMode
    <3>1. CASE ReadPred
      <4>1. pc' = [pc EXCEPT ![t] = "reading"] /\ pc[t] \in {"idle", "readWoken"}
        BY <2>1, <3>1 DEF lock_read, reread, TryRead
      <4>2. absMode' = [absMode EXCEPT ![t] = "read"] /\ absMode[t] \in {"out", "wantRead"}
        BY <4>1, <2>a
      <4> QED BY <4>2, <3>1, AbsNoWriter DEF Abs!EnterRead
    <3>2. CASE ~ReadPred
      <4>1. pc' = [pc EXCEPT ![t] = "readWait"] /\ pc[t] \in {"idle", "readWoken"}
        BY <2>1, <3>2 DEF lock_read, reread, TryRead
      <4>2. CASE pc[t] = "idle"
        <5>1. absMode' = [absMode EXCEPT ![t] = "wantRead"] /\ absMode[t] = "out"
          BY <4>1, <4>2, <2>a
        <5> QED BY <5>1, <3>2, AbsNoWriter DEF Abs!BlockRead
      <4>3. CASE pc[t] = "readWoken"
        BY <4>1, <4>3, <2>a
      <4> QED BY <4>1, <4>2, <4>3
    <3> QED BY <3>1, <3>2
  <2>2. ASSUME NEW t \in Thread, lock_write(t) \/ rewrite(t)
        PROVE  Abs!BlockWrite(t) \/ Abs!EnterWrite(t) \/ UNCHANGED absMode
    BY <2>2, <2>a, AbsFree DEF lock_write, rewrite, TryWrite, Abs!BlockWrite, Abs!EnterWrite
  <2>3. ASSUME NEW t \in Thread, release_read(t) \/ release_write(t) PROVE Abs!Leave(t)
    <3>1. pc[t] \in {"reading", "writing"}
      BY <2>3 DEF release_read, release_write
    <3>2. \/ pc' = [pc EXCEPT ![t] = "idle"]
          \/ \E w \in At("writeWait") : pc' = [pc EXCEPT ![t] = "idle", ![w] = "writeWoken"]
          \/ NotifyReaders(t)
      BY <2>3 DEF release_read, release_write, NotifyWriter
    <3> QED
      BY <3>1, <3>2, <2>a DEF At, NotifyReaders, Abs!Leave
  <2>4. ASSUME NEW t \in Thread, SpuriousWakeup(t) PROVE UNCHANGED absMode
    BY <2>4, <2>a DEF SpuriousWakeup
  <2>5. CASE UNCHANGED vars
    BY <2>5 DEF vars
  <2> QED
    BY <2>1, <2>2, <2>3, <2>4, <2>5 DEF Next, Abs!Next
<1>3. QED
  BY <1>1, <1>2, Invariance, PTL DEF SafeSpec, ImplementsRWLockSpec, Abs!Spec
=============================================================================
