--------------------------- MODULE Network_proofs ---------------------------
(***************************************************************************)
(* Proofs about the network side: the pool of RPC clients, for any         *)
(* callers, any clients and any size of the pool, and the frames of the    *)
(* TCP protocol, for any bodies, pieces, buffer and checksum.              *)
(***************************************************************************)
EXTENDS RpcPool, TcpFrame, SequenceTheorems, FiniteSetTheorems, WellFoundedInduction, TLAPS

\* No client is in use at the start.
LEMMA InitIInv == Init => IInv
  BY PoolAssumption DEF Init, IInv, TypeOK, Exclusive, OneSearches, InUseBusy, LateIsClosed, Owning

\* Every step of a caller keeps the types: the pool grows in one place, behind the
\* test of its size, and nobody else adds to it in between.
LEMMA StepTypeOK ==
    ASSUME IInv, NEW p \in Caller, Step(p)
    PROVE  TypeOK'
<1> USE DEF TypeOK, Goto, clients, callers, Owning
<1> TypeOK BY DEF IInv
<1>1. CASE GetRpc(p)
  BY <1>1 DEF GetRpc
<1>2. CASE Scan(p)
  <2>1. CASE at[p] \in 1..Len(pool) /\ ~busy[pool[at[p]]]
    <3>1. pool[at[p]] \in Client
      BY <2>1
    <3>2. /\ mine' = [mine EXCEPT ![p] = pool[at[p]]] /\ pc' = [pc EXCEPT ![p] = "have"]
          /\ busy' = [busy EXCEPT ![pool[at[p]]] = TRUE] /\ at' = [at EXCEPT ![p] = 0]
          /\ UNCHANGED <<pool, conn, link, up>>
      BY <1>2, <2>1 DEF Scan
    <3> QED BY <3>1, <3>2
  <2>2. CASE ~(at[p] \in 1..Len(pool) /\ ~busy[pool[at[p]]])
    <3>1. /\ at' \in {[at EXCEPT ![p] = @ + 1], [at EXCEPT ![p] = 0]}
          /\ pc' \in {pc, [pc EXCEPT ![p] = "create"]}
          /\ UNCHANGED <<pool, conn, link, up, busy, mine>>
      BY <1>2, <2>2 DEF Scan
    <3>2. pc[p] = "scan"
      BY <1>2 DEF Scan
    <3>3. at' \in [Caller -> Nat]
      <4>1. at \in [Caller -> Nat] /\ at[p] + 1 \in Nat
        OBVIOUS
      <4>2. CASE at' = [at EXCEPT ![p] = @ + 1]
        BY ONLY <4>1, <4>2
      <4>3. CASE at' = [at EXCEPT ![p] = 0]
        BY ONLY <4>1, <4>3
      <4> QED BY <3>1, <4>2, <4>3
    <3>4. CASE pc' = pc
      BY <3>1, <3>3, <3>4
    <3>5. CASE pc' = [pc EXCEPT ![p] = "create"]
      BY <3>1, <3>2, <3>3, <3>5
    <3> QED BY <3>1, <3>4, <3>5
  <2> QED BY <2>1, <2>2
<1>3. CASE CreateFails(p)
  BY <1>3 DEF CreateFails
<1>4. CASE Abandon(p)
  <2>1. Pooled(mine[p]) \in BOOLEAN
    BY DEF Pooled
  <2> QED BY <1>4, <2>1 DEF Abandon, Release
<1>5. ASSUME NEW c \in Client, CreateClientService(p, c)
      PROVE  TypeOK'
  <2>1. pool' \in Seq(Client) /\ Len(pool') <= MaxRpcConn
    BY <1>5, PoolAssumption DEF CreateClientService
  <2> QED BY <1>5, <2>1 DEF CreateClientService
<1>6. CASE OpenRPCConn(p)
  BY <1>6 DEF OpenRPCConn
<1>7. CASE Answer(p)
  BY <1>7 DEF Answer
<1>8. CASE CallFails(p)
  BY <1>8 DEF CallFails
<1>9. CASE CloseRPCConn(p)
  BY <1>9 DEF CloseRPCConn
<1>10. CASE SetWorkStatus(p)
  BY <1>10 DEF SetWorkStatus, Release
<1> QED BY <1>1, <1>2, <1>3, <1>4, <1>5, <1>6, <1>7, <1>8, <1>9, <1>10 DEF Step

\* Every step of a caller leaves the clients in use apart and marked: a client is
\* taken from the pool only when it is not busy, and made only when nobody has it.
LEMMA StepExclusive ==
    ASSUME IInv, NEW p \in Caller, Step(p)
    PROVE  Exclusive' /\ InUseBusy'
<1> USE DEF TypeOK, Goto, clients, callers, Owning, Exclusive, InUseBusy, IInv
<1>1. CASE GetRpc(p)
  BY <1>1 DEF GetRpc
<1>2. CASE Scan(p)
  <2>1. CASE at[p] \in 1..Len(pool) /\ ~busy[pool[at[p]]]
    <3>1. pool[at[p]] \in Client
      BY <2>1
    <3>2. \A q \in Caller : pc[q] \in Owning => mine[q] # pool[at[p]]
      BY <2>1
    <3>3. /\ mine' = [mine EXCEPT ![p] = pool[at[p]]] /\ pc' = [pc EXCEPT ![p] = "have"]
          /\ busy' = [busy EXCEPT ![pool[at[p]]] = TRUE]
      BY <1>2, <2>1 DEF Scan
    <3> QED BY <3>1, <3>2, <3>3
  <2>2. CASE ~(at[p] \in 1..Len(pool) /\ ~busy[pool[at[p]]])
    BY <1>2, <2>2 DEF Scan
  <2> QED BY <2>1, <2>2
<1>3. CASE CreateFails(p)
  BY <1>3 DEF CreateFails
<1>4. CASE Abandon(p)
  BY <1>4 DEF Abandon, Release
<1>5. ASSUME NEW c \in Client, CreateClientService(p, c)
      PROVE  Exclusive' /\ InUseBusy'
  BY <1>5 DEF CreateClientService, New
<1>6. CASE OpenRPCConn(p)
  BY <1>6 DEF OpenRPCConn
<1>7. CASE Answer(p)
  BY <1>7 DEF Answer
<1>8. CASE CallFails(p)
  BY <1>8 DEF CallFails
<1>9. CASE CloseRPCConn(p)
  BY <1>9 DEF CloseRPCConn
<1>10. CASE SetWorkStatus(p)
  BY <1>10 DEF SetWorkStatus, Release
<1> QED BY <1>1, <1>2, <1>3, <1>4, <1>5, <1>6, <1>7, <1>8, <1>9, <1>10 DEF Step

\* m_Mutex stays a mutex.
LEMMA StepOneSearches ==
    ASSUME IInv, NEW p \in Caller, Step(p)
    PROVE  OneSearches'
<1> USE DEF TypeOK, Goto, clients, callers, OneSearches, IInv
<1>1. CASE GetRpc(p)
  BY <1>1 DEF GetRpc, MutexFree
<1>2. CASE Scan(p)
  BY <1>2 DEF Scan
<1>3. CASE ~GetRpc(p) /\ ~Scan(p)
  <2>1. /\ pc' \in {[pc EXCEPT ![p] = s] : s \in {"idle", "have", "call", "close", "free"}}
    BY <1>3 DEF Step, CreateFails, Abandon, CreateClientService, OpenRPCConn, Answer,
                CallFails, CloseRPCConn, SetWorkStatus, Release
  <2> QED BY <2>1
<1> QED BY <1>1, <1>2, <1>3

\* An answer that is late is left only by a call that closes the connection next.
LEMMA StepLateIsClosed ==
    ASSUME IInv, NEW p \in Caller, Step(p)
    PROVE  LateIsClosed'
<1> USE DEF TypeOK, Goto, clients, callers, Owning, LateIsClosed, IInv
<1>1. CASE GetRpc(p)
  BY <1>1 DEF GetRpc
<1>2. CASE Scan(p)
  BY <1>2 DEF Scan
<1>3. CASE CreateFails(p)
  BY <1>3 DEF CreateFails
<1>4. CASE Abandon(p)
  BY <1>4 DEF Abandon, Release
<1>5. ASSUME NEW c \in Client, CreateClientService(p, c)
      PROVE  LateIsClosed'
  BY <1>5 DEF CreateClientService
<1>6. CASE OpenRPCConn(p)
  BY <1>6 DEF OpenRPCConn
<1>7. CASE Answer(p)
  BY <1>7 DEF Answer
<1>8. CASE CallFails(p)
  BY <1>8 DEF CallFails
<1>9. CASE CloseRPCConn(p)
  BY <1>9 DEF CloseRPCConn
<1>10. CASE SetWorkStatus(p)
  BY <1>10 DEF SetWorkStatus, Release
<1> QED BY <1>1, <1>2, <1>3, <1>4, <1>5, <1>6, <1>7, <1>8, <1>9, <1>10 DEF Step

\* The invariant is inductive.
LEMMA NextIInv == IInv /\ [Next]_vars => IInv'
<1> SUFFICES ASSUME IInv, [Next]_vars PROVE IInv'
  OBVIOUS
<1>1. ASSUME NEW p \in Caller, Step(p) PROVE IInv'
  BY <1>1, StepTypeOK, StepExclusive, StepOneSearches, StepLateIsClosed DEF IInv
<1>2. ASSUME NEW p \in Caller, RpcWrap(p) PROVE IInv'
  BY <1>2 DEF RpcWrap, Goto, clients, IInv, TypeOK, Exclusive, OneSearches, InUseBusy,
              LateIsClosed, Owning
<1>3. CASE ServerStops
  BY <1>3 DEF ServerStops, callers, IInv, TypeOK, Exclusive, OneSearches, InUseBusy,
              LateIsClosed, Owning
<1>4. CASE ServerStarts
  BY <1>4 DEF ServerStarts, clients, callers, IInv, TypeOK, Exclusive, OneSearches, InUseBusy,
              LateIsClosed, Owning
<1>5. CASE UNCHANGED vars
  BY <1>5 DEF vars, clients, callers, IInv, TypeOK, Exclusive, OneSearches, InUseBusy,
              LateIsClosed, Owning
<1> QED BY <1>1, <1>2, <1>3, <1>4, <1>5 DEF Next

\* The inductive invariant of CRPCClientMng holds, the bound of the pool with it.
THEOREM PoolInvariance == SafeSpec => []IInv
  BY InitIInv, NextIInv, PTL DEF SafeSpec

\* Two callers of GetRpc never use one CRPCClient at the same time.
THEOREM ClientsApart == SafeSpec => []Exclusive
<1>1. IInv => Exclusive
  BY DEF IInv
<1> QED BY <1>1, PoolInvariance, PTL

\* CloseRPCConn before SetWorkStatus keeps late answers from the next caller.
THEOREM NoStrayAnswer == SafeSpec => []NoLateAnswer
<1>1. IInv => NoLateAnswer
  BY DEF IInv, TypeOK, LateIsClosed, Exclusive, NoLateAnswer, Owning
<1> QED BY <1>1, PoolInvariance, PTL
-----------------------------------------------------------------------------
(* Numbers, and functions defined by recursion on them. *)

\* Induction over numbers: < is well founded, so a set of numbers has a least one.
LEMMA LeastNumber ==
    ASSUME NEW S \in SUBSET Nat, S # {}
    PROVE  \E m \in S : \A k \in S : m <= k
  <1> DEFINE R == OpToRel(<, Nat)
  <1>1. \A y, x \in Nat : <<y, x>> \in R <=> y < x
    BY DEF OpToRel
  <1>2. IsWellFoundedOn(R, Nat)
    BY NatLessThanWellFounded
  <1> HIDE DEF R
  <1>3. PICK x \in S : \A y \in S : ~(<<y, x>> \in R)
    BY <1>2, WFMin
  <1>4. ASSUME NEW y \in S PROVE x <= y
    <2>1. x \in Nat /\ y \in Nat
      OBVIOUS
    <2>2. ~(y < x)
      BY <1>1, <1>3, <2>1
    <2> QED BY <2>1, <2>2
  <1> QED BY <1>4

\* What holds of 0 and is passed on from each number to the next holds up to n.
LEMMA Induction ==
    ASSUME NEW n \in Nat, NEW S, 0 \in S, \A i \in 0..(n - 1) : i \in S => i + 1 \in S
    PROVE  \A i \in 0..n : i \in S
  <1> SUFFICES ASSUME (0..n) \ S # {} PROVE FALSE
    OBVIOUS
  <1>0. (0..n) \ S \in SUBSET Nat
    OBVIOUS
  <1>1. PICK m \in (0..n) \ S : \A k \in (0..n) \ S : m <= k
    BY <1>0, LeastNumber
  <1>2. m - 1 \in 0..(n - 1) /\ m - 1 \in S
    BY <1>1
  <1> QED BY <1>1, <1>2

\* f is defined up to n by recursion from c.
Recursive(f, n, V, c, step) ==
    f \in [0..n -> V] /\ f[0] = c /\ \A i \in 1..n : f[i] = step[i][f[i - 1]]

\* Such a function exists, for any step.
LEMMA Recursion ==
    ASSUME NEW n \in Nat, NEW V, NEW c \in V, NEW step \in [1..n -> [V -> V]]
    PROVE  \E f : Recursive(f, n, V, c, step)
  <1> DEFINE Upto(m, f) == /\ f \in [0..m -> V]
                           /\ f[0] = c /\ \A i \in 1..m : f[i] = step[i][f[i - 1]]
             S == {m \in 0..n : \E f : Upto(m, f)}
  <1>1. 0 \in S
    <2> DEFINE f == [i \in 0..0 |-> c]
    <2>1. f \in [0..0 -> V] /\ f[0] = c /\ \A i \in 1..0 : FALSE
      OBVIOUS
    <2> HIDE DEF f
    <2>2. Upto(0, f)
      BY <2>1
    <2> QED BY <2>2
  <1>2. ASSUME NEW m \in 0..(n - 1), m \in S PROVE m + 1 \in S
    <2>1. PICK f : Upto(m, f)
      BY <1>2 DEF S
    <2> DEFINE g == [i \in 0..(m + 1) |-> IF i = m + 1 THEN step[m + 1][f[m]] ELSE f[i]]
    <2>2. f[m] \in V /\ step[m + 1] \in [V -> V]
      BY <2>1
    <2>0. step[m + 1][f[m]] \in V
      BY <2>2
    <2>3. g \in [0..(m + 1) -> V] /\ g[0] = c
      BY <2>1, <2>0
    <2>4. ASSUME NEW i \in 1..(m + 1) PROVE g[i] = step[i][g[i - 1]]
      <3>1. CASE i = m + 1
        <4>1. g[m + 1] = step[m + 1][f[m]]
          OBVIOUS
        <4>2. g[m] = f[m] /\ i - 1 = m
          BY <3>1
        <4> HIDE DEF g
        <4> QED BY <3>1, <4>1, <4>2
      <3>2. CASE i # m + 1
        BY <3>2, <2>1
      <3> QED BY <3>1, <3>2
    <2> HIDE DEF g
    <2> QED BY <2>3, <2>4
  <1>3. n \in S
    <2>1. \A m \in 0..(n - 1) : m \in S => m + 1 \in S
      BY <1>2
    <2> HIDE DEF S
    <2>2. \A i \in 0..n : i \in S
      BY <1>1, <2>1, Induction
    <2> QED BY <2>2
  <1>4. PICK f : Upto(n, f)
    BY <1>3
  <1> QED BY <1>4 DEF Recursive
-----------------------------------------------------------------------------
(* Escapes. *)

\* A byte is escaped to at least one byte.
LEMMA CodeType ==
    ASSUME NEW b \in Byte
    PROVE  Code(b) \in Seq(Byte) /\ Len(Code(b)) \in Nat /\ Len(Code(b)) >= 1
  <1>1. CASE b \in {HeadFlag, TailFlag, Escape}
    <2>1. 255 - b \in Byte /\ Escape \in Byte
      BY <1>1 DEF HeadFlag, TailFlag, Escape, Byte
    <2> QED BY <1>1, <2>1 DEF Code
  <1>2. CASE b \notin {HeadFlag, TailFlag, Escape}
    BY <1>2 DEF Code
  <1> QED BY <1>1, <1>2

\* ConvtCode is what its recursion says.
LEMMA ConvtSteps ==
    ASSUME NEW s \in Seq(Byte)
    PROVE  \E out \in [0..Len(s) -> Seq(Byte)] :
              /\ out[0] = <<>> /\ \A i \in 1..Len(s) : out[i] = out[i - 1] \o Code(s[i])
              /\ ConvtCode(s) = out[Len(s)]
  <1> DEFINE n == Len(s)
             V == Seq(Byte)
             c == <<>>
             Grow(v, i) == v \o Code(s[i])
             Def(f) == [i \in 0..n |-> IF i = 0 THEN c ELSE Grow(f[i - 1], i)]
             out == CHOOSE f : f = Def(f)
  <1>1. n \in Nat /\ c \in V
    OBVIOUS
  <1>2. \A v \in V, i \in 1..n : Grow(v, i) \in V
    <2>1. \A i \in 1..n : s[i] \in Byte
      OBVIOUS
    <2>2. \A i \in 1..n : Code(s[i]) \in Seq(Byte)
      BY <2>1, CodeType
    <2> QED BY <2>2
  <1>3. ConvtCode(s) = out[n]
    BY DEF ConvtCode
  <1> HIDE DEF n, V, c, Grow
  <1>4. PICK f : f = Def(f)
    <2> DEFINE step == [i \in 1..n |-> [v \in V |-> Grow(v, i)]]
    <2>1. step \in [1..n -> [V -> V]]
      BY <1>2
    <2>2. \A v \in V, i \in 1..n : step[i][v] = Grow(v, i)
      OBVIOUS
    <2> HIDE DEF step
    <2>3. PICK f : Recursive(f, n, V, c, step)
      BY <1>1, <2>1, Recursion
    <2>4. ASSUME NEW i \in 1..n PROVE f[i] = Grow(f[i - 1], i)
      <3>1. f[i - 1] \in V
        BY <1>1, <2>3 DEF Recursive
      <3> QED BY <2>2, <2>3, <3>1 DEF Recursive
    <2>5. Def(f) = f
      BY <1>1, <2>3, <2>4 DEF Recursive
    <2> QED BY <2>5
  <1>5. out = Def(out)
    <2> HIDE DEF Def
    <2> QED BY <1>4
  <1> HIDE DEF out
  <1>6. out[0] = c /\ \A i \in 1..n : out[i] = Grow(out[i - 1], i)
    BY <1>1, <1>5
  <1>7. \A i \in 0..n : out[i] \in V
    <2> DEFINE S == {j \in 0..n : out[j] \in V}
    <2>1. 0 \in S
      BY <1>1, <1>6
    <2>2. ASSUME NEW i \in 0..(n - 1), i \in S PROVE i + 1 \in S
      <3>1. i + 1 \in 1..n /\ i + 1 \in 0..n /\ out[i] \in V /\ (i + 1) - 1 = i
        BY <1>1, <2>2
      <3>2. out[i + 1] = Grow(out[i], i + 1)
        BY <1>6, <3>1
      <3>3. Grow(out[i], i + 1) \in V
        BY <1>2, <3>1
      <3> QED BY <3>1, <3>2, <3>3
    <2>3. \A i \in 0..n : i \in S
      <3> HIDE DEF S
      <3> QED BY <1>1, <2>1, <2>2, Induction
    <2> QED BY <2>3
  <1>8. out \in [0..n -> V]
    BY <1>5, <1>7
  <1> QED BY <1>3, <1>6, <1>8 DEF n, V, c, Grow

Decoded == [out : Seq(Byte), esc : BOOLEAN]

\* Decoding one byte more keeps the types.
LEMMA DecodeType ==
    ASSUME NEW r \in Decoded, NEW b \in Byte
    PROVE  Decode(r, b) \in Decoded
  <1>1. 255 - b \in Byte /\ r.out \in Seq(Byte)
    BY DEF Byte, Decoded
  <1>2. Append(r.out, 255 - b) \in Seq(Byte) /\ Append(r.out, b) \in Seq(Byte)
    BY <1>1
  <1> QED BY <1>1, <1>2 DEF Decode, Decoded

\* UnconvtCode is what its recursion says.
LEMMA UnconvtSteps ==
    ASSUME NEW s \in Seq(Byte)
    PROVE  \E raw \in [0..Len(s) -> Decoded] :
              /\ raw[0] = [out |-> <<>>, esc |-> FALSE]
              /\ \A i \in 1..Len(s) : raw[i] = Decode(raw[i - 1], s[i])
              /\ UnconvtCode(s) = IF raw[Len(s)].esc
                                  THEN Append(raw[Len(s)].out, 255 - TailFlag)
                                  ELSE raw[Len(s)].out
  <1> DEFINE n == Len(s)
             c == [out |-> <<>>, esc |-> FALSE]
             Grow(v, i) == Decode(v, s[i])
             Def(f) == [i \in 0..n |-> IF i = 0 THEN c ELSE Grow(f[i - 1], i)]
             raw == CHOOSE f : f = Def(f)
  <1>1. n \in Nat /\ c \in Decoded
    BY DEF Decoded
  <1>2. \A v \in Decoded, i \in 1..n : Grow(v, i) \in Decoded
    <2>1. \A i \in 1..n : s[i] \in Byte
      OBVIOUS
    <2> QED BY <2>1, DecodeType
  <1>3. UnconvtCode(s) = IF raw[n].esc THEN Append(raw[n].out, 255 - TailFlag) ELSE raw[n].out
    BY DEF UnconvtCode
  <1> HIDE DEF n, c, Grow
  <1>4. PICK f : f = Def(f)
    <2> DEFINE step == [i \in 1..n |-> [v \in Decoded |-> Grow(v, i)]]
    <2>1. step \in [1..n -> [Decoded -> Decoded]]
      BY <1>2
    <2>2. \A v \in Decoded, i \in 1..n : step[i][v] = Grow(v, i)
      OBVIOUS
    <2> HIDE DEF step
    <2>3. PICK f : Recursive(f, n, Decoded, c, step)
      BY <1>1, <2>1, Recursion
    <2>4. ASSUME NEW i \in 1..n PROVE f[i] = Grow(f[i - 1], i)
      <3>1. f[i - 1] \in Decoded
        BY <1>1, <2>3 DEF Recursive
      <3> QED BY <2>2, <2>3, <3>1 DEF Recursive
    <2>5. Def(f) = f
      BY <1>1, <2>3, <2>4 DEF Recursive
    <2> QED BY <2>5
  <1>5. raw = Def(raw)
    <2> HIDE DEF Def
    <2> QED BY <1>4
  <1> HIDE DEF raw
  <1>6. raw[0] = c /\ \A i \in 1..n : raw[i] = Grow(raw[i - 1], i)
    BY <1>1, <1>5
  <1>7. \A i \in 0..n : raw[i] \in Decoded
    <2> DEFINE S == {j \in 0..n : raw[j] \in Decoded}
    <2>1. 0 \in S
      BY <1>1, <1>6
    <2>2. ASSUME NEW i \in 0..(n - 1), i \in S PROVE i + 1 \in S
      <3>1. i + 1 \in 1..n /\ i + 1 \in 0..n /\ raw[i] \in Decoded /\ (i + 1) - 1 = i
        BY <1>1, <2>2
      <3>2. raw[i + 1] = Grow(raw[i], i + 1)
        BY <1>6, <3>1
      <3>3. Grow(raw[i], i + 1) \in Decoded
        BY <1>2, <3>1
      <3> QED BY <3>1, <3>2, <3>3
    <2>3. \A i \in 0..n : i \in S
      <3> HIDE DEF S
      <3> QED BY <1>1, <2>1, <2>2, Induction
    <2> QED BY <2>3
  <1>8. raw \in [0..n -> Decoded]
    BY <1>5, <1>7
  <1> QED BY <1>3, <1>6, <1>8 DEF n, c, Grow

\* The decoded bytes are bytes.
LEMMA UnconvtType ==
    ASSUME NEW s \in Seq(Byte)
    PROVE  UnconvtCode(s) \in Seq(Byte)
  <1>1. PICK raw \in [0..Len(s) -> Decoded] :
            UnconvtCode(s) = IF raw[Len(s)].esc THEN Append(raw[Len(s)].out, 255 - TailFlag)
                             ELSE raw[Len(s)].out
    BY UnconvtSteps
  <1>2. raw[Len(s)] \in Decoded
    OBVIOUS
  <1>3. raw[Len(s)].out \in Seq(Byte) /\ 255 - TailFlag \in Byte
    BY <1>2 DEF Decoded, Byte, TailFlag
  <1>4. Append(raw[Len(s)].out, 255 - TailFlag) \in Seq(Byte)
    BY <1>3
  <1> QED BY <1>1, <1>3, <1>4

\* What is escaped holds no flag, and is not shorter.
LEMMA ConvtType ==
    ASSUME NEW s \in Seq(Byte)
    PROVE  /\ ConvtCode(s) \in Seq(Byte) /\ Len(ConvtCode(s)) >= Len(s)
           /\ \A k \in 1..Len(ConvtCode(s)) : ConvtCode(s)[k] \notin {HeadFlag, TailFlag}
  <1> DEFINE n == Len(s)
  <1>0. n \in Nat
    OBVIOUS
  <1>1. PICK out \in [0..n -> Seq(Byte)] :
            /\ out[0] = <<>> /\ \A i \in 1..n : out[i] = out[i - 1] \o Code(s[i])
            /\ ConvtCode(s) = out[n]
    BY ConvtSteps
  <1> DEFINE P(x, i) == Len(x) >= i /\ \A k \in 1..Len(x) : x[k] \notin {HeadFlag, TailFlag}
             S == {i \in 0..n : P(out[i], i)}
  <1>2. 0 \in S
    BY <1>0, <1>1
  <1>3. ASSUME NEW i \in 0..(n - 1), i \in S PROVE i + 1 \in S
    <2> DEFINE x == out[i]
               y == Code(s[i + 1])
    <2>1. i + 1 \in 1..n /\ i \in 0..n /\ i + 1 \in 0..n /\ (i + 1) - 1 = i /\ s[i + 1] \in Byte
      BY <1>0
    <2>2. out[i + 1] = x \o y
      BY <1>1, <2>1
    <2>3. x \in Seq(Byte) /\ P(x, i)
      BY <1>3, <2>1
    <2>4. y \in Seq(Byte) /\ Len(y) \in Nat /\ Len(y) >= 1
      BY <2>1, CodeType
    <2>5. \A k \in 1..Len(y) : y[k] \notin {HeadFlag, TailFlag}
      BY <2>1, <2>4 DEF Code, HeadFlag, TailFlag, Escape, Byte
    <2> HIDE DEF x, y
    <2>6. P(x \o y, i + 1)
      <3>0. Len(x \o y) = Len(x) + Len(y) /\ Len(x) \in Nat
        BY <2>3, <2>4
      <3>1. Len(x \o y) = Len(x) + Len(y) /\ Len(x \o y) >= i + 1 /\ Len(x) \in Nat
        <4>1. Len(x) >= i
          BY <2>3
        <4>2. Len(y) >= 1 /\ i \in Nat /\ Len(y) \in Nat
          BY <1>0, <2>4
        <4> QED BY <3>0, <4>1, <4>2
      <3>2. ASSUME NEW k \in 1..Len(x \o y) PROVE (x \o y)[k] \notin {HeadFlag, TailFlag}
        <4>1. CASE k <= Len(x)
          BY <2>3, <2>4, <3>1, <4>1
        <4>2. CASE k > Len(x)
          <5>1. k - Len(x) \in 1..Len(y) /\ (x \o y)[k] = y[k - Len(x)]
            BY <2>3, <2>4, <3>1, <4>2
          <5> QED BY <2>5, <5>1
        <4> QED BY <3>1, <4>1, <4>2
      <3> QED BY <3>1, <3>2
    <2> QED BY <2>1, <2>2, <2>6
  <1>4. \A i \in 0..n : i \in S
    <2> HIDE DEF S, n
    <2> QED BY <1>0, <1>2, <1>3, Induction
  <1>5. P(out[n], n) /\ out[n] \in Seq(Byte)
    BY <1>0, <1>4
  <1> QED BY <1>1, <1>5

\* UnconvtCode takes back what ConvtCode did, for every sequence of bytes: flags, escapes
\* and the complements of both included.
THEOREM UnconvtConvt ==
    ASSUME NEW s \in Seq(Byte)
    PROVE  UnconvtCode(ConvtCode(s)) = s
  <1> DEFINE n == Len(s)
             c == ConvtCode(s)
  <1>0. n \in Nat /\ c \in Seq(Byte)
    BY ConvtType
  <1>1. PICK out \in [0..n -> Seq(Byte)] :
            /\ out[0] = <<>> /\ \A i \in 1..n : out[i] = out[i - 1] \o Code(s[i])
            /\ c = out[n]
    BY ConvtSteps
  <1>2. PICK raw \in [0..Len(c) -> Decoded] :
            /\ raw[0] = [out |-> <<>>, esc |-> FALSE]
            /\ \A i \in 1..Len(c) : raw[i] = Decode(raw[i - 1], c[i])
            /\ UnconvtCode(c) = IF raw[Len(c)].esc THEN Append(raw[Len(c)].out, 255 - TailFlag)
                                ELSE raw[Len(c)].out
    BY <1>0, UnconvtSteps
  <1> HIDE DEF n, c
  <1>3. \A i \in 0..n : Len(out[i]) <= Len(c) /\ \A k \in 1..Len(out[i]) : c[k] = out[i][k]
    <2> DEFINE P(x) == Len(x) <= Len(c) /\ \A k \in 1..Len(x) : c[k] = x[k]
               S == {d \in 0..n : P(out[n - d])}
    <2>1. 0 \in S
      BY <1>0, <1>1
    <2>2. ASSUME NEW d \in 0..(n - 1), d \in S PROVE d + 1 \in S
      <3> DEFINE x == out[n - (d + 1)]
                 y == Code(s[n - d])
      <3>1. n - d \in 1..n /\ n - (d + 1) \in 0..n /\ (n - d) - 1 = n - (d + 1) /\ d + 1 \in 0..n
        BY <1>0
      <3>2. s[n - d] \in Byte
        BY <3>1 DEF n
      <3>3. out[n - d] = x \o y /\ x \in Seq(Byte)
        BY <1>1, <3>1
      <3>4. y \in Seq(Byte) /\ P(out[n - d])
        BY <2>2, <3>2, CodeType
      <3> HIDE DEF x, y
      <3>5. Len(x \o y) = Len(x) + Len(y) /\ Len(x) \in Nat /\ Len(y) \in Nat
            /\ \A k \in 1..Len(x) : (x \o y)[k] = x[k]
        BY <3>3, <3>4
      <3>6. P(x)
        <4>1. Len(x \o y) <= Len(c) /\ \A k \in 1..Len(x \o y) : c[k] = (x \o y)[k]
          BY <3>3, <3>4
        <4>2. Len(c) \in Nat /\ \A k \in 1..Len(x) : k \in 1..Len(x \o y)
          BY <1>0, <3>5
        <4> QED BY <3>5, <4>1, <4>2
      <3> QED BY <3>1, <3>6 DEF x
    <2>3. \A d \in 0..n : d \in S
      <3> HIDE DEF S
      <3> QED BY <1>0, <2>1, <2>2, Induction
    <2>4. ASSUME NEW i \in 0..n PROVE P(out[i])
      <3>1. n - i \in 0..n /\ n - (n - i) = i
        BY <1>0
      <3>2. n - i \in S
        BY <2>3, <3>1
      <3> QED BY <3>1, <3>2
    <2> QED BY <2>4
  <1> DEFINE S == {i \in 0..n : raw[Len(out[i])] = [out |-> SubSeq(s, 1, i), esc |-> FALSE]}
  <1>4. 0 \in S
    <2>1. SubSeq(s, 1, 0) = <<>> /\ Len(out[0]) = 0
      BY <1>1
    <2>2. raw[Len(out[0])] = [out |-> SubSeq(s, 1, 0), esc |-> FALSE]
      BY <1>2, <2>1
    <2> QED BY <1>0, <2>2
  <1>5. ASSUME NEW i \in 0..(n - 1), i \in S PROVE i + 1 \in S
    <2> DEFINE x == out[i]
               b == s[i + 1]
               y == Code(b)
               L == Len(x)
               r == SubSeq(s, 1, i)
    <2>1. i + 1 \in 1..n /\ i \in 0..n /\ i + 1 \in 0..n /\ (i + 1) - 1 = i
      BY <1>0
    <2>2. b \in Byte /\ r \in Seq(Byte) /\ SubSeq(s, 1, i + 1) = Append(r, b)
      BY <2>1 DEF n
    <2>3. out[i + 1] = x \o y /\ x \in Seq(Byte)
      BY <1>1, <2>1
    <2>4. y \in Seq(Byte) /\ Len(y) \in Nat /\ Len(y) >= 1
      BY <2>2, CodeType
    <2>5. raw[L] = [out |-> r, esc |-> FALSE]
      BY <1>5
    <2>6. Len(x \o y) <= Len(c) /\ \A k \in 1..Len(x \o y) : c[k] = (x \o y)[k]
      BY <1>3, <2>1, <2>3
    <2> HIDE DEF x, y, r, b
    <2>7. L \in Nat /\ Len(c) \in Nat /\ Len(x \o y) = L + Len(y)
      BY <1>0, <2>3, <2>4
    <2>8. L + 1 \in 1..Len(c) /\ c[L + 1] = y[1] /\ (L + 1) - 1 = L
      <3>1. L + 1 \in 1..Len(x \o y) /\ L + 1 \in 1..Len(c) /\ (L + 1) - 1 = L
        <4>1. Len(y) \in Nat /\ Len(y) >= 1
          BY <2>4
        <4> HIDE DEF L
        <4> QED BY <2>6, <2>7, <4>1
      <3>2. (x \o y)[L + 1] = y[1]
        BY <2>3, <2>4, <3>1
      <3> QED BY <2>6, <3>1, <3>2
    <2>9. raw[L + 1] = Decode(raw[L], y[1])
      BY <1>2, <2>8
    <2>10. raw[Len(x \o y)] = [out |-> Append(r, b), esc |-> FALSE]
      <3>1. CASE b \in {HeadFlag, TailFlag, Escape}
        <4>1. y = <<Escape, 255 - b>>
          BY <3>1 DEF y, Code
        <4>2. y[1] = Escape /\ y[2] = 255 - b /\ Len(y) = 2
          BY <4>1
        <4>3. raw[L + 1] = [out |-> r, esc |-> TRUE]
          BY <2>5, <2>9, <4>2 DEF Decode
        <4>4. L + 2 \in 1..Len(c) /\ c[L + 2] = y[2] /\ (L + 2) - 1 = L + 1
          <5>1. L + 2 \in 1..Len(x \o y) /\ L + 2 \in 1..Len(c) /\ (L + 2) - 1 = L + 1
            BY <2>6, <2>7, <4>2
          <5>2. (x \o y)[L + 2] = y[2]
            BY <2>3, <2>4, <4>2, <5>1
          <5> QED BY <2>6, <5>1, <5>2
        <4>5. raw[L + 2] = Decode(raw[L + 1], 255 - b)
          BY <1>2, <4>2, <4>4
        <4>6. 255 - (255 - b) = b
          BY <2>2 DEF Byte
        <4>7. raw[L + 2] = [out |-> Append(r, b), esc |-> FALSE]
          <5>1. Decode([out |-> r, esc |-> TRUE], 255 - b) = [out |-> Append(r, 255 - (255 - b)), esc |-> FALSE]
            BY DEF Decode
          <5> QED BY <4>3, <4>5, <4>6, <5>1
        <4> QED BY <2>7, <4>2, <4>7
      <3>2. CASE b \notin {HeadFlag, TailFlag, Escape}
        <4>1. y = <<b>>
          BY <3>2 DEF y, Code
        <4>2. y[1] = b /\ Len(y) = 1 /\ b # Escape
          BY <3>2, <4>1
        <4> QED BY <2>5, <2>7, <2>9, <4>2 DEF Decode
      <3> QED BY <3>1, <3>2
    <2> QED BY <2>1, <2>2, <2>3, <2>10
  <1>6. \A i \in 0..n : i \in S
    <2> HIDE DEF S
    <2> QED BY <1>0, <1>4, <1>5, Induction
  <1>7. raw[Len(c)] = [out |-> SubSeq(s, 1, n), esc |-> FALSE]
    <2>0. n \in 0..n
      BY <1>0
    <2>1. n \in S
      BY <1>6, <2>0
    <2>2. raw[Len(out[n])] = [out |-> SubSeq(s, 1, n), esc |-> FALSE]
      BY <2>1
    <2> QED BY <1>1, <2>2
  <1>8. SubSeq(s, 1, n) = s
    BY DEF n
  <1> QED BY <1>2, <1>7, <1>8 DEF c
-----------------------------------------------------------------------------
(* Packages. *)

\* Find returns the first place of a flag, or 0.
LEMMA FindFirst ==
    ASSUME NEW s \in Seq(Byte), NEW b
    PROVE  /\ Find(s, b) \in 0..Len(s)
           /\ Find(s, b) = 0 => \A i \in 1..Len(s) : s[i] # b
           /\ Find(s, b) # 0 => s[Find(s, b)] = b /\ \A i \in 1..(Find(s, b) - 1) : s[i] # b
  <1> DEFINE I == {i \in 1..Len(s) : s[i] = b}
  <1>1. Find(s, b) = IF I # {} THEN Min(I) ELSE 0
    BY DEF Find, SelectInSeq
  <1>2. I \in SUBSET Nat /\ Len(s) \in Nat
    OBVIOUS
  <1>3. CASE I = {}
    BY <1>1, <1>2, <1>3
  <1>4. CASE I # {}
    <2>1. \E m \in I : \A k \in I : m <= k
      <3> HIDE DEF I
      <3> QED BY <1>2, <1>4, LeastNumber
    <2>2. Min(I) \in I /\ \A k \in I : Min(I) <= k
      <3> HIDE DEF I
      <3> QED BY <2>1 DEF Min
    <2>3. Find(s, b) = Min(I)
      BY <1>1, <1>4
    <2> HIDE DEF I
    <2>4. Find(s, b) \in I /\ \A k \in I : Find(s, b) <= k
      BY <2>2, <2>3
    <2>5. Find(s, b) \in 1..Len(s) /\ s[Find(s, b)] = b
      BY <2>4 DEF I
    <2>6. ASSUME NEW i \in 1..(Find(s, b) - 1), s[i] = b PROVE FALSE
      <3>1. i \in I
        BY <1>2, <2>5, <2>6 DEF I
      <3> QED BY <1>2, <2>4, <2>5, <3>1
    <2> QED BY <1>2, <2>5, <2>6
  <1> QED BY <1>3, <1>4

\* Elements and pieces of a piece.
LEMMA Piece ==
    ASSUME NEW B, NEW s \in Seq(B), NEW i \in Nat, NEW j \in Nat, i <= j, j <= Len(s)
    PROVE  /\ SubSeq(s, i + 1, j) \in Seq(B) /\ Len(SubSeq(s, i + 1, j)) = j - i
           /\ \A k \in 1..(j - i) : SubSeq(s, i + 1, j)[k] = s[i + k]
  OBVIOUS

\* A piece of a piece is a piece of the whole.
LEMMA PieceOfPiece ==
    ASSUME NEW B, NEW s \in Seq(B), NEW r \in Nat, r <= Len(s),
           NEW a \in Nat, NEW i \in Nat, NEW j \in Nat, i <= j, a + j <= r
    PROVE  SubSeq(SubSeq(s, a + 1, r), i + 1, j) = SubSeq(s, (a + i) + 1, a + j)
  <1> DEFINE x == SubSeq(s, a + 1, r)
             y == SubSeq(x, i + 1, j)
             z == SubSeq(s, (a + i) + 1, a + j)
  <1>0. Len(s) \in Nat /\ a <= r /\ a + i \in Nat /\ a + j \in Nat /\ a + i <= a + j /\ a + j <= Len(s)
    OBVIOUS
  <1>1. x \in Seq(B) /\ Len(x) = r - a /\ \A k \in 1..(r - a) : x[k] = s[a + k]
    BY <1>0, Piece
  <1> HIDE DEF x
  <1>2. j <= Len(x)
    BY <1>0, <1>1
  <1>3. y \in Seq(B) /\ Len(y) = j - i /\ \A k \in 1..(j - i) : y[k] = x[i + k]
    BY <1>1, <1>2, Piece
  <1>4. z \in Seq(B) /\ Len(z) = (a + j) - (a + i) /\ \A k \in 1..((a + j) - (a + i)) : z[k] = s[(a + i) + k]
    BY <1>0, Piece
  <1> HIDE DEF y, z
  <1>5. ASSUME NEW k \in 1..(j - i) PROVE y[k] = z[k]
    <2>1. i + k \in 1..(r - a) /\ a + (i + k) = (a + i) + k /\ k \in 1..((a + j) - (a + i))
      BY <1>0
    <2> QED BY <1>1, <1>3, <1>4, <2>1
  <1>6. Len(y) = Len(z) /\ Len(y) = j - i /\ y \in Seq(B) /\ z \in Seq(B)
    BY <1>3, <1>4
  <1>7. y = z
    BY <1>5, <1>6, SeqEqual
  <1> QED BY <1>7 DEF x, y, z

Word == {n \in Nat : n < 65536}

\* Requests a tool can pack.
Request == [version : Byte, seqno : Word, cmd : Byte, body : Seq(Byte)]

\* The fields of a request.
LEMMA RequestFields ==
    ASSUME NEW m \in Request
    PROVE  /\ m.version \in Byte /\ m.seqno \in Word /\ m.cmd \in Byte /\ m.body \in Seq(Byte)
           /\ Len(m.body) \in Nat
           /\ m = [version |-> m.version, seqno |-> m.seqno, cmd |-> m.cmd, body |-> m.body]
  <1>1. m.version \in Byte /\ m.seqno \in Word /\ m.cmd \in Byte /\ m.body \in Seq(Byte)
    BY DEF Request
  <1>2. m = [version |-> m.version, seqno |-> m.seqno, cmd |-> m.cmd, body |-> m.body]
    BY DEF Request
  <1> QED BY <1>1, <1>2

\* What a tool sends is a request: its number has 16 bits.
LEMMA MessageType ==
    ASSUME NEW m \in Message PROVE m \in Request
  <1>1. m \in [version : Versions, seqno : 1..MaxMsg, cmd : {19}, body : Bodies]
    BY DEF Message
  <1>2. m.version \in Versions /\ m.seqno \in 1..MaxMsg /\ m.cmd = 19 /\ m.body \in Bodies
    BY <1>1
  <1>3. Versions \subseteq Byte /\ Bodies \subseteq Seq(Byte) /\ MaxMsg \in Nat /\ MaxMsg < 65536
    BY FrameAssumption
  <1>4. m.version \in Byte /\ m.body \in Seq(Byte)
    BY <1>2, <1>3
  <1>5. m.cmd \in Byte /\ m.seqno \in Word
    BY <1>2, <1>3 DEF Byte, Word
  <1>6. m = [version |-> m.version, seqno |-> m.seqno, cmd |-> m.cmd, body |-> m.body]
    BY <1>1
  <1> QED BY <1>4, <1>5, <1>6 DEF Request

\* htons gives two bytes.
LEMMA HtonsBytes ==
    ASSUME NEW n \in Nat
    PROVE  htons(n) \in Seq(Byte) /\ Len(htons(n)) = 2
  <1>1. (n \div 256) % 256 \in Byte /\ n % 256 \in Byte
    BY DEF Byte
  <1> QED BY <1>1 DEF htons

\* A number of 16 bits is read back as it was written.
LEMMA HtonsWord ==
    ASSUME NEW n \in Word
    PROVE  htons(n)[1] * 256 + htons(n)[2] = n
  <1>1. n \in Nat /\ n < 65536
    BY DEF Word
  <1> DEFINE k == n \div 256
             l == n % 256
             h == htons(n)
  <1>2. k \in Int
    BY <1>1
  <1>3. l \in Int /\ 0 <= l /\ l < 256
    BY <1>1
  <1>4. n = 256 * k + l
    BY <1>1
  <1>8. h[1] = k % 256 /\ h[2] = l
    BY DEF htons
  <1> HIDE DEF k, l, h
  <1>5. 0 <= k /\ k < 256
    BY <1>1, <1>2, <1>3, <1>4
  <1>6. k % 256 = k
    BY <1>2, <1>5
  <1>7. h[1] * 256 + h[2] = n
    BY <1>1, <1>2, <1>3, <1>4, <1>6, <1>8
  <1> QED BY <1>7 DEF h

\* The command and the two bytes behind it, as bytes.
LEMMA Triple ==
    ASSUME NEW c \in Byte
    PROVE <<c, 0, 0>> \in Seq(Byte) /\ Len(<<c, 0, 0>>) = 3 /\ <<c, 0, 0>>[1] = c
 <1>1. 0 \in Byte
   BY DEF Byte
 <1> QED BY <1>1

\* One byte, as bytes.
LEMMA One ==
    ASSUME NEW c \in Byte
    PROVE <<c>> \in Seq(Byte) /\ Len(<<c>>) = 1 /\ <<c>>[1] = c
 OBVIOUS

\* s is x, of a bytes, followed by y, of b bytes.
Joins(s, x, y, a, b) ==
    /\ s \in Seq(Byte) /\ Len(s) = a + b
    /\ \A i \in 1..a : s[i] = x[i]
    /\ \A i \in 1..b : s[a + i] = y[i]

\* Which bytes x \o y has.
LEMMA Joined ==
    ASSUME NEW x \in Seq(Byte), NEW y \in Seq(Byte), NEW a, NEW b, Len(x) = a, Len(y) = b
    PROVE  Joins(x \o y, x, y, a, b)
  <1>1. Joins(x \o y, x, y, Len(x), Len(y))
    BY DEF Joins
  <1> QED BY <1>1

\* Where the fields of a request are in its bytes.
LEMMA RawBytes ==
    ASSUME NEW m \in Request
    PROVE  /\ Raw(m) \in Seq(Byte) /\ Len(Raw(m)) = 6 + Len(m.body)
           /\ Raw(m)[1] = m.version /\ Raw(m)[4] = m.cmd
           /\ Raw(m)[2] * 256 + Raw(m)[3] = m.seqno
           /\ \A k \in 1..Len(m.body) : Raw(m)[6 + k] = m.body[k]
  <1> DEFINE x == <<m.version>>
             y == htons(m.seqno)
             z == <<m.cmd, 0, 0>>
             b == m.body
  <1>1. x \in Seq(Byte) /\ Len(x) = 1 /\ x[1] = m.version
    BY RequestFields, One
  <1>2. y \in Seq(Byte) /\ Len(y) = 2 /\ y[1] * 256 + y[2] = m.seqno
    <2>1. m.seqno \in Nat /\ m.seqno \in Word
      BY RequestFields DEF Word
    <2> QED BY <2>1, HtonsBytes, HtonsWord
  <1>3. z \in Seq(Byte) /\ Len(z) = 3 /\ z[1] = m.cmd
    BY RequestFields, Triple
  <1>4. b \in Seq(Byte) /\ Len(b) \in Nat
    BY RequestFields
  <1>5. Raw(m) = x \o y \o z \o b
    BY DEF Raw
  <1> HIDE DEF x, y, z, b
  <1> DEFINE xy == x \o y
  <1>6. xy \in Seq(Byte) /\ Len(xy) = 3 /\ xy[1] = x[1] /\ xy[2] = y[1] /\ xy[3] = y[2]
    <2>1. Joins(xy, x, y, 1, 2)
      BY <1>1, <1>2, Joined
    <2> HIDE DEF xy
    <2> QED BY <2>1 DEF Joins
  <1> HIDE DEF xy
  <1> DEFINE h == xy \o z
  <1>7. h \in Seq(Byte) /\ Len(h) = 6 /\ h[1] = x[1] /\ h[2] = y[1] /\ h[3] = y[2] /\ h[4] = z[1]
    <2>1. Joins(h, xy, z, 3, 3)
      BY <1>3, <1>6, Joined
    <2> HIDE DEF h
    <2> QED BY <1>6, <2>1 DEF Joins
  <1> HIDE DEF h
  <1>8. Raw(m) = h \o b
    BY <1>5 DEF xy, h
  <1>9. /\ h \o b \in Seq(Byte) /\ Len(h \o b) = 6 + Len(b)
        /\ \A i \in 1..6 : (h \o b)[i] = h[i]
        /\ \A i \in 1..Len(b) : (h \o b)[6 + i] = b[i]
    <2>1. Joins(h \o b, h, b, 6, Len(b))
      BY <1>4, <1>7, Joined
    <2> QED BY <2>1 DEF Joins
  <1>10. (h \o b)[1] = h[1] /\ (h \o b)[2] = h[2] /\ (h \o b)[3] = h[3] /\ (h \o b)[4] = h[4]
    BY <1>9
  <1> QED BY <1>1, <1>2, <1>3, <1>7, <1>8, <1>9, <1>10 DEF b

\* The escaped part of a package.
Coded(m) == ConvtCode(Raw(m) \o htons(CalcCRC1021(Raw(m))))

\* The escaped part of a package: no tail flag is left, and it decodes to what was escaped.
LEMMA CodedBytes ==
    ASSUME NEW m \in Request, CalcCRC1021(Raw(m)) \in Nat
    PROVE  /\ Coded(m) \in Seq(Byte) /\ Len(Coded(m)) >= 8
           /\ \A k \in 1..Len(Coded(m)) : Coded(m)[k] # TailFlag
           /\ UnconvtCode(Coded(m)) = Raw(m) \o htons(CalcCRC1021(Raw(m)))
  <1> DEFINE c == htons(CalcCRC1021(Raw(m)))
             s == Raw(m) \o c
  <1>1. Raw(m) \in Seq(Byte) /\ Len(Raw(m)) = 6 + Len(m.body) /\ Len(m.body) \in Nat
    BY RawBytes, RequestFields
  <1>2. c \in Seq(Byte) /\ Len(c) = 2
    BY HtonsBytes
  <1>3. s \in Seq(Byte) /\ Len(s) >= 8 /\ Len(s) \in Nat
    <2> HIDE DEF c
    <2>1. Joins(s, Raw(m), c, 6 + Len(m.body), 2)
      BY <1>1, <1>2, Joined
    <2> HIDE DEF s
    <2> QED BY <1>1, <2>1 DEF Joins
  <1> HIDE DEF c, s
  <1>4. /\ ConvtCode(s) \in Seq(Byte) /\ Len(ConvtCode(s)) >= Len(s) /\ UnconvtCode(ConvtCode(s)) = s
        /\ \A k \in 1..Len(ConvtCode(s)) : ConvtCode(s)[k] \notin {HeadFlag, TailFlag}
    BY <1>3, ConvtType, UnconvtConvt
  <1>5. Len(ConvtCode(s)) >= 8
    BY <1>3, <1>4
  <1>6. Coded(m) = ConvtCode(s)
    BY DEF Coded, c, s
  <1> QED BY <1>4, <1>5, <1>6 DEF s, c

\* A package: a head flag, four bytes of length, the escaped part, a tail flag.
LEMMA PackageBytes ==
    ASSUME NEW m \in Request, CalcCRC1021(Raw(m)) \in Nat
    PROVE  LET s == PkgProtocolData(m)
           IN  /\ s \in Seq(Byte) /\ Len(s) = 6 + Len(Coded(m))
               /\ s[1] = HeadFlag /\ s[Len(s)] = TailFlag
               /\ \A k \in 1..Len(Coded(m)) : s[5 + k] = Coded(m)[k]
  <1> DEFINE n == HeadOffset + Len(Coded(m)) + 1
             l == htonl(n)
             c == Coded(m)
             h == <<HeadFlag>> \o l
             t == <<TailFlag>>
             s == PkgProtocolData(m)
  <1>1. c \in Seq(Byte) /\ Len(c) \in Nat
    BY CodedBytes
  <1>2. n \div 65536 \in Nat /\ n % 65536 \in Nat
    BY <1>1 DEF HeadOffset
  <1>3. l \in Seq(Byte) /\ Len(l) = 4
    <2> HIDE DEF n
    <2>1. htons(n \div 65536) \in Seq(Byte) /\ Len(htons(n \div 65536)) = 2
      BY <1>2, HtonsBytes
    <2>2. htons(n % 65536) \in Seq(Byte) /\ Len(htons(n % 65536)) = 2
      BY <1>2, HtonsBytes
    <2> DEFINE x == htons(n \div 65536)
               y == htons(n % 65536)
    <2>3. l = x \o y
      BY DEF htonl
    <2> HIDE DEF x, y, l
    <2>4. x \in Seq(Byte) /\ Len(x) = 2 /\ y \in Seq(Byte) /\ Len(y) = 2
      BY <2>1, <2>2 DEF x, y
    <2>5. Joins(l, x, y, 2, 2)
      BY <2>3, <2>4, Joined
    <2> QED BY <2>5 DEF Joins
  <1>4. s = (h \o c) \o t
    BY DEF PkgProtocolData, Coded
  <1> HIDE DEF n, l, c, s
  <1>0. HeadFlag \in Byte /\ TailFlag \in Byte
    BY DEF HeadFlag, TailFlag, Byte
  <1>5. h \in Seq(Byte) /\ Len(h) = 5 /\ h[1] = HeadFlag
    <2> DEFINE x == <<HeadFlag>>
    <2>1. x \in Seq(Byte) /\ Len(x) = 1 /\ x[1] = HeadFlag
      BY <1>0, One
    <2> HIDE DEF x
    <2>2. h = x \o l
      BY DEF x
    <2> HIDE DEF h
    <2>3. Joins(h, x, l, 1, 4)
      BY <1>3, <2>1, <2>2, Joined
    <2> QED BY <2>1, <2>3 DEF Joins
  <1>6. t \in Seq(Byte) /\ Len(t) = 1 /\ t[1] = TailFlag
    BY <1>0, One
  <1> HIDE DEF h, t
  <1>7. /\ h \o c \in Seq(Byte) /\ Len(h \o c) = 5 + Len(c)
        /\ \A i \in 1..5 : (h \o c)[i] = h[i]
        /\ \A i \in 1..Len(c) : (h \o c)[5 + i] = c[i]
    <2>1. Joins(h \o c, h, c, 5, Len(c))
      BY <1>1, <1>5, Joined
    <2> QED BY <2>1 DEF Joins
  <1> DEFINE g == h \o c
  <1> HIDE DEF g
  <1>8. /\ s \in Seq(Byte) /\ Len(s) = (5 + Len(c)) + 1
        /\ \A i \in 1..(5 + Len(c)) : s[i] = g[i]
        /\ \A i \in 1..1 : s[(5 + Len(c)) + i] = t[i]
    <2>1. s = g \o t /\ g \in Seq(Byte) /\ Len(g) = 5 + Len(c)
      BY <1>4, <1>7 DEF g
    <2>2. Joins(s, g, t, 5 + Len(c), 1)
      BY <1>6, <2>1, Joined
    <2> QED BY <2>2 DEF Joins
  <1>9. Len(s) = 6 + Len(c) /\ s[1] = HeadFlag /\ s[Len(s)] = TailFlag
    <2>1. 1 \in 1..(5 + Len(c)) /\ 1 \in 1..1 /\ 1 \in 1..5 /\ (5 + Len(c)) + 1 = 6 + Len(c)
      BY <1>1
    <2>2. s[1] = HeadFlag
      BY <1>5, <1>7, <1>8, <2>1 DEF g
    <2>3. s[(5 + Len(c)) + 1] = TailFlag
      BY <1>6, <1>8, <2>1
    <2> QED BY <1>8, <2>1, <2>2, <2>3
  <1>10. ASSUME NEW k \in 1..Len(c) PROVE s[5 + k] = c[k]
    <2>1. 5 + k \in 1..(5 + Len(c))
      BY <1>1
    <2> QED BY <1>7, <1>8, <2>1 DEF g
  <1> QED BY <1>8, <1>9, <1>10 DEF s, c

\* ParsePkgData makes of a package of PkgProtocolData the message that was packed, if it
\* knows the version, and nothing otherwise: for every body and every checksum.
THEOREM ParsePacked ==
    ASSUME NEW m \in Request, CalcCRC1021(Raw(m)) \in Nat
    PROVE  ParsePkgData(PkgProtocolData(m)) = IF m.version > CurrentVersion THEN <<>> ELSE <<m>>
  <1> DEFINE s == PkgProtocolData(m)
             c == Coded(m)
             r == Raw(m)
             k == htons(CalcCRC1021(r))
             raw == r \o k
             b == m.body
  <1>1. r \in Seq(Byte) /\ Len(r) = 6 + Len(b) /\ b \in Seq(Byte) /\ Len(b) \in Nat
        /\ r[1] = m.version /\ r[4] = m.cmd /\ r[2] * 256 + r[3] = m.seqno
        /\ \A i \in 1..Len(b) : r[6 + i] = b[i]
    BY RawBytes, RequestFields
  <1>2. k \in Seq(Byte) /\ Len(k) = 2
    BY HtonsBytes
  <1>3. c \in Seq(Byte) /\ Len(c) \in Nat /\ Len(c) >= 8 /\ UnconvtCode(c) = raw
    BY CodedBytes
  <1>4. s \in Seq(Byte) /\ Len(s) = 6 + Len(c) /\ \A i \in 1..Len(c) : s[5 + i] = c[i]
    BY PackageBytes
  <1>0. m = [version |-> m.version, seqno |-> m.seqno, cmd |-> m.cmd, body |-> b]
    BY RequestFields
  <1>x. k = htons(CalcCRC1021(r))
    OBVIOUS
  <1> HIDE DEF s, c, r, k, b
  <1>5. SubSeq(s, HeadOffset + 1, Len(s) - 1) = c
    <2> DEFINE y == SubSeq(s, HeadOffset + 1, Len(s) - 1)
    <2>1. Len(s) - 1 = 5 + Len(c) /\ Len(s) - 1 \in Nat /\ 5 <= Len(s) - 1 /\ Len(s) - 1 <= Len(s)
          /\ (Len(s) - 1) - 5 = Len(c)
      BY <1>3, <1>4
    <2>2. y \in Seq(Byte) /\ Len(y) = Len(c) /\ \A i \in 1..Len(c) : y[i] = s[5 + i]
      BY <1>4, <2>1, Piece DEF HeadOffset
    <2> HIDE DEF y
    <2>3. y = c
      BY <1>3, <1>4, <2>2, SeqEqual
    <2> QED BY <2>3 DEF y
  <1>6. /\ raw \in Seq(Byte) /\ Len(raw) = 8 + Len(b)
        /\ \A i \in 1..(6 + Len(b)) : raw[i] = r[i]
        /\ raw[7 + Len(b)] = k[1] /\ raw[8 + Len(b)] = k[2]
    <2>1. /\ raw \in Seq(Byte) /\ Len(raw) = (6 + Len(b)) + 2
          /\ \A i \in 1..(6 + Len(b)) : raw[i] = r[i]
          /\ \A i \in 1..2 : raw[(6 + Len(b)) + i] = k[i]
      <3>1. Joins(raw, r, k, 6 + Len(b), 2)
        BY <1>1, <1>2, Joined
      <3> QED BY <3>1 DEF Joins
    <2> HIDE DEF raw
    <2>2. (6 + Len(b)) + 2 = 8 + Len(b) /\ (6 + Len(b)) + 1 = 7 + Len(b) /\ 1 \in 1..2 /\ 2 \in 1..2
      BY <1>1
    <2> QED BY <2>1, <2>2
  <1> HIDE DEF raw
  <1>7. Len(raw) - 2 = 6 + Len(b) /\ Len(raw) - 1 = (6 + Len(b)) + 1
    BY <1>1, <1>6
  <1>8. SubSeq(raw, 1, Len(raw) - 2) = r
    <2> DEFINE y == SubSeq(raw, 0 + 1, 6 + Len(b))
    <2>1. y \in Seq(Byte) /\ Len(y) = (6 + Len(b)) - 0
          /\ \A i \in 1..((6 + Len(b)) - 0) : y[i] = raw[0 + i]
      BY <1>1, <1>6, Piece
    <2> HIDE DEF y
    <2>2. (6 + Len(b)) - 0 = Len(r) /\ 6 + Len(b) = Len(r) /\ \A i \in 1..Len(r) : 0 + i = i
      BY <1>1
    <2>3. y = r
      BY <1>1, <1>6, <2>1, <2>2, SeqEqual
    <2>4. 0 + 1 = 1
      OBVIOUS
    <2> QED BY <1>7, <2>3, <2>4 DEF y
  <1>9. From(raw, Len(raw) - 1) = k
    <2> DEFINE y == SubSeq(raw, (6 + Len(b)) + 1, 8 + Len(b))
    <2>1. (8 + Len(b)) - (6 + Len(b)) = 2 /\ 6 + Len(b) \in Nat /\ 8 + Len(b) \in Nat
      BY <1>1
    <2>2. y \in Seq(Byte) /\ Len(y) = 2 /\ \A i \in 1..2 : y[i] = raw[(6 + Len(b)) + i]
      BY <1>1, <1>6, <2>1, Piece
    <2> HIDE DEF y
    <2>3. (6 + Len(b)) + 1 = 7 + Len(b) /\ (6 + Len(b)) + 2 = 8 + Len(b) /\ 1 \in 1..2 /\ 2 \in 1..2
          /\ \A i \in 1..2 : i = 1 \/ i = 2
      BY <1>1
    <2>4. \A i \in 1..2 : y[i] = k[i]
      BY <1>6, <2>2, <2>3
    <2>5. y = k
      BY <1>2, <2>2, <2>4, SeqEqual
    <2> QED BY <1>6, <1>7, <2>5 DEF From, y
  <1>10. SubSeq(raw, 7, Len(raw) - 2) = b
    <2> DEFINE y == SubSeq(raw, 6 + 1, 6 + Len(b))
    <2>1. (6 + Len(b)) - 6 = Len(b)
      BY <1>1
    <2>2. y \in Seq(Byte) /\ Len(y) = Len(b) /\ \A i \in 1..Len(b) : y[i] = raw[6 + i]
      BY <1>1, <1>6, <2>1, Piece
    <2> HIDE DEF y
    <2>3. \A i \in 1..Len(b) : 6 + i \in 1..(6 + Len(b))
      BY <1>1
    <2>4. \A i \in 1..Len(b) : y[i] = b[i]
      BY <1>1, <1>6, <2>2, <2>3
    <2>5. y = b
      BY <1>1, <2>2, <2>4, SeqEqual
    <2>6. 6 + 1 = 7
      OBVIOUS
    <2> QED BY <1>7, <2>5, <2>6 DEF y
  <1>11. Intact(raw) /\ ~(Len(s) < NobodyLen)
    <2>1. Len(raw) + HeadOffset + 1 >= NobodyLen /\ ~(Len(s) < NobodyLen)
      BY <1>1, <1>3, <1>4, <1>6 DEF HeadOffset, NobodyLen
    <2> QED BY <1>8, <1>9, <1>x, <2>1 DEF Intact
  <1>12. raw[1] = m.version /\ raw[2] * 256 + raw[3] = m.seqno /\ raw[4] = m.cmd
    <2>1. 1 \in 1..(6 + Len(b)) /\ 2 \in 1..(6 + Len(b)) /\ 3 \in 1..(6 + Len(b)) /\ 4 \in 1..(6 + Len(b))
      BY <1>1
    <2> QED BY <1>1, <1>6, <2>1
  <1>13. UnconvtCode(SubSeq(s, HeadOffset + 1, Len(s) - 1)) = raw
    BY <1>3, <1>5
  <1>14. ParsePkgData(s) = IF raw[1] > CurrentVersion THEN <<>>
                          ELSE <<[version |-> raw[1], seqno |-> raw[2] * 256 + raw[3], cmd |-> raw[4],
                                  body |-> SubSeq(raw, 7, Len(raw) - 2)]>>
    BY <1>11, <1>13 DEF ParsePkgData
  <1> QED BY <1>0, <1>10, <1>12, <1>14 DEF s
-----------------------------------------------------------------------------
(* The loop of ReadWholePkg. *)

Parsed == [version : Byte, seqno : Nat, cmd : Byte, body : Seq(Byte)]
Unpacker == [buf : Seq(Byte), have : BOOLEAN, live : BOOLEAN, got : Seq(Parsed)]

\* The fields of an unpacker.
LEMMA UnpackerFields ==
    ASSUME NEW p \in Unpacker
    PROVE  p.buf \in Seq(Byte) /\ p.have \in BOOLEAN /\ p.live \in BOOLEAN /\ p.got \in Seq(Parsed)
  BY DEF Unpacker

\* ParsePkgData returns messages, whatever bytes stand between two flags.
LEMMA ParseType ==
    ASSUME NEW s \in Seq(Byte)
    PROVE  ParsePkgData(s) \in Seq(Parsed)
  <1> DEFINE y == SubSeq(s, HeadOffset + 1, Len(s) - 1)
             raw == UnconvtCode(y)
             v == [version |-> raw[1], seqno |-> raw[2] * 256 + raw[3], cmd |-> raw[4],
                   body |-> SubSeq(raw, 7, Len(raw) - 2)]
  <1>1. CASE Len(s) < NobodyLen \/ ~Intact(raw) \/ raw[1] > CurrentVersion
    <2>1. ParsePkgData(s) = <<>>
      BY <1>1 DEF ParsePkgData
    <2> QED BY <2>1
  <1>2. CASE ~(Len(s) < NobodyLen \/ ~Intact(raw) \/ raw[1] > CurrentVersion)
    <2>1. Len(s) \in Nat /\ Len(s) - 1 \in Nat /\ 5 <= Len(s) - 1
      BY <1>2 DEF NobodyLen
    <2>2. y \in Seq(Byte)
      <3>1. SubSeq(s, 5 + 1, Len(s) - 1) \in Seq(Byte)
        BY <2>1, Piece
      <3> QED BY <3>1 DEF HeadOffset
    <2>3. ParsePkgData(s) = <<v>>
      BY <1>2 DEF ParsePkgData
    <2> HIDE DEF y
    <2>4. raw \in Seq(Byte) /\ Len(raw) + HeadOffset + 1 >= NobodyLen
      BY <1>2, <2>2, UnconvtType DEF Intact
    <2> HIDE DEF raw
    <2>5. Len(raw) \in Nat /\ Len(raw) >= 8 /\ Len(raw) - 2 \in Nat /\ 6 <= Len(raw) - 2
      BY <2>4 DEF HeadOffset, NobodyLen
    <2>6. raw[1] \in Byte /\ raw[2] \in Byte /\ raw[3] \in Byte /\ raw[4] \in Byte
      BY <2>4, <2>5
    <2>7. SubSeq(raw, 7, Len(raw) - 2) \in Seq(Byte)
      <3>1. SubSeq(raw, 6 + 1, Len(raw) - 2) \in Seq(Byte)
        BY <2>4, <2>5, Piece
      <3> QED BY <3>1
    <2>8. raw[2] * 256 + raw[3] \in Nat
      <3>1. \A x \in Byte : x \in Nat
        BY DEF Byte
      <3> QED BY <2>6, <3>1
    <2>9. v \in Parsed
      BY <2>6, <2>7, <2>8 DEF Parsed
    <2> HIDE DEF v
    <2> QED BY <2>3, <2>9
  <1> QED BY <1>1, <1>2

\* What is left of b behind its first a bytes.
Rest(b, a) == SubSeq(b, a + 1, Len(b))

\* Which bytes are left.
LEMMA RestBytes ==
    ASSUME NEW b \in Seq(Byte), NEW a \in 0..Len(b)
    PROVE  /\ Rest(b, a) \in Seq(Byte) /\ Len(Rest(b, a)) = Len(b) - a
           /\ \A k \in 1..(Len(b) - a) : Rest(b, a)[k] = b[a + k]
  <1>1. a \in Nat /\ Len(b) \in Nat /\ a <= Len(b) /\ Len(b) <= Len(b)
    OBVIOUS
  <1> QED BY <1>1, Piece DEF Rest

\* Nothing is left when all of it is done with.
LEMMA RestEmpty ==
    ASSUME NEW b \in Seq(Byte), NEW a \in 0..Len(b)
    PROVE  Rest(b, a) = <<>> <=> a = Len(b)
  <1>1. Rest(b, a) \in Seq(Byte) /\ Len(Rest(b, a)) = Len(b) - a /\ Len(b) \in Nat
    BY RestBytes
  <1>2. Rest(b, a) = <<>> <=> Len(Rest(b, a)) = 0
    BY <1>1
  <1> QED BY <1>1, <1>2

\* The rest of the rest, and the pieces of it.
LEMMA RestOfRest ==
    ASSUME NEW b \in Seq(Byte), NEW a \in 0..Len(b), NEW i \in 0..(Len(b) - a)
    PROVE  /\ SubSeq(Rest(b, a), i + 1, Len(Rest(b, a))) = Rest(b, a + i)
           /\ \A j \in 0..(Len(b) - a) : i <= j =>
                 SubSeq(Rest(b, a), i + 1, j) = SubSeq(b, (a + i) + 1, a + j)
  <1>1. a \in Nat /\ Len(b) \in Nat /\ i \in Nat /\ a + i <= Len(b)
    OBVIOUS
  <1>2. ASSUME NEW j \in 0..(Len(b) - a), i <= j
        PROVE  SubSeq(Rest(b, a), i + 1, j) = SubSeq(b, (a + i) + 1, a + j)
    <2>1. j \in Nat /\ a + j <= Len(b)
      BY <1>1
    <2> QED BY <1>1, <1>2, <2>1, PieceOfPiece DEF Rest
  <1>3. Len(Rest(b, a)) = Len(b) - a /\ Len(b) - a \in 0..(Len(b) - a) /\ a + (Len(b) - a) = Len(b)
    BY <1>1, RestBytes
  <1>4. SubSeq(Rest(b, a), i + 1, Len(b) - a) = SubSeq(b, (a + i) + 1, a + (Len(b) - a))
    <2>1. i <= Len(b) - a
      BY <1>1
    <2> QED BY <1>2, <1>3, <2>1
  <1>5. SubSeq(Rest(b, a), i + 1, Len(Rest(b, a))) = SubSeq(b, (a + i) + 1, Len(b))
    BY <1>3, <1>4
  <1> QED BY <1>2, <1>5 DEF Rest

\* Where the next package starts, if it does: at once, or at the next head flag.
Starts(b, a, have, h) ==
    /\ h \in a..Len(b)
    /\ IF have THEN h = a
       ELSE h < Len(b) /\ b[h + 1] = HeadFlag /\ \A i \in (a + 1)..h : b[i] # HeadFlag

\* The three outcomes of a turn that leaves q of p, whose first a bytes are done with.
NoHead(b, a, p, q) ==
    /\ ~p.have /\ \A i \in (a + 1)..Len(b) : b[i] # HeadFlag
    /\ q.buf = Rest(b, Len(b)) /\ q.have = FALSE /\ q.live = p.live /\ q.got = p.got
NoTail(b, a, p, q, h) ==
    /\ Starts(b, a, p.have, h) /\ \A i \in (h + 1)..Len(b) : b[i] # TailFlag
    /\ q.buf = Rest(b, h) /\ q.have = TRUE /\ q.live = p.live /\ q.got = p.got
Whole(b, a, p, q, h, t) ==
    /\ Starts(b, a, p.have, h)
    /\ t \in (h + 1)..Len(b) /\ b[t] = TailFlag /\ \A i \in (h + 1)..(t - 1) : b[i] # TailFlag
    /\ q.buf = Rest(b, t) /\ q.have = FALSE /\ q.live = p.live
    /\ q.got = p.got \o ParsePkgData(SubSeq(b, h + 1, t))

\* With a head flag at the front, NextPkg waits for the tail flag or takes the package.
LEMMA TakePkg ==
    ASSUME NEW b \in Seq(Byte), NEW a \in 0..Len(b), NEW h \in 0..Len(b),
           NEW p \in Unpacker, NEW q \in Unpacker, Starts(b, a, p.have, h),
           q.have = TRUE, q.live = p.live, q.got = p.got, q.buf = Rest(b, h),
           NEW r,
           r = IF Find(q.buf, TailFlag) = 0 THEN q
               ELSE [q EXCEPT !.buf = From(q.buf, Find(q.buf, TailFlag) + 1), !.have = FALSE,
                              !.got = q.got \o ParsePkgData(SubSeq(q.buf, 1, Find(q.buf, TailFlag)))]
    PROVE  /\ r \in Unpacker
           /\ NoTail(b, a, p, r, h) \/ \E t : Whole(b, a, p, r, h, t)
  <1> DEFINE x == q.buf
             t == Find(x, TailFlag)
  <1>1. x \in Seq(Byte) /\ Len(x) = Len(b) - h /\ \A k \in 1..(Len(b) - h) : x[k] = b[h + k]
    BY RestBytes
  <1>0. Len(b) \in Nat /\ h \in Nat /\ h <= Len(b)
    OBVIOUS
  <1>2. /\ t \in 0..Len(x)
        /\ t = 0 => \A i \in 1..Len(x) : x[i] # TailFlag
        /\ t # 0 => x[t] = TailFlag /\ \A i \in 1..(t - 1) : x[i] # TailFlag
    BY <1>1, FindFirst
  <1> HIDE DEF x, t
  <1>3. CASE t = 0
    <2>1. r = q
      BY <1>3 DEF t, x
    <2>2. ASSUME NEW i \in (h + 1)..Len(b) PROVE b[i] # TailFlag
      <3>1. i - h \in 1..(Len(b) - h) /\ h + (i - h) = i
        BY <1>0
      <3>2. x[i - h] # TailFlag
        BY <1>1, <1>2, <1>3, <3>1
      <3>3. x[i - h] = b[h + (i - h)]
        BY <1>1, <3>1
      <3> QED BY <3>1, <3>2, <3>3
    <2> QED BY <2>1, <2>2 DEF NoTail
  <1>4. CASE t # 0
    <2> DEFINE e == h + t
               g == ParsePkgData(SubSeq(b, h + 1, e))
    <2>0. t \in Nat /\ 1 <= t /\ t <= Len(b) - h /\ t \in 0..(Len(b) - h) /\ e \in 0..Len(b)
      BY <1>0, <1>1, <1>2, <1>4
    <2>1. From(x, t + 1) = Rest(b, e)
      BY <2>0, RestOfRest DEF From, x
    <2>2. SubSeq(x, 1, t) = SubSeq(b, h + 1, e)
      <3>1. 0 \in 0..(Len(b) - h) /\ 0 <= t /\ 0 + 1 = 1 /\ h + 0 = h
        BY <1>0, <2>0
      <3>2. SubSeq(x, 0 + 1, t) = SubSeq(b, (h + 0) + 1, h + t)
        <4>1. \A j \in 0..(Len(b) - h) : 0 <= j =>
                 SubSeq(Rest(b, h), 0 + 1, j) = SubSeq(b, (h + 0) + 1, h + j)
          BY <3>1, RestOfRest
        <4>2. x = Rest(b, h)
          BY DEF x
        <4> QED BY <2>0, <3>1, <4>1, <4>2
      <3> QED BY <3>1, <3>2
    <2>3. r = [q EXCEPT !.buf = Rest(b, e), !.have = FALSE, !.got = q.got \o g]
      <3>1. r = [q EXCEPT !.buf = From(x, t + 1), !.have = FALSE,
                          !.got = q.got \o ParsePkgData(SubSeq(x, 1, t))]
        BY <1>4 DEF t, x
      <3> QED BY <2>1, <2>2, <3>1
    <2>4. e \in (h + 1)..Len(b) /\ b[e] = TailFlag
      <3>1. e \in (h + 1)..Len(b) /\ t \in 1..(Len(b) - h)
        BY <1>0, <2>0
      <3>2. x[t] = TailFlag /\ x[t] = b[e]
        BY <1>1, <1>2, <1>4, <3>1
      <3> QED BY <3>1, <3>2
    <2>5. ASSUME NEW i \in (h + 1)..(e - 1) PROVE b[i] # TailFlag
      <3>1. i - h \in 1..(t - 1) /\ i - h \in 1..(Len(b) - h) /\ h + (i - h) = i
        BY <1>0, <2>0
      <3>2. x[i - h] # TailFlag
        BY <1>2, <1>4, <3>1
      <3>3. x[i - h] = b[h + (i - h)]
        BY <1>1, <3>1
      <3> QED BY <3>1, <3>2, <3>3
    <2>6. SubSeq(b, h + 1, e) \in Seq(Byte)
      BY <1>0, <2>0, Piece
    <2>7. g \in Seq(Parsed) /\ Rest(b, e) \in Seq(Byte)
      BY <2>0, <2>6, ParseType, RestBytes
    <2> HIDE DEF e, g
    <2>8. q.got \in Seq(Parsed) /\ q.got \o g \in Seq(Parsed)
      BY <2>7, UnpackerFields
    <2>9. r \in Unpacker
      BY <2>3, <2>7, <2>8 DEF Unpacker
    <2>10. r.buf = Rest(b, e) /\ r.have = FALSE /\ r.live = p.live /\ r.got = p.got \o g
      BY <2>3 DEF Unpacker
    <2>11. Whole(b, a, p, r, h, e)
      BY <2>4, <2>5, <2>10 DEF Whole, g
    <2> QED BY <2>9, <2>11
  <1> QED BY <1>3, <1>4

\* Every turn of the loop has one of the three outcomes.
LEMMA Turn ==
    ASSUME NEW b \in Seq(Byte), NEW a \in 0..Len(b), NEW p \in Unpacker, p.buf = Rest(b, a)
    PROVE  /\ NextPkg(p) \in Unpacker
           /\ \/ NoHead(b, a, p, NextPkg(p))
              \/ \E h : NoTail(b, a, p, NextPkg(p), h)
              \/ \E h, t : Whole(b, a, p, NextPkg(p), h, t)
  <1> DEFINE x == p.buf
             q == IF p.have THEN p ELSE ReadPkgHead(p)
             n == Find(x, HeadFlag)
             r == NextPkg(p)
  <1>0. Len(b) \in Nat /\ a \in Nat /\ a <= Len(b)
    OBVIOUS
  <1>1. x \in Seq(Byte) /\ Len(x) = Len(b) - a /\ \A k \in 1..(Len(b) - a) : x[k] = b[a + k]
    BY RestBytes
  <1>2. p.have \in BOOLEAN
    BY UnpackerFields
  <1>3. r = IF ~q.have \/ Find(q.buf, TailFlag) = 0 THEN q
            ELSE [q EXCEPT !.buf = From(q.buf, Find(q.buf, TailFlag) + 1), !.have = FALSE,
                           !.got = q.got \o ParsePkgData(SubSeq(q.buf, 1, Find(q.buf, TailFlag)))]
    BY DEF NextPkg
  <1> HIDE DEF r
  <1>4. CASE p.have
    <2>1. q = p
      BY <1>4
    <2>2. Starts(b, a, p.have, a)
      BY <1>0, <1>4 DEF Starts
    <2>3. r = IF Find(p.buf, TailFlag) = 0 THEN p
              ELSE [p EXCEPT !.buf = From(p.buf, Find(p.buf, TailFlag) + 1), !.have = FALSE,
                             !.got = p.got \o ParsePkgData(SubSeq(p.buf, 1, Find(p.buf, TailFlag)))]
      BY <1>3, <1>4, <2>1
    <2>4. p.have = TRUE
      BY <1>2, <1>4
    <2>5. r \in Unpacker /\ (NoTail(b, a, p, r, a) \/ \E t : Whole(b, a, p, r, a, t))
      BY <2>2, <2>3, <2>4, TakePkg
    <2> QED BY <2>5 DEF r
  <1>5. CASE ~p.have
    <2>1. q = ReadPkgHead(p)
      BY <1>5
    <2>2. /\ n \in 0..Len(x)
          /\ n = 0 => \A i \in 1..Len(x) : x[i] # HeadFlag
          /\ n # 0 => x[n] = HeadFlag /\ \A i \in 1..(n - 1) : x[i] # HeadFlag
      BY <1>1, FindFirst
    <2>3. q = IF n = 0 THEN [p EXCEPT !.buf = <<>>, !.have = FALSE]
              ELSE [p EXCEPT !.buf = From(x, n), !.have = TRUE]
      BY <2>1 DEF ReadPkgHead
    <2> HIDE DEF x, n, q
    <2>4. CASE n = 0
      <3>1. q = [p EXCEPT !.buf = <<>>, !.have = FALSE]
        BY <2>3, <2>4
      <3>2. q \in Unpacker /\ q.buf = <<>> /\ q.have = FALSE /\ q.live = p.live /\ q.got = p.got
        <4> DEFINE z == <<>>
        <4>1. z \in Seq(Byte) /\ q = [p EXCEPT !.buf = z, !.have = FALSE]
          BY <3>1
        <4> HIDE DEF z
        <4>2. q \in Unpacker /\ q.buf = z /\ q.have = FALSE /\ q.live = p.live /\ q.got = p.got
          BY <4>1 DEF Unpacker
        <4> QED BY <4>2 DEF z
      <3>3. r = q
        BY <1>3, <3>2
      <3>4. ASSUME NEW i \in (a + 1)..Len(b) PROVE b[i] # HeadFlag
        <4>1. i - a \in 1..(Len(b) - a) /\ a + (i - a) = i
          BY <1>0
        <4>2. x[i - a] # HeadFlag
          BY <1>1, <2>2, <2>4, <4>1
        <4>3. x[i - a] = b[a + (i - a)]
          BY <1>1, <4>1
        <4> QED BY <4>1, <4>2, <4>3
      <3>5. Rest(b, Len(b)) = <<>>
        <4>1. Len(b) \in 0..Len(b)
          BY <1>0
        <4> QED BY <4>1, RestEmpty
      <3>6. NoHead(b, a, p, r)
        BY <1>5, <3>2, <3>3, <3>4, <3>5 DEF NoHead
      <3> QED BY <3>2, <3>3, <3>6 DEF r
    <2>5. CASE n # 0
      <3> DEFINE h == a + (n - 1)
      <3>0. n \in Nat /\ n - 1 \in 0..(Len(b) - a) /\ h \in 0..Len(b) /\ (n - 1) + 1 = n
            /\ h < Len(b) /\ h + 1 = a + n /\ n \in 1..(Len(b) - a) /\ h \in a..Len(b)
        BY <1>0, <1>1, <2>2, <2>5
      <3>1. From(x, n) = Rest(b, h)
        <4>1. SubSeq(x, (n - 1) + 1, Len(x)) = Rest(b, h)
          BY <3>0, RestOfRest DEF x
        <4> QED BY <3>0, <4>1 DEF From
      <3>2. q = [p EXCEPT !.buf = Rest(b, h), !.have = TRUE]
        BY <2>3, <2>5, <3>1
      <3>3. Rest(b, h) \in Seq(Byte)
        BY <3>0, RestBytes
      <3>4. q \in Unpacker /\ q.buf = Rest(b, h) /\ q.have = TRUE /\ q.live = p.live /\ q.got = p.got
        <4> HIDE DEF h
        <4> QED BY <3>2, <3>3 DEF Unpacker
      <3>5. b[h + 1] = HeadFlag
        BY <1>1, <2>2, <2>5, <3>0
      <3>6. ASSUME NEW i \in (a + 1)..h PROVE b[i] # HeadFlag
        <4>1. i - a \in 1..(Len(b) - a) /\ i - a \in 1..(n - 1) /\ a + (i - a) = i
          BY <1>0, <3>0
        <4>2. x[i - a] # HeadFlag
          BY <2>2, <2>5, <4>1
        <4>3. x[i - a] = b[a + (i - a)]
          BY <1>1, <4>1
        <4> QED BY <4>1, <4>2, <4>3
      <3> HIDE DEF h
      <3>7. Starts(b, a, p.have, h)
        BY <1>5, <3>0, <3>5, <3>6 DEF Starts
      <3>8. r = IF Find(q.buf, TailFlag) = 0 THEN q
                ELSE [q EXCEPT !.buf = From(q.buf, Find(q.buf, TailFlag) + 1), !.have = FALSE,
                               !.got = q.got \o ParsePkgData(SubSeq(q.buf, 1, Find(q.buf, TailFlag)))]
        BY <1>3, <3>4
      <3>9. r \in Unpacker /\ (NoTail(b, a, p, r, h) \/ \E t : Whole(b, a, p, r, h, t))
        BY <3>0, <3>4, <3>7, <3>8, TakePkg
      <3> QED BY <3>9 DEF r
    <2> QED BY <2>4, <2>5
  <1> QED BY <1>4, <1>5

\* NextPkg keeps the types.
LEMMA NextPkgType ==
    ASSUME NEW p \in Unpacker
    PROVE  NextPkg(p) \in Unpacker
  <1>1. p.buf \in Seq(Byte)
    BY UnpackerFields
  <1>2. 0 \in 0..Len(p.buf) /\ p.buf = Rest(p.buf, 0)
    BY <1>1 DEF Rest
  <1> QED BY <1>1, <1>2, Turn

\* ReadWholePkg is what its recursion says.
LEMMA ReadSteps ==
    ASSUME NEW p \in Unpacker, NEW n \in Nat, n = Cardinality(Tails(p.buf)) + 1
    PROVE  \E turn \in [0..n -> Unpacker] :
              /\ turn[0] = p /\ \A i \in 1..n : turn[i] = NextPkg(turn[i - 1])
              /\ ReadWholePkg(p) = turn[n]
  <1> DEFINE Def(f) == [i \in 0..n |-> IF i = 0 THEN p ELSE NextPkg(f[i - 1])]
             turn == CHOOSE f : f = Def(f)
  <1>2. \A v \in Unpacker, i \in 1..n : NextPkg(v) \in Unpacker
    BY NextPkgType
  <1>3. ReadWholePkg(p) = turn[n]
    BY DEF ReadWholePkg
  <1>4. PICK f : f = Def(f)
    <2> DEFINE step == [i \in 1..n |-> [v \in Unpacker |-> NextPkg(v)]]
    <2>1. step \in [1..n -> [Unpacker -> Unpacker]]
      BY <1>2
    <2>2. \A v \in Unpacker, i \in 1..n : step[i][v] = NextPkg(v)
      OBVIOUS
    <2> HIDE DEF step
    <2>3. PICK f : Recursive(f, n, Unpacker, p, step)
      BY <2>1, Recursion
    <2>4. ASSUME NEW i \in 1..n PROVE f[i] = NextPkg(f[i - 1])
      <3>1. f[i - 1] \in Unpacker
        BY <2>3 DEF Recursive
      <3> QED BY <2>2, <2>3, <3>1 DEF Recursive
    <2>5. Def(f) = f
      BY <2>3, <2>4 DEF Recursive
    <2> QED BY <2>5
  <1>5. turn = Def(turn)
    <2> HIDE DEF Def
    <2> QED BY <1>4
  <1> HIDE DEF turn
  <1>6. turn[0] = p /\ \A i \in 1..n : turn[i] = NextPkg(turn[i - 1])
    BY <1>5
  <1>7. \A i \in 0..n : turn[i] \in Unpacker
    <2> DEFINE S == {j \in 0..n : turn[j] \in Unpacker}
    <2>1. 0 \in S
      BY <1>6
    <2>2. ASSUME NEW i \in 0..(n - 1), i \in S PROVE i + 1 \in S
      <3>1. i + 1 \in 1..n /\ i + 1 \in 0..n /\ turn[i] \in Unpacker /\ (i + 1) - 1 = i
        BY <2>2
      <3>2. turn[i + 1] = NextPkg(turn[i])
        BY <1>6, <3>1
      <3> QED BY <3>1, <3>2, NextPkgType
    <2>3. \A i \in 0..n : i \in S
      <3> HIDE DEF S
      <3> QED BY <2>1, <2>2, Induction
    <2> QED BY <2>3
  <1>8. turn \in [0..n -> Unpacker]
    BY <1>5, <1>7
  <1> QED BY <1>3, <1>6, <1>8

\* The tail flags behind a place are finitely many.
LEMMA TailsFinite ==
    ASSUME NEW b \in Seq(Byte), NEW a \in 0..Len(b)
    PROVE  /\ IsFiniteSet({i \in (a + 1)..Len(b) : b[i] = TailFlag})
           /\ Cardinality({i \in (a + 1)..Len(b) : b[i] = TailFlag}) \in Nat
  <1> DEFINE T == {i \in (a + 1)..Len(b) : b[i] = TailFlag}
             U == (a + 1)..Len(b)
  <1>1. IsFiniteSet(U)
    <2>1. a + 1 \in Int /\ Len(b) \in Int
      OBVIOUS
    <2> QED BY <2>1, FS_Interval
  <1>2. T \in SUBSET U
    OBVIOUS
  <1> HIDE DEF T, U
  <1>3. IsFiniteSet(T)
    BY <1>1, <1>2, FS_Subset
  <1>4. Cardinality(T) \in Nat
    BY <1>3, FS_CardinalityType
  <1> QED BY <1>3, <1>4 DEF T

\* So are those of the whole buffer: ReadWholePkg has a number of turns.
LEMMA TailsCount ==
    ASSUME NEW b \in Seq(Byte)
    PROVE  /\ Tails(b) = {i \in (0 + 1)..Len(b) : b[i] = TailFlag}
           /\ Cardinality(Tails(b)) \in Nat
  <1>1. Tails(b) = {i \in (0 + 1)..Len(b) : b[i] = TailFlag}
    BY DEF Tails
  <1>2. 0 \in 0..Len(b)
    OBVIOUS
  <1> QED BY <1>1, <1>2, TailsFinite

\* What every turn keeps, the loop keeps.
LEMMA Loop ==
    ASSUME NEW p \in Unpacker, NEW I, p \in I, \A q \in I \cap Unpacker : NextPkg(q) \in I
    PROVE  ReadWholePkg(p) \in I /\ ReadWholePkg(p) \in Unpacker
  <1> DEFINE n == Cardinality(Tails(p.buf)) + 1
  <1>1. n \in Nat
    <2>1. Cardinality(Tails(p.buf)) \in Nat
      BY UnpackerFields, TailsCount
    <2> QED BY <2>1
  <1>2. PICK turn \in [0..n -> Unpacker] :
            /\ turn[0] = p /\ \A i \in 1..n : turn[i] = NextPkg(turn[i - 1])
            /\ ReadWholePkg(p) = turn[n]
    BY <1>1, ReadSteps
  <1> HIDE DEF n
  <1> DEFINE S == {i \in 0..n : turn[i] \in I}
  <1>3. 0 \in S
    BY <1>1, <1>2
  <1>4. ASSUME NEW i \in 0..(n - 1), i \in S PROVE i + 1 \in S
    <2>1. i + 1 \in 1..n /\ i + 1 \in 0..n /\ (i + 1) - 1 = i /\ i \in 0..n
      BY <1>1
    <2>2. turn[i] \in I \cap Unpacker
      BY <1>4, <2>1
    <2>3. turn[i + 1] = NextPkg(turn[i])
      BY <1>2, <2>1
    <2> QED BY <2>1, <2>2, <2>3
  <1>5. \A i \in 0..n : i \in S
    <2> HIDE DEF S
    <2> QED BY <1>1, <1>3, <1>4, Induction
  <1>6. n \in 0..n
    BY <1>1
  <1>7. turn[n] \in I
    BY <1>5, <1>6
  <1> QED BY <1>2, <1>6, <1>7

\* A package of which the head has come but not the tail, or nothing at all.
Settled(q) ==
    /\ q.have = (q.buf # <<>>)
    /\ \A i \in 1..Len(q.buf) : q.buf[i] # TailFlag

\* An unpacker without bytes is settled.
LEMMA EmptySettled ==
    ASSUME NEW q, q.buf = <<>>, q.have = FALSE
    PROVE  Settled(q)
  <1>1. q.have = (q.buf # <<>>)
    BY Zenon
  <1>2. Len(q.buf) = 0
    OBVIOUS
  <1>3. \A i \in 1..0 : FALSE
    OBVIOUS
  <1> QED BY <1>1, <1>2, <1>3, Zenon DEF Settled

\* A further turn changes nothing once an unpacker is settled.
LEMMA SettledStays ==
    ASSUME NEW q \in Unpacker, Settled(q)
    PROVE  Settled(NextPkg(q))
  <1> DEFINE b == q.buf
             r == NextPkg(q)
  <1>1. b \in Seq(Byte) /\ q.have \in BOOLEAN
    BY UnpackerFields
  <1>2. 0 \in 0..Len(b) /\ b = Rest(b, 0) /\ Len(b) \in Nat /\ 0 + 1 = 1
    BY <1>1 DEF Rest
  <1>3. /\ r \in Unpacker
        /\ (NoHead(b, 0, q, r) \/ (\E h : NoTail(b, 0, q, r, h)) \/ (\E h, t : Whole(b, 0, q, r, h, t)))
    BY <1>1, <1>2, Turn
  <1>4. q.have = (b # <<>>) /\ \A i \in 1..Len(b) : b[i] # TailFlag
    BY DEF Settled
  <1> HIDE DEF b, r
  <1>5. ASSUME NoHead(b, 0, q, r) PROVE Settled(r)
    <2>1. r.buf = Rest(b, Len(b)) /\ r.have = FALSE
      BY <1>5 DEF NoHead
    <2>2. Rest(b, Len(b)) = <<>>
      <3>1. Len(b) \in 0..Len(b)
        BY <1>2
      <3> QED BY <1>1, <3>1, RestEmpty
    <2> QED BY <2>1, <2>2, EmptySettled
  <1>6. ASSUME NEW h, NoTail(b, 0, q, r, h) PROVE Settled(r)
    <2>1. Starts(b, 0, q.have, h) /\ r.buf = Rest(b, h) /\ r.have = TRUE
      BY <1>6 DEF NoTail
    <2>2. q.have
      <3> SUFFICES ASSUME ~q.have PROVE FALSE
        OBVIOUS
      <3>1. b = <<>>
        BY <1>4
      <3>2. h \in 0..Len(b) /\ h < Len(b)
        BY <2>1 DEF Starts
      <3> QED BY <3>1, <3>2
    <2>3. h = 0 /\ r.buf = b
      BY <1>2, <2>1, <2>2 DEF Starts
    <2>4. b # <<>>
      BY <1>4, <2>2
    <2> QED BY <1>4, <2>1, <2>3, <2>4 DEF Settled
  <1>7. ASSUME NEW h, NEW t, Whole(b, 0, q, r, h, t) PROVE FALSE
    <2>1. h \in 0..Len(b) /\ t \in (h + 1)..Len(b) /\ b[t] = TailFlag
      BY <1>7 DEF Whole, Starts
    <2>2. t \in 1..Len(b)
      BY <1>2, <2>1
    <2> QED BY <1>4, <2>1, <2>2
  <1>8. Settled(r)
    BY <1>3, <1>5, <1>6, <1>7 DEF r
  <1> QED BY <1>8 DEF r

\* The tail flags of b behind its first a bytes.
TailsAfter(b, a) == {i \in (a + 1)..Len(b) : b[i] = TailFlag}

\* Behind a tail flag there are fewer of them.
LEMMA FewerTails ==
    ASSUME NEW b \in Seq(Byte), NEW a \in 0..Len(b), NEW t \in (a + 1)..Len(b), b[t] = TailFlag
    PROVE  Cardinality(TailsAfter(b, t)) + 1 <= Cardinality(TailsAfter(b, a))
  <1> DEFINE A == TailsAfter(b, a)
             T == TailsAfter(b, t)
  <1>0. Len(b) \in Nat /\ t \in 0..Len(b)
    OBVIOUS
  <1>1. IsFiniteSet(A) /\ Cardinality(A) \in Nat /\ Cardinality(T) \in Nat
    BY <1>0, TailsFinite DEF TailsAfter
  <1>2. T \in SUBSET (A \ {t}) /\ t \in A
    BY <1>0 DEF TailsAfter
  <1> HIDE DEF A, T
  <1>3. IsFiniteSet(A \ {t}) /\ Cardinality(A \ {t}) = Cardinality(A) - 1
    BY <1>1, <1>2, FS_RemoveElement
  <1>4. Cardinality(T) <= Cardinality(A \ {t})
    BY <1>2, <1>3, FS_Subset
  <1>5. Cardinality(T) + 1 <= Cardinality(A)
    BY <1>1, <1>3, <1>4
  <1> QED BY <1>5 DEF A, T

\* A turn settles, or takes a tail flag away.
LEMMA TurnEnds ==
    ASSUME NEW b \in Seq(Byte), NEW a \in 0..Len(b), NEW p \in Unpacker, p.buf = Rest(b, a),
           p.have => p.buf # <<>>
    PROVE  \E c \in a..Len(b) :
              /\ NextPkg(p).buf = Rest(b, c) /\ NextPkg(p).live = p.live
              /\ \/ Settled(NextPkg(p))
                 \/ /\ ~NextPkg(p).have
                    /\ Cardinality(TailsAfter(b, c)) + 1 <= Cardinality(TailsAfter(b, a))
  <1> DEFINE q == NextPkg(p)
             Ends(c) == /\ c \in a..Len(b) /\ q.buf = Rest(b, c) /\ q.live = p.live
                        /\ \/ Settled(q)
                           \/ /\ ~q.have
                              /\ Cardinality(TailsAfter(b, c)) + 1 <= Cardinality(TailsAfter(b, a))
  <1>0. Len(b) \in Nat /\ a \in Nat /\ a <= Len(b)
    OBVIOUS
  <1>1. q \in Unpacker /\ (NoHead(b, a, p, q) \/ (\E h : NoTail(b, a, p, q, h)) \/ (\E h, t : Whole(b, a, p, q, h, t)))
    BY Turn
  <1> HIDE DEF q
  <1>2. ASSUME NoHead(b, a, p, q) PROVE \E c : Ends(c)
    <2>1. q.buf = Rest(b, Len(b)) /\ q.have = FALSE /\ q.live = p.live
      BY <1>2 DEF NoHead
    <2>2. Len(b) \in 0..Len(b) /\ Len(b) \in a..Len(b)
      BY <1>0
    <2>3. Rest(b, Len(b)) = <<>>
      BY <2>2, RestEmpty
    <2>5. Settled(q)
      BY <2>1, <2>3, EmptySettled
    <2>6. Ends(Len(b))
      BY <2>1, <2>2, <2>5
    <2> QED BY <2>6
  <1>3. ASSUME NEW h, NoTail(b, a, p, q, h) PROVE \E c : Ends(c)
    <2>1. /\ Starts(b, a, p.have, h) /\ q.buf = Rest(b, h) /\ q.have = TRUE /\ q.live = p.live
          /\ \A i \in (h + 1)..Len(b) : b[i] # TailFlag
      BY <1>3 DEF NoTail
    <2>2. h \in a..Len(b) /\ h \in 0..Len(b)
      BY <1>0, <2>1 DEF Starts
    <2>3. h # Len(b)
      <3>1. CASE p.have
        <4>1. h = a /\ Rest(b, a) # <<>>
          BY <2>1, <3>1 DEF Starts
        <4> QED BY <4>1, RestEmpty
      <3>2. CASE ~p.have
        BY <1>0, <2>1, <2>2, <3>2 DEF Starts
      <3> QED BY <3>1, <3>2
    <2>4. q.buf # <<>>
      BY <2>1, <2>2, <2>3, RestEmpty
    <2>5. ASSUME NEW i \in 1..Len(q.buf) PROVE q.buf[i] # TailFlag
      <3>1. Len(q.buf) = Len(b) - h /\ \A k \in 1..(Len(b) - h) : q.buf[k] = b[h + k]
        BY <2>1, <2>2, RestBytes
      <3>2. h + i \in (h + 1)..Len(b) /\ i \in 1..(Len(b) - h)
        BY <1>0, <2>2, <3>1
      <3> QED BY <2>1, <3>1, <3>2
    <2>6. Settled(q)
      BY <2>1, <2>4, <2>5 DEF Settled
    <2>7. Ends(h)
      BY <2>1, <2>2, <2>6
    <2> QED BY <2>7
  <1>4. ASSUME NEW h, NEW t, Whole(b, a, p, q, h, t) PROVE \E c : Ends(c)
    <2>1. h \in a..Len(b) /\ t \in (h + 1)..Len(b) /\ b[t] = TailFlag
          /\ q.buf = Rest(b, t) /\ q.have = FALSE /\ q.live = p.live
      BY <1>4 DEF Whole, Starts
    <2>2. t \in (a + 1)..Len(b) /\ t \in a..Len(b)
      BY <1>0, <2>1
    <2>3. Cardinality(TailsAfter(b, t)) + 1 <= Cardinality(TailsAfter(b, a))
      BY <2>1, <2>2, FewerTails
    <2>4. Ends(t)
      BY <2>1, <2>2, <2>3
    <2> QED BY <2>4
  <1>5. \E c : Ends(c)
    BY <1>1, <1>2, <1>3, <1>4
  <1> QED BY <1>5 DEF q

\* ReadWholePkg ends only when nothing more can be read: no complete package is left in
\* the buffer, what is left of it is the end of what was there, and the unpacker stays.
THEOREM ReadSettles ==
    ASSUME NEW p \in Unpacker, p.buf # <<>>
    PROVE  /\ ReadWholePkg(p) \in Unpacker /\ Settled(ReadWholePkg(p))
           /\ ReadWholePkg(p).live = p.live
           /\ \E a \in 0..Len(p.buf) : ReadWholePkg(p).buf = Rest(p.buf, a)
  <1> DEFINE b == p.buf
             n == Cardinality(Tails(b)) + 1
  <1>0. b \in Seq(Byte) /\ b = Rest(b, 0) /\ Len(b) \in Nat /\ 0 \in 0..Len(b)
    <2>1. b \in Seq(Byte)
      BY UnpackerFields
    <2> QED BY <2>1 DEF Rest
  <1>1. n \in Nat /\ Cardinality(TailsAfter(b, 0)) = n - 1
    <2>1. Cardinality(Tails(b)) \in Nat /\ Tails(b) = TailsAfter(b, 0)
      BY <1>0, TailsCount DEF TailsAfter
    <2> QED BY <2>1
  <1>2. PICK turn \in [0..n -> Unpacker] :
            /\ turn[0] = p /\ \A i \in 1..n : turn[i] = NextPkg(turn[i - 1])
            /\ ReadWholePkg(p) = turn[n]
    BY <1>1, ReadSteps
  <1> HIDE DEF b, n
  <1> DEFINE P(q, a, k) == /\ q.buf = Rest(b, a) /\ q.live = p.live
                           /\ \/ Settled(q)
                              \/ /\ q.have => q.buf # <<>>
                                 /\ Cardinality(TailsAfter(b, a)) + k <= Cardinality(TailsAfter(b, 0))
             S == {k \in 0..n : \E a \in 0..Len(b) : P(turn[k], a, k)}
  <1>3. 0 \in S
    <2>1. Cardinality(TailsAfter(b, 0)) + 0 <= Cardinality(TailsAfter(b, 0))
      BY <1>1
    <2>2. P(p, 0, 0)
      BY <1>0, <2>1 DEF b
    <2>3. turn[0] = p
      BY <1>2
    <2> QED BY <1>0, <1>1, <2>2, <2>3
  <1>4. ASSUME NEW k \in 0..(n - 1), k \in S PROVE k + 1 \in S
    <2>1. k + 1 \in 1..n /\ k + 1 \in 0..n /\ (k + 1) - 1 = k /\ k \in 0..n /\ k \in Nat
      BY <1>1
    <2> DEFINE q == turn[k]
               r == NextPkg(q)
    <2>2. q \in Unpacker /\ turn[k + 1] = r
      BY <1>2, <2>1
    <2>3. PICK a \in 0..Len(b) : P(q, a, k)
      BY <1>4
    <2>h. q.have \in BOOLEAN
      BY <2>2, UnpackerFields
    <2> HIDE DEF q
    <2>4. q.have => q.buf # <<>>
      <3>1. CASE Settled(q)
        BY <2>h, <3>1 DEF Settled
      <3>2. CASE ~Settled(q)
        BY <2>3, <3>2
      <3> QED BY <3>1, <3>2
    <2>5. PICK c \in a..Len(b) :
              /\ r.buf = Rest(b, c) /\ r.live = q.live
              /\ Settled(r) \/ (~r.have /\ Cardinality(TailsAfter(b, c)) + 1 <= Cardinality(TailsAfter(b, a)))
      BY <1>0, <2>2, <2>3, <2>4, TurnEnds
    <2> HIDE DEF r
    <2>6. c \in 0..Len(b)
      BY <1>0
    <2>7. P(r, c, k + 1)
      <3>1. CASE Settled(q)
        <4>1. Settled(r)
          BY <2>2, <3>1, SettledStays DEF r
        <4> QED BY <2>3, <2>5, <4>1
      <3>2. CASE ~Settled(q)
        <4>1. CASE Settled(r)
          BY <2>3, <2>5, <4>1
        <4>2. CASE ~Settled(r)
          <5>1. Cardinality(TailsAfter(b, a)) \in Nat /\ Cardinality(TailsAfter(b, c)) \in Nat
            BY <1>0, <2>6, TailsFinite DEF TailsAfter
          <5>2. Cardinality(TailsAfter(b, a)) + k <= n - 1
            BY <1>1, <2>3, <3>2
          <5>3. Cardinality(TailsAfter(b, c)) + 1 <= Cardinality(TailsAfter(b, a)) /\ ~r.have
            BY <2>5, <4>2
          <5>4. Cardinality(TailsAfter(b, c)) + (k + 1) <= n - 1
            BY <1>1, <2>1, <5>1, <5>2, <5>3
          <5> QED BY <1>1, <2>3, <2>5, <5>3, <5>4
        <4> QED BY <4>1, <4>2
      <3> QED BY <3>1, <3>2
    <2>8. P(turn[k + 1], c, k + 1)
      BY <2>2, <2>7
    <2> QED BY <2>1, <2>6, <2>8
  <1>5. \A k \in 0..n : k \in S
    <2> HIDE DEF S
    <2> QED BY <1>1, <1>3, <1>4, Induction
  <1>6. n \in 0..n
    BY <1>1
  <1>7. PICK a \in 0..Len(b) : P(turn[n], a, n)
    BY <1>5, <1>6
  <1>8. Settled(turn[n])
    <2> SUFFICES ASSUME ~Settled(turn[n]) PROVE FALSE
      OBVIOUS
    <2>1. Cardinality(TailsAfter(b, a)) \in Nat
      BY <1>0, TailsFinite DEF TailsAfter
    <2>2. Cardinality(TailsAfter(b, a)) + n <= n - 1
      BY <1>1, <1>7
    <2> QED BY <1>1, <2>1, <2>2
  <1>9. turn[n] \in Unpacker
    BY <1>6
  <1> QED BY <1>2, <1>7, <1>8, <1>9 DEF b

\* The next package starts no later than at the next head flag.
LEMMA HeadBound ==
    ASSUME NEW b \in Seq(Byte), NEW a \in Nat, NEW f \in Nat, a <= f, f < Len(b), b[f + 1] = HeadFlag,
           NEW have, NEW h, Starts(b, a, have, h)
    PROVE  h \in a..f
  <1>1. h \in a..Len(b) /\ Len(b) \in Nat
    BY DEF Starts
  <1>2. CASE have
    BY <1>1, <1>2 DEF Starts
  <1>3. CASE ~have
    <2>1. \A i \in (a + 1)..h : b[i] # HeadFlag
      BY <1>3 DEF Starts
    <2>2. ~(f + 1 \in (a + 1)..h)
      BY <2>1
    <2> QED BY <1>1, <2>2
  <1> QED BY <1>2, <1>3

\* The start of a package in the buffer: behind a tail flag or at its beginning.
Boundary(b, f) ==
    /\ f \in Nat /\ f < Len(b) /\ b[f + 1] = HeadFlag
    /\ f = 0 \/ b[f] = TailFlag

\* It is complete: its tail flag is at e.
EndsAt(b, f, e) ==
    e \in (f + 1)..Len(b) /\ b[e] = TailFlag /\ \A i \in (f + 1)..(e - 1) : b[i] # TailFlag

Has(s, v) == \E j \in 1..Len(s) : s[j] = v

\* A package that is complete is parsed, whatever precedes it.
LEMMA ReadReaches ==
    ASSUME NEW p \in Unpacker, NEW b, b = p.buf, NEW f, Boundary(b, f), NEW e, EndsAt(b, f, e),
           NEW v, ParsePkgData(SubSeq(b, f + 1, e)) = <<v>>
    PROVE  Has(ReadWholePkg(p).got, v)
  <1> SUFFICES ASSUME e \in (f + 1)..Len(b), b[e] = TailFlag, \A i \in (f + 1)..(e - 1) : b[i] # TailFlag
               PROVE  \E j \in 1..Len(ReadWholePkg(p).got) : ReadWholePkg(p).got[j] = v
    BY DEF EndsAt, Has
  <1> DEFINE Done(q) == \E j \in 1..Len(q.got) : q.got[j] = v
             P(q, a) == q.buf = Rest(b, a) /\ (a <= f \/ Done(q))
             I == {q \in Unpacker : \E a \in 0..Len(b) : P(q, a)}
  <1>0. b \in Seq(Byte) /\ b = Rest(b, 0) /\ Len(b) \in Nat /\ 0 \in 0..Len(b) /\ f \in Nat /\ f < Len(b)
    <2>1. b \in Seq(Byte)
      BY UnpackerFields
    <2> QED BY <2>1 DEF Rest, Boundary
  <1>1. p \in I
    <2>1. P(p, 0)
      BY <1>0
    <2> QED BY <1>0, <2>1
  <1>2. ASSUME NEW q \in I \cap Unpacker PROVE NextPkg(q) \in I
    <2> DEFINE r == NextPkg(q)
    <2>1. PICK a \in 0..Len(b) : P(q, a)
      BY <1>2
    <2>2. r \in Unpacker /\ (NoHead(b, a, q, r) \/ (\E h : NoTail(b, a, q, r, h)) \/ (\E h, t : Whole(b, a, q, r, h, t)))
      BY <1>0, <2>1, Turn
    <2>3. a \in Nat /\ a <= Len(b) /\ q.got \in Seq(Parsed) /\ q \in Unpacker
      BY <1>0, UnpackerFields
    <2> HIDE DEF r
    <2>4. ASSUME NoHead(b, a, q, r) PROVE \E c \in 0..Len(b) : P(r, c)
      <3>1. r.buf = Rest(b, Len(b)) /\ r.got = q.got /\ \A i \in (a + 1)..Len(b) : b[i] # HeadFlag
        BY <2>4 DEF NoHead
      <3>2. ~(a <= f)
        <4> SUFFICES ASSUME a <= f PROVE FALSE
          OBVIOUS
        <4>1. f + 1 \in (a + 1)..Len(b) /\ b[f + 1] = HeadFlag
          BY <1>0, <2>3 DEF Boundary
        <4> QED BY <3>1, <4>1
      <3>3. P(r, Len(b)) /\ Len(b) \in 0..Len(b)
        BY <1>0, <2>1, <3>1, <3>2
      <3> QED BY <3>3
    <2>5. ASSUME NEW h, NoTail(b, a, q, r, h) PROVE \E c \in 0..Len(b) : P(r, c)
      <3>1. r.buf = Rest(b, h) /\ r.got = q.got /\ Starts(b, a, q.have, h) /\ h \in a..Len(b)
        BY <2>5 DEF NoTail, Starts
      <3>2. a <= f => h <= f
        BY <1>0, <2>3, <3>1, HeadBound DEF Boundary
      <3>3. P(r, h) /\ h \in 0..Len(b)
        BY <1>0, <2>1, <2>3, <3>1, <3>2
      <3> QED BY <3>3
    <2>6. ASSUME NEW h, NEW t, Whole(b, a, q, r, h, t) PROVE \E c \in 0..Len(b) : P(r, c)
      <3> DEFINE g == ParsePkgData(SubSeq(b, h + 1, t))
      <3>1. /\ r.buf = Rest(b, t) /\ r.got = q.got \o g
            /\ Starts(b, a, q.have, h) /\ h \in a..Len(b)
            /\ t \in (h + 1)..Len(b) /\ b[t] = TailFlag /\ \A i \in (h + 1)..(t - 1) : b[i] # TailFlag
        BY <2>6 DEF Whole, Starts
      <3>2. t \in 0..Len(b) /\ h \in Nat /\ t \in Nat /\ h <= Len(b) /\ h <= t
        BY <1>0, <2>3, <3>1
      <3>3. g \in Seq(Parsed)
        <4>1. SubSeq(b, h + 1, t) \in Seq(Byte)
          BY <1>0, <3>2, Piece
        <4> QED BY <4>1, ParseType
      <3>4. CASE a <= f
        <4>1. h \in a..f
          BY <1>0, <2>3, <3>1, <3>4, HeadBound DEF Boundary
        <4>2. CASE h = f
          <5>1. t = e
            BY <1>0, <3>1, <3>2, <4>2
          <5>2. g = <<v>>
            BY <4>2, <5>1
          <5> HIDE DEF g
          <5>3. r.got = Append(q.got, v)
            BY <2>3, <3>1, <5>2
          <5>4. Len(r.got) = Len(q.got) + 1 /\ Len(q.got) \in Nat /\ r.got[Len(q.got) + 1] = v
            BY <2>3, <5>3
          <5>5. Done(r)
            BY <5>4
          <5>6. P(r, t)
            BY <3>1, <5>5
          <5> QED BY <3>2, <5>6
        <4>3. CASE h # f
          <5>1. h < f /\ f # 0 /\ b[f] = TailFlag
            BY <1>0, <2>3, <4>1, <4>3 DEF Boundary
          <5>2. t <= f
            <6> SUFFICES ASSUME ~(t <= f) PROVE FALSE
              OBVIOUS
            <6>1. f \in (h + 1)..(t - 1)
              BY <1>0, <3>2, <5>1
            <6> QED BY <3>1, <5>1, <6>1
          <5>3. P(r, t)
            BY <3>1, <5>2
          <5> QED BY <3>2, <5>3
        <4> QED BY <4>2, <4>3
      <3>5. CASE ~(a <= f)
        <4>1. PICK j \in 1..Len(q.got) : q.got[j] = v
          BY <2>1, <3>5
        <4> HIDE DEF g
        <4>2. Len(r.got) = Len(q.got) + Len(g) /\ Len(q.got) \in Nat /\ Len(g) \in Nat /\ r.got[j] = q.got[j]
          BY <2>3, <3>1, <3>3
        <4>3. Done(r)
          BY <4>1, <4>2
        <4>4. P(r, t)
          BY <3>1, <4>3
        <4> QED BY <3>2, <4>4
      <3> QED BY <3>4, <3>5
    <2>7. \E c \in 0..Len(b) : P(r, c)
      BY <2>2, <2>4, <2>5, <2>6
    <2> QED BY <2>2, <2>7 DEF r
  <1> DEFINE q == ReadWholePkg(p)
  <1>3. q \in I
    <2> HIDE DEF I
    <2> QED BY <1>1, <1>2, Loop
  <1>4. Settled(q)
    <2>1. p.buf # <<>>
      BY <1>0
    <2> QED BY <2>1, ReadSettles
  <1> HIDE DEF q
  <1>5. PICK a \in 0..Len(b) : P(q, a)
    BY <1>3
  <1>6. ~(a <= f)
    <2> SUFFICES ASSUME a <= f PROVE FALSE
      OBVIOUS
    <2>1. Len(q.buf) = Len(b) - a /\ \A k \in 1..(Len(b) - a) : q.buf[k] = b[a + k]
      <3>1. q.buf = Rest(b, a)
        BY <1>5
      <3>2. Len(Rest(b, a)) = Len(b) - a /\ \A k \in 1..(Len(b) - a) : Rest(b, a)[k] = b[a + k]
        BY <1>0, RestBytes
      <3> QED BY <3>1, <3>2
    <2>2. e - a \in 1..(Len(b) - a) /\ a + (e - a) = e
      BY <1>0
    <2>3. q.buf[e - a] = TailFlag
      BY <2>1, <2>2
    <2> QED BY <1>4, <2>1, <2>2, <2>3 DEF Settled
  <1>7. Done(q)
    BY <1>5, <1>6
  <1> QED BY <1>7 DEF q

\* A package that is not complete is kept, whole.
LEMMA ReadKeeps ==
    ASSUME NEW p \in Unpacker, NEW b, b = p.buf, NEW f, Boundary(b, f),
           \A i \in (f + 1)..Len(b) : b[i] # TailFlag
    PROVE  ReadWholePkg(p).buf = Rest(b, f)
  <1> DEFINE I == {q \in Unpacker : \E a \in 0..f : q.buf = Rest(b, a)}
  <1>0. b \in Seq(Byte) /\ b = Rest(b, 0) /\ Len(b) \in Nat /\ f \in Nat /\ f < Len(b) /\ 0 \in 0..f
    <2>1. b \in Seq(Byte)
      BY UnpackerFields
    <2> QED BY <2>1 DEF Rest, Boundary
  <1>1. p \in I
    BY <1>0
  <1>2. ASSUME NEW q \in I \cap Unpacker PROVE NextPkg(q) \in I
    <2> DEFINE r == NextPkg(q)
    <2>1. PICK a \in 0..f : q.buf = Rest(b, a)
      BY <1>2
    <2>3. a \in Nat /\ a <= f /\ a \in 0..Len(b) /\ q \in Unpacker
      BY <1>0
    <2>2. r \in Unpacker /\ (NoHead(b, a, q, r) \/ (\E h : NoTail(b, a, q, r, h)) \/ (\E h, t : Whole(b, a, q, r, h, t)))
      BY <1>0, <2>1, <2>3, Turn
    <2> HIDE DEF r
    <2>4. ASSUME NoHead(b, a, q, r) PROVE FALSE
      <3>1. \A i \in (a + 1)..Len(b) : b[i] # HeadFlag
        BY <2>4 DEF NoHead
      <3>2. f + 1 \in (a + 1)..Len(b) /\ b[f + 1] = HeadFlag
        BY <1>0, <2>3 DEF Boundary
      <3> QED BY <3>1, <3>2
    <2>5. ASSUME NEW h, NoTail(b, a, q, r, h) PROVE \E c \in 0..f : r.buf = Rest(b, c)
      <3>1. r.buf = Rest(b, h) /\ Starts(b, a, q.have, h)
        BY <2>5 DEF NoTail
      <3>2. h \in a..f
        BY <1>0, <2>3, <3>1, HeadBound DEF Boundary
      <3>3. h \in 0..f
        BY <1>0, <2>3, <3>2
      <3> QED BY <3>1, <3>3
    <2>6. ASSUME NEW h, NEW t, Whole(b, a, q, r, h, t) PROVE \E c \in 0..f : r.buf = Rest(b, c)
      <3>1. r.buf = Rest(b, t) /\ h \in a..Len(b) /\ t \in (h + 1)..Len(b) /\ b[t] = TailFlag
        BY <2>6 DEF Whole, Starts
      <3>2. ~(t \in (f + 1)..Len(b))
        BY <3>1
      <3>3. t \in 0..f
        BY <1>0, <2>3, <3>1, <3>2
      <3> QED BY <3>1, <3>3
    <2>7. \E c \in 0..f : r.buf = Rest(b, c)
      BY <2>2, <2>4, <2>5, <2>6
    <2> QED BY <2>2, <2>7 DEF r
  <1> DEFINE q == ReadWholePkg(p)
  <1>3. q \in I
    <2> HIDE DEF I
    <2> QED BY <1>1, <1>2, Loop
  <1>4. Settled(q)
    <2>1. p.buf # <<>>
      BY <1>0
    <2> QED BY <2>1, ReadSettles
  <1> HIDE DEF q
  <1>5. PICK a \in 0..f : q.buf = Rest(b, a)
    BY <1>3
  <1>6. a = f
    <2> SUFFICES ASSUME a # f PROVE FALSE
      OBVIOUS
    <2>1. a \in 0..Len(b) /\ f # 0 /\ b[f] = TailFlag
      BY <1>0 DEF Boundary
    <2>2. Len(q.buf) = Len(b) - a /\ \A k \in 1..(Len(b) - a) : q.buf[k] = b[a + k]
      BY <1>0, <1>5, <2>1, RestBytes
    <2>3. f - a \in 1..(Len(b) - a) /\ a + (f - a) = f
      BY <1>0
    <2>4. q.buf[f - a] = TailFlag
      BY <2>1, <2>2, <2>3
    <2> QED BY <1>4, <2>2, <2>3, <2>4 DEF Settled
  <1> QED BY <1>5, <1>6 DEF q
-----------------------------------------------------------------------------
(* The connection: its inductive invariant. *)

\* A package sent, with its place in the stream s.
Shipped == [msg : Message, bytes : Seq(Byte), from : Nat]
Placed(p, s) ==
    /\ p \in Shipped /\ p.bytes = PkgProtocolData(p.msg) /\ End(p) <= Len(s)
    /\ p.from = 0 \/ s[p.from] = TailFlag
    /\ \A k \in 1..Len(p.bytes) : s[p.from + k] = p.bytes[k]

\* The stream is made of packages.
StreamInv ==
    /\ stream \in Seq(Byte) /\ read \in 0..Len(stream) /\ sent \in Seq(Shipped)
    /\ stream = <<>> \/ stream[Len(stream)] = TailFlag
    /\ \A i \in 1..Len(sent) : Placed(sent[i], stream)

\* The unpacker of an open connection has read all it could.
PkgInv ==
    /\ conns \in Nat /\ open \in BOOLEAN /\ rcvd \in Seq(Parsed)
    /\ pkg \in Unpacker /\ pkg.live = open /\ pkg.got = <<>> /\ Settled(pkg)

\* The buffer is the end of what was received, and holds a package that is on its way
\* from the start.
CursorInv ==
    \E a \in 0..read :
        /\ pkg.buf = SubSeq(stream, a + 1, read)
        /\ \A i \in 1..Len(sent) :
              Clean(sent[i]) /\ sent[i].from < read /\ read < End(sent[i]) => a = sent[i].from

\* Delivered, with plain ranges.
DeliveredInv ==
    \A i \in 1..Len(sent) : Clean(sent[i]) /\ End(sent[i]) <= read
        => \E j \in 1..Len(rcvd) : rcvd[j] = sent[i].msg

FrameInv == StreamInv /\ PkgInv /\ CursorInv /\ DeliveredInv

\* PackageBytes and ParsePacked, for what the tools send.
LEMMA MessagePackage ==
    ASSUME NEW m \in Message
    PROVE  LET s == PkgProtocolData(m)
           IN  /\ s \in Seq(Byte) /\ Len(s) = 6 + Len(Coded(m)) /\ Len(Coded(m)) \in Nat
               /\ s[1] = HeadFlag /\ s[Len(s)] = TailFlag
               /\ \A k \in 1..Len(Coded(m)) : s[5 + k] = Coded(m)[k] /\ Coded(m)[k] # TailFlag
               /\ ParsePkgData(s) = IF m.version > CurrentVersion THEN <<>> ELSE <<m>>
  <1>1. m \in Request /\ CalcCRC1021(Raw(m)) \in Nat
    BY MessageType, CrcAssumption
  <1>2. Coded(m) \in Seq(Byte) /\ \A k \in 1..Len(Coded(m)) : Coded(m)[k] # TailFlag
    BY <1>1, CodedBytes
  <1>3. Len(Coded(m)) \in Nat
    BY <1>2
  <1> QED BY <1>1, <1>2, <1>3, PackageBytes, ParsePacked

\* The fields of a package sent.
LEMMA ShippedFields ==
    ASSUME NEW p \in Shipped
    PROVE  /\ p.msg \in Message /\ p.bytes \in Seq(Byte) /\ Len(p.bytes) \in Nat
           /\ p.from \in Nat /\ End(p) \in Nat /\ End(p) = p.from + Len(p.bytes)
  <1>1. p.msg \in Message /\ p.bytes \in Seq(Byte) /\ p.from \in Nat
    BY DEF Shipped
  <1>2. Len(p.bytes) \in Nat
    BY <1>1
  <1> QED BY <1>1, <1>2 DEF End

\* The bytes of a package in the stream.
LEMMA PlacedBytes ==
    ASSUME NEW s \in Seq(Byte), NEW p, Placed(p, s)
    PROVE  /\ p.from \in Nat /\ Len(p.bytes) \in Nat /\ Len(p.bytes) >= 6
           /\ End(p) = p.from + Len(p.bytes) /\ End(p) \in Nat /\ End(p) <= Len(s)
           /\ p.msg \in Message /\ p.bytes \in Seq(Byte)
           /\ s[p.from + 1] = HeadFlag /\ s[End(p)] = TailFlag
           /\ p.from = 0 \/ s[p.from] = TailFlag
           /\ Fits(p) => \A k \in (p.from + 1)..(End(p) - 1) : s[k] # TailFlag
           /\ SubSeq(s, p.from + 1, End(p)) = p.bytes
           /\ ParsePkgData(p.bytes) = IF p.msg.version > CurrentVersion THEN <<>> ELSE <<p.msg>>
  <1> DEFINE f == p.from
             y == p.bytes
             n == Len(y)
             c == Coded(p.msg)
  <1>1. /\ p.msg \in Message /\ y \in Seq(Byte) /\ n \in Nat /\ f \in Nat /\ End(p) \in Nat /\ End(p) = f + n
        /\ End(p) <= Len(s) /\ y = PkgProtocolData(p.msg) /\ (f = 0 \/ s[f] = TailFlag)
        /\ \A k \in 1..n : s[f + k] = y[k]
    BY ShippedFields DEF Placed
  <1>2. /\ n = 6 + Len(c) /\ Len(c) \in Nat /\ y[1] = HeadFlag /\ y[n] = TailFlag
        /\ \A k \in 1..Len(c) : y[5 + k] = c[k] /\ c[k] # TailFlag
        /\ ParsePkgData(y) = IF p.msg.version > CurrentVersion THEN <<>> ELSE <<p.msg>>
    BY <1>1, MessagePackage
  <1> HIDE DEF n, y, f, c
  <1>3. 1 \in 1..n /\ n \in 1..n /\ n >= 6
    BY <1>2
  <1>4. s[f + 1] = HeadFlag /\ s[End(p)] = TailFlag
    BY <1>1, <1>2, <1>3
  <1>5. ASSUME Fits(p), NEW k \in (f + 1)..(End(p) - 1) PROVE s[k] # TailFlag
    <2>1. k - f \in 1..n /\ f + (k - f) = k /\ k - f < n
      BY <1>1
    <2>2. s[k] = y[k - f]
      BY <1>1, <2>1
    <2>3. CASE k - f = 1
      BY <1>2, <2>2, <2>3 DEF HeadFlag, TailFlag
    <2>4. CASE k - f \in 2..5
      <3> DEFINE z == SubSeq(y, 1 + 1, 5)
      <3>1. z \in Seq(Byte) /\ Len(z) = 4 /\ \A i \in 1..4 : z[i] = y[1 + i]
        <4>1. z \in Seq(Byte) /\ Len(z) = 5 - 1 /\ \A i \in 1..(5 - 1) : z[i] = y[1 + i]
          BY <1>1, <1>3, Piece DEF n
        <4> HIDE DEF z
        <4> QED BY <4>1
      <3>2. Find(z, TailFlag) = 0
        BY <1>5 DEF Fits, HeadOffset, y
      <3> HIDE DEF z
      <3>3. \A i \in 1..4 : z[i] # TailFlag
        BY <3>1, <3>2, FindFirst
      <3>4. (k - f) - 1 \in 1..4 /\ 1 + ((k - f) - 1) = k - f
        BY <1>1, <2>4
      <3>5. z[(k - f) - 1] = y[k - f]
        BY <3>1, <3>4
      <3> QED BY <2>2, <3>3, <3>4, <3>5
    <2>5. CASE k - f > 5
      <3>1. (k - f) - 5 \in 1..Len(c) /\ 5 + ((k - f) - 5) = k - f
        BY <1>1, <1>2, <2>1, <2>5
      <3> QED BY <1>2, <2>2, <3>1
    <2> QED BY <1>1, <2>1, <2>3, <2>4, <2>5
  <1>6. SubSeq(s, f + 1, End(p)) = y
    <2> DEFINE z == SubSeq(s, f + 1, End(p))
    <2>1. f <= End(p) /\ End(p) - f = n
      BY <1>1
    <2>2. z \in Seq(Byte) /\ Len(z) = n /\ \A k \in 1..n : z[k] = s[f + k]
      BY <1>1, <2>1, Piece
    <2> HIDE DEF z
    <2>3. z = y
      BY <1>1, <2>2, SeqEqual DEF n
    <2> QED BY <2>3 DEF z
  <1> QED BY <1>1, <1>2, <1>3, <1>4, <1>5, <1>6 DEF f, y, n

\* Before the first connection.
LEMMA FrameInitInv ==
    ASSUME FrameInit
    PROVE  FrameInv
  <1> USE DEF FrameInit
  <1>1. StreamInv
    <2>1. <<>> \in Seq(Byte) /\ <<>> \in Seq(Shipped) /\ Len(<<>>) = 0
      OBVIOUS
    <2>2. \A i \in 1..0 : FALSE
      OBVIOUS
    <2> QED BY <2>1, <2>2 DEF StreamInv
  <1>2. PkgInv
    <2>1. pkg.buf = <<>> /\ pkg.have = FALSE /\ pkg.live = FALSE /\ pkg.got = <<>>
      BY DEF NoPkg
    <2>2. pkg \in Unpacker
      BY DEF NoPkg, Unpacker
    <2>3. Settled(pkg)
      BY <2>1, EmptySettled
    <2>4. conns \in Nat /\ open = FALSE /\ rcvd \in Seq(Parsed)
      OBVIOUS
    <2>5. pkg.live = open /\ open \in BOOLEAN
      BY <2>1, <2>4, Zenon
    <2> QED BY ONLY <2>1, <2>2, <2>3, <2>4, <2>5 DEF PkgInv
  <1>3. CursorInv
    <2>1. pkg.buf = SubSeq(stream, 0 + 1, read) /\ 0 \in 0..read /\ Len(sent) = 0
      BY DEF NoPkg
    <2>2. \A i \in 1..0 : FALSE
      OBVIOUS
    <2> QED BY <2>1, <2>2 DEF CursorInv
  <1>4. DeliveredInv
    <2>1. Len(sent) = 0
      OBVIOUS
    <2>2. \A i \in 1..0 : FALSE
      OBVIOUS
    <2> QED BY <2>1, <2>2 DEF DeliveredInv
  <1> QED BY <1>1, <1>2, <1>3, <1>4 DEF FrameInv

\* Connect and Close start again.
LEMMA ResetInv ==
    ASSUME stream' = <<>>, read' = 0, sent' = <<>>, rcvd' = <<>>, pkg' = NoPkg \/ pkg' = NewPkg,
           open' \in BOOLEAN, pkg'.live = open', conns' \in Nat
    PROVE  FrameInv'
  <1>0. /\ <<>> \in Seq(Byte) /\ <<>> \in Seq(Shipped) /\ <<>> \in Seq(Parsed)
        /\ Len(stream') = 0 /\ Len(sent') = 0 /\ \A i \in 1..0 : FALSE
    OBVIOUS
  <1>1. StreamInv'
    BY <1>0 DEF StreamInv
  <1>2. pkg'.buf = <<>> /\ pkg'.have = FALSE /\ pkg'.got = <<>>
    BY DEF NoPkg, NewPkg
  <1>3. pkg' \in Unpacker
    <2>1. NoPkg \in Unpacker
      BY DEF NoPkg, Unpacker
    <2>2. NewPkg = [NoPkg EXCEPT !.live = TRUE] /\ TRUE \in BOOLEAN
      BY DEF NewPkg
    <2>3. NewPkg \in Unpacker
      BY <2>1, <2>2 DEF Unpacker
    <2> QED BY <2>1, <2>3
  <1>4. Settled(pkg')
    BY <1>2, EmptySettled
  <1>5. PkgInv'
    <2>1. Settled(pkg)'
      BY <1>4 DEF Settled
    <2> QED BY <1>0, <1>2, <1>3, <2>1 DEF PkgInv
  <1>6. CursorInv'
    <2>1. SubSeq(stream', 0 + 1, read') = <<>> /\ 0 \in 0..read'
      BY <1>0
    <2> QED BY <1>0, <1>2, <2>1 DEF CursorInv
  <1>7. DeliveredInv'
    BY <1>0 DEF DeliveredInv
  <1> QED BY <1>1, <1>5, <1>6, <1>7 DEF FrameInv

\* OnTcpConnect makes a new unpacker, because the one of the connection before is gone.
LEMMA ConnectInv ==
    ASSUME FrameInv, Connect
    PROVE  FrameInv'
  <1>1. pkg.live = FALSE
    BY DEF FrameInv, PkgInv, Connect
  <1>2. pkg' = NewPkg /\ NewPkg.live = TRUE
    BY <1>1 DEF Connect, OnTcpConnect, NewPkg, NoPkg
  <1>3. conns' \in Nat
    BY DEF FrameInv, PkgInv, Connect
  <1> QED BY <1>2, <1>3, ResetInv DEF Connect

\* OnTcpConnect erases the unpacker.
LEMMA CloseInv ==
    ASSUME FrameInv, Close
    PROVE  FrameInv'
  <1>1. pkg.live = TRUE
    BY DEF FrameInv, PkgInv, Close
  <1>2. pkg' = NoPkg /\ NoPkg.live = FALSE
    BY <1>1 DEF Close, OnTcpConnect, NoPkg
  <1>3. conns' \in Nat
    BY DEF FrameInv, PkgInv, Close
  <1> QED BY <1>2, <1>3, ResetInv DEF Close

\* A longer stream has the same pieces.
LEMMA PieceOfLonger ==
    ASSUME NEW s \in Seq(Byte), NEW y \in Seq(Byte), NEW a \in Nat, NEW r \in Nat, a <= r, r <= Len(s)
    PROVE  SubSeq(s \o y, a + 1, r) = SubSeq(s, a + 1, r)
  <1> DEFINE t == s \o y
             u == SubSeq(t, a + 1, r)
             v == SubSeq(s, a + 1, r)
  <1>1. Joins(t, s, y, Len(s), Len(y)) /\ Len(s) \in Nat /\ Len(y) \in Nat
    BY Joined
  <1> HIDE DEF t
  <1>2. t \in Seq(Byte) /\ r <= Len(t) /\ \A i \in 1..Len(s) : t[i] = s[i]
    BY <1>1 DEF Joins
  <1>3. u \in Seq(Byte) /\ Len(u) = r - a /\ \A k \in 1..(r - a) : u[k] = t[a + k]
    BY <1>2, Piece
  <1>4. v \in Seq(Byte) /\ Len(v) = r - a /\ \A k \in 1..(r - a) : v[k] = s[a + k]
    BY Piece
  <1> HIDE DEF u, v
  <1>5. ASSUME NEW k \in 1..(r - a) PROVE u[k] = v[k]
    <2>1. a + k \in 1..Len(s)
      BY <1>1
    <2> QED BY <1>2, <1>3, <1>4, <2>1
  <1>6. u = v
    BY <1>3, <1>4, <1>5, SeqEqual
  <1> QED BY <1>6 DEF t, u, v

\* What was placed stays in its place when the stream grows.
LEMMA PlacedStays ==
    ASSUME NEW s \in Seq(Byte), NEW y \in Seq(Byte), NEW p, Placed(p, s)
    PROVE  Placed(p, s \o y)
  <1> DEFINE t == s \o y
  <1>1. Joins(t, s, y, Len(s), Len(y)) /\ Len(s) \in Nat /\ Len(y) \in Nat
    BY Joined
  <1> HIDE DEF t
  <1>2. Len(t) = Len(s) + Len(y) /\ \A i \in 1..Len(s) : t[i] = s[i]
    BY <1>1 DEF Joins
  <1>3. /\ p \in Shipped /\ p.bytes = PkgProtocolData(p.msg) /\ End(p) <= Len(s)
        /\ p.from = 0 \/ s[p.from] = TailFlag
        /\ \A k \in 1..Len(p.bytes) : s[p.from + k] = p.bytes[k]
    BY DEF Placed
  <1>4. p.from \in Nat /\ Len(p.bytes) \in Nat /\ End(p) = p.from + Len(p.bytes) /\ End(p) \in Nat
    BY <1>3, ShippedFields
  <1>5. End(p) <= Len(t)
    BY <1>1, <1>2, <1>3, <1>4
  <1>6. p.from = 0 \/ t[p.from] = TailFlag
    <2>1. CASE p.from = 0
      BY <2>1
    <2>2. CASE p.from # 0
      <3>1. p.from \in 1..Len(s)
        BY <1>1, <1>3, <1>4, <2>2
      <3> QED BY <1>2, <1>3, <2>2, <3>1
    <2> QED BY <2>1, <2>2
  <1>7. ASSUME NEW k \in 1..Len(p.bytes) PROVE t[p.from + k] = p.bytes[k]
    <2>1. p.from + k \in 1..Len(s)
      BY <1>1, <1>3, <1>4
    <2> QED BY <1>2, <1>3, <2>1
  <1>8. Placed(p, t)
    BY <1>3, <1>5, <1>6, <1>7 DEF Placed
  <1> QED BY <1>8 DEF t

\* What Send does to the stream.
LEMMA SendStream ==
    ASSUME FrameInv, NEW p \in Packed, Send(p)
    PROVE  /\ StreamInv' /\ Len(sent') = Len(sent) + 1 /\ Len(sent) \in Nat
           /\ \A i \in 1..Len(sent) : sent'[i] = sent[i]
           /\ sent'[Len(sent) + 1].from = Len(stream)
           /\ sent'[Len(sent) + 1].msg.seqno = Len(sent) + 1
           /\ Len(stream') = End(sent'[Len(sent) + 1]) /\ Len(stream) < Len(stream')
           /\ \E y \in Seq(Byte) : stream' = stream \o y
  <1> DEFINE y == p.bytes
             n == Len(sent)
             x == [msg |-> p.msg, bytes |-> y, from |-> Len(stream)]
  <1>1. /\ stream \in Seq(Byte) /\ read \in 0..Len(stream) /\ sent \in Seq(Shipped) /\ n \in Nat
        /\ Len(stream) \in Nat /\ (stream = <<>> \/ stream[Len(stream)] = TailFlag)
        /\ \A i \in 1..n : Placed(sent[i], stream)
    BY DEF FrameInv, StreamInv
  <1>2. p.msg \in Message /\ y = PkgProtocolData(p.msg)
    BY DEF Packed
  <1>3. y \in Seq(Byte) /\ Len(y) \in Nat /\ Len(y) >= 6 /\ y[Len(y)] = TailFlag
    BY <1>2, MessagePackage
  <1>4. sent' = Append(sent, x) /\ stream' = stream \o y /\ read' = read /\ p.msg.seqno = n + 1
    BY DEF Send
  <1>5. x \in Shipped /\ x.msg = p.msg /\ x.bytes = y /\ x.from = Len(stream) /\ End(x) = Len(stream) + Len(y)
    BY <1>1, <1>2, <1>3 DEF Shipped, End
  <1> HIDE DEF x, y, n
  <1>6. /\ sent' \in Seq(Shipped) /\ Len(sent') = n + 1 /\ sent'[n + 1] = x
        /\ \A i \in 1..n : sent'[i] = sent[i]
    BY <1>1, <1>4, <1>5 DEF n
  <1>7. Joins(stream', stream, y, Len(stream), Len(y))
    BY <1>1, <1>3, <1>4, Joined
  <1>8. /\ stream' \in Seq(Byte) /\ Len(stream') = Len(stream) + Len(y)
        /\ \A i \in 1..Len(y) : stream'[Len(stream) + i] = y[i]
        /\ \A i \in 1..Len(stream) : stream'[i] = stream[i]
    BY <1>7 DEF Joins
  <1>9. Placed(x, stream')
    <2>1. x.from = 0 \/ stream'[x.from] = TailFlag
      <3>1. CASE Len(stream) = 0
        BY <1>5, <3>1
      <3>2. CASE Len(stream) # 0
        <4>1. stream # <<>> /\ Len(stream) \in 1..Len(stream)
          BY <1>1, <3>2
        <4> QED BY <1>1, <1>5, <1>8, <4>1
      <3> QED BY <3>1, <3>2
    <2>2. End(x) <= Len(stream')
      BY <1>1, <1>3, <1>5, <1>8
    <2> QED BY <1>2, <1>5, <1>8, <2>1, <2>2 DEF Placed
  <1>10. ASSUME NEW i \in 1..(n + 1) PROVE Placed(sent'[i], stream')
    <2>1. CASE i = n + 1
      BY <1>6, <1>9, <2>1
    <2>2. CASE i # n + 1
      <3>1. i \in 1..n
        BY <1>1, <2>2
      <3>2. Placed(sent[i], stream)
        BY <1>1, <3>1
      <3> QED BY <1>1, <1>3, <1>4, <1>6, <3>1, <3>2, PlacedStays
    <2> QED BY <2>1, <2>2
  <1>11. stream'[Len(stream')] = TailFlag
    <2>1. Len(y) \in 1..Len(y)
      BY <1>3
    <2> QED BY <1>3, <1>8, <2>1
  <1>12. read' \in 0..Len(stream') /\ Len(stream) < Len(stream')
    BY <1>1, <1>3, <1>4, <1>8
  <1>13. StreamInv'
    <2>1. \A i \in 1..Len(sent') : Placed(sent'[i], stream')
      BY <1>6, <1>10
    <2>2. (\A i \in 1..Len(sent) : Placed(sent[i], stream))'
      BY <2>1 DEF Placed
    <2> QED BY <1>6, <1>8, <1>11, <1>12, <2>2 DEF StreamInv
  <1>14. Len(stream') = End(sent'[n + 1])
    BY <1>5, <1>6, <1>8
  <1> QED BY <1>1, <1>3, <1>4, <1>5, <1>6, <1>12, <1>13, <1>14 DEF n

\* Send adds a package at the end of the stream, which the unpacker has not seen.
LEMMA SendInv ==
    ASSUME FrameInv, NEW p \in Packed, Send(p)
    PROVE  FrameInv'
  <1> DEFINE n == Len(sent)
  <1>1. /\ StreamInv' /\ Len(sent') = n + 1 /\ n \in Nat
        /\ \A i \in 1..n : sent'[i] = sent[i]
        /\ sent'[n + 1].from = Len(stream) /\ Len(stream') = End(sent'[n + 1])
        /\ Len(stream) < Len(stream') /\ \E y \in Seq(Byte) : stream' = stream \o y
    BY SendStream
  <1>2. /\ stream \in Seq(Byte) /\ read \in Nat /\ read <= Len(stream) /\ Len(stream) \in Nat
        /\ stream' \in Seq(Byte)
    BY <1>1 DEF FrameInv, StreamInv
  <1>3. UNCHANGED <<conns, open, read, pkg, rcvd>>
    BY DEF Send
  <1> HIDE DEF n
  <1>4. PkgInv'
    BY <1>3 DEF FrameInv, PkgInv, Settled
  <1>5. CursorInv'
    <2>1. PICK a \in 0..read :
              /\ pkg.buf = SubSeq(stream, a + 1, read)
              /\ \A i \in 1..n : Clean(sent[i]) /\ sent[i].from < read /\ read < End(sent[i]) => a = sent[i].from
      BY DEF FrameInv, CursorInv, n
    <2>2. PICK y \in Seq(Byte) : stream' = stream \o y
      BY <1>1
    <2>3. SubSeq(stream', a + 1, read) = SubSeq(stream, a + 1, read)
      <3>1. a \in Nat /\ a <= read
        BY <1>2
      <3> QED BY <1>2, <2>2, <3>1, PieceOfLonger
    <2>4. ASSUME NEW i \in 1..(n + 1), Clean(sent'[i]), sent'[i].from < read, read < End(sent'[i])
          PROVE  a = sent'[i].from
      <3>1. CASE i = n + 1
        BY <1>1, <1>2, <2>4, <3>1
      <3>2. CASE i # n + 1
        <4>1. i \in 1..n
          BY <1>1, <3>2
        <4> QED BY <1>1, <2>1, <2>4, <4>1
      <3> QED BY <3>1, <3>2
    <2> QED BY <1>1, <1>3, <2>1, <2>3, <2>4 DEF CursorInv, Clean, Fits, End
  <1>6. DeliveredInv'
    <2>1. ASSUME NEW i \in 1..(n + 1), Clean(sent'[i]), End(sent'[i]) <= read
          PROVE  \E j \in 1..Len(rcvd) : rcvd[j] = sent'[i].msg
      <3>1. CASE i = n + 1
        BY <1>1, <1>2, <2>1, <3>1
      <3>2. CASE i # n + 1
        <4>1. i \in 1..n
          BY <1>1, <3>2
        <4> QED BY <1>1, <2>1, <4>1 DEF FrameInv, DeliveredInv, n
      <3> QED BY <3>1, <3>2
    <2> QED BY <1>1, <1>3, <2>1 DEF DeliveredInv, Clean, Fits, End
  <1> QED BY <1>1, <1>4, <1>5, <1>6 DEF FrameInv

\* The buffer b holds the bytes c + 1 to r of the stream s.
Window(b, s, c, r) ==
    /\ s \in Seq(Byte) /\ c \in Nat /\ r \in Nat /\ c <= r /\ r <= Len(s)
    /\ b = SubSeq(s, c + 1, r)

\* Which bytes such a buffer holds.
LEMMA WindowBytes ==
    ASSUME NEW b, NEW s, NEW c, NEW r, Window(b, s, c, r)
    PROVE  /\ b \in Seq(Byte) /\ Len(b) \in Nat /\ c \in Nat /\ r \in Nat /\ Len(s) \in Nat
           /\ c + Len(b) = r /\ r <= Len(s) /\ s \in Seq(Byte)
           /\ \A k \in 1..Len(b) : b[k] = s[c + k]
  <1>1. s \in Seq(Byte) /\ c \in Nat /\ r \in Nat /\ c <= r /\ r <= Len(s) /\ b = SubSeq(s, c + 1, r)
    BY DEF Window
  <1>2. b \in Seq(Byte) /\ Len(b) = r - c /\ \A k \in 1..(r - c) : b[k] = s[c + k]
    BY <1>1, Piece
  <1> QED BY <1>1, <1>2

\* The pieces of b are pieces of s, c bytes further.
Shifted(b, s, c) ==
    \A i, j \in Nat : i <= j /\ j <= Len(b) =>
        SubSeq(b, i + 1, j) = SubSeq(s, (c + i) + 1, c + j)

\* Its pieces are pieces of the stream.
LEMMA WindowPiece ==
    ASSUME NEW b, NEW s, NEW c, NEW r, Window(b, s, c, r)
    PROVE  Shifted(b, s, c)
  <1> SUFFICES ASSUME NEW i \in Nat, NEW j \in Nat, i <= j, j <= Len(b)
               PROVE  SubSeq(b, i + 1, j) = SubSeq(s, (c + i) + 1, c + j)
    BY DEF Shifted
  <1>1. s \in Seq(Byte) /\ c \in Nat /\ r \in Nat /\ c <= r /\ r <= Len(s) /\ b = SubSeq(s, c + 1, r)
    BY DEF Window
  <1>2. c + Len(b) = r /\ Len(b) \in Nat
    BY WindowBytes
  <1>3. c + j <= r
    BY <1>1, <1>2
  <1> QED BY <1>1, <1>3, PieceOfPiece

\* The package p lies in the buffer from f to e, the buffer c bytes into the stream.
Lies(p, b, c, f, e) ==
    f \in Nat /\ e \in Nat /\ p.from = c + f /\ End(p) = c + e /\ f < Len(b)

\* The buffer shows it as a package.
Shows(p, b, f, e) ==
    /\ Boundary(b, f) /\ f < e
    /\ Fits(p) /\ e <= Len(b) => EndsAt(b, f, e) /\ SubSeq(b, f + 1, e) = p.bytes
    /\ Fits(p) /\ Len(b) < e => \A i \in (f + 1)..Len(b) : b[i] # TailFlag

\* A package of the stream that starts in the buffer is seen there as it was packed.
LEMMA InBuffer ==
    ASSUME NEW b, NEW s, NEW c, NEW r, Window(b, s, c, r), NEW p, Placed(p, s),
           NEW f, NEW e, Lies(p, b, c, f, e)
    PROVE  Shows(p, b, f, e)
  <1>0. f \in Nat /\ e \in Nat /\ p.from = c + f /\ End(p) = c + e /\ f < Len(b)
    BY DEF Lies
  <1>1. /\ b \in Seq(Byte) /\ Len(b) \in Nat /\ c \in Nat /\ r \in Nat /\ Len(s) \in Nat
        /\ c + Len(b) = r /\ r <= Len(s) /\ s \in Seq(Byte)
    BY WindowBytes
  <1>2. \A k \in 1..Len(b) : b[k] = s[c + k]
    BY WindowBytes
  <1>b. Shifted(b, s, c)
    BY WindowPiece
  <1>3. Len(p.bytes) \in Nat /\ Len(p.bytes) >= 6 /\ End(p) = p.from + Len(p.bytes)
    BY <1>0, <1>1, PlacedBytes
  <1> DEFINE l == Len(p.bytes)
             g == p.from
             z == End(p)
  <1>a. l \in Nat /\ l >= 6 /\ z = g + l /\ g = c + f /\ z = c + e
    BY <1>0, <1>3
  <1> HIDE DEF l, g, z
  <1>4. f < e /\ f <= Len(b)
    BY <1>0, <1>1, <1>a
  <1>5. /\ s[(c + f) + 1] = HeadFlag /\ s[c + e] = TailFlag /\ (c + f = 0 \/ s[c + f] = TailFlag)
        /\ SubSeq(s, (c + f) + 1, c + e) = p.bytes
    <2>1. s[g + 1] = HeadFlag /\ s[z] = TailFlag /\ (g = 0 \/ s[g] = TailFlag) /\ SubSeq(s, g + 1, z) = p.bytes
      BY <1>0, <1>1, PlacedBytes DEF g, z
    <2> QED BY <1>a, <2>1
  <1>6. ASSUME Fits(p), NEW k \in ((c + f) + 1)..((c + e) - 1) PROVE s[k] # TailFlag
    <2>1. \A i \in (g + 1)..(z - 1) : s[i] # TailFlag
      BY <1>0, <1>1, <1>6, PlacedBytes DEF g, z
    <2> QED BY <1>a, <2>1
  <1>7. Boundary(b, f)
    <2>1. b[f + 1] = HeadFlag
      <3>1. f + 1 \in 1..Len(b) /\ c + (f + 1) = (c + f) + 1
        BY <1>0, <1>1
      <3> QED BY <1>0, <1>2, <1>5, <3>1
    <2>2. f = 0 \/ b[f] = TailFlag
      <3>1. CASE f = 0
        BY <3>1
      <3>2. CASE f # 0
        <4>1. f \in 1..Len(b) /\ c + f # 0
          BY <1>0, <1>1, <3>2
        <4> QED BY <1>0, <1>2, <1>5, <4>1
      <3> QED BY <3>1, <3>2
    <2> QED BY <1>0, <2>1, <2>2 DEF Boundary
  <1>9. ASSUME Fits(p), NEW i \in (f + 1)..Len(b), i < e PROVE b[i] # TailFlag
    <2>1. i \in 1..Len(b) /\ c + i \in ((c + f) + 1)..((c + e) - 1)
      BY <1>0, <1>1, <1>9
    <2> QED BY <1>0, <1>2, <1>6, <1>9, <2>1
  <1>10. ASSUME Fits(p), e <= Len(b)
         PROVE  EndsAt(b, f, e) /\ SubSeq(b, f + 1, e) = p.bytes
    <2>1. e \in (f + 1)..Len(b) /\ e \in 1..Len(b) /\ f <= e
      BY <1>0, <1>1, <1>4, <1>10
    <2>2. b[e] = TailFlag
      BY <1>0, <1>2, <1>5, <2>1
    <2>3. ASSUME NEW i \in (f + 1)..(e - 1) PROVE b[i] # TailFlag
      <3>1. i \in (f + 1)..Len(b) /\ i < e
        BY <1>0, <1>1, <1>10
      <3> QED BY <1>9, <1>10, <3>1
    <2>4. SubSeq(b, f + 1, e) = SubSeq(s, (c + f) + 1, c + e)
      BY <1>0, <1>10, <1>b, <2>1 DEF Shifted
    <2> QED BY <1>5, <2>1, <2>2, <2>3, <2>4 DEF EndsAt
  <1>11. ASSUME Fits(p), Len(b) < e, NEW i \in (f + 1)..Len(b) PROVE b[i] # TailFlag
    <2>1. i < e
      BY <1>0, <1>1, <1>11
    <2> QED BY <1>9, <1>11, <2>1
  <1> QED BY <1>4, <1>7, <1>10, <1>11 DEF Shows

\* OnTcpMessage: the loop runs over the bytes c + 1 to read' of the stream.
LEMMA ReceiveStep ==
    ASSUME FrameInv, NEW n \in Pieces, OnTcpMessage(n),
           NEW a \in 0..read, pkg.buf = SubSeq(stream, a + 1, read)
    PROVE  /\ read \in Nat /\ read' \in Nat /\ read < read' /\ read' <= Len(stream) /\ stream \in Seq(Byte)
           /\ \E p \in Unpacker, c \in 0..read :
                 /\ p.buf = SubSeq(stream, c + 1, read') /\ p.live = pkg.live /\ p.got = <<>>
                 /\ p.have = pkg.have
                 /\ read - a <= MaxRecCache => c = a
                 /\ pkg' = [ReadWholePkg(p) EXCEPT !.got = <<>>]
                 /\ rcvd' = rcvd \o ReadWholePkg(p).got
  <1> DEFINE r == read'
             w == SubSeq(stream, read + 1, r)
             o == IF Len(pkg.buf) > MaxRecCache THEN <<>> ELSE pkg.buf
             p == [pkg EXCEPT !.buf = o \o w]
  <1>1. stream \in Seq(Byte) /\ read \in 0..Len(stream) /\ Len(stream) \in Nat /\ read \in Nat
        /\ pkg \in Unpacker /\ pkg.got = <<>> /\ MaxRecCache \in Nat /\ n \in Nat \ {0}
    BY FrameAssumption DEF FrameInv, StreamInv, PkgInv
  <1>2. r \in Nat /\ read < r /\ r <= Len(stream)
    BY <1>1 DEF OnTcpMessage
  <1>3. a \in Nat /\ a <= read /\ read <= Len(stream)
    BY <1>1
  <1>4. pkg' = [ReadWholePkg(p) EXCEPT !.got = <<>>] /\ rcvd' = rcvd \o ReadWholePkg(p).got
    BY DEF OnTcpMessage, UnDataPkg
  <1> HIDE DEF r
  <1>5. Len(pkg.buf) = read - a
    BY <1>1, <1>3, Piece
  <1>6. \E c \in 0..read : o \o w = SubSeq(stream, c + 1, r) /\ (read - a <= MaxRecCache => c = a)
    <2>1. CASE Len(pkg.buf) > MaxRecCache
      <3>1. o = <<>>
        BY <2>1
      <3>2. w \in Seq(Byte)
        BY <1>1, <1>2, Piece
      <3> HIDE DEF o, w
      <3>3. o \o w = w
        BY <3>1, <3>2
      <3>4. ~(read - a <= MaxRecCache) /\ read \in 0..read
        BY <1>1, <1>3, <1>5, <2>1
      <3> QED BY <3>3, <3>4 DEF w
    <2>2. CASE ~(Len(pkg.buf) > MaxRecCache)
      <3>1. o = SubSeq(stream, a + 1, read)
        BY <2>2
      <3>2. a + 1 \in 1..(Len(stream) + 1) /\ read \in ((a + 1) - 1)..Len(stream) /\ r \in read..Len(stream)
        BY <1>1, <1>2, <1>3
      <3>3. SubSeq(stream, a + 1, read) \o SubSeq(stream, read + 1, r) = SubSeq(stream, a + 1, r)
        BY <1>1, <3>2, ConcatAdjacentSubSeq
      <3> QED BY <3>1, <3>3
    <2> QED BY <2>1, <2>2
  <1>7. PICK c \in 0..read : o \o w = SubSeq(stream, c + 1, r) /\ (read - a <= MaxRecCache => c = a)
    BY <1>6
  <1> DEFINE x == o \o w
  <1>8. x \in Seq(Byte)
    <2>1. c \in Nat /\ c <= r
      BY <1>1, <1>2
    <2> QED BY <1>1, <1>2, <1>7, <2>1, Piece
  <1>9. p \in Unpacker /\ p.buf = x /\ p.live = pkg.live /\ p.got = <<>> /\ p.have = pkg.have
    <2>1. p = [pkg EXCEPT !.buf = x]
      OBVIOUS
    <2> HIDE DEF p, x
    <2> QED BY <1>1, <1>8, <2>1 DEF Unpacker
  <1> HIDE DEF p, o, w
  <1>10. p.buf = SubSeq(stream, c + 1, read')
    BY <1>7, <1>9 DEF r
  <1> QED BY <1>1, <1>2, <1>4, <1>7, <1>9, <1>10 DEF r

\* OnTcpMessage keeps a package that is on its way, and delivers what is complete.
LEMMA ReceiveInv ==
    ASSUME FrameInv, NEW n \in Pieces, OnTcpMessage(n)
    PROVE  FrameInv'
  <1> DEFINE r == read'
  <1>1. PICK a \in 0..read :
            /\ pkg.buf = SubSeq(stream, a + 1, read)
            /\ \A i \in 1..Len(sent) :
                  Clean(sent[i]) /\ sent[i].from < read /\ read < End(sent[i]) => a = sent[i].from
    BY DEF FrameInv, CursorInv
  <1>2. read \in Nat /\ r \in Nat /\ read < r /\ r <= Len(stream) /\ stream \in Seq(Byte) /\ a \in Nat /\ a <= read
    <2>1. pkg.buf = SubSeq(stream, a + 1, read)
      BY <1>1
    <2>2. read \in Nat /\ r \in Nat /\ read < r /\ r <= Len(stream) /\ stream \in Seq(Byte)
      BY <2>1, ReceiveStep
    <2> QED BY <2>2
  <1>3. PICK p \in Unpacker, c \in 0..read :
            /\ p.buf = SubSeq(stream, c + 1, r) /\ p.live = pkg.live /\ p.got = <<>>
            /\ read - a <= MaxRecCache => c = a
            /\ pkg' = [ReadWholePkg(p) EXCEPT !.got = <<>>]
            /\ rcvd' = rcvd \o ReadWholePkg(p).got
    BY <1>1, ReceiveStep
  <1> DEFINE b == p.buf
             q == ReadWholePkg(p)
  <1>4. UNCHANGED <<conns, open, stream, sent>>
    BY DEF OnTcpMessage
  <1>5. c \in Nat /\ c <= read /\ Window(b, stream, c, r)
    BY <1>2, <1>3 DEF Window
  <1> HIDE DEF r, b
  <1>6. b \in Seq(Byte) /\ Len(b) \in Nat /\ c + Len(b) = r /\ b # <<>>
    <2>1. b \in Seq(Byte) /\ Len(b) \in Nat /\ c + Len(b) = r
      BY <1>5, WindowBytes
    <2>2. Len(b) # 0
      BY <1>2, <1>5, <2>1
    <2> QED BY <2>1, <2>2
  <1>7. q \in Unpacker /\ Settled(q) /\ q.live = pkg.live /\ \E x \in 0..Len(b) : q.buf = Rest(b, x)
    BY <1>3, <1>6, ReadSettles DEF b
  <1> HIDE DEF q
  <1>8. /\ pkg' \in Unpacker /\ pkg'.buf = q.buf /\ pkg'.have = q.have /\ pkg'.live = q.live /\ pkg'.got = <<>>
        /\ q.got \in Seq(Parsed) /\ rcvd' = rcvd \o q.got
    <2>1. pkg' = [q EXCEPT !.got = <<>>] /\ rcvd' = rcvd \o q.got
      BY <1>3 DEF q
    <2>2. pkg' \in Unpacker /\ pkg'.buf = q.buf /\ pkg'.have = q.have /\ pkg'.live = q.live /\ pkg'.got = <<>>
      <3> DEFINE z == <<>>
      <3>1. z \in Seq(Parsed) /\ pkg' = [q EXCEPT !.got = z]
        BY <2>1
      <3> HIDE DEF z
      <3>2. pkg' \in Unpacker /\ pkg'.buf = q.buf /\ pkg'.have = q.have /\ pkg'.live = q.live /\ pkg'.got = z
        BY <1>7, <3>1 DEF Unpacker
      <3> QED BY <3>2 DEF z
    <2> QED BY <1>7, <2>1, <2>2, UnpackerFields
  <1>9. StreamInv'
    <2>1. StreamInv
      BY DEF FrameInv
    <2> QED BY <1>2, <1>4, <2>1 DEF StreamInv, Placed, End, r
  <1>10. PkgInv'
    <2>1. PkgInv
      BY DEF FrameInv
    <2>2. Settled(pkg)'
      BY <1>7, <1>8 DEF Settled
    <2>3. rcvd' \in Seq(Parsed)
      BY <1>8, <2>1 DEF PkgInv
    <2>4. pkg'.live = open' /\ conns' \in Nat /\ open' \in BOOLEAN
      BY <1>4, <1>7, <1>8, <2>1 DEF PkgInv
    <2> QED BY <1>8, <2>2, <2>3, <2>4 DEF PkgInv
  \* A package that was not complete before starts at c or later.
  <1>11. ASSUME NEW i \in 1..Len(sent), Clean(sent[i]), read < End(sent[i])
         PROVE  c <= sent[i].from
    <2> DEFINE m == sent[i]
    <2>1. Placed(m, stream)
      BY DEF FrameInv, StreamInv
    <2>2. m.from \in Nat /\ End(m) = m.from + Len(m.bytes) /\ Len(m.bytes) \in Nat
      BY <1>2, <2>1, PlacedBytes
    <2>3. Len(m.bytes) <= MaxRecCache
      BY <1>11 DEF Clean, Fits
    <2>4. CASE read <= m.from
      BY <1>5, <1>2, <2>2, <2>4
    <2>5. CASE ~(read <= m.from)
      <3>1. a = m.from
        BY <1>1, <1>2, <1>11, <2>2, <2>5
      <3>2. read - a <= MaxRecCache
        BY <1>2, <1>11, <2>2, <2>3, <3>1, FrameAssumption
      <3>3. c = a
        BY <1>3, <3>2
      <3> QED BY <1>2, <3>1, <3>3
    <2> QED BY <2>4, <2>5
  \* Where such a package is in the buffer.
  <1>12. ASSUME NEW i \in 1..Len(sent), Clean(sent[i]), read < End(sent[i]), sent[i].from < r
         PROVE  \E f, e : Lies(sent[i], b, c, f, e)
    <2> DEFINE m == sent[i]
               x == m.from
               y == End(m)
    <2>1. Placed(m, stream) /\ c <= x
      BY <1>11, <1>12 DEF FrameInv, StreamInv
    <2>2. x \in Nat /\ y \in Nat /\ y = x + Len(m.bytes) /\ Len(m.bytes) \in Nat /\ x < r
      BY <1>2, <1>12, <2>1, PlacedBytes
    <2> HIDE DEF x, y
    <2>3. x - c \in Nat /\ y - c \in Nat /\ x = c + (x - c) /\ y = c + (y - c) /\ x - c < Len(b)
      BY <1>5, <1>6, <2>1, <2>2
    <2>4. Lies(m, b, c, x - c, y - c)
      BY <2>3 DEF Lies, x, y
    <2> QED BY <2>4
  <1>13. CursorInv'
    <2>1. PICK x \in 0..Len(b) : q.buf = Rest(b, x)
      BY <1>7
    <2>2. c + x \in 0..r /\ x \in Nat /\ x <= Len(b)
      BY <1>5, <1>6
    <2>3. q.buf = SubSeq(stream, (c + x) + 1, r)
      <3>1. Len(b) <= Len(b) /\ Shifted(b, stream, c)
        BY <1>5, <1>6, WindowPiece
      <3>2. SubSeq(b, x + 1, Len(b)) = SubSeq(stream, (c + x) + 1, c + Len(b))
        BY <1>6, <2>2, <3>1 DEF Shifted
      <3> QED BY <1>6, <2>1, <3>2 DEF Rest
    <2>4. ASSUME NEW i \in 1..Len(sent), Clean(sent[i]), sent[i].from < r, r < End(sent[i])
          PROVE  c + x = sent[i].from
      <3> DEFINE m == sent[i]
      <3>1. Placed(m, stream)
        BY DEF FrameInv, StreamInv
      <3>e. End(m) \in Nat
        BY <1>2, <3>1, PlacedBytes
      <3>2. read < End(m)
        BY <1>2, <2>4, <3>e
      <3>i. PICK f, e : Lies(m, b, c, f, e)
        BY <1>12, <2>4, <3>2
      <3>3. f \in Nat /\ e \in Nat /\ m.from = c + f /\ End(m) = c + e /\ f < Len(b)
        BY <3>i DEF Lies
      <3>4. Len(b) < e /\ Fits(m)
        BY <1>5, <1>6, <2>4, <3>3 DEF Clean
      <3>5. Boundary(b, f) /\ \A j \in (f + 1)..Len(b) : b[j] # TailFlag
        <4>1. Shows(m, b, f, e)
          BY <1>5, <3>1, <3>i, InBuffer
        <4> QED BY <3>4, <4>1 DEF Shows
      <3>6. q.buf = Rest(b, f)
        BY <1>3, <3>5, ReadKeeps DEF b, q
      <3>7. x = f
        <4>1. f \in 0..Len(b)
          BY <1>6, <3>3
        <4>2. Len(Rest(b, x)) = Len(b) - x /\ Len(Rest(b, f)) = Len(b) - f
          BY <1>6, <4>1, RestBytes
        <4>3. Len(b) - x = Len(b) - f
          BY <2>1, <3>6, <4>2
        <4> QED BY <1>6, <2>2, <3>3, <4>3
      <3> QED BY <3>3, <3>7
    <2>5. \A i \in 1..Len(sent) :
             Clean(sent[i]) /\ sent[i].from < r /\ r < End(sent[i]) => c + x = sent[i].from
      BY <2>4
    <2>6. pkg'.buf = SubSeq(stream', (c + x) + 1, read') /\ c + x \in 0..read'
      BY <1>4, <1>8, <2>2, <2>3 DEF r
    <2>7. (\A i \in 1..Len(sent) :
             Clean(sent[i]) /\ sent[i].from < read /\ read < End(sent[i]) => c + x = sent[i].from)'
      BY <1>4, <2>5 DEF r, Clean, Fits, End
    <2> QED BY <2>6, <2>7 DEF CursorInv
  <1>14. DeliveredInv'
    <2>0. rcvd \in Seq(Parsed) /\ Len(rcvd) \in Nat /\ Len(q.got) \in Nat /\ Len(rcvd') = Len(rcvd) + Len(q.got)
          /\ (\A j \in 1..Len(rcvd) : rcvd'[j] = rcvd[j])
          /\ \A j \in 1..Len(q.got) : rcvd'[Len(rcvd) + j] = q.got[j]
      <3>1. rcvd \in Seq(Parsed)
        BY DEF FrameInv, PkgInv
      <3> QED BY <1>8, <3>1
    <2>1. ASSUME NEW i \in 1..Len(sent), Clean(sent[i]), End(sent[i]) <= r
          PROVE  \E j \in 1..Len(rcvd') : rcvd'[j] = sent[i].msg
      <3> DEFINE m == sent[i]
      <3>1. Placed(m, stream)
        BY DEF FrameInv, StreamInv
      <3>2. CASE End(m) <= read
        <4>1. PICK j \in 1..Len(rcvd) : rcvd[j] = m.msg
          BY <2>1, <3>2 DEF FrameInv, DeliveredInv
        <4>2. j \in 1..Len(rcvd') /\ rcvd'[j] = m.msg
          BY <2>0, <4>1
        <4> QED BY <4>2
      <3>3. CASE ~(End(m) <= read)
        <4>0. /\ m.from \in Nat /\ End(m) \in Nat /\ End(m) = m.from + Len(m.bytes) /\ Len(m.bytes) \in Nat
              /\ Len(m.bytes) >= 6
              /\ ParsePkgData(m.bytes) = IF m.msg.version > CurrentVersion THEN <<>> ELSE <<m.msg>>
          BY <1>2, <3>1, PlacedBytes
        <4>1. read < End(m) /\ m.from < r
          BY <1>2, <2>1, <3>3, <4>0
        <4>i. PICK f, e : Lies(m, b, c, f, e)
          BY <1>12, <2>1, <4>1
        <4>2. f \in Nat /\ e \in Nat /\ m.from = c + f /\ End(m) = c + e /\ f < Len(b)
          BY <4>i DEF Lies
        <4>3. e <= Len(b) /\ Fits(m)
          BY <1>5, <1>6, <2>1, <4>2 DEF Clean
        <4>4. Boundary(b, f) /\ EndsAt(b, f, e) /\ SubSeq(b, f + 1, e) = m.bytes
          <5>1. Shows(m, b, f, e)
            BY <1>5, <3>1, <4>i, InBuffer
          <5> QED BY <4>3, <5>1 DEF Shows
        <4>5. ~(m.msg.version > CurrentVersion)
          <5>1. m.msg.version <= CurrentVersion
            BY <2>1 DEF Clean
          <5>2. m.msg.version \in Nat
            <6>1. m.msg.version \in Byte
              BY <1>2, <3>1, PlacedBytes, MessageType, RequestFields
            <6>2. \A x \in Byte : x \in Nat
              BY DEF Byte
            <6> QED BY <6>1, <6>2
          <5> QED BY <5>1, <5>2 DEF CurrentVersion
        <4>6. ParsePkgData(SubSeq(b, f + 1, e)) = <<m.msg>>
          BY <4>0, <4>4, <4>5
        <4>7. PICK j \in 1..Len(q.got) : q.got[j] = m.msg
          <5>1. b = p.buf /\ q = ReadWholePkg(p)
            BY DEF b, q
          <5>2. Has(ReadWholePkg(p).got, m.msg)
            BY <1>3, <4>4, <4>6, <5>1, ReadReaches
          <5> QED BY <5>1, <5>2 DEF Has
        <4>8. Len(rcvd) + j \in 1..Len(rcvd') /\ rcvd'[Len(rcvd) + j] = m.msg
          BY <2>0, <4>7
        <4> QED BY <4>8
      <3> QED BY <3>2, <3>3
    <2> QED BY <1>4, <2>1 DEF DeliveredInv, Clean, Fits, End, r
  <1> QED BY <1>9, <1>10, <1>13, <1>14 DEF FrameInv

\* Every step of the connection.
LEMMA FrameNextInv ==
    ASSUME FrameInv, [FrameNext]_frame
    PROVE  FrameInv'
  <1>1. CASE Connect
    BY <1>1, ConnectInv
  <1>2. CASE Close
    BY <1>2, CloseInv
  <1>3. ASSUME NEW p \in Packed, Send(p) PROVE FrameInv'
    BY <1>3, SendInv
  <1>4. ASSUME NEW n \in Pieces, OnTcpMessage(n) PROVE FrameInv'
    BY <1>4, ReceiveInv
  <1>5. CASE UNCHANGED frame
    BY <1>5 DEF frame, FrameInv, StreamInv, PkgInv, CursorInv, DeliveredInv, Placed, Clean, Fits, End, Settled
  <1> QED BY <1>1, <1>2, <1>3, <1>4, <1>5 DEF FrameNext

\* FrameInv holds in every reachable state, whatever the bodies, the cuts of the
\* stream, the size of the buffer and the checksum.
THEOREM FrameInvariant == FrameSpec => []FrameInv
  <1>1. FrameInit => FrameInv
    BY FrameInitInv
  <1>2. FrameInv /\ [FrameNext]_frame => FrameInv'
    BY FrameNextInv
  <1> QED BY <1>1, <1>2, PTL DEF FrameSpec

\* After every OnTcpMessage the unpacker holds nothing, or a package of which the head
\* flag has come and the tail flag has not: ReadWholePkg leaves no complete package
\* behind for the next bytes, and no garbage.
THEOREM FrameTypeCorrect == FrameSpec => []FrameTypeOK
  <1>1. FrameInv => FrameTypeOK
    <2> SUFFICES ASSUME FrameInv PROVE FrameTypeOK
      OBVIOUS
    <2>1. /\ conns \in Nat /\ open \in BOOLEAN /\ pkg.live = open /\ stream \in Seq(Byte)
          /\ read \in 0..Len(stream) /\ pkg \in Unpacker /\ Settled(pkg)
      BY DEF FrameInv, StreamInv, PkgInv
    <2>2. pkg.buf \in Seq(Byte)
      BY <2>1, UnpackerFields
    <2>3. pkg.have = (pkg.buf # <<>>) /\ \A i \in 1..Len(pkg.buf) : pkg.buf[i] # TailFlag
      BY <2>1 DEF Settled
    <2>4. DOMAIN pkg.buf = 1..Len(pkg.buf)
      BY <2>2
    <2>5. TailFlag \notin Range(pkg.buf)
      BY <2>3, <2>4 DEF Range
    <2> QED BY <2>1, <2>2, <2>3, <2>5 DEF FrameTypeOK
  <1> QED BY <1>1, FrameInvariant, PTL

\* A message of a known version that fits is delivered with its last byte, however TCP
\* cuts the stream, whatever was sent before it (packages that are too long, or whose
\* length holds a tail flag, included) and whatever the connection before left.
THEOREM FrameDelivered == FrameSpec => []Delivered
  <1>1. FrameInv => Delivered
    <2> SUFFICES ASSUME FrameInv PROVE Delivered
      OBVIOUS
    <2>1. DOMAIN sent = 1..Len(sent) /\ DOMAIN rcvd = 1..Len(rcvd)
      BY DEF FrameInv, StreamInv, PkgInv
    <2>2. DeliveredInv
      BY DEF FrameInv
    <2> QED BY <2>1, <2>2 DEF Delivered, DeliveredInv, Arrived
  <1> QED BY <1>1, FrameInvariant, PTL
-----------------------------------------------------------------------------
(* What is delivered, in which order. *)

\* Where the first k packages of s end.
Bound(s, k) == IF k = 0 THEN 0 ELSE End(s[k])

\* The packages follow each other in the stream, numbered from 1.
ChainInv ==
    /\ \A i \in 1..Len(sent) : sent[i].msg.seqno = i /\ sent[i].from = Bound(sent, i - 1)
    /\ Len(stream) = Bound(sent, Len(sent))

\* The messages of r are some of the first k of s, in order.
Ordered(r, s, k) ==
    /\ \A j \in 1..Len(r) : r[j].seqno \in 1..k /\ r[j] = s[r[j].seqno].msg
    /\ \A i, j \in 1..Len(r) : i < j => r[i].seqno < r[j].seqno

\* The buffer starts where a package does, and what was delivered comes from before.
OrderInv ==
    \E k \in 0..Len(sent) :
        /\ Bound(sent, k) <= read /\ pkg.buf = SubSeq(stream, Bound(sent, k) + 1, read)
        /\ Ordered(rcvd, sent, k)

\* Every package sent fits.
AllFit == \A i \in DOMAIN sent : Fits(sent[i])

\* The package behind the first k starts where they end.
LEMMA BoundStep ==
    ASSUME FrameInv, ChainInv, NEW k \in 0..Len(sent), k # Len(sent)
    PROVE  /\ k + 1 \in 1..Len(sent) /\ k + 1 \in 0..Len(sent)
           /\ Placed(sent[k + 1], stream) /\ sent[k + 1].msg.seqno = k + 1
           /\ sent[k + 1].from = Bound(sent, k) /\ End(sent[k + 1]) = Bound(sent, k + 1)
  <1>1. Len(sent) \in Nat
    BY DEF FrameInv, StreamInv
  <1>2. k + 1 \in 1..Len(sent) /\ (k + 1) - 1 = k /\ k + 1 # 0 /\ k + 1 \in 0..Len(sent)
    BY <1>1
  <1> QED BY <1>2 DEF FrameInv, StreamInv, ChainInv, Bound

\* The packages end within the stream.
LEMMA BoundType ==
    ASSUME FrameInv, ChainInv, NEW k \in 0..Len(sent)
    PROVE  Bound(sent, k) \in Nat /\ Bound(sent, k) <= Len(stream) /\ Len(stream) \in Nat
           /\ Len(sent) \in Nat /\ (Bound(sent, k) < Len(stream) => k # Len(sent))
  <1>1. stream \in Seq(Byte) /\ Len(stream) \in Nat /\ Len(sent) \in Nat
    BY DEF FrameInv, StreamInv
  <1>2. Bound(sent, k) < Len(stream) => k # Len(sent)
    BY <1>1 DEF ChainInv
  <1>3. CASE k = 0
    BY <1>1, <1>2, <1>3 DEF Bound
  <1>4. CASE k # 0
    <2>1. k \in 1..Len(sent)
      BY <1>1, <1>4
    <2>2. Placed(sent[k], stream)
      BY <2>1 DEF FrameInv, StreamInv
    <2>3. End(sent[k]) \in Nat /\ End(sent[k]) <= Len(stream)
      BY <1>1, <2>2, PlacedBytes
    <2> QED BY <1>1, <1>2, <1>4, <2>3 DEF Bound
  <1> QED BY <1>3, <1>4

\* One package more that delivers nothing keeps the order.
LEMMA OrderedMore ==
    ASSUME NEW k \in Nat, NEW s, NEW r, Ordered(r, s, k)
    PROVE  Ordered(r, s, k + 1)
  <1>1. \A x \in 1..k : x \in 1..(k + 1)
    OBVIOUS
  <1> QED BY <1>1 DEF Ordered

\* So does one that delivers its message.
LEMMA OrderedAppend ==
    ASSUME NEW k \in Nat, NEW s, NEW r \in Seq(Parsed), Ordered(r, s, k),
           NEW m \in Parsed, m.seqno = k + 1, m = s[k + 1].msg
    PROVE  Ordered(Append(r, m), s, k + 1)
  <1> DEFINE t == Append(r, m)
             l == Len(r)
  <1>1. l \in Nat /\ Len(t) = l + 1 /\ t[l + 1] = m /\ \A j \in 1..l : t[j] = r[j]
    OBVIOUS
  <1>2. Ordered(r, s, k + 1)
    BY OrderedMore
  <1>3. \A j \in 1..l : r[j].seqno \in 1..k
    BY DEF Ordered
  <1> HIDE DEF t, l
  <1>4. ASSUME NEW j \in 1..(l + 1) PROVE t[j].seqno \in 1..(k + 1) /\ t[j] = s[t[j].seqno].msg
    <2>1. CASE j = l + 1
      <3>1. k + 1 \in 1..(k + 1) /\ t[j] = m
        BY <1>1, <2>1
      <3> QED BY <3>1
    <2>2. CASE j # l + 1
      <3>1. j \in 1..l /\ t[j] = r[j]
        BY <1>1, <2>2
      <3> QED BY <1>2, <3>1 DEF Ordered, l
    <2> QED BY <2>1, <2>2
  <1>5. ASSUME NEW i \in 1..(l + 1), NEW j \in 1..(l + 1), i < j PROVE t[i].seqno < t[j].seqno
    <2>1. i \in 1..l /\ t[i] = r[i]
      BY <1>1, <1>5
    <2>2. CASE j = l + 1
      <3>1. t[j].seqno = k + 1 /\ t[i].seqno \in 1..k
        BY <1>1, <1>3, <2>1, <2>2
      <3> QED BY <3>1
    <2>3. CASE j # l + 1
      <3>1. j \in 1..l /\ t[j] = r[j]
        BY <1>1, <2>3
      <3> QED BY <1>2, <1>5, <2>1, <3>1 DEF Ordered, l
    <2> QED BY <2>2, <2>3
  <1>6. Ordered(t, s, k + 1)
    BY <1>1, <1>4, <1>5 DEF Ordered
  <1> QED BY <1>6 DEF t

\* A new connection has sent and delivered nothing.
LEMMA ChainReset ==
    ASSUME stream' = <<>>, read' = 0, sent' = <<>>, rcvd' = <<>>, pkg'.buf = <<>>
    PROVE  ChainInv' /\ OrderInv'
  <1>1. Len(stream') = 0 /\ Len(sent') = 0 /\ Len(rcvd') = 0 /\ (\A i \in 1..0 : FALSE) /\ 0 \in 0..0
    OBVIOUS
  <1>2. ChainInv'
    BY <1>1 DEF ChainInv, Bound
  <1>3. Ordered(rcvd, sent, 0)'
    BY <1>1 DEF Ordered
  <1>4. Bound(sent, 0)' = 0 /\ SubSeq(stream', 0 + 1, 0) = <<>>
    BY DEF Bound
  <1> QED BY <1>1, <1>2, <1>3, <1>4 DEF OrderInv, Bound, Ordered

\* Send numbers the packages and adds them at the end.
LEMMA SendChain ==
    ASSUME FrameInv, ChainInv, NEW p \in Packed, Send(p)
    PROVE  ChainInv' /\ (OrderInv => OrderInv')
  <1> DEFINE n == Len(sent)
  <1>1. /\ Len(sent') = n + 1 /\ n \in Nat /\ \A i \in 1..n : sent'[i] = sent[i]
        /\ sent'[n + 1].from = Len(stream) /\ sent'[n + 1].msg.seqno = n + 1
        /\ Len(stream') = End(sent'[n + 1]) /\ \E y \in Seq(Byte) : stream' = stream \o y
    BY SendStream
  <1>0. Len(stream) = Bound(sent, n) /\ \A i \in 1..n : sent[i].msg.seqno = i /\ sent[i].from = Bound(sent, i - 1)
    BY DEF ChainInv
  <1>s. stream \in Seq(Byte) /\ read \in Nat /\ read <= Len(stream)
    BY DEF FrameInv, StreamInv
  <1>u. read' = read /\ pkg' = pkg /\ rcvd' = rcvd
    BY DEF Send
  <1> HIDE DEF n
  <1>2. ASSUME NEW k \in 0..n PROVE Bound(sent', k) = Bound(sent, k)
    <2>1. CASE k = 0
      BY <2>1 DEF Bound
    <2>2. CASE k # 0
      <3>1. k \in 1..n
        BY <1>1, <2>2
      <3> QED BY <1>1, <2>2, <3>1 DEF Bound
    <2> QED BY <2>1, <2>2
  <1>3. ASSUME NEW i \in 1..(n + 1) PROVE sent'[i].msg.seqno = i /\ sent'[i].from = Bound(sent', i - 1)
    <2>0. i - 1 \in 0..n
      BY <1>1
    <2>1. CASE i = n + 1
      <3>1. i - 1 = n
        BY <1>1, <2>1
      <3> QED BY <1>0, <1>1, <1>2, <2>0, <2>1, <3>1
    <2>2. CASE i # n + 1
      <3>1. i \in 1..n
        BY <1>1, <2>2
      <3> QED BY <1>0, <1>1, <1>2, <2>0, <3>1
    <2> QED BY <2>1, <2>2
  <1>4. Len(stream') = Bound(sent', n + 1)
    <2>1. n + 1 # 0
      BY <1>1
    <2> QED BY <1>1, <2>1 DEF Bound
  <1>5. ChainInv'
    <2>1. \A i \in 1..Len(sent') : sent'[i].msg.seqno = i /\ sent'[i].from = Bound(sent', i - 1)
      BY <1>1, <1>3
    <2>2. Len(stream') = Bound(sent', Len(sent'))
      BY <1>1, <1>4
    <2> QED BY <2>1, <2>2 DEF ChainInv, Bound, End
  <1>6. ASSUME OrderInv PROVE OrderInv'
    <2>1. PICK k \in 0..n : /\ Bound(sent, k) <= read /\ pkg.buf = SubSeq(stream, Bound(sent, k) + 1, read)
                            /\ Ordered(rcvd, sent, k)
      BY <1>6 DEF OrderInv, n
    <2>2. PICK y \in Seq(Byte) : stream' = stream \o y
      BY <1>1
    <2>3. Bound(sent, k) \in Nat
      BY BoundType DEF n
    <2>4. SubSeq(stream', Bound(sent, k) + 1, read) = SubSeq(stream, Bound(sent, k) + 1, read)
      BY <1>s, <2>1, <2>2, <2>3, PieceOfLonger
    <2>5. Ordered(rcvd, sent', k)
      <3>1. \A j \in 1..Len(rcvd) : rcvd[j].seqno \in 1..k /\ rcvd[j] = sent[rcvd[j].seqno].msg
        BY <2>1 DEF Ordered
      <3>2. \A x \in 1..k : x \in 1..n
        BY <1>1
      <3>3. \A j \in 1..Len(rcvd) : rcvd[j] = sent'[rcvd[j].seqno].msg
        BY <1>1, <3>1, <3>2
      <3> QED BY <2>1, <3>1, <3>3 DEF Ordered
    <2>6. k \in 0..Len(sent') /\ Bound(sent', k) = Bound(sent, k)
      BY <1>1, <1>2
    <2>7. /\ Bound(sent', k) <= read' /\ pkg'.buf = SubSeq(stream', Bound(sent', k) + 1, read')
          /\ Ordered(rcvd', sent', k)
      BY <1>u, <2>1, <2>4, <2>5, <2>6
    <2> QED BY <2>6, <2>7 DEF OrderInv, Bound, End, Ordered
  <1> QED BY <1>5, <1>6

\* One turn, when the buffer starts with the package p or is empty: it is kept, or parsed.
Kept(b, a, q, r) == r.buf = Rest(b, a) /\ r.got = q.got
Taken(b, a, q, r, p, e) ==
    /\ a < Len(b) /\ e \in 0..Len(b) /\ r.buf = Rest(b, e)
    /\ r.got = q.got \o ParsePkgData(p.bytes)

\* A buffer that starts with a package is not searched for another start.
LEMMA TurnOrder ==
    ASSUME NEW b \in Seq(Byte), NEW a \in 0..Len(b), NEW q \in Unpacker, q.buf = Rest(b, a),
           NEW p, NEW e \in Nat, a < Len(b) => Shows(p, b, a, e) /\ Fits(p)
    PROVE  /\ NextPkg(q) \in Unpacker
           /\ Kept(b, a, q, NextPkg(q)) \/ Taken(b, a, q, NextPkg(q), p, e)
  <1> DEFINE r == NextPkg(q)
  <1>0. Len(b) \in Nat /\ a \in Nat /\ a <= Len(b)
    OBVIOUS
  <1>1. r \in Unpacker /\ (NoHead(b, a, q, r) \/ (\E h : NoTail(b, a, q, r, h)) \/ (\E h, t : Whole(b, a, q, r, h, t)))
    BY Turn
  <1> HIDE DEF r
  <1>2. a < Len(b) => b[a + 1] = HeadFlag
    BY DEF Shows, Boundary
  <1>3. ASSUME NEW h, Starts(b, a, q.have, h) PROVE h = a
    <2>1. CASE q.have
      BY <1>3, <2>1 DEF Starts
    <2>2. CASE ~q.have
      <3>1. h \in a..Len(b) /\ h < Len(b)
        BY <1>3, <2>2 DEF Starts
      <3>2. a < Len(b)
        BY <1>0, <3>1
      <3>3. h \in a..a
        BY <1>0, <1>2, <1>3, <3>2, HeadBound
      <3> QED BY <1>0, <3>3
    <2> QED BY <2>1, <2>2
  <1>4. ASSUME NoHead(b, a, q, r) PROVE Kept(b, a, q, r)
    <2>1. \A i \in (a + 1)..Len(b) : b[i] # HeadFlag
      BY <1>4 DEF NoHead
    <2>2. ~(a < Len(b))
      <3> SUFFICES ASSUME a < Len(b) PROVE FALSE
        OBVIOUS
      <3>1. a + 1 \in (a + 1)..Len(b)
        BY <1>0
      <3> QED BY <1>2, <2>1, <3>1
    <2>3. a = Len(b)
      BY <1>0, <2>2
    <2> QED BY <1>4, <2>3 DEF NoHead, Kept
  <1>5. ASSUME NEW h, NoTail(b, a, q, r, h) PROVE Kept(b, a, q, r)
    <2>1. h = a
      BY <1>3, <1>5 DEF NoTail
    <2> QED BY <1>5, <2>1 DEF NoTail, Kept
  <1>6. ASSUME NEW h, NEW t, Whole(b, a, q, r, h, t) PROVE Taken(b, a, q, r, p, e)
    <2>1. h = a
      BY <1>3, <1>6 DEF Whole
    <2>2. /\ t \in (a + 1)..Len(b) /\ b[t] = TailFlag /\ \A i \in (a + 1)..(t - 1) : b[i] # TailFlag
          /\ r.buf = Rest(b, t) /\ r.got = q.got \o ParsePkgData(SubSeq(b, a + 1, t))
      BY <1>6, <2>1 DEF Whole
    <2>3. a < Len(b) /\ t \in Nat
      BY <1>0, <2>2
    <2>4. e <= Len(b)
      <3> SUFFICES ASSUME ~(e <= Len(b)) PROVE FALSE
        OBVIOUS
      <3>1. Len(b) < e
        BY <1>0
      <3>2. \A i \in (a + 1)..Len(b) : b[i] # TailFlag
        BY <2>3, <3>1 DEF Shows
      <3> QED BY <2>2, <3>2
    <2>5. EndsAt(b, a, e) /\ SubSeq(b, a + 1, e) = p.bytes
      BY <2>3, <2>4 DEF Shows
    <2>6. t = e
      <3>1. e \in (a + 1)..Len(b) /\ b[e] = TailFlag /\ \A i \in (a + 1)..(e - 1) : b[i] # TailFlag
        BY <2>5 DEF EndsAt
      <3>2. ~(t \in (a + 1)..(e - 1)) /\ ~(e \in (a + 1)..(t - 1))
        BY <2>2, <3>1
      <3> QED BY <1>0, <2>2, <3>1, <3>2
    <2>7. e \in 0..Len(b)
      BY <1>0, <2>4
    <2> QED BY <2>2, <2>3, <2>5, <2>6, <2>7 DEF Taken
  <1>7. Kept(b, a, q, r) \/ Taken(b, a, q, r, p, e)
    BY <1>1, <1>4, <1>5, <1>6
  <1> QED BY <1>1, <1>7 DEF r

\* What a package adds to an ordered sequence.
LEMMA OrderedParse ==
    ASSUME NEW k \in Nat, NEW s, NEW r \in Seq(Parsed), Ordered(r, s, k),
           NEW p, p = s[k + 1], p.msg \in Message, p.msg.seqno = k + 1,
           ParsePkgData(p.bytes) \in Seq(Parsed),
           ParsePkgData(p.bytes) = IF p.msg.version > CurrentVersion THEN <<>> ELSE <<p.msg>>
    PROVE  Ordered(r \o ParsePkgData(p.bytes), s, k + 1)
  <1> DEFINE g == ParsePkgData(p.bytes)
             m == p.msg
  <1>0. g \in Seq(Parsed) /\ g = IF m.version > CurrentVersion THEN <<>> ELSE <<m>>
    OBVIOUS
  <1> HIDE DEF g
  <1>1. CASE m.version > CurrentVersion
    <2>1. r \o g = r
      BY <1>0, <1>1
    <2> QED BY <2>1, OrderedMore DEF g
  <1>2. CASE ~(m.version > CurrentVersion)
    <2>1. g = <<m>>
      BY <1>0, <1>2
    <2>2. m \in Parsed
      <3>1. Len(g) = 1 /\ g[1] = m
        BY <2>1
      <3> HIDE DEF m
      <3> QED BY <1>0, <3>1
    <2>3. m.seqno = k + 1 /\ m = s[k + 1].msg
      OBVIOUS
    <2> HIDE DEF m
    <2>4. Ordered(Append(r, m), s, k + 1)
      BY <2>2, <2>3, OrderedAppend
    <2>5. r \o g = Append(r, m)
      BY <2>1
    <2> QED BY <2>4, <2>5 DEF g
  <1> QED BY <1>1, <1>2

\* Concatenation is associative.
LEMMA JoinThree ==
    ASSUME NEW r \in Seq(Parsed), NEW s \in Seq(Parsed), NEW t \in Seq(Parsed)
    PROVE  (r \o s) \o t = r \o (s \o t)
  OBVIOUS

\* The package behind the first k, in a buffer that starts at c.
LEMMA NextPackage ==
    ASSUME FrameInv, ChainInv, AllFit, NEW b, NEW c, NEW r, Window(b, stream, c, r),
           NEW k \in 0..Len(sent), k # Len(sent), NEW a \in Nat, Bound(sent, k) = c + a, a < Len(b)
    PROVE  \E e \in Nat : Shows(sent[k + 1], b, a, e) /\ Fits(sent[k + 1]) /\ Bound(sent, k + 1) = c + e
  <1> DEFINE p == sent[k + 1]
             y == Bound(sent, k + 1)
             l == Len(p.bytes)
  <1>1. /\ k + 1 \in 1..Len(sent) /\ Placed(p, stream) /\ p.from = c + a /\ End(p) = y
    BY BoundStep
  <1>2. Fits(p)
    <2>1. DOMAIN sent = 1..Len(sent)
      BY DEF FrameInv, StreamInv
    <2> QED BY <1>1, <2>1 DEF AllFit
  <1>3. stream \in Seq(Byte) /\ c \in Nat
    BY DEF Window
  <1>4. y \in Nat /\ y = (c + a) + l /\ l \in Nat
    BY <1>1, <1>3, PlacedBytes
  <1> HIDE DEF p, y, l
  <1>5. y - c \in Nat /\ y = c + (y - c)
    BY <1>3, <1>4
  <1>6. Lies(p, b, c, a, y - c)
    BY <1>1, <1>5 DEF Lies
  <1>7. Shows(p, b, a, y - c)
    BY <1>1, <1>6, InBuffer
  <1> QED BY <1>2, <1>5, <1>7 DEF p, y

\* OnTcpMessage leaves the buffer at the start of a package, and delivers those before it.
LEMMA ReceiveOrder ==
    ASSUME FrameInv, ChainInv, OrderInv, AllFit, NEW n \in Pieces, OnTcpMessage(n)
    PROVE  ChainInv' /\ OrderInv'
  <1> DEFINE r == read'
  <1>1. PICK k \in 0..Len(sent) :
            /\ Bound(sent, k) <= read /\ pkg.buf = SubSeq(stream, Bound(sent, k) + 1, read)
            /\ Ordered(rcvd, sent, k)
    BY DEF OrderInv
  <1> DEFINE a == Bound(sent, k)
  <1>2. a \in Nat /\ a <= Len(stream) /\ Len(stream) \in Nat /\ Len(sent) \in Nat /\ (a < Len(stream) => k # Len(sent))
    BY BoundType
  <1>3. read \in Nat /\ read <= Len(stream) /\ stream \in Seq(Byte) /\ a <= read /\ read < Len(stream)
    BY <1>1 DEF FrameInv, StreamInv, OnTcpMessage
  <1>4. a \in 0..read /\ k # Len(sent) /\ pkg.buf = SubSeq(stream, a + 1, read)
    BY <1>1, <1>2, <1>3
  <1> HIDE DEF a
  <1>5. UNCHANGED <<conns, open, stream, sent>>
    BY DEF OnTcpMessage
  \* The package at the start of the buffer is not complete, so the buffer is not dropped.
  <1>6. read - a <= MaxRecCache
    <2> DEFINE p == sent[k + 1]
    <2>1. k + 1 \in 1..Len(sent) /\ Placed(p, stream) /\ p.from = a
      BY <1>4, BoundStep DEF a
    <2>2. End(p) = a + Len(p.bytes) /\ Len(p.bytes) \in Nat /\ Len(p.bytes) >= 6 /\ stream[End(p)] = TailFlag
      BY <1>3, <2>1, PlacedBytes
    <2>3. Len(p.bytes) <= MaxRecCache /\ MaxRecCache \in Nat
      <3>1. DOMAIN sent = 1..Len(sent)
        BY DEF FrameInv, StreamInv
      <3> QED BY <2>1, <3>1, FrameAssumption DEF AllFit, Fits
    <2> DEFINE l == Len(p.bytes)
    <2>4. stream[a + l] = TailFlag
      BY <2>2
    <2> HIDE DEF p, l
    <2>5. read < a + l
      <3> SUFFICES ASSUME ~(read < a + l) PROVE FALSE
        OBVIOUS
      <3>1. Len(pkg.buf) = read - a /\ \A i \in 1..(read - a) : pkg.buf[i] = stream[a + i]
        BY <1>2, <1>3, <1>4, Piece
      <3>2. l \in 1..(read - a)
        BY <1>2, <1>3, <2>2 DEF l
      <3>3. pkg.buf[l] = TailFlag
        BY <2>4, <3>1, <3>2
      <3>4. \A i \in 1..Len(pkg.buf) : pkg.buf[i] # TailFlag
        BY DEF FrameInv, PkgInv, Settled
      <3> QED BY <3>1, <3>2, <3>3, <3>4
    <2> QED BY <1>2, <1>3, <2>2, <2>3, <2>5 DEF l
  <1>7. PICK p \in Unpacker, c \in 0..read :
            /\ p.buf = SubSeq(stream, c + 1, r) /\ p.got = <<>>
            /\ read - a <= MaxRecCache => c = a
            /\ pkg' = [ReadWholePkg(p) EXCEPT !.got = <<>>]
            /\ rcvd' = rcvd \o ReadWholePkg(p).got
    BY <1>4, ReceiveStep
  <1>8. r \in Nat /\ read < r /\ r <= Len(stream)
    BY <1>4, ReceiveStep
  <1>9. c = a
    BY <1>6, <1>7
  <1> DEFINE b == p.buf
             q == ReadWholePkg(p)
  <1>10. Window(b, stream, a, r)
    BY <1>2, <1>3, <1>7, <1>8, <1>9 DEF Window
  <1> HIDE DEF r, b
  <1>11. b \in Seq(Byte) /\ Len(b) \in Nat /\ a + Len(b) = r
    BY <1>10, WindowBytes
  <1>12. rcvd \in Seq(Parsed)
    BY DEF FrameInv, PkgInv
  \* The buffer starts where the package j + 1 does.
  <1> DEFINE At(u, j, x) == /\ Bound(sent, j) = a + x /\ u.buf = Rest(b, x)
                            /\ Ordered(rcvd \o u.got, sent, j)
             I == {u \in Unpacker : \E j \in 0..Len(sent), x \in 0..Len(b) : At(u, j, x)}
  <1>13. p \in I
    <2>1. Rest(b, 0) = b /\ 0 \in 0..Len(b) /\ Bound(sent, k) = a + 0
      BY <1>2, <1>11 DEF Rest, a
    <2>2. rcvd \o p.got = rcvd
      BY <1>7, <1>12
    <2>3. At(p, k, 0)
      BY <1>1, <2>1, <2>2 DEF b
    <2> QED BY <2>1, <2>3
  <1>14. ASSUME NEW u \in I \cap Unpacker PROVE NextPkg(u) \in I
    <2> DEFINE v == NextPkg(u)
    <2>1. PICK j \in 0..Len(sent), x \in 0..Len(b) : At(u, j, x)
      BY <1>14
    <2>2. u \in Unpacker /\ u.buf = Rest(b, x) /\ u.got \in Seq(Parsed) /\ x \in Nat /\ j \in Nat
      BY <1>2, <1>11, <1>14, <2>1, UnpackerFields
    <2> DEFINE z == sent[j + 1]
    <2>3. \E e \in Nat : (x < Len(b) => Shows(z, b, x, e) /\ Fits(z) /\ Bound(sent, j + 1) = a + e /\ j # Len(sent))
      <3>1. CASE x < Len(b)
        <4>1. Bound(sent, j) < Len(stream)
          BY <1>2, <1>8, <1>11, <2>1, <2>2, <3>1
        <4>2. j # Len(sent)
          BY <4>1, BoundType
        <4>3. Bound(sent, j) = a + x
          BY <2>1
        <4> QED BY <1>10, <2>2, <3>1, <4>2, <4>3, NextPackage
      <3>2. CASE ~(x < Len(b))
        BY <3>2
      <3> QED BY <3>1, <3>2
    <2>4. PICK e \in Nat : x < Len(b) => Shows(z, b, x, e) /\ Fits(z) /\ Bound(sent, j + 1) = a + e /\ j # Len(sent)
      BY <2>3
    <2>5. v \in Unpacker /\ (Kept(b, x, u, v) \/ Taken(b, x, u, v, z, e))
      BY <1>11, <2>2, <2>4, TurnOrder
    <2> HIDE DEF v
    <2>6. CASE Kept(b, x, u, v)
      <3>1. At(v, j, x)
        BY <2>1, <2>6 DEF Kept
      <3> QED BY <2>5, <3>1 DEF v
    <2>7. CASE Taken(b, x, u, v, z, e)
      <3> DEFINE g == ParsePkgData(z.bytes)
      <3>1. x < Len(b) /\ e \in 0..Len(b) /\ v.buf = Rest(b, e) /\ v.got = u.got \o g
        BY <2>7 DEF Taken
      <3>2. Bound(sent, j + 1) = a + e /\ j # Len(sent)
        BY <2>4, <3>1
      <3>3. j + 1 \in 0..Len(sent) /\ Placed(z, stream) /\ z.msg.seqno = j + 1
        BY <3>2, BoundStep
      <3>4. z.msg \in Message /\ z.bytes \in Seq(Byte) /\ g = IF z.msg.version > CurrentVersion THEN <<>> ELSE <<z.msg>>
        BY <1>3, <3>3, PlacedBytes
      <3>5. g \in Seq(Parsed)
        BY <3>4, ParseType
      <3>6. Ordered(rcvd \o u.got, sent, j) /\ rcvd \o u.got \in Seq(Parsed)
        BY <1>12, <2>1, <2>2
      <3>7. Ordered((rcvd \o u.got) \o g, sent, j + 1)
        BY <2>2, <3>3, <3>4, <3>5, <3>6, OrderedParse
      <3> HIDE DEF g
      <3>8. (rcvd \o u.got) \o g = rcvd \o (u.got \o g)
        BY <1>12, <2>2, <3>5, JoinThree
      <3>9. At(v, j + 1, e)
        BY <3>1, <3>2, <3>7, <3>8
      <3> QED BY <2>5, <3>1, <3>3, <3>9 DEF v
    <2> QED BY <2>5, <2>6, <2>7
  <1>15. q \in I /\ q \in Unpacker
    <2> HIDE DEF I
    <2> QED BY <1>13, <1>14, Loop
  <1>16. PICK j \in 0..Len(sent), x \in 0..Len(b) : At(q, j, x)
    BY <1>15
  <1>17. pkg'.buf = q.buf /\ rcvd' = rcvd \o q.got
    <2>1. pkg' = [q EXCEPT !.got = <<>>]
      BY <1>7
    <2> HIDE DEF q
    <2>2. pkg'.buf = q.buf
      BY <1>15, <2>1 DEF Unpacker
    <2> QED BY <1>7, <2>2 DEF q
  <1> HIDE DEF q
  <1>18. q.buf = SubSeq(stream, (a + x) + 1, r)
    <2>1. Len(b) <= Len(b) /\ Shifted(b, stream, a) /\ x \in Nat /\ x <= Len(b)
      BY <1>10, <1>11, WindowPiece
    <2>2. SubSeq(b, x + 1, Len(b)) = SubSeq(stream, (a + x) + 1, a + Len(b))
      BY <1>11, <2>1 DEF Shifted
    <2> QED BY <1>11, <1>16, <2>2 DEF Rest
  <1>19. Bound(sent, j) <= r
    <2>1. Bound(sent, j) = a + x
      BY <1>16
    <2> QED BY <1>2, <1>11, <2>1
  <1>20. /\ Bound(sent, j) <= r /\ pkg'.buf = SubSeq(stream, Bound(sent, j) + 1, r)
         /\ Ordered(rcvd', sent, j)
    BY <1>16, <1>17, <1>18, <1>19
  <1>21. OrderInv'
    <2>1. Bound(sent', j) = Bound(sent, j) /\ j \in 0..Len(sent')
      BY <1>5
    <2>2. /\ Bound(sent', j) <= read' /\ pkg'.buf = SubSeq(stream', Bound(sent', j) + 1, read')
          /\ Ordered(rcvd', sent', j)
      BY <1>5, <1>20, <2>1 DEF r
    <2> QED BY <2>1, <2>2 DEF OrderInv, Bound, End, Ordered
  <1>22. ChainInv'
    BY <1>5 DEF ChainInv, Bound, End
  <1> QED BY <1>21, <1>22

\* Every step of the connection, as long as the packages fit.
LEMMA FrameNextChain ==
    ASSUME FrameInv, ChainInv, OrderInv, AllFit, [FrameNext]_frame
    PROVE  ChainInv' /\ OrderInv'
  <1>1. CASE Connect
    <2>1. stream' = <<>> /\ read' = 0 /\ sent' = <<>> /\ rcvd' = <<>> /\ ~pkg.live
      BY <1>1 DEF Connect, FrameInv, PkgInv
    <2>2. pkg' = NewPkg
      BY <1>1, <2>1 DEF Connect, OnTcpConnect
    <2> QED BY <2>1, <2>2, ChainReset DEF NewPkg, NoPkg
  <1>2. CASE Close
    <2>1. stream' = <<>> /\ read' = 0 /\ sent' = <<>> /\ rcvd' = <<>> /\ pkg.live
      BY <1>2 DEF Close, FrameInv, PkgInv
    <2>2. pkg' = NoPkg
      BY <1>2, <2>1 DEF Close, OnTcpConnect
    <2> QED BY <2>1, <2>2, ChainReset DEF NoPkg
  <1>3. ASSUME NEW p \in Packed, Send(p) PROVE ChainInv' /\ OrderInv'
    BY <1>3, SendChain
  <1>4. ASSUME NEW n \in Pieces, OnTcpMessage(n) PROVE ChainInv' /\ OrderInv'
    BY <1>4, ReceiveOrder
  <1>5. CASE UNCHANGED frame
    BY <1>5 DEF frame, ChainInv, OrderInv, Bound, End, Ordered
  <1> QED BY <1>1, <1>2, <1>3, <1>4, <1>5 DEF FrameNext

\* As long as the packages sent fit, nothing but what was sent is delivered, at most
\* once and in order.  A package that does not fit is cut in two, and what is left of it
\* is refused by its checksum alone, which a proof for any checksum cannot use.
THEOREM FrameOnlySent == FrameSpec /\ []AllFit => []OnlySent
  <1>1. FrameInit => ChainInv /\ OrderInv
    <2> SUFFICES ASSUME FrameInit PROVE ChainInv /\ OrderInv
      OBVIOUS
    <2>1. stream = <<>> /\ read = 0 /\ sent = <<>> /\ rcvd = <<>> /\ pkg.buf = <<>>
      BY DEF FrameInit, NoPkg
    <2>2. Len(stream) = 0 /\ Len(sent) = 0 /\ Len(rcvd) = 0 /\ (\A i \in 1..0 : FALSE) /\ 0 \in 0..0
      BY <2>1
    <2>3. ChainInv
      BY <2>2 DEF ChainInv, Bound
    <2>4. Ordered(rcvd, sent, 0)
      BY <2>2 DEF Ordered
    <2>5. Bound(sent, 0) = 0 /\ SubSeq(stream, 0 + 1, 0) = <<>>
      BY <2>1 DEF Bound
    <2> QED BY <2>1, <2>2, <2>3, <2>4, <2>5 DEF OrderInv
  <1>2. FrameInv /\ ChainInv /\ OrderInv /\ AllFit /\ [FrameNext]_frame => ChainInv' /\ OrderInv'
    BY FrameNextChain
  <1>3. FrameInv /\ OrderInv => OnlySent
    <2> SUFFICES ASSUME FrameInv, OrderInv PROVE OnlySent
      OBVIOUS
    <2>1. DOMAIN sent = 1..Len(sent) /\ DOMAIN rcvd = 1..Len(rcvd) /\ Len(sent) \in Nat
      BY DEF FrameInv, StreamInv, PkgInv
    <2>2. PICK k \in 0..Len(sent) : Ordered(rcvd, sent, k)
      BY DEF OrderInv
    <2>3. ASSUME NEW j \in 1..Len(rcvd) PROVE \E i \in 1..Len(sent) : rcvd[j] = sent[i].msg
      <3>1. rcvd[j].seqno \in 1..k /\ rcvd[j] = sent[rcvd[j].seqno].msg
        BY <2>2 DEF Ordered
      <3>2. \A x \in 1..k : x \in 1..Len(sent)
        BY <2>1
      <3> QED BY <3>1, <3>2
    <2>4. \A i, j \in 1..Len(rcvd) : i < j => rcvd[i].seqno < rcvd[j].seqno
      BY <2>2 DEF Ordered
    <2> QED BY <2>1, <2>3, <2>4 DEF OnlySent
  <1> QED BY <1>1, <1>2, <1>3, FrameInvariant, PTL DEF FrameSpec
=============================================================================
