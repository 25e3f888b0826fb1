------------------------- MODULE AlertReport_proofs -------------------------
(***************************************************************************)
(* Proofs about AlertTable and AlertReport, for any number of writers, any *)
(* ring size and any batch size.                                           *)
(***************************************************************************)
EXTENDS AlertReport, FiniteSetTheorems, TLAPS

\* The writers between their two statements are finitely many: no more than all.
LEMMA PendingFacts ==
    /\ IsFiniteSet(Pending)
    /\ Cardinality(Pending) \in Nat
    /\ Cardinality(Writer) \in Nat
    /\ Cardinality(Pending) <= Cardinality(Writer)
  <1>1. Pending \subseteq Writer
    BY DEF Pending
  <1> QED BY <1>1, FS_Subset, FS_CardinalityType, TableAssumption DEF TableAssumption

\* The same in the next state.
LEMMA PendingFactsNext ==
    /\ IsFiniteSet(Pending')
    /\ Cardinality(Pending)' \in Nat
    /\ Cardinality(Pending)' <= Cardinality(Writer)
  <1>1. Pending' \subseteq Writer
    BY DEF Pending
  <1> QED BY <1>1, FS_Subset, FS_CardinalityType, TableAssumption DEF TableAssumption

\* The empty table satisfies the invariant.
LEMMA TableInitInv == TableInit => TableIInv
  <1> SUFFICES ASSUME TableInit PROVE TableIInv
    OBVIOUS
  <1>1. TableTypeOK
    BY DEF TableInit, TableTypeOK
  <1>2. Pending = {} /\ Cardinality(Pending) = 0
    BY FS_EmptySet DEF TableInit, Pending
  <1>3. rows = 1..seq /\ seq = 0
    BY DEF TableInit
  <1> QED BY <1>1, <1>2, <1>3, PendingFacts, TableAssumption DEF TableInit, TableIInv, TableAssumption

\* A delete and its failure.
LEMMA DeleteStep ==
    ASSUME TableIInv, NEW t \in Writer, Delete(t)
    PROVE  TableIInv'
  <1> USE TableAssumption DEF TableAssumption
  <1>1. PICK lo \in 1..(seq + 1) :
          /\ rows = lo..seq
          /\ seq > 0 => lo <= seq
          /\ (seq + 1 - lo) + Cardinality(Pending) <= QueueSize + Cardinality(Writer) + late
    BY DEF TableIInv
  <1>2. TableTypeOK'
    BY DEF TableIInv, TableTypeOK, Delete, DeleteStmt, Kept
  <1>3. seq' = seq /\ seq \in Nat /\ late \in Nat /\ late' \in Nat
    BY <1>2 DEF TableIInv, TableTypeOK, Delete
  <1>4. CASE rows' = Kept /\ late' = 0
    <2> DEFINE lo2 == IF lo > seq + 1 - QueueSize THEN lo ELSE seq + 1 - QueueSize
    <2>1. lo2 \in 1..(seq + 1) /\ seq + 1 - lo2 <= QueueSize /\ (seq > 0 => lo2 <= seq)
      BY <1>1, <1>3
    <2>2. Kept = lo2..seq
      BY <1>1, <1>3 DEF Kept
    <2>3. (seq' + 1 - lo2) + Cardinality(Pending)' <= QueueSize + Cardinality(Writer) + late'
      BY <2>1, <1>3, PendingFacts, PendingFactsNext
    <2> HIDE DEF lo2
    <2> QED BY <2>1, <2>2, <2>3, <1>2, <1>3, <1>4 DEF TableIInv
  <1>5. CASE late' = late + 1 /\ UNCHANGED rows
    <2>1. Pending' = Pending \cup {t} /\ t \notin Pending
      BY DEF TableIInv, TableTypeOK, Delete, Pending
    <2>2. Cardinality(Pending') = Cardinality(Pending) + 1
      BY <2>1, PendingFacts, FS_AddElement
    <2>3. (seq' + 1 - lo) + Cardinality(Pending)' <= QueueSize + Cardinality(Writer) + late'
      BY <2>2, <1>1, <1>3, <1>5, PendingFacts
    <2> QED BY <2>3, <1>1, <1>2, <1>3, <1>5 DEF TableIInv
  <1> QED BY <1>4, <1>5 DEF Delete, DeleteStmt

\* An insert and its failure.
LEMMA InsertStep ==
    ASSUME TableIInv, NEW t \in Writer, Insert(t)
    PROVE  TableIInv'
  <1> USE TableAssumption DEF TableAssumption
  <1>1. PICK lo \in 1..(seq + 1) :
          /\ rows = lo..seq
          /\ seq > 0 => lo <= seq
          /\ (seq + 1 - lo) + Cardinality(Pending) <= QueueSize + Cardinality(Writer) + late
    BY DEF TableIInv
  <1>2. TableTypeOK'
    BY DEF TableIInv, TableTypeOK, Insert, InsertStmt
  <1>3. seq \in Nat /\ late \in Nat /\ late' = late
    BY DEF TableIInv, TableTypeOK, Insert
  <1>4. Cardinality(Pending') = Cardinality(Pending) - 1
    <2>1. Pending' = Pending \ {t} /\ t \in Pending
      BY DEF TableIInv, TableTypeOK, Insert, Pending
    <2> QED BY <2>1, PendingFacts, FS_RemoveElement
  <1>5. CASE seq' = seq + 1 /\ rows' = rows \cup {seq + 1}
    <2>1. rows' = lo..seq' /\ lo \in 1..(seq' + 1) /\ lo <= seq'
      BY <1>1, <1>3, <1>5
    <2>2. (seq' + 1 - lo) + Cardinality(Pending)' <= QueueSize + Cardinality(Writer) + late'
      BY <1>1, <1>3, <1>4, <1>5, PendingFacts
    <2> QED BY <2>1, <2>2, <1>2 DEF TableIInv
  <1>6. CASE UNCHANGED <<rows, seq>>
    <2>1. (seq' + 1 - lo) + Cardinality(Pending)' <= QueueSize + Cardinality(Writer) + late'
      BY <1>1, <1>3, <1>4, <1>6, PendingFacts
    <2> QED BY <2>1, <1>1, <1>2, <1>6 DEF TableIInv
  <1> QED BY <1>5, <1>6 DEF Insert, InsertStmt

\* A restart between the two statements of any number of writers.
LEMMA RestartStep == TableIInv /\ TableRestart => TableIInv'
  <1> SUFFICES ASSUME TableIInv, TableRestart PROVE TableIInv'
    OBVIOUS
  <1> USE TableAssumption DEF TableAssumption
  <1>1. PICK lo \in 1..(seq + 1) :
          /\ rows = lo..seq
          /\ seq > 0 => lo <= seq
          /\ (seq + 1 - lo) + Cardinality(Pending) <= QueueSize + Cardinality(Writer) + late
    BY DEF TableIInv
  <1>2. TableTypeOK'
    BY DEF TableIInv, TableTypeOK, TableRestart
  <1>3. Pending' = {} /\ Cardinality(Pending') = 0
    <2>1. Pending' = {}
      BY DEF Pending, TableRestart
    <2> QED BY <2>1, FS_EmptySet
  <1>4. (seq' + 1 - lo) + Cardinality(Pending)' <= QueueSize + Cardinality(Writer) + late'
    BY <1>1, <1>3, PendingFacts DEF TableRestart, TableIInv, TableTypeOK
  <1> QED BY <1>1, <1>2, <1>4 DEF TableIInv, TableRestart

\* Every step of the table, and every step that leaves it alone.
LEMMA TableStep == TableIInv /\ [TableNext]_table => TableIInv'
  <1>1. TableIInv /\ UNCHANGED table => TableIInv'
    BY DEF TableIInv, TableTypeOK, Pending, table
  <1> QED BY <1>1, DeleteStep, InsertStep, RestartStep DEF TableNext

\* What the invariant says of the table.
LEMMA TableImplies == TableIInv => Window /\ Bounded
  <1> SUFFICES ASSUME TableIInv PROVE Window /\ Bounded
    OBVIOUS
  <1>1. PICK lo \in 1..(seq + 1) :
          /\ rows = lo..seq
          /\ seq > 0 => lo <= seq
          /\ (seq + 1 - lo) + Cardinality(Pending) <= QueueSize + Cardinality(Writer) + late
    BY DEF TableIInv
  <1>2. Cardinality(rows) = IF lo > seq THEN 0 ELSE seq - lo + 1
    BY <1>1, FS_Interval DEF TableIInv, TableTypeOK
  <1>3. Bounded
    BY <1>1, <1>2, PendingFacts, TableAssumption DEF Bounded, TableIInv, TableTypeOK, TableAssumption
  <1> QED BY <1>1, <1>3 DEF Window

\* The ring that ProResultMsg keeps with two statements is a window of consecutive ids
\* and exceeds s32QueueSize by at most one row for each writer and each failed delete.
THEOREM RingBounded == TableSpec => [](Window /\ Bounded)
  <1>1. TableSpec => []TableIInv
    BY TableInitInv, TableStep, PTL DEF TableSpec
  <1> QED BY <1>1, TableImplies, PTL
-----------------------------------------------------------------------------
\* What one query of the download returns, in a table that is a window.
LEMMA BatchInterval ==
    ASSUME IInv, cli = "paging", NEW b \in Nat \ {0}
    PROVE  \E f, l \in Nat :
             /\ ReportResult(b) = f..l
             /\ f <= l /\ next <= f /\ l <= seq
             /\ \A i \in rows : next <= i => f <= i
  <1>1. PICK lo \in 1..(seq + 1) : rows = lo..seq /\ (seq > 0 => lo <= seq)
    BY DEF IInv, TableIInv
  <1>2. seq \in Nat /\ next \in Nat /\ last \in Int /\ last > 0 /\ next <= last /\ last <= seq
    BY DEF IInv, TypeOK, TableTypeOK
  <1> DEFINE f == IF lo > next THEN lo ELSE next
             l == IF f + b - 1 > seq THEN seq ELSE f + b - 1
             found == {i \in rows : i >= next}
  <1>3. f \in Nat /\ l \in Nat /\ f <= l /\ next <= f /\ l <= seq /\ lo <= f
    BY <1>1, <1>2
  <1>4. found = f..seq
    BY <1>1, <1>2
  <1> HIDE DEF f
  <1>5. ASSUME NEW i \in found
        PROVE  Cardinality({j \in found : j < i}) = i - f
    <2>1. {j \in found : j < i} = f..(i - 1) /\ i \in Nat /\ f <= i
      BY <1>2, <1>3, <1>4
    <2>2. Cardinality(f..(i - 1)) = IF f > i - 1 THEN 0 ELSE (i - 1) - f + 1
      BY <2>1, <1>3, FS_Interval
    <2>3. Cardinality({j \in found : j < i}) = Cardinality(f..(i - 1))
      BY <2>1
    <2> HIDE DEF found
    <2> QED BY <2>1, <2>2, <2>3, <1>3
  <1>6. ReportResult(b) = {i \in found : i - f < b}
    BY <1>5 DEF ReportResult
  <1>7. {i \in found : i - f < b} = f..l
    BY <1>3, <1>4, <1>2
  <1>8. \A i \in rows : next <= i => f <= i
    BY <1>1, <1>2 DEF f
  <1> QED BY <1>3, <1>6, <1>7, <1>8

\* The writers do not disturb a download.
LEMMA WriteStep == IInv /\ Write => IInv'
  <1> SUFFICES ASSUME IInv, Write PROVE IInv'
    OBVIOUS
  <1>1. TableIInv'
    BY DeleteStep, InsertStep DEF IInv, Write
  <1>2. TypeOK'
    BY <1>1 DEF IInv, TypeOK, TableIInv, Write, download
  <1>3. rows' \subseteq rows \cup {seq + 1} /\ seq \in Nat
    BY DEF Write, Delete, DeleteStmt, Insert, InsertStmt, Kept, IInv, TypeOK, TableTypeOK
  <1>4. NothingSkipped'
    BY <1>3 DEF IInv, TypeOK, NothingSkipped, Write, download
  <1>5. last' <= seq' /\ next' <= seq' + 1
    <2>1. last \in Int /\ next \in Int /\ seq \in Int
      BY DEF IInv, TypeOK, TableTypeOK
    <2>2. last <= seq /\ next <= seq + 1
      BY DEF IInv
    <2>3. CASE seq' = seq
      BY <2>2, <2>3 DEF Write, download
    <2>4. CASE seq' = seq + 1
      BY <2>1, <2>2, <2>4 DEF Write, download
    <2>5. seq' = seq \/ seq' = seq + 1
      BY DEF Write, Delete, Insert, InsertStmt
    <2> QED BY <2>3, <2>4, <2>5
  <1>6. cli' = "paging" => last' > 0 /\ next' <= last'
    BY DEF IInv, Write, download
  <1>7. NothingTwice' /\ \A i \in got' : i < next'
    BY DEF IInv, NothingTwice, Write, download
  <1> QED BY <1>1, <1>2, <1>4, <1>5, <1>6, <1>7 DEF IInv

\* A download begins.
LEMMA InfoStep == IInv /\ ReportInfo => IInv'
  <1> SUFFICES ASSUME IInv, ReportInfo PROVE IInv'
    OBVIOUS
  <1>1. TableIInv' /\ TableTypeOK'
    BY TableStep DEF IInv, ReportInfo, TableIInv
  <1>2. seq' = seq /\ rows' = rows /\ seq \in Nat /\ rows \subseteq Nat
    BY DEF ReportInfo, table, IInv, TypeOK, TableTypeOK
  <1>3. CASE rows = {}
    BY <1>1, <1>2, <1>3 DEF ReportInfo, IInv, TypeOK, NothingSkipped, NothingTwice
  <1>4. CASE rows # {}
    <2>1. begin' \in Nat /\ last' = seq /\ begin' <= seq /\ seq > 0
      <3>1. PICK lo \in 1..(seq + 1) : rows = lo..seq /\ (seq > 0 => lo <= seq)
        BY DEF IInv, TableIInv
      <3>2. lo \in Int /\ lo > 0 /\ lo <= seq /\ seq > 0
        BY <3>1, <1>2, <1>4
      <3>3. PICK i, k \in rows : (\A j \in rows : i <= j /\ j <= k) /\ begin' = i /\ last' = k
        BY <1>4 DEF ReportInfo
      <3>4. lo \in rows /\ seq \in rows
        BY <3>1, <3>2, <1>2
      <3>5. i <= lo /\ seq <= k /\ i \in lo..seq /\ k \in lo..seq
        BY <3>1, <3>3, <3>4
      <3>6. begin' = lo /\ last' = seq
        BY <3>2, <3>3, <3>5, <1>2
      <3> QED BY <3>2, <3>6, <1>2
    <2>2. NothingSkipped'
      BY <2>1, <1>2 DEF ReportInfo, NothingSkipped
    <2>3. TypeOK'
      BY <2>1, <1>1, <1>2 DEF ReportInfo, TypeOK
    <2> QED BY <2>1, <2>2, <2>3, <1>1, <1>2 DEF ReportInfo, IInv, NothingTwice
  <1> QED BY <1>3, <1>4

\* A batch: it begins with the first row from next on and leaves none out.
LEMMA BatchStep ==
    ASSUME IInv, NEW b \in 1..MaxBatch, ReportBatch(b)
    PROVE  IInv'
  <1>1. TableIInv' /\ TableTypeOK'
    BY TableStep DEF IInv, ReportBatch, TableIInv
  <1>2. seq' = seq /\ rows' = rows /\ begin' = begin /\ last' = last /\ cli = "paging"
    BY DEF ReportBatch, table
  <1>3. b \in Nat \ {0}
    BY BatchAssumption DEF BatchAssumption
  <1>4. PICK f, l \in Nat :
          /\ ReportResult(b) = f..l
          /\ f <= l /\ next <= f /\ l <= seq
          /\ \A i \in rows : next <= i => f <= i
    BY <1>2, <1>3, BatchInterval
  <1>5. f..l # {} /\ \A e \in f..l : (\A j \in f..l : j <= e) => e = l
    BY <1>4
  <1>6. /\ next' = l + 1
        /\ cli' = IF next' > last THEN "done" ELSE "paging"
        /\ got' = got \cup f..l
        /\ twice' = twice \cup (got \cap f..l)
    BY <1>4, <1>5 DEF ReportBatch
  <1>7. NothingTwice' /\ \A i \in got' : i < next'
    <2>1. next \in Nat /\ got \subseteq Nat /\ (\A i \in got : i < next) /\ twice = {}
      BY DEF IInv, TypeOK, NothingTwice
    <2>2. got \cap f..l = {}
      BY <2>1, <1>4
    <2>3. \A i \in got \cup f..l : i < l + 1
      BY <2>1, <1>4
    <2> QED BY <2>1, <2>2, <2>3, <1>6 DEF NothingTwice
  <1>8. TypeOK'
    BY <1>1, <1>2, <1>4, <1>6 DEF IInv, TypeOK
  <1>9. NothingSkipped'
    <2> SUFFICES ASSUME NEW i \in rows, begin <= i, i < l + 1
                 PROVE  i \in got \cup f..l
      BY <1>2, <1>6 DEF NothingSkipped
    <2>1. i \in Nat /\ next \in Nat
      BY DEF IInv, TypeOK, TableTypeOK
    <2>2. CASE i < next
      BY <2>2, <1>2 DEF IInv, NothingSkipped
    <2>3. CASE next <= i
      BY <2>1, <2>3, <1>4
    <2> QED BY <2>1, <2>2, <2>3
  <1> QED BY <1>1, <1>2, <1>4, <1>6, <1>7, <1>8, <1>9 DEF IInv, TypeOK, TableTypeOK

\* The invariant holds of every behaviour of writers, downloads and restarts.
THEOREM ReportInvariance == SafeSpec => []IInv
  <1>1. Init => IInv
    BY TableInitInv DEF Init, IInv, TypeOK, TableIInv, TableInit, NothingSkipped, NothingTwice
  <1>2. IInv /\ Restart => IInv'
    <2> SUFFICES ASSUME IInv, Restart PROVE IInv'
      OBVIOUS
    <2>1. TableIInv'
      BY RestartStep DEF IInv, Restart
    <2> QED BY <2>1 DEF IInv, TypeOK, TableIInv, TableTypeOK, Restart, TableRestart, NothingSkipped, NothingTwice
  <1>3. IInv /\ UNCHANGED vars => IInv'
    <2> SUFFICES ASSUME IInv, UNCHANGED vars PROVE IInv'
      OBVIOUS
    <2>1. TableIInv'
      BY TableStep DEF IInv, vars
    <2> QED BY <2>1 DEF IInv, TypeOK, TableIInv, TableTypeOK, vars, table, download, NothingSkipped, NothingTwice
  <1>4. IInv /\ [Next]_vars => IInv'
    BY <1>2, <1>3, WriteStep, InfoStep, BatchStep DEF Next
  <1> QED BY <1>1, <1>4, PTL DEF SafeSpec

\* While a download goes on, the table it pages through stays a window of consecutive
\* ids, bounded by s32QueueSize, the writers and the failed deletes.
THEOREM DownloadWindow == SafeSpec => [](Window /\ Bounded)
  <1>1. IInv => TableIInv
    BY DEF IInv
  <1> QED BY <1>1, TableImplies, ReportInvariance, PTL

\* A download skips nothing that is still in the table, whatever is written, deleted
\* or restarted between ReportInfo and the calls of ReportBatch.
THEOREM DownloadComplete == SafeSpec => []NothingSkipped
  <1>1. IInv => NothingSkipped
    BY DEF IInv
  <1> QED BY <1>1, ReportInvariance, PTL

\* No alert is sent twice in a download.
THEOREM DownloadOnce == SafeSpec => []NothingTwice
  <1>1. IInv => NothingTwice
    BY DEF IInv
  <1> QED BY <1>1, ReportInvariance, PTL

\* ReportBatch never gives the empty reply to a tool that stays in the range it was told.
THEOREM DownloadAnswered == SafeSpec => []BatchNotEmpty
  <1>1. IInv => BatchNotEmpty
    <2> SUFFICES ASSUME IInv, cli = "paging", NEW b \in 1..MaxBatch
                 PROVE  ReportResult(b) # {}
      BY DEF BatchNotEmpty
    <2>1. b \in Nat \ {0}
      BY BatchAssumption DEF BatchAssumption
    <2>2. PICK f, l \in Nat : ReportResult(b) = f..l /\ f <= l
      BY <2>1, BatchInterval
    <2>3. f \in f..l
      BY <2>2
    <2> QED BY <2>2, <2>3
  <1> QED BY <1>1, ReportInvariance, PTL
=============================================================================
