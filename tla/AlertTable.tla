----------------------------- MODULE AlertTable -----------------------------
(***************************************************************************)
(* The alert tables of the SQLite database, DetectReportTable and          *)
(* FaceReportTable, as rings: CCommSafeDetect::ProResultMsg and            *)
(* CCommSafeFace::ProResultMsg first delete what is older than the newest  *)
(* s32QueueSize rows and then insert one.  Each statement is serialised by *)
(* CSqliteDbMng::m_rwLock; the pair is not.                                *)
(*                                                                         *)
(* A row is its id.  A writer is whoever runs the pair without another     *)
(* writer of the same kind in between: a detection task (its m_CfgMutex is *)
(* held across the pair), or the face recognition (m_mapReportTopicMutex). *)
(***************************************************************************)
EXTENDS Integers, FiniteSets

CONSTANTS
    Writer,
    QueueSize,   \* s32QueueSize: 20 detections, 5 faces
    MaxId,       \* bound: rows inserted in a behaviour
    MaxLate      \* bound: deletes that fail one after the other

ASSUME TableAssumption ==
    /\ IsFiniteSet(Writer)
    /\ QueueSize \in Nat \ {0}
    /\ MaxId \in Nat /\ MaxLate \in Nat

VARIABLES
    rows,   \* the ids in the table
    seq,    \* the last id handed out (sqlite_sequence)
    w,      \* what each writer has done of its pair of statements
    late    \* deletes that failed since the last one that succeeded

table == <<rows, seq, w, late>>

TableInit ==
    /\ rows = {} /\ seq = 0 /\ late = 0
    /\ w = [t \in Writer |-> "idle"]

\* An off-by-one in the SQL: "id < (select max(id) - s32QueueSize ...)".
Bug_Kept == {i \in rows : \A m \in rows : m <= i + QueueSize}

\* What "delete ... where id <= (select max(id) - s32QueueSize ...)" leaves: of an
\* empty table the maximum is NULL and nothing is deleted.
Kept == {i \in rows : \A m \in rows : m < i + QueueSize}

\* The statement, or its failure, which nobody looks at.
DeleteStmt ==
    \/ rows' = Kept /\ late' = 0
    \/ late < MaxLate /\ late' = late + 1 /\ UNCHANGED rows

\* A failed insert that is not rolled back: the id is gone.
Bug_InsertStmt ==
    /\ seq < MaxId
    /\ seq' = seq + 1
    /\ \/ rows' = rows \cup {seq + 1}
       \/ UNCHANGED rows

\* The insert in its transaction (CSmartDB::JsonTransaction), id autoincrement;
\* or its failure, rolled back with the id, which nobody looks at either.
InsertStmt ==
    \/ seq < MaxId /\ seq' = seq + 1 /\ rows' = rows \cup {seq + 1}
    \/ UNCHANGED <<rows, seq>>

Delete(t) ==
    /\ w[t] = "idle"
    /\ DeleteStmt
    /\ w' = [w EXCEPT ![t] = "deleted"]
    /\ UNCHANGED seq

Insert(t) ==
    /\ w[t] = "deleted"
    /\ InsertStmt
    /\ w' = [w EXCEPT ![t] = "idle"]
    /\ UNCHANGED late

\* The process dies and starts again: committed statements are durable.
TableRestart ==
    /\ w' = [t \in Writer |-> "idle"]
    /\ UNCHANGED <<rows, seq, late>>

TableNext == TableRestart \/ \E t \in Writer : Delete(t) \/ Insert(t)

TableSpec == TableInit /\ [][TableNext]_table
-----------------------------------------------------------------------------
Pending == {t \in Writer : w[t] = "deleted"}

\* Type correctness of the table.
TableTypeOK ==
    /\ rows \subseteq Nat /\ seq \in Nat /\ late \in Nat
    /\ w \in [Writer -> {"idle", "deleted"}]

\* The ids in the table are consecutive and end with the last one handed out, which
\* stays until the next one comes: the reply of ReportInfo (start_idx, end_idx,
\* total_size) describes the table exactly, whatever writers, failures and restarts did between the two statements of a pair.
Window == \E lo \in 1..(seq + 1) : rows = lo..seq /\ (seq > 0 => lo <= seq)

\* The table is bounded, although delete and insert are two statements: writers that
\* delete before any of them inserts exceed s32QueueSize by one row each, and what
\* failed deletes leave behind goes with the next delete that succeeds.
Bounded == Cardinality(rows) <= QueueSize + Cardinality(Writer) + late

\* The inductive form of Bounded counts the inserts that are still to come.
TableIInv ==
    /\ TableTypeOK
    /\ \E lo \in 1..(seq + 1) :
          /\ rows = lo..seq
          /\ seq > 0 => lo <= seq
          /\ (seq + 1 - lo) + Cardinality(Pending) <= QueueSize + Cardinality(Writer) + late
=============================================================================
