----------------------------- MODULE AlertReport -----------------------------
(***************************************************************************)
(* A configuration tool downloads the alerts (commands 0x41/0x42 and       *)
(* 0x74/0x75) while the writers of AlertTable go on: ReportInfo and        *)
(* ReportBatch are single queries, and the table moves between them.       *)
(*                                                                         *)
(* The tool is not part of the repository.  It asks for the index range    *)
(* first and then for batches, each from the end_idx of the last one plus  *)
(* one, until it has passed the end_idx it was told, as the protocol       *)
(* document describes the two commands.                                    *)
(***************************************************************************)
EXTENDS AlertTable

CONSTANT MaxBatch   \* bound: largest batch_size requested

ASSUME BatchAssumption == MaxBatch \in Nat \ {0}

VARIABLES
    cli,        \* "idle", "paging", "done"
    begin,      \* start_idx of the info reply
    last,       \* end_idx of the info reply
    next,       \* start_idx of the next batch request
    got,        \* ids received
    twice       \* ids received more than once

download == <<cli, begin, last, next, got, twice>>
vars == <<table, download>>

Init ==
    /\ TableInit
    /\ cli = "idle" /\ begin = 0 /\ last = -1 /\ next = 0
    /\ got = {} /\ twice = {}

\* CCommSafeDetect::ReportInfo, CCommSafeFace::ReportInfo: "0" and "-1" of an empty table.
ReportInfo ==
    /\ cli # "paging"
    /\ \/ rows = {} /\ begin' = 0 /\ last' = -1
       \/ \E lo, hi \in rows :
             /\ \A j \in rows : lo <= j /\ j <= hi
             /\ begin' = lo /\ last' = hi
    /\ next' = begin'
    /\ cli' = IF begin' <= last' THEN "paging" ELSE "done"
    /\ got' = {} /\ twice' = {}
    /\ UNCHANGED table

\* The query without its where clause, and with "id >" for "id >=".
Bug_ReportResult(b) ==
    {i \in rows : Cardinality({j \in rows : j < i}) < b}
Bug_ReportResult2(b) ==
    LET found == {i \in rows : i > next}
    IN  {i \in found : Cardinality({j \in found : j < i}) < b}

\* ReportResult: "id >= start_idx order by id asc", cut off after batch_size rows.
ReportResult(b) ==
    LET found == {i \in rows : i >= next}
    IN  {i \in found : Cardinality({j \in found : j < i}) < b}

\* ReportBatch; an empty result is answered without start_idx and end_idx.
ReportBatch(b) ==
    /\ cli = "paging"
    /\ LET batch == ReportResult(b)
       IN  \/ batch = {} /\ cli' = "done" /\ UNCHANGED <<next, got, twice>>
           \/ \E e \in batch :
                 /\ \A j \in batch : j <= e
                 /\ next' = e + 1
                 /\ cli' = IF next' > last THEN "done" ELSE "paging"
                 /\ got' = got \cup batch
                 /\ twice' = twice \cup (got \cap batch)
    /\ UNCHANGED <<table, begin, last>>

\* A restart of the process ends the connection and with it the download.
Restart ==
    /\ TableRestart
    /\ cli' = "idle"
    /\ UNCHANGED <<begin, last, next, got, twice>>

Write == (\E t \in Writer : Delete(t) \/ Insert(t)) /\ UNCHANGED download

Next == Write \/ ReportInfo \/ (\E b \in 1..MaxBatch : ReportBatch(b)) \/ Restart

SafeSpec == Init /\ [][Next]_vars

\* The tool goes on asking and the server answers every query.
Spec == SafeSpec /\ WF_vars(\E b \in 1..MaxBatch : ReportBatch(b))
-----------------------------------------------------------------------------
\* Type correctness.
TypeOK ==
    /\ TableTypeOK
    /\ cli \in {"idle", "paging", "done"}
    /\ begin \in Nat /\ last \in Nat \cup {-1} /\ next \in Nat
    /\ got \subseteq Nat /\ twice \subseteq Nat

\* A download has no hole but what was deleted meanwhile: every alert that is still
\* in the table and lies in the range passed so far has been received.
NothingSkipped == cli # "idle" => \A i \in rows : begin <= i /\ i < next => i \in got

\* No alert is sent twice in a download.
NothingTwice == twice = {}

\* A tool that stays in the range it was told never meets the reply without
\* start_idx and end_idx: the rows of that range may go, but newer ones are there.
BatchNotEmpty == cli = "paging" => \A b \in 1..MaxBatch : ReportResult(b) # {}

\* A download ends, however fast new alerts arrive.
DownloadEnds == cli = "paging" ~> cli # "paging"

\* The invariant the proofs use.
IInv ==
    /\ TypeOK /\ TableIInv /\ NothingSkipped /\ NothingTwice
    /\ \A i \in got : i < next
    /\ last <= seq /\ next <= seq + 1
    /\ cli = "paging" => last > 0 /\ next <= last
=============================================================================
