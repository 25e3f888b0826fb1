--------------------------- MODULE CfgMng_proofs ---------------------------
(***************************************************************************)
(* For any words and bodies: an attribute object is read back from the     *)
(* text of its column as it was, if no value contains a separator.         *)
(* For any nodes, tools, updates, failing statements and restarts: the     *)
(* disk holds whole configurations (IInv), memory and tables agree and a   *)
(* restart brings nothing old back while no statement fails (SInv), and an *)
(* idx is unique with one tool (UInv).                                     *)
(***************************************************************************)
EXTENDS CfgMng, SequenceTheorems, WellFoundedInduction, TLAPS

\* A bounded set of numbers has a largest element, or is empty.
LEMMA LargestExists ==
    ASSUME NEW b \in Nat, NEW T \in SUBSET (1..b)
    PROVE  \E m \in {0} \cup T : \A t \in T : t <= m
  <1>1. CASE T = {}
    BY <1>1
  <1>2. CASE T # {}
    <2> DEFINE D == {b - t : t \in T}
    <2>1. D \subseteq Nat /\ D # {}
      <3>1. \A t \in T : b - t \in Nat
        OBVIOUS
      <3> QED BY <1>2, <3>1
    <2>2. PICK d \in D : \A y \in D : ~(<<y, d>> \in OpToRel(<, Nat))
      <3> HIDE DEF D
      <3> QED BY <2>1, WFMin, NatLessThanWellFounded
    <2>3. \A y \in D : ~(y < d)
      BY <2>1, <2>2 DEF OpToRel
    <2>4. PICK m \in T : d = b - m
      BY <2>2
    <2>5. \A t \in T : t <= m
      <3>1. ASSUME NEW t \in T PROVE t <= m
        <4>1. b - t \in D /\ b - t \in Nat /\ t \in Nat /\ m \in Nat
          BY <2>1
        <4>2. ~(b - t < b - m)
          BY <2>3, <2>4, <4>1
        <4> QED BY <4>1, <4>2
      <3> QED BY <3>1
    <2> QED BY <2>4, <2>5
  <1> QED BY <1>1, <1>2

\* The largest idx v updates can have given.
Limit(v) == FactorySize + v * MaxNew

\* One update more raises the limit by MaxNew.
LEMMA LimitGrows ==
    ASSUME NEW v \in Nat
    PROVE  Limit(v) \in Nat /\ Limit(v + 1) = Limit(v) + MaxNew /\ MaxNew \in Nat
  <1>1. MaxNew \in Nat /\ FactorySize \in Nat
    BY ConfigAssumption DEF ConfigAssumption
  <1>2. v * MaxNew \in Nat /\ (v + 1) * MaxNew = v * MaxNew + MaxNew
    BY <1>1
  <1> QED BY <1>1, <1>2 DEF Limit

\* What v updates can have made, one more can.
LEMMA NumberedGrows ==
    ASSUME NEW v \in Nat, NEW S, Numbered(S, v)
    PROVE  Numbered(S, v + 1)
  <1>1. Limit(v) \in Nat /\ Limit(v + 1) \in Nat /\ Limit(v) <= Limit(v + 1)
    BY LimitGrows
  <1>2. \A e \in S : e.ver \in 0..v /\ e.idx \in 1..Limit(v)
    BY DEF Numbered, Limit
  <1>3. \A e \in S : e.ver \in 0..(v + 1) /\ e.idx \in 1..Limit(v + 1)
    BY <1>1, <1>2
  <1> QED BY <1>3 DEF Numbered, Limit

\* The same for the tables of all nodes.
LEMMA TablesGrow ==
    ASSUME NEW v \in Nat, NEW f, Tables(f, v)
    PROVE  Tables(f, v + 1)
  BY NumberedGrows DEF Tables

\* RuntimeSysCfgUpdate numbers new entries above every entry of the node.
LEMMA NewEntriesAbove ==
    ASSUME TypeOK, NEW n \in Node, NEW k \in 0..MaxNew, NEW b
    PROVE  /\ Numbered(NewEntries(n, k, b), ver + 1)
           /\ \A d \in run[n], e \in NewEntries(n, k, b) : d.idx < e.idx
           /\ Unique(NewEntries(n, k, b))
           /\ NewEntries(n, k, b) \subseteq [ver : Nat, idx : Nat, body : {b}]
  <1> DEFINE T == {e.idx : e \in run[n]}
             m == CHOOSE m \in {0} \cup T : \A e \in run[n] : e.idx <= m
  <1>1. ver \in Nat /\ Limit(ver) \in Nat /\ Limit(ver + 1) = Limit(ver) + MaxNew /\ MaxNew \in Nat
    BY LimitGrows DEF TypeOK
  <1>2. \A e \in run[n] : e.idx \in 1..Limit(ver)
    BY DEF TypeOK, Tables, Numbered, Limit
  <1>3. T \in SUBSET (1..Limit(ver))
    BY <1>2
  <1>4. \E l \in {0} \cup T : \A t \in T : t <= l
    <2> HIDE DEF T
    <2> QED BY <1>1, <1>3, LargestExists
  <1>5. m \in {0} \cup T /\ \A e \in run[n] : e.idx <= m
    BY <1>4
  <1>6. m \in 0..Limit(ver)
    BY <1>1, <1>3, <1>5
  <1>7. NewEntries(n, k, b) = {[ver |-> ver + 1, idx |-> m + i, body |-> b] : i \in 1..k}
    BY DEF NewEntries
  <1> HIDE DEF m, T
  <1>8. \A e \in NewEntries(n, k, b) : \E i \in 1..k : e = [ver |-> ver + 1, idx |-> m + i, body |-> b]
    BY <1>7
  <1>9. \A i \in 1..k : m + i \in 1..Limit(ver + 1) /\ m < m + i
    BY <1>1, <1>6
  <1>10. Numbered(NewEntries(n, k, b), ver + 1)
    <2>1. ver + 1 \in 0..(ver + 1)
      BY <1>1
    <2> QED BY <1>8, <1>9, <2>1 DEF Numbered, Limit
  <1>11. ASSUME NEW d \in run[n], NEW e \in NewEntries(n, k, b) PROVE d.idx < e.idx
    <2>1. PICK i \in 1..k : e.idx = m + i
      BY <1>8
    <2> QED BY <1>2, <1>5, <1>6, <1>9, <2>1
  <1>12. Unique(NewEntries(n, k, b))
    <2>1. ASSUME NEW d \in NewEntries(n, k, b), NEW e \in NewEntries(n, k, b), d.idx = e.idx PROVE d = e
      <3>1. PICK i \in 1..k : d = [ver |-> ver + 1, idx |-> m + i, body |-> b]
        BY <1>8
      <3>2. PICK j \in 1..k : e = [ver |-> ver + 1, idx |-> m + j, body |-> b]
        BY <1>8
      <3>3. i = j
        BY <1>6, <2>1, <3>1, <3>2
      <3> QED BY <3>1, <3>2, <3>3
    <2> QED BY <2>1 DEF Unique
  <1>13. NewEntries(n, k, b) \subseteq [ver : Nat, idx : Nat, body : {b}]
    <2>1. \A i \in 1..k : [ver |-> ver + 1, idx |-> m + i, body |-> b] \in [ver : Nat, idx : Nat, body : {b}]
      BY <1>1, <1>6
    <2> QED BY <1>8, <2>1
  <1> QED BY <1>10, <1>11, <1>12, <1>13

\* The first start, with no database file.
LEMMA InitIInv == Init => IInv
  <1> SUFFICES ASSUME Init PROVE IInv
    OBVIOUS
  <1>1. \A n \in Node : Numbered(Factory(n), 0)
    <2>1. FactorySize \in Nat /\ 0 * MaxNew = 0
      BY ConfigAssumption DEF ConfigAssumption
    <2> QED BY <2>1 DEF Numbered, Factory
  <1>2. hnd \in Handlers({}) /\ hnd.rest = {} /\ hnd.boot = TRUE /\ hnd.pc = "tables"
    BY ConfigAssumption DEF Init, Booting, Handlers, ConfigAssumption
  <1>3. \A n \in Node : run[n] = {} /\ disk[n] = {} /\ cur[n] = {}
    BY DEF Init
  <1>4. TypeOK
    <2>1. Tables(run, ver) /\ Tables(disk, ver) /\ Tables(cur, ver)
      BY <1>3 DEF Init, Tables, Numbered
    <2>2. Tables(acked, ver) /\ Tables(flight, ver)
      BY <1>1 DEF Init, Tables
    <2>3. /\ accepted = [n \in Node |-> accepted[n]] /\ ver = 0
          /\ \A n \in Node : \A S \in accepted[n] : S = Factory(n)
      BY DEF Init
    <2>4. Numbered(hnd.rest, ver)
      BY <1>2 DEF Numbered
    <2>5. ver \in 0..MaxVer /\ crashes \in 0..MaxCrash /\ fails \in 0..MaxFail
      BY ConfigAssumption DEF Init, ConfigAssumption
    <2>6. tx \in BOOLEAN
      BY DEF Init
    <2>7. view = [c \in Client |-> view[c]] /\ \A c \in Client : view[c] = NoView
      BY DEF Init
    <2> QED BY <1>1, <1>2, <2>1, <2>2, <2>3, <2>4, <2>5, <2>6, <2>7 DEF TypeOK
  <1>5. DiskWhole /\ CurWhole
    BY <1>2, <1>3 DEF Init, DiskWhole, CurWhole, Whole
  <1>6. Filling /\ FillsAccepted
    BY <1>2 DEF Filling, FillsAccepted
  <1> QED BY <1>4, <1>5, <1>6 DEF IInv

\* A tool reads, or an answer goes out: nothing but the tool's view and the record
\* of answers changes.
LEMMA GetCfgInv ==
    ASSUME IInv, NEW c \in Client, GetCfg(c)
    PROVE  IInv'
  <1>1. TypeOK /\ UNCHANGED <<run, disk, cur, tx, hnd, acked, flight, accepted, ver, crashes, fails>>
    BY DEF IInv, GetCfg, db, told, count
  <1>2. /\ view' = [d \in Client |-> view'[d]]
        /\ \A d \in Client : view'[d] = view[d] \/ view'[d] = run
    BY <1>1 DEF GetCfg, TypeOK
  <1>3. TypeOK'
    BY <1>1, <1>2 DEF TypeOK
  <1>4. DiskWhole' /\ CurWhole' /\ Filling' /\ FillsAccepted'
    BY <1>1 DEF IInv, DiskWhole, Whole, CurWhole, Filling, FillsAccepted, Want
  <1> QED BY <1>3, <1>4 DEF IInv

\* The new configuration in memory: an accepted one, while the tables keep the old.
LEMMA SetCfgInv ==
    ASSUME IInv, NEW c \in Client, NEW n \in Node, NEW kept \in SUBSET view[c][n],
           NEW k \in 0..MaxNew, NEW b, SetCfg(c, n, kept, k, b)
    PROVE  IInv'
  <1> DEFINE new == kept \cup NewEntries(n, k, b)
  <1>1. /\ TypeOK /\ hnd.pc = "idle" /\ ~hnd.boot /\ view[c] # NoView
        /\ UNCHANGED <<disk, cur, tx, acked, crashes, fails>>
    BY DEF IInv, CurWhole, SetCfg, Idle, db
  <1>2. /\ ver' = ver + 1 /\ ver \in Nat /\ ver' \in 0..MaxVer
        /\ run' = [run EXCEPT ![n] = new] /\ flight' = [flight EXCEPT ![n] = new]
        /\ accepted' = [accepted EXCEPT ![n] = accepted[n] \cup {new}]
        /\ view' = [view EXCEPT ![c] = NoView]
        /\ hnd' = [hnd EXCEPT !.pc = "delete", !.node = n]
    BY <1>1, ConfigAssumption DEF SetCfg, TypeOK, ConfigAssumption
  <1>3. Numbered(new, ver')
    <2>1. Numbered(kept, ver + 1)
      <3>1. Numbered(view[c][n], ver + 1)
        BY <1>1, <1>2, NumberedGrows DEF TypeOK, Tables
      <3> QED BY <3>1 DEF Numbered
    <2>2. Numbered(NewEntries(n, k, b), ver + 1)
      BY <1>1, NewEntriesAbove
    <2> QED BY <1>2, <2>1, <2>2 DEF Numbered
  <1> HIDE DEF new
  <1>4. /\ Tables(run, ver') /\ Tables(disk, ver') /\ Tables(cur, ver')
        /\ Tables(acked, ver') /\ Tables(flight, ver')
        /\ \A m \in Node : \A S \in accepted[m] : Numbered(S, ver')
        /\ Numbered(hnd.rest, ver')
        /\ \A d \in Client : view[d] = NoView \/ Tables(view[d], ver')
    BY <1>1, <1>2, TablesGrow, NumberedGrows DEF TypeOK
  <1>5. TypeOK'
    <2>1. Tables(run', ver') /\ Tables(flight', ver')
      BY <1>2, <1>3, <1>4 DEF Tables
    <2>2. accepted' = [m \in Node |-> accepted'[m]] /\ \A m \in Node : \A S \in accepted'[m] : Numbered(S, ver')
      BY <1>1, <1>2, <1>3, <1>4 DEF TypeOK
    <2>3. /\ view' = [d \in Client |-> view'[d]]
          /\ \A d \in Client : view'[d] = NoView \/ Tables(view'[d], ver')
      BY <1>1, <1>2, <1>4 DEF TypeOK
    <2>4. hnd' \in Handlers(hnd'.rest) /\ hnd'.rest = hnd.rest
      BY <1>1, <1>2 DEF TypeOK, Handlers
    <2> QED BY <1>1, <1>2, <1>4, <2>1, <2>2, <2>3, <2>4 DEF TypeOK
  <1>6. /\ \A m \in Node : accepted[m] \subseteq accepted'[m]
        /\ \A m \in Node : m # n => run'[m] = run[m]
        /\ run'[n] = new /\ new \in accepted'[n]
    BY <1>1, <1>2 DEF TypeOK, Tables
  <1>7. hnd'.pc = "delete" /\ hnd'.node = n /\ hnd'.boot = hnd.boot
    BY <1>1, <1>2 DEF TypeOK, Handlers
  <1>8. \A m \in Node : Whole(m) \subseteq Whole(m)'
    BY <1>6 DEF Whole
  <1>9. DiskWhole' /\ CurWhole'
    BY <1>1, <1>6, <1>7, <1>8 DEF IInv, DiskWhole, CurWhole
  <1>10. Filling' /\ FillsAccepted'
    BY <1>1, <1>6, <1>7 DEF IInv, Filling, FillsAccepted
  <1> QED BY <1>5, <1>9, <1>10 DEF IInv

\* The table of the node is emptied, or the statement fails.
LEMMA DeleteRootInv ==
    ASSUME IInv, DeleteRoot
    PROVE  IInv'
  <1>1. /\ TypeOK /\ hnd.pc = "delete" /\ ~hnd.boot /\ hnd.node \in Node
        /\ run[hnd.node] \in accepted[hnd.node]
        /\ UNCHANGED <<run, tx, view, acked, flight, accepted, ver, crashes>>
    BY DEF IInv, CurWhole, FillsAccepted, DeleteRoot, Fail, count, told
  <1>2. hnd' \in Handlers(hnd'.rest) /\ hnd'.rest = hnd.rest /\ hnd'.pc = "tables" /\ hnd'.boot = hnd.boot
        /\ hnd'.node = hnd.node
    BY <1>1, ConfigAssumption DEF DeleteRoot, TypeOK, Handlers, ConfigAssumption
  <1>3. fails' \in 0..MaxFail
    BY <1>1, ConfigAssumption DEF DeleteRoot, Fail, TypeOK, ConfigAssumption, count
  <1>4. /\ cur' = [n \in Node |-> cur'[n]] /\ disk' = [n \in Node |-> disk'[n]]
        /\ \A n \in Node : cur'[n] = cur[n] \/ (n = hnd.node /\ cur'[n] = {})
        /\ \A n \in Node : disk'[n] = disk[n] \/ (disk' = cur' /\ ~tx)
        /\ ~tx => cur' = disk'
    <2>1. cur = [n \in Node |-> cur[n]] /\ disk = [n \in Node |-> disk[n]]
      BY <1>1 DEF TypeOK, Tables
    <2>2. ~tx => cur = disk
      BY DEF IInv, CurWhole
    <2>3. CASE Write([cur EXCEPT ![hnd.node] = {}])
      <3>1. /\ cur' = [n \in Node |-> cur'[n]]
            /\ \A n \in Node : cur'[n] = cur[n] \/ (n = hnd.node /\ cur'[n] = {})
        BY <1>1, <2>1, <2>3 DEF Write
      <3>2. CASE tx
        BY <2>1, <2>3, <3>1, <3>2 DEF Write
      <3>3. CASE ~tx
        <4>1. disk' = cur'
          BY <2>3, <3>3 DEF Write
        <4> QED BY <3>1, <3>3, <4>1
      <3> QED BY <3>2, <3>3
    <2>4. CASE UNCHANGED <<disk, cur>>
      <3>1. cur' = cur /\ disk' = disk
        BY <2>4
      <3> QED BY ONLY <2>1, <2>2, <3>1
    <2> QED BY <2>3, <2>4 DEF DeleteRoot
  <1>5. Tables(cur', ver) /\ Tables(disk', ver)
    <2>1. Tables(cur', ver)
      BY <1>1, <1>4 DEF TypeOK, Tables, Numbered
    <2>2. CASE disk' = cur'
      BY <2>1, <2>2
    <2>3. CASE \A n \in Node : disk'[n] = disk[n]
      BY <1>1, <1>4, <2>1, <2>3 DEF TypeOK, Tables
    <2> QED BY <1>4, <2>1, <2>2, <2>3
  <1>6. TypeOK'
    BY <1>1, <1>2, <1>3, <1>5 DEF TypeOK
  <1>7. \A n \in Node : cur'[n] \in Whole(n) /\ disk'[n] \in Whole(n) /\ Whole(n)' = Whole(n)
    <2>1. \A n \in Node : cur[n] \in Whole(n) /\ disk[n] \in Whole(n) /\ {} \in Whole(n)
      BY <1>1 DEF IInv, CurWhole, DiskWhole, Whole
    <2>2. \A n \in Node : Whole(n)' = Whole(n)
      BY <1>1 DEF Whole
    <2>3. \A n \in Node : cur'[n] \in Whole(n)
      BY <1>4, <2>1
    <2> QED BY <1>4, <2>1, <2>2, <2>3
  <1>8. DiskWhole' /\ CurWhole' /\ Filling'
    BY <1>1, <1>2, <1>4, <1>7 DEF IInv, DiskWhole, CurWhole, Filling
  <1>9. FillsAccepted'
    <2>1. \A n \in Node : n # hnd.node => cur'[n] = cur[n] /\ (disk'[n] = disk[n] \/ disk'[n] = cur[n])
      BY <1>4
    <2> QED BY <1>1, <1>2, <2>1 DEF IInv, FillsAccepted
  <1> QED BY <1>6, <1>8, <1>9 DEF IInv

\* InitDb looks at one table and begins to fill it when it is empty.
LEMMA SelectTableInv ==
    ASSUME IInv, SelectTable
    PROVE  IInv'
  <1>0. PICK n : n = Head(hnd.todo)
    OBVIOUS
  <1>1. /\ TypeOK /\ hnd.pc = "tables" /\ hnd.todo \in Seq(Node) /\ hnd.todo # <<>>
        /\ UNCHANGED <<run, disk, cur, view, acked, flight, accepted, ver, crashes, fails>>
    BY DEF IInv, TypeOK, Handlers, SelectTable, told, count
  <1>2. n \in Node /\ Tail(hnd.todo) \in Seq(Node)
    BY <1>0, <1>1
  <1>3. \A m \in Node : Whole(m)' = Whole(m)
    BY <1>1 DEF Whole
  <1>4. \A m \in Node : cur[m] \in Whole(m) /\ disk[m] \in Whole(m) /\ Factory(m) \in accepted[m]
    BY <1>1 DEF IInv, CurWhole, DiskWhole
  <1>5. CASE hnd' = [hnd EXCEPT !.todo = Tail(hnd.todo)] /\ (tx' = tx \/ tx' = TRUE)
    <2>1. /\ hnd' \in Handlers(hnd'.rest) /\ hnd'.rest = hnd.rest /\ hnd'.pc = hnd.pc /\ hnd'.boot = hnd.boot
          /\ hnd'.node = hnd.node
      BY <1>1, <1>2, <1>5 DEF TypeOK, Handlers
    <2>2. tx' \in BOOLEAN
      BY <1>1, <1>5 DEF TypeOK
    <2>3. TypeOK'
      BY <1>1, <2>1, <2>2 DEF TypeOK
    <2>4. DiskWhole' /\ CurWhole' /\ Filling' /\ FillsAccepted'
      BY <1>1, <1>3, <1>4, <1>5, <2>1 DEF IInv, DiskWhole, CurWhole, Filling, FillsAccepted
    <2> QED BY <2>3, <2>4 DEF IInv
  <1>6. CASE /\ cur[n] = {} /\ Want(n) # {} /\ tx' = TRUE
             /\ hnd' = [hnd EXCEPT !.pc = "insert", !.todo = Tail(hnd.todo), !.table = n, !.rest = Want(n)]
    <2>1. Want(n) \in accepted[n]
      BY <1>1, <1>2, <1>4, <1>6 DEF IInv, FillsAccepted, Want
    <2>2. /\ hnd' \in Handlers(hnd'.rest) /\ hnd'.rest = Want(n) /\ hnd'.pc = "insert"
          /\ hnd'.boot = hnd.boot /\ hnd'.node = hnd.node /\ hnd'.table = n
      BY <1>1, <1>2, <1>6 DEF TypeOK, Handlers
    <2>3. tx' \in BOOLEAN /\ Numbered(hnd'.rest, ver)
      BY <1>1, <1>2, <1>6, <2>1, <2>2 DEF TypeOK
    <2>4. TypeOK'
      BY <1>1, <2>2, <2>3 DEF TypeOK
    <2>5. DiskWhole' /\ CurWhole' /\ FillsAccepted'
      BY <1>1, <1>3, <1>4, <1>6, <2>2 DEF IInv, DiskWhole, CurWhole, FillsAccepted
    <2>6. Filling'
      <3>1. Want(n)' = Want(n)
        BY <1>1, <2>2 DEF Want
      <3>2. Rows(Want(n) \ Want(n)) = {}
        BY DEF Rows
      <3> QED BY <1>1, <1>2, <1>6, <2>1, <2>2, <3>1, <3>2 DEF Filling
    <2> QED BY <2>4, <2>5, <2>6 DEF IInv
  <1> QED BY <1>0, <1>5, <1>6 DEF SelectTable

\* One more row of the configuration that is being stored.
LEMMA RowsGrow ==
    ASSUME NEW S, NEW e
    PROVE  Rows(S \cup {e}) = Rows(S) \cup {Row(e)}
  BY DEF Rows

\* A row is inserted.
LEMMA InsertRowInv ==
    ASSUME IInv, InsertRow
    PROVE  IInv'
  <1>1. /\ TypeOK /\ hnd.pc = "insert" /\ hnd.table \in Node /\ tx
        /\ Want(hnd.table) \in accepted[hnd.table] /\ hnd.rest \subseteq Want(hnd.table)
        /\ cur[hnd.table] = Rows(Want(hnd.table) \ hnd.rest)
        /\ UNCHANGED <<run, disk, tx, view, acked, flight, accepted, ver, crashes, fails>>
    BY DEF IInv, Filling, InsertRow, told, count
  <1>2. PICK e \in hnd.rest : /\ cur' = [cur EXCEPT ![hnd.table] = cur[hnd.table] \cup {Row(e)}]
                              /\ hnd' = [hnd EXCEPT !.rest = hnd.rest \ {e}]
    BY DEF InsertRow
  <1>3. /\ hnd' \in Handlers(hnd'.rest) /\ hnd'.rest = hnd.rest \ {e} /\ hnd'.pc = "insert"
        /\ hnd'.boot = hnd.boot /\ hnd'.node = hnd.node /\ hnd'.table = hnd.table
    BY <1>1, <1>2 DEF TypeOK, Handlers
  <1>4. /\ cur' = [n \in Node |-> cur'[n]]
        /\ cur'[hnd.table] = cur[hnd.table] \cup {Row(e)}
        /\ \A n \in Node : n # hnd.table => cur'[n] = cur[n]
    BY <1>1, <1>2 DEF TypeOK, Tables
  <1>5. TypeOK'
    <2>1. Numbered(hnd'.rest, ver)
      BY <1>1, <1>3 DEF TypeOK, Numbered
    <2>2. Numbered({Row(e)}, ver)
      BY <1>1 DEF TypeOK, Numbered, Row
    <2>3. Tables(cur', ver)
      BY <1>1, <1>4, <2>2 DEF TypeOK, Tables, Numbered
    <2> QED BY <1>1, <1>3, <2>1, <2>3 DEF TypeOK
  <1>6. DiskWhole' /\ CurWhole' /\ FillsAccepted'
    <2>1. \A n \in Node : Whole(n)' = Whole(n)
      BY <1>1 DEF Whole
    <2> QED BY <1>1, <1>3, <1>4, <2>1 DEF IInv, DiskWhole, CurWhole, FillsAccepted
  <1>7. Filling'
    <2>1. Want(hnd.table)' = Want(hnd.table)
      BY <1>1, <1>3 DEF Want
    <2>2. cur'[hnd.table] = Rows(Want(hnd.table) \ (hnd.rest \ {e}))
      <3> DEFINE S == Want(hnd.table) \ hnd.rest
      <3>1. Want(hnd.table) \ (hnd.rest \ {e}) = S \cup {e}
        BY <1>1
      <3>2. cur'[hnd.table] = Rows(S) \cup {Row(e)}
        BY <1>1, <1>4
      <3> HIDE DEF S
      <3>3. Rows(S \cup {e}) = Rows(S) \cup {Row(e)}
        BY RowsGrow
      <3> QED BY <3>1, <3>2, <3>3
    <2> QED BY <1>1, <1>3, <2>1, <2>2 DEF Filling
  <1> QED BY <1>5, <1>6, <1>7 DEF IInv

\* The transaction ends, rolled back or committed with all its rows.
LEMMA TransactionEndsInv ==
    ASSUME IInv, RowFails \/ Commit
    PROVE  IInv'
  <1>1. /\ TypeOK /\ hnd.pc = "insert" /\ hnd.table \in Node /\ tx' = FALSE
        /\ Want(hnd.table) \in accepted[hnd.table]
        /\ cur[hnd.table] = Rows(Want(hnd.table) \ hnd.rest)
        /\ UNCHANGED <<run, view, acked, flight, accepted, ver, crashes>>
    BY DEF IInv, Filling, RowFails, Commit, Fail, told, count
  <1>2. /\ hnd' \in Handlers(hnd'.rest) /\ hnd'.rest = {} /\ hnd'.pc = "tables"
        /\ hnd'.boot = hnd.boot /\ hnd'.node = hnd.node
    BY <1>1 DEF TypeOK, Handlers, RowFails, Commit
  <1>3. fails' \in 0..MaxFail
    BY <1>1, ConfigAssumption DEF TypeOK, RowFails, Commit, Fail, ConfigAssumption, count
  <1>4. /\ cur' = disk'
        /\ disk' = disk \/ (disk' = cur /\ hnd.rest = {})
    BY DEF RowFails, Commit
  <1>5. TypeOK'
    <2>1. Tables(cur', ver) /\ Tables(disk', ver)
      BY <1>1, <1>4 DEF TypeOK
    <2>2. tx' \in BOOLEAN /\ Numbered(hnd'.rest, ver)
      BY <1>1, <1>2 DEF Numbered
    <2> QED BY <1>1, <1>2, <1>3, <2>1, <2>2 DEF TypeOK
  <1>6. \A n \in Node : disk'[n] \in Whole(n) /\ Whole(n)' = Whole(n)
    <2>1. \A n \in Node : Whole(n)' = Whole(n)
      BY <1>1 DEF Whole
    <2>2. CASE disk' = disk
      BY <2>1, <2>2 DEF IInv, DiskWhole
    <2>3. CASE disk' = cur /\ hnd.rest = {}
      <3>1. cur[hnd.table] = Rows(Want(hnd.table))
        BY <1>1, <2>3
      <3>2. cur[hnd.table] \in Whole(hnd.table)
        BY <1>1, <3>1 DEF Whole
      <3> QED BY <2>1, <2>3, <3>2 DEF IInv, CurWhole
    <2> QED BY <1>4, <2>2, <2>3
  <1>7. DiskWhole' /\ CurWhole' /\ Filling'
    BY <1>1, <1>2, <1>4, <1>6 DEF IInv, DiskWhole, CurWhole, Filling
  <1>8. FillsAccepted'
    BY <1>1, <1>2, <1>4 DEF IInv, FillsAccepted
  <1> QED BY <1>5, <1>7, <1>8 DEF IInv

\* The update is answered.
LEMMA ReplyInv ==
    ASSUME IInv, Reply
    PROVE  IInv'
  <1>1. /\ TypeOK /\ hnd.pc = "tables" /\ ~hnd.boot
        /\ UNCHANGED <<run, disk, cur, tx, view, flight, accepted, ver, crashes, fails>>
    BY DEF IInv, Reply, db, count
  <1>2. /\ hnd' \in Handlers(hnd'.rest) /\ hnd'.rest = hnd.rest /\ hnd'.pc = "idle"
        /\ hnd'.boot = hnd.boot /\ hnd'.node = hnd.node
    BY <1>1 DEF TypeOK, Handlers, Reply
  <1>3. Tables(acked', ver)
    <2>1. /\ acked' = [n \in Node |-> acked'[n]]
          /\ \A n \in Node : acked'[n] = acked[n] \/ acked'[n] = flight[n]
      BY <1>1 DEF Reply, TypeOK, Tables
    <2> QED BY <1>1, <2>1 DEF TypeOK, Tables
  <1>4. TypeOK'
    BY <1>1, <1>2, <1>3 DEF TypeOK
  <1>5. \A n \in Node : Whole(n)' = Whole(n)
    BY <1>1 DEF Whole
  <1>6. DiskWhole' /\ CurWhole' /\ Filling' /\ FillsAccepted'
    BY <1>1, <1>2, <1>5 DEF IInv, DiskWhole, CurWhole, Filling, FillsAccepted
  <1> QED BY <1>4, <1>6 DEF IInv

\* LoadRuntimeSysCfgInDb: entries come back with the idx of their rows.
LEMMA LoadInv ==
    ASSUME IInv, Load
    PROVE  IInv'
  <1>1. /\ TypeOK /\ hnd.pc = "tables" /\ hnd.boot
        /\ UNCHANGED <<disk, cur, tx, view, accepted, ver, crashes, fails>>
    BY DEF IInv, Load, db, count
  <1>2. /\ hnd' \in Handlers(hnd'.rest) /\ hnd'.rest = hnd.rest /\ hnd'.pc = "idle"
        /\ hnd'.boot = FALSE
    BY <1>1 DEF TypeOK, Handlers, Load
  <1>3. /\ run' = [n \in Node |-> run'[n]] /\ acked' = run' /\ flight' = run'
        /\ \A n \in Node : run'[n] = {Entry(n, q) : q \in cur[n]}
    BY DEF Load
  <1>4. Tables(run', ver)
    <2>1. \A n \in Node : \A q \in cur[n] : Entry(n, q).ver = q.ver /\ Entry(n, q).idx = q.idx
      BY DEF Entry
    <2>2. \A n \in Node : Numbered(cur[n], ver)
      BY <1>1 DEF TypeOK, Tables
    <2>3. \A n \in Node : Numbered(run'[n], ver)
      BY <1>3, <2>1, <2>2 DEF Numbered
    <2> QED BY <1>3, <2>3 DEF Tables
  <1>5. TypeOK'
    BY <1>1, <1>2, <1>3, <1>4 DEF TypeOK
  <1>6. \A n \in Node : Whole(n)' = Whole(n)
    BY <1>1 DEF Whole
  <1>7. DiskWhole' /\ CurWhole' /\ Filling'
    BY <1>1, <1>2, <1>6 DEF IInv, DiskWhole, CurWhole, Filling
  <1>8. FillsAccepted'
    <2>1. \A n \in Node : cur[n] = disk[n]
      BY <1>1 DEF IInv, CurWhole
    <2>2. \A n \in Node : run'[n] = {} \/ (cur'[n] # {} /\ disk'[n] # {})
      BY <1>1, <1>3, <2>1
    <2> QED BY <1>2, <2>2 DEF FillsAccepted
  <1> QED BY <1>5, <1>7, <1>8 DEF IInv

\* Another thread ends the transaction that was left open.
LEMMA OtherSaveInv ==
    ASSUME IInv, OtherSave
    PROVE  IInv'
  <1>1. /\ TypeOK /\ hnd.pc # "insert" /\ ~hnd.boot /\ tx' = FALSE
        /\ UNCHANGED <<run, hnd, view, acked, flight, accepted, ver, crashes>>
    BY DEF IInv, OtherSave, Fail, told, count
  <1>2. fails' \in 0..MaxFail
    BY <1>1, ConfigAssumption DEF TypeOK, OtherSave, Fail, ConfigAssumption, count
  <1>3. cur' = disk' /\ (disk' = disk \/ disk' = cur)
    BY DEF OtherSave
  <1>4. TypeOK'
    <2>1. Tables(cur', ver) /\ Tables(disk', ver)
      BY <1>1, <1>3 DEF TypeOK
    <2>2. tx' \in BOOLEAN
      BY <1>1
    <2> QED BY <1>1, <1>2, <2>1, <2>2 DEF TypeOK
  <1>5. \A n \in Node : Whole(n)' = Whole(n)
    BY <1>1 DEF Whole
  <1>6. DiskWhole' /\ CurWhole' /\ Filling' /\ FillsAccepted'
    BY <1>1, <1>3, <1>5 DEF IInv, DiskWhole, CurWhole, Filling, FillsAccepted
  <1> QED BY <1>4, <1>6 DEF IInv

\* The process dies and main runs again, on what is committed.
LEMMA CrashInv ==
    ASSUME IInv, Crash
    PROVE  IInv'
  <1>1. /\ TypeOK /\ hnd' = Booting /\ cur' = disk /\ tx' = FALSE
        /\ run' = [n \in Node |-> {}] /\ view' = [c \in Client |-> NoView]
        /\ UNCHANGED <<disk, acked, flight, accepted, ver, fails>>
    BY DEF IInv, Crash, told
  <1>2. /\ hnd' \in Handlers(hnd'.rest) /\ hnd'.rest = {} /\ hnd'.pc = "tables" /\ hnd'.boot = TRUE
    BY <1>1, ConfigAssumption DEF Booting, Handlers, ConfigAssumption
  <1>3. crashes' \in 0..MaxCrash
    BY <1>1, ConfigAssumption DEF Crash, TypeOK, ConfigAssumption
  <1>4. TypeOK'
    <2>1. Tables(run', ver) /\ Tables(cur', ver)
      BY <1>1 DEF TypeOK, Tables, Numbered
    <2>2. tx' \in BOOLEAN /\ Numbered(hnd'.rest, ver)
      BY <1>1, <1>2 DEF Numbered
    <2>3. view' = [c \in Client |-> view'[c]] /\ \A c \in Client : view'[c] = NoView
      BY <1>1
    <2> QED BY <1>1, <1>2, <1>3, <2>1, <2>2, <2>3 DEF TypeOK
  <1>5. \A n \in Node : Whole(n)' = Whole(n)
    BY <1>1 DEF Whole
  <1>6. DiskWhole' /\ CurWhole' /\ Filling' /\ FillsAccepted'
    BY <1>1, <1>2, <1>5 DEF IInv, DiskWhole, CurWhole, Filling, FillsAccepted
  <1> QED BY <1>4, <1>6 DEF IInv

\* The invariant is inductive.
LEMMA StepIInv == IInv /\ [Next]_vars => IInv'
  <1> SUFFICES ASSUME IInv, [Next]_vars PROVE IInv'
    OBVIOUS
  <1>1. CASE UNCHANGED vars
    BY <1>1 DEF IInv, TypeOK, DiskWhole, Whole, CurWhole, Filling, FillsAccepted, Want, vars, db, told, count
  <1>2. CASE Handler
    BY <1>2, DeleteRootInv, SelectTableInv, InsertRowInv, TransactionEndsInv, ReplyInv, LoadInv DEF Handler
  <1> QED BY <1>1, <1>2, GetCfgInv, SetCfgInv, OtherSaveInv, CrashInv DEF Next

\* Types, and in particular every entry and every row has an idx that was given out.
THEOREM TypeCorrect == SafeSpec => []TypeOK
  <1>1. IInv => TypeOK
    BY DEF IInv
  <1> QED BY <1>1, InitIInv, StepIInv, PTL DEF SafeSpec

\* Wherever the process dies, whatever failed and whoever shared the transaction:
\* the disk holds no part of a configuration.
THEOREM WholeOnDisk == SafeSpec => []DiskWhole
  <1>1. IInv => DiskWhole
    BY DEF IInv
  <1> QED BY <1>1, InitIInv, StepIInv, PTL DEF SafeSpec

-----------------------------------------------------------------------------
UInv == ViewFresh /\ AcceptedUnique /\ UniqueIdx

\* The steps that touch the database only.
DatabaseStep == DeleteRoot \/ SelectTable \/ InsertRow \/ RowFails \/ Commit \/ Reply \/ OtherSave

\* They leave the memory, the tools and the accepted configurations alone.
LEMMA DatabaseSteps ==
    ASSUME IInv, DatabaseStep
    PROVE  UNCHANGED <<run, view, flight, accepted, ver>> /\ hnd'.boot = hnd.boot /\ hnd'.node = hnd.node
  <1>1. hnd \in Handlers(hnd.rest)
    BY DEF IInv, TypeOK
  <1> QED BY <1>1 DEF Handlers, DatabaseStep, DeleteRoot, SelectTable, InsertRow, RowFails, Commit, Reply,
                      OtherSave, Fail, told, db, count

\* With one tool, what it read is what runs, and new entries are numbered above it.
LEMMA StepUInv ==
    ASSUME \A c, d \in Client : c = d, IInv, UInv, [Next]_vars
    PROVE  UInv'
  <1>1. TypeOK /\ ViewFresh /\ AcceptedUnique /\ UniqueIdx
    BY DEF IInv, UInv
  <1>2. CASE UNCHANGED vars
    BY <1>1, <1>2 DEF UInv, ViewFresh, AcceptedUnique, UniqueIdx, vars, told
  <1>3. CASE DatabaseStep
    BY <1>1, <1>3, DatabaseSteps DEF UInv, ViewFresh, AcceptedUnique, UniqueIdx
  <1>4. ASSUME NEW c \in Client, GetCfg(c) PROVE UInv'
    <2>1. UNCHANGED <<run, hnd, accepted>> /\ ~hnd.boot
      BY <1>4 DEF IInv, CurWhole, GetCfg, Idle, told
    <2>2. \A d \in Client : view'[d] = view[d] \/ view'[d] = run
      BY <1>1, <1>4 DEF GetCfg, TypeOK
    <2> QED BY <1>1, <2>1, <2>2 DEF UInv, ViewFresh, AcceptedUnique, UniqueIdx
  <1>5. ASSUME NEW c \in Client, NEW n \in Node, NEW kept \in SUBSET view[c][n],
               NEW k \in 0..MaxNew, NEW b, SetCfg(c, n, kept, k, b)
        PROVE  UInv'
    <2> DEFINE new == kept \cup NewEntries(n, k, b)
    <2>1. view[c] = run
      BY <1>1, <1>5 DEF ViewFresh, SetCfg
    <2>2. \A d \in Client : view'[d] = NoView
      BY <1>1, <1>5 DEF SetCfg, TypeOK
    <2>3. kept \subseteq run[n] /\ \A d \in run[n] : d.idx \in Nat
      BY <1>1, <2>1, ConfigAssumption DEF TypeOK, Tables, Numbered, ConfigAssumption
    <2>4. Unique(new)
      <3>1. /\ \A d \in run[n], e \in NewEntries(n, k, b) : d.idx < e.idx
            /\ Unique(NewEntries(n, k, b)) /\ Unique(kept)
        BY <1>1, <2>3, NewEntriesAbove DEF UniqueIdx, Unique
      <3>2. \A d \in kept, e \in NewEntries(n, k, b) : d.idx # e.idx
        BY <2>3, <3>1
      <3> QED BY <3>1, <3>2 DEF Unique
    <2>5. /\ run'[n] = new /\ accepted'[n] = accepted[n] \cup {new}
          /\ \A m \in Node : m # n => run'[m] = run[m] /\ accepted'[m] = accepted[m]
      BY <1>1, <1>5 DEF SetCfg, TypeOK, Tables
    <2> HIDE DEF new
    <2> QED BY <1>1, <2>2, <2>4, <2>5 DEF UInv, ViewFresh, AcceptedUnique, UniqueIdx
  <1>6. CASE Load
    <2>1. /\ hnd.boot /\ hnd.pc = "tables" /\ UNCHANGED <<view, accepted>>
          /\ \A n \in Node : run'[n] = {Entry(n, q) : q \in cur[n]}
      BY <1>6 DEF Load
    <2>2. \A d \in Client : view'[d] = NoView
      BY <1>1, <2>1 DEF ViewFresh
    <2>3. ASSUME NEW n \in Node PROVE Unique(run'[n])
      <3>1. cur[n] \in Whole(n)
        BY <2>1 DEF IInv, CurWhole
      <3>2. \A p, q \in cur[n] : p.idx = q.idx => p = q
        <4>1. CASE cur[n] = {}
          BY <4>1
        <4>2. ASSUME NEW S \in accepted[n], cur[n] = Rows(S) PROVE \A p, q \in cur[n] : p.idx = q.idx => p = q
          <5>1. Unique(S)
            BY <1>1 DEF AcceptedUnique
          <5>2. ASSUME NEW p \in cur[n], NEW q \in cur[n], p.idx = q.idx PROVE p = q
            <6>1. PICK d \in S : p = Row(d)
              BY <4>2 DEF Rows
            <6>2. PICK e \in S : q = Row(e)
              BY <4>2 DEF Rows
            <6>3. d.idx = e.idx
              BY <5>2, <6>1, <6>2 DEF Row
            <6> QED BY <5>1, <6>1, <6>2, <6>3 DEF Unique
          <5> QED BY <5>2
        <4> QED BY <3>1, <4>1, <4>2 DEF Whole
      <3>3. ASSUME NEW d \in run'[n], NEW e \in run'[n], d.idx = e.idx PROVE d = e
        <4>1. PICK p \in cur[n] : d = Entry(n, p)
          BY <2>1
        <4>2. PICK q \in cur[n] : e = Entry(n, q)
          BY <2>1
        <4>3. p.idx = q.idx
          BY <3>3, <4>1, <4>2 DEF Entry
        <4> QED BY <3>2, <4>1, <4>2, <4>3
      <3> QED BY <3>3 DEF Unique
    <2> QED BY <1>1, <2>1, <2>2, <2>3 DEF UInv, ViewFresh, AcceptedUnique, UniqueIdx
  <1>7. CASE Crash
    <2>1. UNCHANGED accepted /\ \A n \in Node : run'[n] = {}
      BY <1>7 DEF Crash, told
    <2>2. \A d \in Client : view'[d] = NoView
      BY <1>7 DEF Crash
    <2> QED BY <1>1, <2>1, <2>2 DEF UInv, ViewFresh, AcceptedUnique, UniqueIdx, Unique
  <1> QED BY <1>2, <1>3, <1>4, <1>5, <1>6, <1>7 DEF Next, Handler, DatabaseStep

\* With one configuration tool, and whatever fails or restarts in between, an idx
\* names one entry of its node.  (With two it does not.)
THEOREM UniqueForOneTool ==
    ASSUME \A c, d \in Client : c = d
    PROVE  SafeSpec => []UniqueIdx
  <1>1. Init => UInv
    <2>1. SUFFICES ASSUME Init PROVE UInv
      OBVIOUS
    <2>2. \A n \in Node : Unique(Factory(n))
      BY DEF Unique, Factory
    <2>3. \A n \in Node : run[n] = {} /\ accepted[n] = {Factory(n)}
      BY <2>1 DEF Init
    <2>4. \A c \in Client : view[c] = NoView
      BY <2>1 DEF Init
    <2> QED BY <2>2, <2>3, <2>4 DEF UInv, ViewFresh, AcceptedUnique, UniqueIdx, Unique
  <1>2. IInv /\ UInv /\ [Next]_vars => UInv'
    BY StepUInv
  <1>3. UInv => UniqueIdx
    BY DEF UInv
  <1> QED BY <1>1, <1>2, <1>3, InitIInv, StepIInv, PTL DEF SafeSpec

-----------------------------------------------------------------------------
\* Natural numbers are well-ordered.
LEMMA LeastNumber ==
    ASSUME NEW S \in SUBSET Nat, S # {}
    PROVE  \E m \in S : \A k \in S : m <= k
  <1> DEFINE R == OpToRel(<, Nat)
  <1>1. \A y, x \in Nat : <<y, x>> \in R <=> y < x
    BY DEF OpToRel
  <1>2. IsWellFoundedOn(R, Nat)
    BY NatLessThanWellFounded
  <1> HIDE DEF R
  <1>3. PICK x \in S : \A y \in S : ~(<<y, x>> \in R)
    BY <1>2, WFMin
  <1>4. ASSUME NEW y \in S PROVE x <= y
    <2>1. x \in Nat /\ y \in Nat
      OBVIOUS
    <2>2. ~(y < x)
      BY <1>1, <1>3, <2>1
    <2> QED BY <2>1, <2>2
  <1> QED BY <1>4

\* Induction up to n, with a set in the place of the predicate.
LEMMA Induction ==
    ASSUME NEW n \in Nat, NEW S, 0 \in S, \A i \in 0..(n - 1) : i \in S => i + 1 \in S
    PROVE  \A i \in 0..n : i \in S
  <1> SUFFICES ASSUME (0..n) \ S # {} PROVE FALSE
    OBVIOUS
  <1>0. (0..n) \ S \in SUBSET Nat
    OBVIOUS
  <1>1. PICK m \in (0..n) \ S : \A k \in (0..n) \ S : m <= k
    BY <1>0, LeastNumber
  <1>2. m - 1 \in 0..(n - 1) /\ m - 1 \in S
    BY <1>1
  <1> QED BY <1>1, <1>2

\* f is defined up to n by recursion from c.
Recursive(f, n, V, c, step) ==
    f \in [0..n -> V] /\ f[0] = c /\ \A i \in 1..n : f[i] = step[i][f[i - 1]]

\* A function defined by recursion up to n exists.
LEMMA Recursion ==
    ASSUME NEW n \in Nat, NEW V, NEW c \in V, NEW step \in [1..n -> [V -> V]]
    PROVE  \E f : Recursive(f, n, V, c, step)
  <1> DEFINE Upto(m, f) == /\ f \in [0..m -> V]
                           /\ f[0] = c /\ \A i \in 1..m : f[i] = step[i][f[i - 1]]
             S == {m \in 0..n : \E f : Upto(m, f)}
  <1>1. 0 \in S
    <2> DEFINE f == [i \in 0..0 |-> c]
    <2>1. f \in [0..0 -> V] /\ f[0] = c /\ \A i \in 1..0 : FALSE
      OBVIOUS
    <2> HIDE DEF f
    <2>2. Upto(0, f)
      BY <2>1
    <2> QED BY <2>2
  <1>2. ASSUME NEW m \in 0..(n - 1), m \in S PROVE m + 1 \in S
    <2>1. PICK f : Upto(m, f)
      BY <1>2 DEF S
    <2> DEFINE g == [i \in 0..(m + 1) |-> IF i = m + 1 THEN step[m + 1][f[m]] ELSE f[i]]
    <2>2. f[m] \in V /\ step[m + 1] \in [V -> V]
      BY <2>1
    <2>0. step[m + 1][f[m]] \in V
      BY <2>2
    <2>3. g \in [0..(m + 1) -> V] /\ g[0] = c
      BY <2>1, <2>0
    <2>4. ASSUME NEW i \in 1..(m + 1) PROVE g[i] = step[i][g[i - 1]]
      <3>1. CASE i = m + 1
        <4>1. g[m + 1] = step[m + 1][f[m]]
          OBVIOUS
        <4>2. g[m] = f[m] /\ i - 1 = m
          BY <3>1
        <4> HIDE DEF g
        <4> QED BY <3>1, <4>1, <4>2
      <3>2. CASE i # m + 1
        BY <3>2, <2>1
      <3> QED BY <3>1, <3>2
    <2> HIDE DEF g
    <2> QED BY <2>3, <2>4
  <1>3. n \in S
    <2>1. \A m \in 0..(n - 1) : m \in S => m + 1 \in S
      BY <1>2
    <2> HIDE DEF S
    <2>2. \A i \in 0..n : i \in S
      BY <1>1, <2>1, Induction
    <2> QED BY <2>2
  <1>4. PICK f : Upto(n, f)
    BY <1>3
  <1> QED BY <1>4 DEF Recursive

\* FlattenSeq is what its recursion says.
LEMMA FlattenSteps ==
    ASSUME NEW B, NEW s \in Seq(Seq(B))
    PROVE  \E f : /\ f \in [0..Len(s) -> Seq(B)] /\ f[0] = <<>> /\ f[Len(s)] = FlattenSeq(s)
                  /\ \A i \in 1..Len(s) : f[i] = f[i - 1] \o s[i]
  <1> DEFINE n == Len(s)
             V == Seq(B)
             e == <<>>
             step == [i \in 1..n |-> [v \in V |-> v \o s[i]]]
  <1>1. n \in Nat /\ e \in V /\ \A i \in 1..n : s[i] \in V
    OBVIOUS
  <1>2. step \in [1..n -> [V -> V]] /\ \A i \in 1..n, v \in V : step[i][v] = v \o s[i]
    <2>1. \A i \in 1..n, v \in V : v \o s[i] \in V
      BY <1>1
    <2> QED BY <2>1
  <1> HIDE DEF step
  <1>3. PICK f : Recursive(f, n, V, e, step)
    <2> HIDE DEF n, V, e
    <2> QED BY <1>1, <1>2, Recursion
  <1>4. f \in [0..n -> V] /\ f[0] = e
    BY <1>3 DEF Recursive
  <1>5. ASSUME NEW i \in 1..n PROVE f[i] = f[i - 1] \o s[i]
    <2>1. i - 1 \in 0..n
      BY <1>1
    <2> QED BY <1>2, <1>3, <1>4, <2>1 DEF Recursive
  <1>6. f[n] = FlattenSeq(s)
    <2>1. CASE n = 0
      <3>1. FlattenSeq(s) = s /\ s = <<>>
        BY <2>1 DEF FlattenSeq
      <3> QED BY <1>4, <2>1, <3>1
    <2>2. CASE n # 0
      <3> DEFINE Def(g) == [i \in 1..n |-> IF i = 1 THEN s[i] ELSE g[i - 1] \o s[i]]
                 c == CHOOSE g : g = Def(g)
      <3>1. FlattenSeq(s) = c[n]
        BY <2>2 DEF FlattenSeq
      <3>2. f[1] = s[1] /\ 1 \in 1..n
        <4>1. 1 \in 1..n /\ 1 - 1 = 0
          BY <1>1, <2>2
        <4>2. f[1] = e \o s[1]
          BY <1>4, <1>5, <4>1
        <4> QED BY <1>1, <4>1, <4>2
      <3>3. \E g : g = Def(g)
        <4> DEFINE g == [i \in 1..n |-> f[i]]
        <4>1. ASSUME NEW i \in 1..n PROVE g[i] = IF i = 1 THEN s[i] ELSE g[i - 1] \o s[i]
          <5>1. CASE i = 1
            BY <3>2, <5>1
          <5>2. CASE i # 1
            <6>1. i - 1 \in 1..n
              BY <1>1, <5>2
            <6> QED BY <1>5, <5>2, <6>1
          <5> QED BY <5>1, <5>2
        <4>2. g = Def(g)
          <5>1. DOMAIN g = 1..n
            OBVIOUS
          <5> QED BY <4>1
        <4> HIDE DEF g
        <4> QED BY <4>2
      <3>4. c = Def(c)
        <4> HIDE DEF Def
        <4> QED BY <3>3
      <3> HIDE DEF c, n
      <3>5. c[1] = s[1] /\ \A i \in 1..n : i # 1 => c[i] = c[i - 1] \o s[i]
        BY <3>2, <3>4
      <3> DEFINE S == {j \in 0..n : j = 0 \/ c[j] = f[j]}
      <3>6. 0 \in S
        BY <1>1
      <3>7. ASSUME NEW i \in 0..(n - 1), i \in S PROVE i + 1 \in S
        <4>1. i + 1 \in 1..n /\ i + 1 \in 0..n /\ (i + 1) - 1 = i /\ (i # 0 => i + 1 # 1) /\ (i = 0 => i + 1 = 1)
          BY <1>1
        <4>2. CASE i = 0
          BY <3>2, <3>5, <4>1, <4>2
        <4>3. CASE i # 0
          <5>1. c[i] = f[i]
            BY <3>7, <4>3
          <5>2. c[i + 1] = c[i] \o s[i + 1] /\ f[i + 1] = f[i] \o s[i + 1]
            BY <1>5, <3>5, <4>1, <4>3
          <5> QED BY <4>1, <5>1, <5>2
        <4> QED BY <4>2, <4>3
      <3>8. \A i \in 0..n : i \in S
        <4> HIDE DEF S
        <4> QED BY <1>1, <3>6, <3>7, Induction
      <3>9. n \in 0..n
        BY <1>1
      <3> QED BY <2>2, <3>1, <3>8, <3>9
    <2> QED BY <2>1, <2>2
  <1> QED BY <1>4, <1>5, <1>6

\* Strtok on the symbols of x, from r to q.
Cutting == [out : Seq(Seq(Symbol)), cur : Seq(Symbol)]
Start == [out |-> <<>>, cur |-> <<>>]
Cuts(f, x, sep) == f \in [0..Len(x) -> Cutting] /\ \A i \in 1..Len(x) : f[i] = Cut(f[i - 1], x[i], sep)
Runs(x, sep, r, q) == \E f : Cuts(f, x, sep) /\ f[0] = r /\ f[Len(x)] = q

\* Strtok returns what its run collects; the last piece needs no separator behind it.
LEMMA RunsStrtok ==
    ASSUME NEW x \in Seq(Symbol), NEW sep, NEW q, Runs(x, sep, Start, q)
    PROVE  Strtok(x, sep) = Closed(q).out
  <1> DEFINE n == Len(x)
             Def(g) == [i \in 0..n |-> IF i = 0 THEN Start ELSE Cut(g[i - 1], x[i], sep)]
             c == CHOOSE g : g = Def(g)
  <1>1. n \in Nat
    OBVIOUS
  <1>2. Strtok(x, sep) = Closed(c[n]).out
    BY DEF Strtok, Start
  <1>3. PICK f : Cuts(f, x, sep) /\ f[0] = Start /\ f[n] = q
    BY DEF Runs
  <1>4. f \in [0..n -> Cutting] /\ \A i \in 1..n : f[i] = Cut(f[i - 1], x[i], sep)
    BY <1>3 DEF Cuts
  <1>5. f = Def(f)
    <2>1. ASSUME NEW i \in 0..n PROVE f[i] = IF i = 0 THEN Start ELSE Cut(f[i - 1], x[i], sep)
      <3>1. i # 0 => i \in 1..n
        BY <1>1
      <3> QED BY <1>3, <1>4, <3>1
    <2> QED BY <1>4, <2>1
  <1>6. c = Def(c)
    <2> HIDE DEF Def
    <2> QED BY <1>5
  <1> HIDE DEF c, n
  <1>7. c[0] = Start /\ \A i \in 1..n : c[i] = Cut(c[i - 1], x[i], sep)
    BY <1>1, <1>6
  <1> DEFINE S == {j \in 0..n : c[j] = f[j]}
  <1>8. 0 \in S
    BY <1>1, <1>3, <1>7
  <1>9. ASSUME NEW i \in 0..(n - 1), i \in S PROVE i + 1 \in S
    <2>1. i + 1 \in 1..n /\ i + 1 \in 0..n /\ (i + 1) - 1 = i
      BY <1>1
    <2>2. c[i + 1] = Cut(c[i], x[i + 1], sep) /\ f[i + 1] = Cut(f[i], x[i + 1], sep)
      BY <1>4, <1>7, <2>1
    <2> QED BY <1>9, <2>1, <2>2
  <1>10. \A i \in 0..n : i \in S
    <2> HIDE DEF S
    <2> QED BY <1>1, <1>8, <1>9, Induction
  <1>11. n \in 0..n
    BY <1>1
  <1> QED BY <1>2, <1>3, <1>10, <1>11

\* A text in two parts.
LEMMA RunsJoin ==
    ASSUME NEW x \in Seq(Symbol), NEW y \in Seq(Symbol), NEW sep, NEW r, NEW q, NEW t,
           Runs(x, sep, r, q), Runs(y, sep, q, t)
    PROVE  Runs(x \o y, sep, r, t)
  <1> DEFINE m == Len(x)
             n == Len(y)
             z == x \o y
  <1>1. m \in Nat /\ n \in Nat /\ Len(z) = m + n /\ (\A i \in 1..m : z[i] = x[i]) /\ \A i \in 1..n : z[m + i] = y[i]
    OBVIOUS
  <1>2. PICK f : Cuts(f, x, sep) /\ f[0] = r /\ f[m] = q
    BY DEF Runs
  <1>3. PICK g : Cuts(g, y, sep) /\ g[0] = q /\ g[n] = t
    BY DEF Runs
  <1>4. f \in [0..m -> Cutting] /\ g \in [0..n -> Cutting]
    BY <1>2, <1>3 DEF Cuts
  <1>5. (\A i \in 1..m : f[i] = Cut(f[i - 1], x[i], sep)) /\ \A i \in 1..n : g[i] = Cut(g[i - 1], y[i], sep)
    BY <1>2, <1>3 DEF Cuts
  <1> HIDE DEF m, n, z
  <1> DEFINE h == [i \in 0..(m + n) |-> IF i <= m THEN f[i] ELSE g[i - m]]
  <1>6. h \in [0..(m + n) -> Cutting]
    BY <1>1, <1>4
  <1>7. \A i \in 0..m : h[i] = f[i]
    BY <1>1
  <1>8. ASSUME NEW i \in 0..n PROVE h[m + i] = g[i]
    <2>1. m + i \in 0..(m + n) /\ (m + i) - m = i
      BY <1>1
    <2>2. CASE i = 0
      <3>1. m + i = m /\ m \in 0..m
        BY <1>1, <2>2
      <3> QED BY <1>2, <1>3, <1>7, <2>2, <3>1
    <2>3. CASE i # 0
      <3>1. ~(m + i <= m)
        BY <1>1, <2>3
      <3> QED BY <2>1, <3>1
    <2> QED BY <2>2, <2>3
  <1> HIDE DEF h
  <1>9. ASSUME NEW i \in 1..(m + n) PROVE h[i] = Cut(h[i - 1], z[i], sep)
    <2>1. CASE i <= m
      <3>1. i \in 1..m /\ i \in 0..m /\ i - 1 \in 0..m
        BY <1>1, <2>1
      <3> QED BY <1>1, <1>5, <1>7, <3>1
    <2>2. CASE ~(i <= m)
      <3> DEFINE j == i - m
      <3>1. j \in 1..n /\ j \in 0..n /\ j - 1 \in 0..n /\ i = m + j /\ i - 1 = m + (j - 1)
        BY <1>1, <2>2
      <3> HIDE DEF j
      <3>2. h[i] = g[j] /\ h[i - 1] = g[j - 1] /\ z[i] = y[j]
        BY <1>1, <1>8, <3>1
      <3> QED BY <1>5, <3>1, <3>2
    <2> QED BY <2>1, <2>2
  <1>10. h[0] = r /\ h[m + n] = t
    <2>1. 0 \in 0..m /\ n \in 0..n
      BY <1>1
    <2> QED BY <1>2, <1>3, <1>7, <1>8, <2>1
  <1>11. Cuts(h, z, sep) /\ h[Len(z)] = t
    BY <1>1, <1>6, <1>9, <1>10 DEF Cuts
  <1> QED BY <1>10, <1>11 DEF Runs, z

\* The fields of a state of Strtok.
LEMMA CuttingFields ==
    ASSUME NEW r \in Cutting
    PROVE  r.out \in Seq(Seq(Symbol)) /\ r.cur \in Seq(Symbol) /\ r = [out |-> r.out, cur |-> r.cur]
  BY DEF Cutting

\* The end of a piece: an empty one is skipped.
LEMMA ClosedType ==
    ASSUME NEW r \in Cutting
    PROVE  /\ Closed(r) \in Cutting /\ Closed(r).cur = <<>>
           /\ Closed(r).out = IF r.cur = <<>> THEN r.out ELSE Append(r.out, r.cur)
  <1>1. r.out \in Seq(Seq(Symbol)) /\ r.cur \in Seq(Symbol)
    BY CuttingFields
  <1>2. CASE r.cur = <<>>
    BY <1>2 DEF Closed
  <1>3. CASE r.cur # <<>>
    <2> DEFINE o == Append(r.out, r.cur)
               z == <<>>
    <2>1. o \in Seq(Seq(Symbol)) /\ z \in Seq(Symbol)
      BY <1>1
    <2>2. Closed(r) = [out |-> o, cur |-> z]
      BY <1>3 DEF Closed
    <2> HIDE DEF o, z
    <2>3. Closed(r) \in Cutting /\ Closed(r).cur = z /\ Closed(r).out = o
      BY <2>1, <2>2 DEF Cutting
    <2> QED BY <1>3, <2>3 DEF o, z
  <1> QED BY <1>2, <1>3

\* One symbol more.
LEMMA Longer ==
    ASSUME NEW B, NEW c \in Seq(B), NEW x \in Seq(B), NEW i \in 1..Len(x)
    PROVE  /\ Append(c \o SubSeq(x, 1, i - 1), x[i]) = c \o SubSeq(x, 1, i)
           /\ c \o SubSeq(x, 1, i) \in Seq(B)
  <1> DEFINE u == SubSeq(x, 1, i - 1)
             v == SubSeq(x, 1, i)
             m == Len(c)
             s == Append(c \o u, x[i])
             t == c \o v
  <1>0. Len(x) \in Nat /\ i \in Nat /\ i >= 1 /\ i <= Len(x) /\ m \in Nat /\ x[i] \in B
    OBVIOUS
  <1>1. u \in Seq(B) /\ Len(u) = i - 1 /\ \A k \in 1..(i - 1) : u[k] = x[k]
    BY <1>0
  <1>2. v \in Seq(B) /\ Len(v) = i /\ \A k \in 1..i : v[k] = x[k]
    BY <1>0
  <1> HIDE DEF u, v, m
  <1>3. /\ s \in Seq(B) /\ Len(s) = m + i
        /\ \A k \in 1..m : s[k] = c[k]
        /\ \A k \in 1..(i - 1) : s[m + k] = x[k]
        /\ s[m + i] = x[i]
    <2> DEFINE w == c \o u
    <2>1. /\ w \in Seq(B) /\ Len(w) = m + (i - 1)
          /\ \A k \in 1..m : w[k] = c[k]
          /\ \A k \in 1..(i - 1) : w[m + k] = x[k]
      <3>1. /\ w \in Seq(B) /\ Len(w) = Len(c) + Len(u)
            /\ \A k \in 1..Len(c) : w[k] = c[k]
            /\ \A k \in 1..Len(u) : w[Len(c) + k] = u[k]
        BY ONLY <1>1, c \in Seq(B)
      <3> HIDE DEF w
      <3> QED BY <1>1, <3>1 DEF m
    <2> HIDE DEF w
    <2>2. s = Append(w, x[i])
      BY DEF w
    <2>3. Len(w) + 1 = m + i /\ Len(w) \in Nat
      BY <1>0, <2>1
    <2>4. s \in Seq(B) /\ Len(s) = m + i /\ s[m + i] = x[i] /\ \A k \in 1..Len(w) : s[k] = w[k]
      <3> HIDE DEF s
      <3> QED BY <1>0, <2>1, <2>2, <2>3
    <2>5. ASSUME NEW k \in 1..m PROVE s[k] = c[k]
      <3>1. k \in 1..Len(w)
        BY <1>0, <2>1
      <3> QED BY <2>1, <2>4, <3>1
    <2>6. ASSUME NEW k \in 1..(i - 1) PROVE s[m + k] = x[k]
      <3>1. m + k \in 1..Len(w)
        BY <1>0, <2>1
      <3> QED BY <2>1, <2>4, <3>1
    <2> QED BY <2>4, <2>5, <2>6
  <1>4. /\ t \in Seq(B) /\ Len(t) = m + i
        /\ \A k \in 1..m : t[k] = c[k]
        /\ \A k \in 1..i : t[m + k] = x[k]
    BY <1>0, <1>2 DEF m
  <1> HIDE DEF s, t
  <1>5. ASSUME NEW k \in 1..(m + i) PROVE s[k] = t[k]
    <2>1. CASE k <= m
      <3>1. k \in 1..m
        BY <1>0, <2>1
      <3> QED BY <1>3, <1>4, <3>1
    <2>2. CASE k = m + i
      <3>1. i \in 1..i
        BY <1>0
      <3> QED BY <1>3, <1>4, <2>2, <3>1
    <2>3. CASE k > m /\ k < m + i
      <3>1. k - m \in 1..(i - 1) /\ k - m \in 1..i /\ m + (k - m) = k
        BY <1>0, <2>3
      <3>2. s[k] = x[k - m] /\ t[k] = x[k - m]
        BY <1>3, <1>4, <3>1
      <3> QED BY <3>2
    <2> QED BY <1>0, <2>1, <2>2, <2>3
  <1>6. s = t
    BY <1>3, <1>4, <1>5, SeqEqual
  <1> QED BY <1>4, <1>6 DEF s, t, u, v

\* Symbols that are no separator are collected.
LEMMA RunsWord ==
    ASSUME NEW x \in Seq(Symbol), NEW sep, \A i \in 1..Len(x) : x[i] # sep, NEW r \in Cutting
    PROVE  Runs(x, sep, r, [out |-> r.out, cur |-> r.cur \o x])
  <1> DEFINE n == Len(x)
             o == r.out
             c == r.cur
             Up(i) == c \o SubSeq(x, 1, i)
             f == [i \in 0..n |-> [out |-> o, cur |-> Up(i)]]
  <1>1. n \in Nat /\ o \in Seq(Seq(Symbol)) /\ c \in Seq(Symbol) /\ r = [out |-> o, cur |-> c]
    BY CuttingFields
  <1>2. ASSUME NEW i \in 0..n PROVE Up(i) \in Seq(Symbol)
    <2>1. SubSeq(x, 1, i) \in Seq(Symbol)
      BY <1>1
    <2> QED BY <1>1, <2>1
  <1>3. Up(0) = c /\ Up(n) = c \o x
    <2>1. SubSeq(x, 1, 0) = <<>> /\ SubSeq(x, 1, n) = x
      OBVIOUS
    <2>2. c \o <<>> = c
      <3> HIDE DEF c
      <3> QED BY <1>1
    <2> QED BY <2>1, <2>2
  <1>4. ASSUME NEW i \in 1..n PROVE Up(i) = Append(Up(i - 1), x[i])
    BY <1>1, Longer
  <1> HIDE DEF Up, o, c, n
  <1>5. f \in [0..n -> Cutting]
    BY <1>1, <1>2 DEF Cutting
  <1>6. f[0] = r /\ f[n] = [out |-> o, cur |-> c \o x]
    <2>1. 0 \in 0..n /\ n \in 0..n
      BY <1>1
    <2>2. f[0] = [out |-> o, cur |-> Up(0)] /\ f[n] = [out |-> o, cur |-> Up(n)]
      BY <2>1
    <2> HIDE DEF f
    <2> QED BY <1>1, <1>3, <2>2
  <1>7. ASSUME NEW i \in 1..n PROVE f[i] = Cut(f[i - 1], x[i], sep)
    <2>1. i - 1 \in 0..n /\ i \in 0..n
      BY <1>1
    <2>2. Cut(f[i - 1], x[i], sep) = [out |-> o, cur |-> Append(Up(i - 1), x[i])]
      BY <2>1 DEF Cut, n
    <2> QED BY <1>4, <2>1, <2>2
  <1> HIDE DEF f
  <1>8. Cuts(f, x, sep)
    BY <1>5, <1>7 DEF Cuts, n
  <1> QED BY <1>6, <1>8 DEF Runs, n, o, c

\* A separator ends the piece.
LEMMA RunsSep ==
    ASSUME NEW sep, NEW r \in Cutting
    PROVE  Runs(<<sep>>, sep, r, Closed(r))
  <1> DEFINE f == [i \in 0..1 |-> IF i = 0 THEN r ELSE Closed(r)]
             x == <<sep>>
  <1>1. Len(x) = 1 /\ x[1] = sep
    OBVIOUS
  <1>2. f \in [0..1 -> Cutting] /\ f[0] = r /\ f[1] = Closed(r)
    BY ClosedType
  <1> HIDE DEF f, x
  <1>3. ASSUME NEW i \in 1..1 PROVE f[i] = Cut(f[i - 1], x[i], sep)
    <2>1. i = 1 /\ i - 1 = 0
      OBVIOUS
    <2> QED BY <1>1, <1>2, <2>1 DEF Cut
  <1>4. Cuts(f, x, sep)
    BY <1>1, <1>2, <1>3 DEF Cuts
  <1> QED BY <1>1, <1>2, <1>4 DEF Runs, x

\* The empty text.
LEMMA RunsNothing ==
    ASSUME NEW sep, NEW r \in Cutting
    PROVE  Runs(<<>>, sep, r, r)
  <1> DEFINE f == [i \in 0..0 |-> r]
             x == <<>>
  <1>1. f \in [0..0 -> Cutting] /\ f[0] = r /\ Len(x) = 0 /\ (\A i \in 1..0 : FALSE)
    OBVIOUS
  <1> HIDE DEF f, x
  <1>2. Cuts(f, x, sep)
    BY <1>1 DEF Cuts
  <1> QED BY <1>1, <1>2 DEF Runs, x

\* The state Strtok starts in.
LEMMA StartType == Start \in Cutting /\ Start.out = <<>> /\ Start.cur = <<>>
  <1> DEFINE a == <<>>
             b == <<>>
  <1>1. a \in Seq(Seq(Symbol)) /\ b \in Seq(Symbol) /\ Start = [out |-> a, cur |-> b]
    BY DEF Start
  <1> HIDE DEF a, b
  <1>2. Start \in Cutting /\ Start.out = a /\ Start.cur = b
    BY <1>1 DEF Cutting
  <1> QED BY <1>2 DEF a, b

\* The attributes of ps, one after the other, make o.
Builds(ps, o) ==
    \E f : /\ f = [i \in 0..Len(ps) |-> f[i]] /\ f[0] = NoAttributes /\ f[Len(ps)] = o
           /\ \A i \in 1..Len(ps) : f[i] = Assign(f[i - 1], ps[i])

\* What the assignments build is what SpliteStrFun makes of the pieces.
LEMMA BuildsObject ==
    ASSUME NEW ps \in Seq(Seq(Symbol)), NEW o, Builds(ps, o)
    PROVE  Object(ps) = o
  <1> DEFINE n == Len(ps)
             Def(g) == [i \in 0..n |-> IF i = 0 THEN NoAttributes ELSE Assign(g[i - 1], ps[i])]
             c == CHOOSE g : g = Def(g)
  <1>1. n \in Nat
    OBVIOUS
  <1>2. Object(ps) = c[n]
    BY DEF Object
  <1>3. PICK f : /\ f = [i \in 0..n |-> f[i]] /\ f[0] = NoAttributes /\ f[n] = o
                 /\ \A i \in 1..n : f[i] = Assign(f[i - 1], ps[i])
    BY DEF Builds
  <1>5. f = Def(f)
    <2>1. ASSUME NEW i \in 0..n PROVE f[i] = IF i = 0 THEN NoAttributes ELSE Assign(f[i - 1], ps[i])
      <3>1. i # 0 => i \in 1..n
        BY <1>1
      <3> QED BY <1>3, <3>1
    <2> QED BY <1>3, <2>1
  <1>6. c = Def(c)
    <2> HIDE DEF Def
    <2> QED BY <1>5
  <1> HIDE DEF c, n
  <1>7. c[0] = NoAttributes /\ \A i \in 1..n : c[i] = Assign(c[i - 1], ps[i])
    BY <1>1, <1>6
  <1> DEFINE S == {j \in 0..n : c[j] = f[j]}
  <1>8. 0 \in S
    BY <1>1, <1>3, <1>7
  <1>9. ASSUME NEW i \in 0..(n - 1), i \in S PROVE i + 1 \in S
    <2>1. i + 1 \in 1..n /\ i + 1 \in 0..n /\ (i + 1) - 1 = i
      BY <1>1
    <2>2. c[i + 1] = Assign(c[i], ps[i + 1]) /\ f[i + 1] = Assign(f[i], ps[i + 1])
      BY <1>3, <1>7, <2>1
    <2> QED BY <1>9, <2>1, <2>2
  <1>10. \A i \in 0..n : i \in S
    <2> HIDE DEF S
    <2> QED BY <1>1, <1>8, <1>9, Induction
  <1>11. n \in 0..n
    BY <1>1
  <1> QED BY <1>2, <1>3, <1>10, <1>11

\* Without a piece the object has no attributes.
LEMMA BuildsNothing == Builds(<<>>, NoAttributes)
  <1> DEFINE f == [i \in 0..0 |-> NoAttributes]
             x == <<>>
  <1>1. f = [i \in 0..0 |-> f[i]] /\ f[0] = NoAttributes /\ Len(x) = 0 /\ (\A i \in 1..0 : FALSE)
    OBVIOUS
  <1> HIDE DEF f, x
  <1> QED BY <1>1 DEF Builds, x

\* One piece more.
LEMMA BuildsMore ==
    ASSUME NEW ps \in Seq(Seq(Symbol)), NEW o, Builds(ps, o), NEW p \in Seq(Symbol)
    PROVE  Builds(Append(ps, p), Assign(o, p))
  <1> DEFINE n == Len(ps)
             z == Append(ps, p)
             q == Assign(o, p)
  <1>1. n \in Nat /\ Len(z) = n + 1 /\ z[n + 1] = p /\ \A i \in 1..n : z[i] = ps[i]
    OBVIOUS
  <1>2. PICK f : /\ f = [i \in 0..n |-> f[i]] /\ f[0] = NoAttributes /\ f[n] = o
                 /\ \A i \in 1..n : f[i] = Assign(f[i - 1], ps[i])
    BY DEF Builds
  <1> DEFINE g == [i \in 0..(n + 1) |-> IF i = n + 1 THEN q ELSE f[i]]
  <1> HIDE DEF n, z
  <1>3. g = [i \in 0..(n + 1) |-> g[i]] /\ g[n + 1] = q /\ \A i \in 0..n : g[i] = f[i]
    BY <1>1
  <1> HIDE DEF g
  <1>4. ASSUME NEW i \in 1..(n + 1) PROVE g[i] = Assign(g[i - 1], z[i])
    <2>0. i - 1 \in 0..n
      BY <1>1
    <2>1. CASE i = n + 1
      <3>1. i - 1 = n
        BY <1>1, <2>1
      <3> QED BY <1>1, <1>2, <1>3, <2>0, <2>1, <3>1
    <2>2. CASE i # n + 1
      <3>1. i \in 1..n /\ i \in 0..n
        BY <1>1, <2>2
      <3> QED BY <1>1, <1>2, <1>3, <2>0, <3>1
    <2> QED BY <2>1, <2>2
  <1>5. g[0] = NoAttributes
    <2>1. 0 \in 0..n
      BY <1>1
    <2> QED BY <1>2, <1>3, <2>1
  <1>6. Builds(z, q)
    BY <1>1, <1>3, <1>4, <1>5 DEF Builds
  <1> QED BY <1>6 DEF z

\* A value without separators, and the text of an attribute without its "|".
Value == {v \in Seq(Symbol) : \A i \in 1..Len(v) : v[i] \notin Separators}
Piece(w, v) == <<w, ":">> \o v

\* The elements of a concatenation.
LEMMA Joined ==
    ASSUME NEW B, NEW a \in Seq(B), NEW b \in Seq(B)
    PROVE  /\ a \o b \in Seq(B) /\ Len(a \o b) = Len(a) + Len(b)
           /\ (\A i \in 1..Len(a) : (a \o b)[i] = a[i]) /\ \A i \in 1..Len(b) : (a \o b)[Len(a) + i] = b[i]
  OBVIOUS

\* A sequence of two.
LEMMA Pair == ASSUME NEW B, NEW x \in B, NEW y \in B PROVE Append(<<x>>, y) = <<x, y>>
  <1> DEFINE a == <<x>>
             s == Append(a, y)
             t == <<x, y>>
  <1>1. a \in Seq(B) /\ Len(a) = 1 /\ a[1] = x
    OBVIOUS
  <1>2. t \in Seq(B) /\ Len(t) = 2 /\ t[1] = x /\ t[2] = y
    OBVIOUS
  <1> HIDE DEF a, t
  <1>3. s \in Seq(B) /\ Len(s) = Len(a) + 1 /\ s[Len(a) + 1] = y /\ \A i \in 1..Len(a) : s[i] = a[i]
    <2>1. a \in Seq(B)
      BY <1>1
    <2> QED BY <2>1
  <1> HIDE DEF s
  <1>4. Len(s) = 2 /\ s[2] = y /\ s[1] = x
    BY <1>1, <1>3
  <1>5. \A i \in 1..2 : s[i] = t[i]
    BY <1>2, <1>4
  <1>6. s = t
    BY <1>2, <1>3, <1>4, <1>5, SeqEqual
  <1> QED BY <1>6 DEF s, t, a

\* The text of an attribute has a name, and no separator but its ":".
LEMMA PieceSymbols ==
    ASSUME NEW w \in Range(Words), NEW v \in Value
    PROVE  /\ Piece(w, v) \in Seq(Symbol) /\ Piece(w, v) # <<>>
           /\ \A i \in 1..Len(Piece(w, v)) : Piece(w, v)[i] \notin {"|", "&"}
           /\ w \in Symbol /\ w \notin Separators /\ ":" \in Symbol /\ "|" \in Symbol /\ "&" \in Symbol
  <1> DEFINE a == <<w, ":">>
             p == a \o v
             n == Len(v)
  <1>1. w \in Symbol /\ w \notin Separators /\ ":" \in Symbol /\ "|" \in Symbol /\ "&" \in Symbol
    BY WordsAssumption DEF Symbol, Separators
  <1>2. v \in Seq(Symbol) /\ n \in Nat /\ \A i \in 1..n : v[i] \notin Separators
    BY DEF Value
  <1>3. a \in Seq(Symbol) /\ Len(a) = 2 /\ a[1] = w /\ a[2] = ":"
    BY <1>1
  <1> HIDE DEF a
  <1>4. p \in Seq(Symbol) /\ Len(p) = 2 + n /\ p[1] = w /\ p[2] = ":" /\ \A i \in 1..n : p[2 + i] = v[i]
    <2>1. /\ p \in Seq(Symbol) /\ Len(p) = Len(a) + Len(v)
          /\ (\A i \in 1..Len(a) : p[i] = a[i]) /\ \A i \in 1..Len(v) : p[Len(a) + i] = v[i]
      <3>1. a \in Seq(Symbol) /\ v \in Seq(Symbol)
        BY <1>2, <1>3
      <3>2. /\ a \o v \in Seq(Symbol) /\ Len(a \o v) = Len(a) + Len(v)
            /\ (\A i \in 1..Len(a) : (a \o v)[i] = a[i]) /\ \A i \in 1..Len(v) : (a \o v)[Len(a) + i] = v[i]
        BY <3>1, Joined
      <3> QED BY <3>2
    <2> HIDE DEF p
    <2>2. 1 \in 1..Len(a) /\ 2 \in 1..Len(a)
      BY <1>3
    <2>3. p[1] = w /\ p[2] = ":"
      BY <1>3, <2>1, <2>2
    <2> QED BY <1>3, <2>1, <2>3
  <1> HIDE DEF p, n
  <1>5. ASSUME NEW i \in 1..Len(p) PROVE p[i] \notin {"|", "&"}
    <2>1. CASE i = 1
      BY <1>1, <1>4, <2>1 DEF Separators
    <2>2. CASE i = 2
      BY <1>4, <2>2
    <2>3. CASE i > 2
      <3>1. i - 2 \in 1..n /\ 2 + (i - 2) = i
        BY <1>2, <1>4, <2>3
      <3>2. p[i] = v[i - 2]
        BY <1>4, <3>1
      <3> QED BY <1>2, <3>1, <3>2 DEF Separators
    <2> QED BY <1>4, <1>2, <2>1, <2>2, <2>3
  <1>6. p # <<>>
    BY <1>2, <1>4
  <1>7. Piece(w, v) = p
    BY DEF Piece, p, a
  <1> QED BY <1>1, <1>4, <1>5, <1>6, <1>7

\* Strtok cuts an attribute into its name and its value, if it has one.
LEMMA PieceCut ==
    ASSUME NEW w \in Range(Words), NEW v \in Value
    PROVE  Strtok(Piece(w, v), ":") = IF v = <<>> THEN << <<w>> >> ELSE << <<w>>, v >>
  <1> DEFINE a == <<w>>
             s == <<":">>
             r1 == [out |-> Start.out, cur |-> Start.cur \o a]
             r2 == Closed(r1)
             r3 == [out |-> r2.out, cur |-> r2.cur \o v]
  <1>1. w \in Symbol /\ w # ":" /\ ":" \in Symbol /\ v \in Seq(Symbol) /\ \A i \in 1..Len(v) : v[i] # ":"
    BY PieceSymbols DEF Value, Separators
  <1>2. a \in Seq(Symbol) /\ s \in Seq(Symbol) /\ (\A i \in 1..Len(a) : a[i] # ":") /\ a # <<>>
    BY <1>1
  <1>3. Runs(a, ":", Start, r1)
    <2> HIDE DEF a
    <2> QED BY <1>2, StartType, RunsWord
  <1>4. r1 \in Cutting /\ r1.cur = a /\ r1.out = <<>>
    <2> HIDE DEF a
    <2>1. Start.cur \o a = a /\ Start.out = <<>> /\ Start.out \in Seq(Seq(Symbol))
      BY <1>2, StartType, CuttingFields
    <2> DEFINE e == Start.out
               d == Start.cur \o a
    <2>2. e \in Seq(Seq(Symbol)) /\ d \in Seq(Symbol)
      BY <1>2, <2>1
    <2> HIDE DEF e, d
    <2>3. [out |-> e, cur |-> d] \in Cutting
      BY <2>2 DEF Cutting
    <2> QED BY <2>1, <2>3 DEF e, d
  <1> HIDE DEF r1
  <1>5. r2 \in Cutting /\ r2.cur = <<>> /\ r2.out = <<a>>
    <2>1. r2 \in Cutting /\ r2.cur = <<>> /\ r2.out = Append(<<>>, a)
      BY <1>2, <1>4, ClosedType
    <2> QED BY <2>1
  <1>6. Runs(s, ":", r1, r2)
    BY <1>4, RunsSep
  <1> HIDE DEF r2
  <1>7. Runs(v, ":", r2, r3)
    BY <1>1, <1>5, RunsWord
  <1>8. r3.out = <<a>> /\ r3.cur = v /\ r3 \in Cutting
    <2>1. r2.cur \o v = v
      BY <1>1, <1>5
    <2>2. r3 = [out |-> r2.out, cur |-> v]
      BY <2>1
    <2> HIDE DEF r3
    <2>3. r2.out \in Seq(Seq(Symbol))
      BY <1>5, CuttingFields
    <2>4. r3 \in Cutting
      BY <1>1, <2>2, <2>3 DEF Cutting
    <2> QED BY <1>5, <2>2, <2>4
  <1> HIDE DEF r3
  <1>9. Runs((a \o s) \o v, ":", Start, r3)
    <2> HIDE DEF a, s
    <2>1. Runs(a \o s, ":", Start, r2) /\ a \o s \in Seq(Symbol)
      BY <1>2, <1>3, <1>6, RunsJoin
    <2> QED BY <1>1, <1>7, <2>1, RunsJoin
  <1>10. Piece(w, v) = (a \o s) \o v
    <2>1. a \o s = Append(a, ":")
      <3> HIDE DEF a
      <3> QED BY <1>1, <1>2, AppendIsConcat
    <2>2. Append(a, ":") = <<w, ":">>
      BY <1>1, Pair
    <2> QED BY <2>1, <2>2 DEF Piece
  <1>11. Strtok(Piece(w, v), ":") = Closed(r3).out
    BY <1>9, <1>10, PieceSymbols, RunsStrtok
  <1>12. Closed(r3).out = IF v = <<>> THEN <<a>> ELSE Append(<<a>>, v)
    BY <1>8, ClosedType
  <1> QED BY <1>11, <1>12

\* The object with one attribute set.
Put(o, w, v) == [k \in DOMAIN o \cup {w} |-> IF k # w THEN o[k] ELSE v]

\* jTmp[name] = value puts the attribute into the object.
LEMMA AssignPiece ==
    ASSUME NEW w \in Range(Words), NEW v \in Value, NEW o
    PROVE  Assign(o, Piece(w, v)) = Put(o, w, v)
  <1> DEFINE s == Strtok(Piece(w, v), ":")
  <1>1. s = IF v = <<>> THEN << <<w>> >> ELSE << <<w>>, v >>
    BY PieceCut
  <1>2. Assign(o, Piece(w, v)) = IF s = <<>> THEN o
            ELSE [k \in DOMAIN o \cup {s[1][1]} |->
                    IF k # s[1][1] THEN o[k] ELSE IF Len(s) = 1 THEN <<>> ELSE s[2]]
    BY DEF Assign
  <1> HIDE DEF s
  <1>3. CASE v = <<>>
    <2>1. s # <<>> /\ s[1][1] = w /\ Len(s) = 1
      BY <1>1, <1>3
    <2> QED BY <1>2, <1>3, <2>1 DEF Put
  <1>4. CASE v # <<>>
    <2>1. s # <<>> /\ s[1][1] = w /\ Len(s) # 1 /\ s[2] = v
      BY <1>1, <1>4
    <2> QED BY <1>2, <1>4, <2>1 DEF Put
  <1> QED BY <1>3, <1>4

\* Strtok between two pieces.
At(ps) == [out |-> ps, cur |-> <<>>]

\* The fields of such a state.
LEMMA AtType ==
    ASSUME NEW ps \in Seq(Seq(Symbol))
    PROVE  At(ps) \in Cutting /\ At(ps).out = ps /\ At(ps).cur = <<>>
  <1> DEFINE z == <<>>
  <1>1. z \in Seq(Symbol) /\ At(ps) = [out |-> ps, cur |-> z]
    BY DEF At
  <1> HIDE DEF z
  <1>2. At(ps) \in Cutting /\ At(ps).out = ps /\ At(ps).cur = z
    BY <1>1 DEF Cutting
  <1> QED BY <1>2 DEF z

\* A piece and the separator behind it add the piece.
LEMMA RunsPiece ==
    ASSUME NEW sep \in Symbol, NEW ps \in Seq(Seq(Symbol)),
           NEW p \in Seq(Symbol), p # <<>>, \A i \in 1..Len(p) : p[i] # sep
    PROVE  /\ Runs(p \o <<sep>>, sep, At(ps), At(Append(ps, p))) /\ p \o <<sep>> \in Seq(Symbol)
           /\ Append(ps, p) \in Seq(Seq(Symbol))
  <1> DEFINE r == At(ps)
             q == [out |-> r.out, cur |-> r.cur \o p]
             s == <<sep>>
  <1>1. r \in Cutting /\ r.out = ps /\ r.cur = <<>>
    BY AtType
  <1> HIDE DEF r
  <1>2. q = [out |-> ps, cur |-> p]
    <2>1. r.cur \o p = p
      BY <1>1
    <2> QED BY <1>1, <2>1
  <1>3. Runs(p, sep, r, q)
    BY <1>1, RunsWord
  <1> HIDE DEF q
  <1>4. q \in Cutting /\ q.out = ps /\ q.cur = p
    BY <1>2 DEF Cutting
  <1>5. Closed(q) = At(Append(ps, p))
    BY <1>4 DEF Closed, At
  <1>6. Runs(s, sep, q, Closed(q)) /\ s \in Seq(Symbol)
    BY <1>4, RunsSep
  <1> HIDE DEF s
  <1>7. Runs(p \o s, sep, r, Closed(q)) /\ p \o s \in Seq(Symbol)
    BY <1>3, <1>6, RunsJoin
  <1> QED BY <1>5, <1>7 DEF r, s

\* Cutting x at "|" and assigning the pieces gives o.
Reads(x, o) == \E ps \in Seq(Seq(Symbol)) : Runs(x, "|", Start, At(ps)) /\ Builds(ps, o)

\* It is what SpliteStrFun does with a group.
LEMMA ReadsObject ==
    ASSUME NEW x \in Seq(Symbol), NEW o, Reads(x, o)
    PROVE  Object(Strtok(x, "|")) = o
  <1>1. PICK ps \in Seq(Seq(Symbol)) : Runs(x, "|", Start, At(ps)) /\ Builds(ps, o)
    BY DEF Reads
  <1>2. Closed(At(ps)).out = ps
    BY AtType, ClosedType
  <1>3. Strtok(x, "|") = ps
    BY <1>1, <1>2, RunsStrtok
  <1> QED BY <1>1, <1>3, BuildsObject

\* The empty text is read as no attributes.
LEMMA ReadsNothing == Reads(<<>>, NoAttributes)
  <1> DEFINE e == <<>>
             z == <<>>
  <1>1. e \in Seq(Seq(Symbol)) /\ At(e) = Start
    BY DEF At, Start
  <1>2. Builds(e, NoAttributes)
    BY BuildsNothing
  <1>3. Runs(z, "|", Start, Start)
    BY RunsNothing, StartType
  <1> HIDE DEF e, z
  <1>4. Reads(z, NoAttributes)
    BY <1>1, <1>2, <1>3 DEF Reads
  <1> QED BY <1>4 DEF z

\* One attribute more in the text is one attribute more in the object.
LEMMA ReadsMore ==
    ASSUME NEW x \in Seq(Symbol), NEW o, Reads(x, o), NEW w \in Range(Words), NEW v \in Value
    PROVE  /\ x \o (Piece(w, v) \o <<"|">>) \in Seq(Symbol) /\ Piece(w, v) \o <<"|">> \in Seq(Symbol)
           /\ Reads(x \o (Piece(w, v) \o <<"|">>), Put(o, w, v))
  <1> DEFINE p == Piece(w, v)
             y == p \o <<"|">>
             q == Put(o, w, v)
  <1>1. PICK ps \in Seq(Seq(Symbol)) : Runs(x, "|", Start, At(ps)) /\ Builds(ps, o)
    BY DEF Reads
  <1>2. "|" \in Symbol /\ p \in Seq(Symbol) /\ p # <<>> /\ \A i \in 1..Len(p) : p[i] # "|"
    BY PieceSymbols
  <1>3. q = Assign(o, p)
    BY AssignPiece
  <1> HIDE DEF p, q
  <1>4. Runs(y, "|", At(ps), At(Append(ps, p))) /\ y \in Seq(Symbol) /\ Append(ps, p) \in Seq(Seq(Symbol))
    BY <1>2, RunsPiece
  <1> HIDE DEF y
  <1>5. Runs(x \o y, "|", Start, At(Append(ps, p))) /\ x \o y \in Seq(Symbol)
    BY <1>1, <1>4, RunsJoin
  <1>6. Builds(Append(ps, p), q)
    BY <1>1, <1>2, <1>3, BuildsMore
  <1>7. Reads(x \o y, q)
    BY <1>4, <1>5, <1>6 DEF Reads
  <1> QED BY <1>4, <1>5, <1>7 DEF q, y, p

\* The attributes of obj among the first i words.
Part(obj, i) == [k \in {w \in DOMAIN obj : \E j \in 1..i : Words[j] = w} |-> obj[k]]

\* Objects as they can be read back: no value contains a separator.
CleanObject(obj) == DOMAIN obj \subseteq Range(Words) /\ obj \in [DOMAIN obj -> Value]

\* The next word adds its attribute, if the object has it.
LEMMA PartMore ==
    ASSUME NEW obj, NEW i \in 1..Len(Words)
    PROVE  /\ Words[i] \notin DOMAIN obj => Part(obj, i) = Part(obj, i - 1)
           /\ Words[i] \in DOMAIN obj =>
                Part(obj, i) = Put(Part(obj, i - 1), Words[i], obj[Words[i]])
  <1> DEFINE n == Len(Words)
             W(m) == {w \in DOMAIN obj : \E j \in 1..m : Words[j] = w}
             w == Words[i]
  <1>0. n \in Nat
    BY WordsAssumption
  <1>1. ASSUME NEW k PROVE (\E j \in 1..i : Words[j] = k) <=> k = w \/ \E j \in 1..(i - 1) : Words[j] = k
    <2> HIDE DEF n
    <2>1. i \in Nat /\ i \in 1..i /\ (\A j \in 1..(i - 1) : j \in 1..i) /\ \A j \in 1..i : j # i => j \in 1..(i - 1)
      BY <1>0
    <2> QED BY <2>1
  <1>2. W(i) = IF w \in DOMAIN obj THEN W(i - 1) \cup {w} ELSE W(i - 1)
    BY <1>1
  <1>3. Part(obj, i) = [k \in W(i) |-> obj[k]] /\ Part(obj, i - 1) = [k \in W(i - 1) |-> obj[k]]
    BY DEF Part
  <1> HIDE DEF W, w
  <1>4. DOMAIN Part(obj, i - 1) = W(i - 1) /\ \A k \in W(i - 1) : Part(obj, i - 1)[k] = obj[k]
    BY <1>3
  <1>5. CASE w \notin DOMAIN obj
    BY <1>2, <1>3, <1>5 DEF w
  <1>6. CASE w \in DOMAIN obj
    <2> DEFINE q == [k \in W(i - 1) \cup {w} |-> IF k # w THEN Part(obj, i - 1)[k] ELSE obj[w]]
    <2>1. q = [k \in W(i - 1) \cup {w} |-> obj[k]]
      BY <1>4
    <2>2. Part(obj, i) = q
      BY <1>2, <1>3, <1>6, <2>1
    <2> QED BY <1>4, <1>6, <2>2 DEF w, Put
  <1> QED BY <1>5, <1>6

\* All words give the object.
LEMMA PartAll ==
    ASSUME NEW obj, CleanObject(obj)
    PROVE  Part(obj, Len(Words)) = obj
  <1>1. \A w \in DOMAIN obj : \E j \in 1..Len(Words) : Words[j] = w
    BY WordsAssumption DEF CleanObject, Range
  <1>2. {w \in DOMAIN obj : \E j \in 1..Len(Words) : Words[j] = w} = DOMAIN obj
    BY <1>1
  <1> QED BY <1>2 DEF Part, CleanObject

\* No word gives none.
LEMMA PartNone == ASSUME NEW obj PROVE Part(obj, 0) = NoAttributes
  <1>1. {w \in DOMAIN obj : \E j \in 1..0 : Words[j] = w} = {}
    OBVIOUS
  <1>2. Part(obj, 0) = [k \in {} |-> obj[k]]
    BY <1>1 DEF Part
  <1> QED BY <1>2 DEF NoAttributes

\* The text of an object has no "&" and is read back as the object.
Plain(x) == \A i \in 1..Len(x) : x[i] # "&"

\* Two parts without "&".
LEMMA PlainJoin ==
    ASSUME NEW x \in Seq(Symbol), NEW y \in Seq(Symbol), Plain(x), Plain(y)
    PROVE  Plain(x \o y)
  <1> DEFINE z == x \o y
             m == Len(x)
             n == Len(y)
  <1>1. Len(z) = m + n /\ (\A i \in 1..m : z[i] = x[i]) /\ \A i \in 1..n : z[m + i] = y[i]
    BY Joined
  <1>2. m \in Nat /\ n \in Nat
    OBVIOUS
  <1>3. (\A i \in 1..m : x[i] # "&") /\ \A i \in 1..n : y[i] # "&"
    BY DEF Plain
  <1> HIDE DEF z, m, n
  <1>4. ASSUME NEW i \in 1..(m + n) PROVE z[i] # "&"
    <2>1. CASE i <= m
      <3>1. i \in 1..m
        BY <1>2, <2>1
      <3> QED BY <1>1, <1>3, <3>1
    <2>2. CASE i > m
      <3>1. i - m \in 1..n /\ m + (i - m) = i
        BY <1>2, <2>2
      <3>2. z[i] = y[i - m]
        BY <1>1, <3>1
      <3> QED BY <1>3, <3>1, <3>2
    <2> QED BY <1>2, <2>1, <2>2
  <1>5. Plain(z)
    BY <1>1, <1>4 DEF Plain
  <1> QED BY <1>5 DEF z

\* The text of an attribute has no "&".
LEMMA AttributeSymbols ==
    ASSUME NEW obj, CleanObject(obj), NEW w \in Range(Words)
    PROVE  Attribute(obj, w) \in Seq(Symbol) /\ Plain(Attribute(obj, w))
  <1>1. CASE w \notin DOMAIN obj
    <2> DEFINE z == <<>>
    <2>1. z \in Seq(Symbol) /\ Plain(z)
      BY DEF Plain
    <2>2. Attribute(obj, w) = z
      BY <1>1 DEF Attribute
    <2> HIDE DEF z
    <2> QED BY <2>1, <2>2
  <1>2. CASE w \in DOMAIN obj
    <2> DEFINE p == Piece(w, obj[w])
               s == <<"|">>
    <2>1. obj[w] \in Value
      BY <1>2 DEF CleanObject
    <2>2. p \in Seq(Symbol) /\ Plain(p) /\ "|" \in Symbol
      BY <2>1, PieceSymbols DEF Plain
    <2>3. s \in Seq(Symbol) /\ Plain(s)
      BY <2>2 DEF Plain
    <2>4. Attribute(obj, w) = p \o s
      BY <1>2 DEF Attribute, Piece
    <2> HIDE DEF p, s
    <2> QED BY <2>2, <2>3, <2>4, PlainJoin
  <1> QED BY <1>1, <1>2

\* The text of an object has no "&", and reading it gives the object.
LEMMA ObjectText ==
    ASSUME NEW obj, CleanObject(obj)
    PROVE  /\ ParseSubElmFun(obj) \in Seq(Symbol) /\ Plain(ParseSubElmFun(obj))
           /\ Reads(ParseSubElmFun(obj), obj)
  <1> DEFINE n == Len(Words)
             s == [i \in 1..n |-> Attribute(obj, Words[i])]
  <1>1. n \in Nat /\ \A i \in 1..n : Words[i] \in Range(Words)
    BY WordsAssumption
  <1>2. s \in Seq(Seq(Symbol)) /\ Len(s) = n
    <2>1. \A i \in 1..n : Attribute(obj, Words[i]) \in Seq(Symbol)
      BY <1>1, AttributeSymbols
    <2> HIDE DEF n
    <2> QED BY <1>1, <2>1, IsASeq
  <1>3. \A i \in 1..n : s[i] = Attribute(obj, Words[i])
    OBVIOUS
  <1>4. ParseSubElmFun(obj) = FlattenSeq(s)
    BY DEF ParseSubElmFun
  <1> HIDE DEF s, n
  <1>4a. PICK f : /\ f \in [0..Len(s) -> Seq(Symbol)] /\ f[0] = <<>> /\ f[Len(s)] = FlattenSeq(s)
                 /\ \A i \in 1..Len(s) : f[i] = f[i - 1] \o s[i]
    <2>1. s \in Seq(Seq(Symbol))
      BY <1>2
    <2> QED BY <2>1, FlattenSteps
  <1>5. /\ f \in [0..n -> Seq(Symbol)] /\ f[0] = <<>> /\ f[n] = FlattenSeq(s)
        /\ \A i \in 1..n : f[i] = f[i - 1] \o s[i]
    BY <1>2, <1>4a
  <1> DEFINE S == {i \in 0..n : Plain(f[i]) /\ Reads(f[i], Part(obj, i))}
  <1>6. 0 \in S
    <2>1. Plain(<<>>)
      BY DEF Plain
    <2> QED BY <1>1, <1>5, <2>1, ReadsNothing, PartNone
  <1>7. ASSUME NEW j \in 0..(n - 1), j \in S PROVE j + 1 \in S
    <2> DEFINE i == j + 1
               w == Words[i]
               x == f[j]
               a == Attribute(obj, w)
    <2>1. i \in 1..n /\ i \in 0..n /\ i - 1 = j /\ j \in 0..n
      BY <1>1
    <2>2. w \in Range(Words) /\ x \in Seq(Symbol) /\ f[i] = x \o a /\ Plain(x) /\ Reads(x, Part(obj, j))
      BY <1>1, <1>3, <1>5, <1>7, <2>1
    <2>3. a \in Seq(Symbol) /\ Plain(a)
      BY <2>2, AttributeSymbols
    <2> HIDE DEF x, i
    <2>4. Plain(f[i])
      <3> HIDE DEF a
      <3> QED BY <2>2, <2>3, PlainJoin
    <2>5. Reads(f[i], Part(obj, i))
      <3>1. CASE w \notin DOMAIN obj
        <4>1. a = <<>>
          BY <3>1 DEF Attribute
        <4>2. x \o a = x
          BY <2>2, <4>1
        <4>3. Part(obj, i) = Part(obj, j)
          BY <2>1, <3>1, PartMore DEF n
        <4> QED BY <2>2, <4>2, <4>3
      <3>2. CASE w \in DOMAIN obj
        <4> DEFINE o == Part(obj, j)
                   v == obj[w]
        <4>1. v \in Value
          BY <3>2 DEF CleanObject
        <4>2. a = Piece(w, v) \o <<"|">>
          BY <3>2 DEF Attribute, Piece
        <4>3. Part(obj, i) = Put(o, w, v)
          <5>1. i \in 1..Len(Words)
            BY <2>1 DEF n
          <5>2. Part(obj, i) = Put(Part(obj, i - 1), Words[i], obj[Words[i]])
            BY <3>2, <5>1, PartMore
          <5> QED BY <2>1, <5>2
        <4> HIDE DEF o, v, w, a
        <4>4. Reads(x, o)
          BY <2>2 DEF o
        <4>5. Reads(x \o a, Put(o, w, v))
          <5>1. w \in Range(Words) /\ x \in Seq(Symbol)
            BY <2>2
          <5>2. Reads(x \o (Piece(w, v) \o <<"|">>), Put(o, w, v))
            BY <4>1, <4>4, <5>1, ReadsMore
          <5> QED BY <4>2, <5>2
        <4> QED BY <2>2, <4>3, <4>5
      <3> QED BY <3>1, <3>2
    <2> QED BY <2>1, <2>4, <2>5 DEF i
  <1>8. n \in S
    <2> HIDE DEF S
    <2>1. \A i \in 0..n : i \in S
      BY <1>1, <1>6, <1>7, Induction
    <2> QED BY <1>1, <2>1
  <1>9. Part(obj, n) = obj
    BY PartAll DEF n
  <1>10. f[n] \in Seq(Symbol)
    BY <1>1, <1>5
  <1> QED BY <1>4, <1>5, <1>8, <1>9, <1>10

\* An object is read back, and only one without attributes has no text.
LEMMA ObjectBack ==
    ASSUME NEW obj, CleanObject(obj)
    PROVE  /\ Object(Strtok(ParseSubElmFun(obj), "|")) = obj
           /\ ParseSubElmFun(obj) = <<>> => obj = NoAttributes
  <1>1. ASSUME NEW o, Reads(ParseSubElmFun(obj), o) PROVE Object(Strtok(ParseSubElmFun(obj), "|")) = o
    BY <1>1, ObjectText, ReadsObject
  <1>2. Object(Strtok(ParseSubElmFun(obj), "|")) = obj
    BY <1>1, ObjectText
  <1>3. ASSUME ParseSubElmFun(obj) = <<>> PROVE obj = NoAttributes
    <2>1. Reads(ParseSubElmFun(obj), NoAttributes)
      BY <1>3, ReadsNothing
    <2> QED BY <1>1, <1>2, <2>1
  <1> QED BY <1>2, <1>3

\* The texts of the first i objects.
Texts(objs, i) == [j \in 1..i |-> ParseSubElmFun(objs[j])]

\* One text more.
LEMMA TextsMore ==
    ASSUME NEW objs, NEW i \in Nat, \A j \in 1..(i + 1) : ParseSubElmFun(objs[j]) \in Seq(Symbol)
    PROVE  /\ Texts(objs, i) \in Seq(Seq(Symbol))
           /\ Texts(objs, i + 1) = Append(Texts(objs, i), ParseSubElmFun(objs[i + 1]))
  <1> DEFINE t(j) == ParseSubElmFun(objs[j])
             a == [j \in 1..i |-> t(j)]
             b == [j \in 1..(i + 1) |-> t(j)]
             c == Append(a, t(i + 1))
  <1>0. \A j \in 1..(i + 1) : t(j) \in Seq(Symbol)
    OBVIOUS
  <1> HIDE DEF t
  <1>1. a \in Seq(Seq(Symbol)) /\ Len(a) = i /\ \A j \in 1..i : a[j] = t(j)
    BY <1>0, IsASeq
  <1>2. b \in Seq(Seq(Symbol)) /\ Len(b) = i + 1 /\ \A j \in 1..(i + 1) : b[j] = t(j)
    BY <1>0, IsASeq
  <1> HIDE DEF a, b
  <1>3. t(i + 1) \in Seq(Symbol)
    BY <1>0
  <1>4. c \in Seq(Seq(Symbol)) /\ Len(c) = i + 1 /\ c[i + 1] = t(i + 1) /\ \A j \in 1..i : c[j] = a[j]
    <2>1. /\ c \in Seq(Seq(Symbol)) /\ Len(c) = Len(a) + 1 /\ c[Len(a) + 1] = t(i + 1)
          /\ \A j \in 1..Len(a) : c[j] = a[j]
      <3>1. a \in Seq(Seq(Symbol))
        BY <1>1
      <3> HIDE DEF t
      <3> QED BY <1>3, <3>1, AppendProperties
    <2> HIDE DEF c
    <2> QED BY <1>1, <2>1
  <1> HIDE DEF c
  <1>5. \A j \in 1..(i + 1) : b[j] = c[j]
    BY <1>1, <1>2, <1>4
  <1>6. b = c
    BY <1>2, <1>4, <1>5, SeqEqual
  <1> QED BY <1>1, <1>6 DEF a, b, c, t, Texts

\* A column of objects none of which has an empty text is cut into these texts.
LEMMA ColumnCut ==
    ASSUME NEW B, NEW objs \in Seq(B), \A i \in 1..Len(objs) : CleanObject(objs[i]),
           \A i \in 1..Len(objs) : ParseSubElmFun(objs[i]) # <<>>
    PROVE  Strtok(Column(objs), "&") = Texts(objs, Len(objs))
  <1> DEFINE n == Len(objs)
             t(j) == ParseSubElmFun(objs[j])
             s == [i \in 1..n |-> t(i) \o <<"&">>]
  <1>1. n \in Nat
    OBVIOUS
  <1>2. ASSUME NEW i \in 1..n PROVE t(i) \in Seq(Symbol) /\ t(i) # <<>> /\ \A j \in 1..Len(t(i)) : t(i)[j] # "&"
    <2>1. t(i) \in Seq(Symbol) /\ Plain(t(i))
      BY ObjectText
    <2> QED BY <2>1 DEF Plain
  <1>3. "&" \in Symbol
    BY DEF Symbol, Separators
  <1>4. Column(objs) = FlattenSeq(s)
    BY DEF Column
  <1>5. \A i \in 1..n : s[i] = t(i) \o <<"&">>
    OBVIOUS
  <1> HIDE DEF t, n
  <1>6. \A i \in 1..n : t(i) \o <<"&">> \in Seq(Symbol)
    <2> DEFINE z == <<"&">>
    <2>1. z \in Seq(Symbol)
      BY <1>3
    <2> HIDE DEF z
    <2>2. \A i \in 1..n : t(i) \o z \in Seq(Symbol)
      BY <1>2, <2>1
    <2> QED BY <2>2 DEF z
  <1>7. s \in Seq(Seq(Symbol)) /\ Len(s) = n
    BY <1>1, <1>6, IsASeq
  <1> HIDE DEF s
  <1>8. PICK f : /\ f \in [0..Len(s) -> Seq(Symbol)] /\ f[0] = <<>> /\ f[Len(s)] = FlattenSeq(s)
                 /\ \A i \in 1..Len(s) : f[i] = f[i - 1] \o s[i]
    <2>1. s \in Seq(Seq(Symbol))
      BY <1>7
    <2> QED BY <2>1, FlattenSteps
  <1>9. /\ f \in [0..n -> Seq(Symbol)] /\ f[0] = <<>> /\ f[n] = FlattenSeq(s)
        /\ \A i \in 1..n : f[i] = f[i - 1] \o s[i]
    BY <1>7, <1>8
  <1> DEFINE S == {i \in 0..n : Runs(f[i], "&", Start, At(Texts(objs, i))) /\ Texts(objs, i) \in Seq(Seq(Symbol))}
  <1>10. 0 \in S
    <2>1. Texts(objs, 0) = <<>>
      BY DEF Texts
    <2>2. At(<<>>) = Start
      BY DEF At, Start
    <2>3. Runs(<<>>, "&", Start, Start)
      BY RunsNothing, StartType
    <2>4. <<>> \in Seq(Seq(Symbol))
      OBVIOUS
    <2> QED BY <1>1, <1>9, <2>1, <2>2, <2>3, <2>4
  <1>11. ASSUME NEW j \in 0..(n - 1), j \in S PROVE j + 1 \in S
    <2> DEFINE i == j + 1
               x == f[j]
               y == t(i) \o <<"&">>
               ps == Texts(objs, j)
    <2>1. i \in 1..n /\ i \in 0..n /\ i - 1 = j /\ j \in 0..n /\ j \in Nat /\ \A k \in 1..i : k \in 1..n
      BY <1>1
    <2>2. x \in Seq(Symbol) /\ f[i] = x \o y /\ Runs(x, "&", Start, At(ps)) /\ ps \in Seq(Seq(Symbol))
      BY <1>5, <1>9, <1>11, <2>1
    <2>3. Texts(objs, i) = Append(ps, t(i))
      <3>1. \A k \in 1..(j + 1) : ParseSubElmFun(objs[k]) \in Seq(Symbol)
        BY <1>2, <2>1 DEF t
      <3> QED BY <2>1, <3>1, TextsMore DEF t
    <2> HIDE DEF x, i, ps
    <2>4. t(i) \in Seq(Symbol) /\ t(i) # <<>> /\ \A k \in 1..Len(t(i)) : t(i)[k] # "&"
      BY <1>2, <2>1
    <2>5. Runs(y, "&", At(ps), At(Append(ps, t(i)))) /\ y \in Seq(Symbol) /\ Append(ps, t(i)) \in Seq(Seq(Symbol))
      BY <1>3, <2>2, <2>4, RunsPiece
    <2> HIDE DEF y
    <2>6. Runs(x \o y, "&", Start, At(Append(ps, t(i))))
      BY <2>2, <2>5, RunsJoin
    <2>7. Runs(f[i], "&", Start, At(Texts(objs, i))) /\ Texts(objs, i) \in Seq(Seq(Symbol))
      BY <2>2, <2>3, <2>5, <2>6
    <2> QED BY <2>1, <2>7 DEF i
  <1>12. n \in S
    <2> HIDE DEF S
    <2>1. \A i \in 0..n : i \in S
      BY <1>1, <1>10, <1>11, Induction
    <2> QED BY <1>1, <2>1
  <1> DEFINE ps == Texts(objs, n)
  <1>13. Runs(f[n], "&", Start, At(ps)) /\ ps \in Seq(Seq(Symbol)) /\ f[n] \in Seq(Symbol)
    BY <1>1, <1>9, <1>12
  <1> HIDE DEF ps
  <1>14. Closed(At(ps)).out = ps
    BY <1>13, AtType, ClosedType
  <1>15. Strtok(f[n], "&") = ps
    BY <1>13, <1>14, RunsStrtok
  <1> QED BY <1>4, <1>9, <1>15 DEF ps, n

\* Such a column is read back as the list of its objects.
LEMMA ColumnBack ==
    ASSUME NEW B, NEW objs \in Seq(B), \A i \in 1..Len(objs) : CleanObject(objs[i]),
           \A i \in 1..Len(objs) : ParseSubElmFun(objs[i]) # <<>>
    PROVE  SpliteStrFun(Column(objs)) = objs
  <1> DEFINE n == Len(objs)
             g == Strtok(Column(objs), "&")
  <1>1. g = Texts(objs, n)
    BY ColumnCut
  <1>2. SpliteStrFun(Column(objs)) = [i \in DOMAIN g |-> Object(Strtok(g[i], "|"))]
    BY DEF SpliteStrFun
  <1> HIDE DEF g
  <1>3. DOMAIN g = 1..n /\ \A i \in 1..n : g[i] = ParseSubElmFun(objs[i])
    BY <1>1 DEF Texts
  <1>4. \A i \in 1..n : Object(Strtok(g[i], "|")) = objs[i]
    BY <1>3, ObjectBack
  <1>5. SpliteStrFun(Column(objs)) = [i \in 1..n |-> objs[i]]
    BY <1>2, <1>3, <1>4
  <1>6. objs = [i \in 1..n |-> objs[i]]
    OBVIOUS
  <1> QED BY <1>5, <1>6

\* The column of one object without text.
LEMMA ColumnNothing ==
    ASSUME NEW B, NEW objs \in Seq(B), Len(objs) = 1, ParseSubElmFun(objs[1]) = <<>>
    PROVE  SpliteStrFun(Column(objs)) = <<>>
  <1> DEFINE z == <<"&">>
             s == [i \in 1..Len(objs) |-> ParseSubElmFun(objs[i]) \o z]
  <1>1. z \in Seq(Symbol)
    BY DEF Symbol, Separators
  <1>2. Column(objs) = FlattenSeq(s)
    BY DEF Column
  <1> HIDE DEF z
  <1>3. s = [i \in 1..1 |-> z]
    <2>1. <<>> \o z = z
      BY <1>1
    <2>2. ASSUME NEW i \in 1..Len(objs) PROVE ParseSubElmFun(objs[i]) \o z = z
      <3>1. i = 1
        OBVIOUS
      <3> QED BY <2>1, <3>1
    <2>3. s = [i \in 1..Len(objs) |-> z]
      BY <2>2
    <2> QED BY <2>3
  <1>4. s \in Seq(Seq(Symbol)) /\ Len(s) = 1 /\ s[1] = z
    <2> DEFINE m == 1
               V == Seq(Symbol)
    <2>1. m \in Nat /\ z \in V /\ s = [i \in 1..m |-> z] /\ 1 \in 1..m
      BY <1>1, <1>3
    <2> HIDE DEF m, V, s
    <2>2. s \in Seq(V) /\ Len(s) = m /\ s[1] = z
      BY <2>1, IsASeq
    <2> QED BY <2>2 DEF m, V
  <1> HIDE DEF s
  <1>5. PICK f : /\ f \in [0..Len(s) -> Seq(Symbol)] /\ f[0] = <<>> /\ f[Len(s)] = FlattenSeq(s)
                 /\ \A i \in 1..Len(s) : f[i] = f[i - 1] \o s[i]
    <2>1. s \in Seq(Seq(Symbol))
      BY <1>4
    <2> QED BY <2>1, FlattenSteps
  <1>6. FlattenSeq(s) = z
    <2>1. 1 \in 1..Len(s) /\ 1 - 1 = 0
      BY <1>4
    <2>2. f[1] = <<>> \o z
      BY <1>4, <1>5, <2>1
    <2> QED BY <1>1, <1>4, <1>5, <2>2
  <1>7. Runs(z, "&", Start, Closed(Start))
    BY RunsSep, StartType DEF z
  <1>8. Closed(Start) = Start
    BY StartType DEF Closed
  <1>9. Strtok(z, "&") = <<>>
    BY <1>1, <1>7, <1>8, RunsStrtok, StartType
  <1>10. Strtok(Column(objs), "&") = <<>>
    BY <1>2, <1>6, <1>9
  <1> QED BY <1>10 DEF SpliteStrFun

\* What JsonTransaction wrote into a column is what SpliteStrFun reads from it: every
\* attribute of every object, the empty values and the object without attributes
\* included, for any words and any body without separators in its values.
THEOREM TextReadBack ==
    ASSUME NEW isList \in BOOLEAN, NEW objs, IsBody(isList, objs), Clean(isList, objs)
    PROVE  Loaded(isList, Column(objs)) = objs
  <1> DEFINE n == Len(objs)
  <1>1. objs \in Seq(Range(objs)) /\ n \in Nat /\ DOMAIN objs = 1..n
    BY DEF IsBody
  <1>2. ASSUME NEW i \in 1..n PROVE CleanObject(objs[i])
    <2> DEFINE o == objs[i]
    <2>1. /\ DOMAIN o \subseteq Range(Words) /\ o \in [DOMAIN o -> Seq(Symbol)]
          /\ \A k \in DOMAIN o : Range(o[k]) \cap Separators = {}
      BY <1>1 DEF IsBody, IsObject, Clean
    <2> HIDE DEF o
    <2>2. ASSUME NEW k \in DOMAIN o PROVE o[k] \in Value
      <3> DEFINE v == o[k]
      <3>1. v \in Seq(Symbol) /\ Range(v) \cap Separators = {}
        BY <2>1
      <3> HIDE DEF v
      <3>2. \A j \in 1..Len(v) : v[j] \in Range(v)
        BY <3>1 DEF Range
      <3>3. v \in Value
        BY <3>1, <3>2 DEF Value
      <3> QED BY <3>3 DEF v
    <2>3. CleanObject(o)
      BY <2>1, <2>2 DEF CleanObject
    <2> QED BY <2>3 DEF o
  <1>3. ASSUME NEW i \in 1..n PROVE ParseSubElmFun(objs[i]) = <<>> => DOMAIN objs[i] = {} /\ objs[i] = NoAttributes
    BY <1>2, ObjectBack DEF NoAttributes
  <1>4. CASE isList
    <2>1. \A i \in 1..n : DOMAIN objs[i] # {}
      BY <1>1, <1>4 DEF Clean
    <2>2. SpliteStrFun(Column(objs)) = objs
      BY <1>1, <1>2, <1>3, <2>1, ColumnBack
    <2> QED BY <1>4, <2>2 DEF Loaded
  <1>5. CASE ~isList
    <2>1. n = 1 /\ 1 \in 1..n /\ \A i \in 1..n : i = 1
      BY <1>1, <1>5 DEF IsBody
    <2>2. <<objs[1]>> = objs
      BY <1>1, <2>1
    <2>3. CASE ParseSubElmFun(objs[1]) = <<>>
      <3>1. SpliteStrFun(Column(objs)) = <<>>
        BY <1>1, <2>1, <2>3, ColumnNothing
      <3>2. objs[1] = NoAttributes
        BY <1>3, <2>1, <2>3
      <3> QED BY <1>5, <2>2, <3>1, <3>2 DEF Loaded
    <2>4. CASE ParseSubElmFun(objs[1]) # <<>>
      <3>1. SpliteStrFun(Column(objs)) = objs
        BY <1>1, <1>2, <2>1, <2>4, ColumnBack
      <3>2. objs # <<>>
        BY <2>1
      <3> QED BY <1>5, <2>2, <3>1, <3>2 DEF Loaded
    <2> QED BY <2>3, <2>4
  <1> QED BY <1>4, <1>5

\* Every clean body of a node survives the way through its table.
THEOREM RoundTripHolds == RoundTrip
  <1> SUFFICES ASSUME NEW n \in Node, NEW b \in Given(n), Clean(n \in ListNodes, b)
               PROVE  LoadedOf[(n \in ListNodes)][ColumnOf[b]] = b
    BY DEF RoundTrip
  <1> DEFINE l == (n \in ListNodes)
             t == Column(b)
  <1>1. l \in BOOLEAN /\ IsBody(l, b) /\ Clean(l, b)
    BY BodyAssumption
  <1>2. b \in Body
    BY DEF Given, Body
  <1>3. ColumnOf[b] = t /\ t \in Range(ColumnOf)
    BY <1>2 DEF ColumnOf, Range
  <1>4. LoadedOf[l][t] = Loaded(l, t)
    BY <1>1, <1>3 DEF LoadedOf
  <1>5. Loaded(l, t) = b
    BY <1>1, TextReadBack
  <1> QED BY <1>3, <1>4, <1>5

-----------------------------------------------------------------------------
\* The entries of a clean configuration survive the way through their rows.
LEMMA ReadBack ==
    ASSUME NEW n \in Node, NEW S, AllGiven(n, S), \A e \in S : Clean(n \in ListNodes, e.body)
    PROVE  {Entry(n, q) : q \in Rows(S)} = S
  <1>1. ASSUME NEW e \in S PROVE Entry(n, Row(e)) = e
    <2>1. e \in [ver : Nat, idx : Nat, body : Given(n)] /\ Clean(n \in ListNodes, e.body)
      BY DEF AllGiven
    <2>2. LoadedOf[(n \in ListNodes)][ColumnOf[e.body]] = e.body
      BY <2>1, RoundTripHolds DEF RoundTrip
    <2>3. Entry(n, Row(e)) = [ver |-> e.ver, idx |-> e.idx, body |-> e.body]
      BY <2>2 DEF Entry, Row
    <2> QED BY <2>1, <2>3
  <1>2. {Entry(n, q) : q \in Rows(S)} = {Entry(n, Row(e)) : e \in S}
    BY DEF Rows
  <1> QED BY <1>1, <1>2

\* Every body of a clean node was given by a tool or the factory.
LEMMA StepBodies ==
    ASSUME IInv, BodiesGiven, [Next]_vars
    PROVE  BodiesGiven'
  <1>1. TypeOK
    BY DEF IInv
  <1>2. CASE UNCHANGED vars
    BY <1>2 DEF BodiesGiven, CleanNode, vars, told
  <1>3. CASE DatabaseStep
    BY <1>3, DatabaseSteps DEF BodiesGiven, CleanNode
  <1>4. ASSUME NEW c \in Client, GetCfg(c) PROVE BodiesGiven'
    <2>1. UNCHANGED <<run, accepted>> /\ \A d \in Client : view'[d] = view[d] \/ view'[d] = run
      BY <1>1, <1>4 DEF GetCfg, TypeOK, told
    <2> QED BY <2>1 DEF BodiesGiven, CleanNode
  <1>5. ASSUME NEW c \in Client, NEW n \in Node, NEW kept \in SUBSET view[c][n],
               NEW k \in 0..MaxNew, NEW b \in Bodies[n], SetCfg(c, n, kept, k, b)
        PROVE  BodiesGiven'
    <2> DEFINE new == kept \cup NewEntries(n, k, b)
    <2>1. /\ view[c] # NoView
          /\ run'[n] = new /\ accepted'[n] = accepted[n] \cup {new}
          /\ \A m \in Node : m # n => run'[m] = run[m] /\ accepted'[m] = accepted[m]
          /\ \A d \in Client : view'[d] = view[d] \/ view'[d] = NoView
      BY <1>1, <1>5 DEF SetCfg, TypeOK, Tables
    <2>2. AllGiven(n, NewEntries(n, k, b))
      <3>1. NewEntries(n, k, b) \subseteq [ver : Nat, idx : Nat, body : {b}]
        BY <1>1, NewEntriesAbove
      <3> QED BY <3>1 DEF AllGiven, Given
    <2>3. CleanNode(n) => AllGiven(n, new)
      <3>1. CleanNode(n) => AllGiven(n, view[c][n])
        BY <2>1 DEF BodiesGiven
      <3> QED BY <2>2, <3>1 DEF AllGiven
    <2> HIDE DEF new
    <2>4. \A m \in Node : CleanNode(m)' => CleanNode(m)
      BY <2>1 DEF CleanNode
    <2> QED BY <2>1, <2>3, <2>4 DEF BodiesGiven
  <1>6. CASE Load
    <2>1. /\ hnd.pc = "tables" /\ UNCHANGED <<view, accepted>>
          /\ \A n \in Node : run'[n] = {Entry(n, q) : q \in cur[n]}
      BY <1>6 DEF Load
    <2>2. ASSUME NEW n \in Node, CleanNode(n) PROVE AllGiven(n, run'[n])
      <3>1. cur[n] \in Whole(n)
        BY <2>1 DEF IInv, CurWhole
      <3>2. CASE cur[n] = {}
        BY <2>1, <3>2 DEF AllGiven
      <3>3. ASSUME NEW S \in accepted[n], cur[n] = Rows(S) PROVE AllGiven(n, run'[n])
        <4>1. AllGiven(n, S) /\ \A e \in S : Clean(n \in ListNodes, e.body)
          BY <2>2 DEF BodiesGiven, CleanNode
        <4>2. {Entry(n, q) : q \in Rows(S)} = S
          BY <4>1, ReadBack
        <4> QED BY <2>1, <3>3, <4>1, <4>2
      <3> QED BY <3>1, <3>2, <3>3 DEF Whole
    <2> QED BY <2>1, <2>2 DEF BodiesGiven, CleanNode
  <1>7. CASE Crash
    <2>1. UNCHANGED accepted /\ \A n \in Node : run'[n] = {}
      BY <1>7 DEF Crash, told
    <2>2. \A d \in Client : view'[d] = NoView
      BY <1>7 DEF Crash
    <2> QED BY <2>1, <2>2 DEF BodiesGiven, CleanNode, AllGiven
  <1> QED BY <1>2, <1>3, <1>4, <1>5, <1>6, <1>7 DEF Next, Handler, DatabaseStep

-----------------------------------------------------------------------------
\* A table is empty for an empty configuration only.
LEMMA EmptyRows ==
    ASSUME NEW S
    PROVE  (Rows(S) = {}) <=> (S = {})
  BY DEF Rows

\* The tables that are left are the first one and those behind it.
LEMMA RangeTail ==
    ASSUME NEW s \in Seq(Node), s # <<>>, NEW x \in Range(s)
    PROVE  x = Head(s) \/ x \in Range(Tail(s))
  <1>1. PICK i \in 1..Len(s) : x = s[i]
    BY DEF Range
  <1>2. CASE i = 1
    BY <1>1, <1>2
  <1>3. CASE i # 1
    <2>1. i - 1 \in 1..Len(Tail(s)) /\ Tail(s)[i - 1] = s[i]
      BY <1>1, <1>3
    <2>2. DOMAIN Tail(s) = 1..Len(Tail(s))
      OBVIOUS
    <2> QED BY <1>1, <2>1, <2>2 DEF Range
  <1> QED BY <1>2, <1>3

\* The first start: every table is still to be filled.
LEMMA InitSInv == Init => SInv
  <1> SUFFICES ASSUME Init PROVE SInv
    OBVIOUS
  <1>1. /\ hnd.boot = TRUE /\ hnd.pc = "tables" /\ hnd.todo = Nodes /\ tx = FALSE
        /\ \A n \in Node : /\ run[n] = {} /\ disk[n] = {} /\ cur[n] = {}
                           /\ acked[n] = Factory(n) /\ flight[n] = Factory(n)
                           /\ accepted[n] = {Factory(n)}
        /\ \A c \in Client : view[c] = NoView
    BY DEF Init, Booting
  <1>2. \A n \in Node : AllGiven(n, Factory(n))
    BY ConfigAssumption DEF AllGiven, Factory, Given, ConfigAssumption
  <1>3. BodiesGiven
    BY <1>1, <1>2 DEF BodiesGiven, AllGiven
  <1>4. InStep /\ Answers /\ LeftOpen /\ Committed
    BY <1>1 DEF InStep, Answers, LeftOpen, Committed, ToFill, Node
  <1> QED BY <1>3, <1>4 DEF SInv

\* What memory, database, answers and the handler have to do with each other.
Store == InStep /\ Answers /\ LeftOpen /\ Committed

\* A tool reads, or nothing happens.
LEMMA QuietStore ==
    ASSUME Store, UNCHANGED <<run, disk, cur, tx, hnd, acked, flight, accepted, fails>>
    PROVE  Store'
  BY DEF Store, InStep, Answers, LeftOpen, Committed, Same, ToFill, Idle, CleanNode, Emptied, Alone

\* An update in memory: the table of the node is still that of the last answer.
LEMMA SetCfgStore ==
    ASSUME IInv, Store, NEW c \in Client, NEW n \in Node, NEW kept \in SUBSET view[c][n],
           NEW k \in 0..MaxNew, NEW b, SetCfg(c, n, kept, k, b)
    PROVE  Store'
  <1>1. PICK new : new = kept \cup NewEntries(n, k, b)
    OBVIOUS
  <1>2. /\ TypeOK /\ hnd.pc = "idle" /\ ~hnd.boot /\ UNCHANGED <<disk, cur, tx, acked, fails>>
        /\ run' = [run EXCEPT ![n] = new] /\ flight' = [flight EXCEPT ![n] = new]
        /\ accepted' = [accepted EXCEPT ![n] = accepted[n] \cup {new}]
        /\ hnd' = [hnd EXCEPT !.pc = "delete", !.node = n]
    BY <1>1 DEF IInv, CurWhole, SetCfg, Idle, db
  <1>3. /\ run'[n] = new /\ flight'[n] = new /\ accepted'[n] = accepted[n] \cup {new}
        /\ \A m \in Node : m # n => /\ run'[m] = run[m] /\ flight'[m] = flight[m]
                                    /\ accepted'[m] = accepted[m]
    BY <1>2 DEF TypeOK, Tables
  <1>4. hnd'.pc = "delete" /\ hnd'.node = n /\ ~hnd'.boot
    BY <1>2 DEF TypeOK, Handlers
  <1>5. \A m \in Node : /\ accepted[m] \subseteq accepted'[m]
                        /\ CleanNode(m)' => CleanNode(m)
                        /\ Emptied(m) => Emptied(m)'
    BY <1>3 DEF CleanNode, Emptied
  <1>6. \A m \in Node : Alone(m)' => Alone(m)
    BY <1>5 DEF Alone
  <1>7. InStep'
    <2>1. fails = 0 => /\ \A m \in Node : m # n => Same(m)'
                       /\ CleanNode(n)' => cur[n] = Rows(acked[n])
      BY <1>2, <1>3, <1>5 DEF Store, InStep, Answers, Same, Idle
    <2> QED BY <1>2, <1>4, <2>1 DEF InStep, Idle
  <1>8. Answers'
    BY <1>2, <1>3, <1>4, <1>5 DEF Store, Answers, Idle
  <1>9. LeftOpen'
    <2>1. \A m \in Node : fails = 0 /\ run'[m] = {} => Emptied(m)'
      <3>1. \A m \in Node : m # n /\ fails = 0 /\ run'[m] = {} => Emptied(m)'
        BY <1>2, <1>3, <1>5 DEF Store, LeftOpen
      <3>2. run'[n] = {} => Emptied(n)'
        BY <1>3 DEF Emptied
      <3> QED BY <3>1, <3>2
    <2>2. fails = 0 /\ tx => \E m \in Node : cur[m] = {} /\ Emptied(m)'
      BY <1>2, <1>5 DEF Store, LeftOpen
    <2> QED BY <1>2, <1>4, <2>1, <2>2 DEF LeftOpen
  <1>10. Committed'
    BY <1>2, <1>4, <1>6 DEF Store, Committed
  <1> QED BY <1>7, <1>8, <1>9, <1>10 DEF Store

\* The table of the node is emptied, in a transaction or at once.
LEMMA DeleteRootStore ==
    ASSUME IInv, Store, DeleteRoot
    PROVE  Store'
  <1>1. PICK n : n = hnd.node
    OBVIOUS
  <1>2. /\ TypeOK /\ hnd.pc = "delete" /\ ~hnd.boot /\ n \in Node
        /\ UNCHANGED <<run, tx, acked, flight, accepted>>
        /\ hnd' = [hnd EXCEPT !.pc = "tables", !.todo = Nodes]
    BY <1>1 DEF IInv, CurWhole, FillsAccepted, DeleteRoot, told
  <1>3. hnd'.pc = "tables" /\ hnd'.node = n /\ ~hnd'.boot /\ hnd'.todo = Nodes
    BY <1>1, <1>2 DEF TypeOK, Handlers
  <1>4. Answers' \/ fails' = 0
    BY <1>1, <1>2, <1>3 DEF Store, Answers, Idle
  <1>5. CASE Fail
    <2>1. fails' # 0
      BY <1>2, <1>5 DEF TypeOK, Fail
    <2> QED BY <1>4, <2>1 DEF Store, InStep, LeftOpen, Committed
  <1>6. CASE Write([cur EXCEPT ![hnd.node] = {}]) /\ UNCHANGED count
    <2>1. /\ cur'[n] = {} /\ \A m \in Node : m # n => cur'[m] = cur[m]
          /\ disk' = (IF tx THEN disk ELSE cur') /\ fails' = fails
      BY <1>1, <1>2, <1>6 DEF Write, TypeOK, Tables, count
    <2>2. \A m \in Node : (Alone(m)' <=> Alone(m)) /\ (CleanNode(m)' <=> CleanNode(m)) /\ (Emptied(m)' <=> Emptied(m))
      BY <1>2 DEF CleanNode, Alone, Emptied
    <2>3. ToFill(n)'
      BY <1>2, <1>3 DEF ToFill, Node
    <2>4. InStep'
      <3>1. fails = 0 => \A m \in Node : m # n => Same(m)'
        BY <1>1, <1>2, <2>1, <2>2 DEF Store, InStep, Same
      <3>2. run[n] = {} => Same(n)'
        BY <1>2, <2>1, EmptyRows DEF Same
      <3> QED BY <1>2, <1>3, <2>1, <2>3, <3>1, <3>2 DEF InStep, Idle
    <2>5. Answers'
      BY <1>1, <1>2, <1>3, <2>1, <2>2 DEF Store, Answers, Idle
    <2>6. LeftOpen'
      BY <1>2, <1>3, <2>1, <2>2 DEF Store, LeftOpen
    <2>7. Committed'
      <3>1. ASSUME fails = 0, NEW m \in Node, Alone(m), m # n PROVE disk'[m] = cur'[m]
        BY <1>1, <1>2, <2>1, <3>1 DEF Store, Committed
      <3>2. ASSUME fails = 0, Alone(n) PROVE CleanNode(n) => disk'[n] \in {Rows(acked[n]), Rows(flight[n]), {}}
        BY <1>1, <1>2, <2>1, <3>2 DEF Store, Committed, InStep
      <3>3. ASSUME fails = 0, Alone(n), run[n] = {} PROVE disk'[n] = cur'[n]
        <4>1. CASE tx
          <5>1. PICK m \in Node : cur[m] = {} /\ Emptied(m)
            BY <1>2, <3>3, <4>1 DEF Store, LeftOpen
          <5>2. Emptied(n)
            BY <1>2, <3>3 DEF Store, LeftOpen
          <5>3. m = n
            BY <1>2, <3>3, <5>1, <5>2 DEF Alone
          <5>4. disk[n] = cur[n]
            BY <1>1, <1>2, <3>3 DEF Store, Committed
          <5> QED BY <2>1, <4>1, <5>1, <5>3, <5>4
        <4> QED BY <2>1, <4>1
      <3> QED BY <1>2, <1>3, <2>1, <2>2, <2>3, <3>1, <3>2, <3>3 DEF Committed
    <2> QED BY <2>4, <2>5, <2>6, <2>7 DEF Store
  <1> QED BY <1>5, <1>6 DEF DeleteRoot

\* One table is looked at, and filled if it is empty.
LEMMA SelectTableStore ==
    ASSUME IInv, Store, SelectTable
    PROVE  Store'
  <1>1. PICK n : n = Head(hnd.todo)
    OBVIOUS
  <1>2. /\ TypeOK /\ hnd.pc = "tables" /\ hnd.todo \in Seq(Node) /\ hnd.todo # <<>>
        /\ UNCHANGED <<run, disk, cur, acked, flight, accepted, fails>>
    BY DEF IInv, TypeOK, Handlers, SelectTable, told, count
  <1>3. n \in Node /\ Factory(n) \in accepted[n]
    BY <1>1, <1>2 DEF IInv, CurWhole
  <1>4. /\ hnd'.todo = Tail(hnd.todo) /\ hnd'.boot = hnd.boot /\ hnd'.node = hnd.node
        /\ ~hnd.boot => hnd.node \in Node
    BY <1>2 DEF IInv, FillsAccepted, TypeOK, Handlers, SelectTable
  <1>5. \A m \in Node : ToFill(m) => m = n \/ ToFill(m)'
    BY <1>1, <1>2, <1>4, RangeTail DEF ToFill
  <1>6. \A m \in Node : /\ (Alone(m)' <=> Alone(m)) /\ (CleanNode(m)' <=> CleanNode(m))
                        /\ (Emptied(m)' <=> Emptied(m)) /\ (Same(m)' <=> Same(m))
    BY <1>2 DEF CleanNode, Alone, Emptied, Same
  <1>7. Answers'
    <2>1. hnd'.pc # "idle"
      BY <1>2 DEF TypeOK, Handlers, SelectTable
    <2> QED BY <1>2, <1>4, <1>6, <2>1 DEF Store, Answers, Idle
  <1>8. CASE hnd'.pc = "tables" /\ (cur[n] # {} \/ Want(n) = {})
    <2>1. InStep'
      <3>1. fails = 0 /\ hnd.boot => \A m \in Node : cur[m] # {} \/ Factory(m) = {} \/ ToFill(m)'
        BY <1>2, <1>5, <1>8 DEF Store, InStep, Want
      <3>2. fails = 0 /\ ~hnd.boot => \A m \in Node : m # hnd.node => Same(m)
        BY DEF Store, InStep
      <3>3. fails = 0 /\ ~hnd.boot => \/ Same(hnd.node)
                                      \/ cur[hnd.node] = {} /\ run[hnd.node] # {} /\ ToFill(hnd.node)
        BY <1>2 DEF Store, InStep
      <3>4. ~hnd.boot /\ cur[hnd.node] = {} /\ run[hnd.node] # {} /\ ToFill(hnd.node) => ToFill(hnd.node)'
        BY <1>4, <1>5, <1>8 DEF Want
      <3> QED BY <1>2, <1>4, <1>6, <1>8, <3>1, <3>2, <3>3, <3>4 DEF InStep, Idle, ToFill
    <2>2. LeftOpen'
      <3>1. fails = 0 /\ ~hnd.boot => \A m \in Node : run[m] = {} => Emptied(m)
        BY DEF Store, LeftOpen
      <3>2. CASE cur[n] = {} /\ Want(n) = {}
        <4>1. fails = 0 => Emptied(n)
          BY <1>3, <3>1, <3>2 DEF Want, Emptied
        <4> QED BY <1>2, <1>3, <1>4, <1>6, <3>1, <3>2, <4>1 DEF LeftOpen
      <3>3. CASE cur[n] # {}
        <4>1. tx' = tx
          BY <1>1, <3>3 DEF SelectTable
        <4> QED BY <1>2, <1>4, <1>6, <1>8, <4>1 DEF Store, LeftOpen
      <3> QED BY <1>8, <3>2, <3>3
    <2>3. Committed'
      <3>1. ASSUME fails = 0, NEW m \in Node, Alone(m)
            PROVE  /\ hnd.boot => (CleanNode(m) => disk[m] \in {Rows(acked[m]), Rows(flight[m]), Rows(Factory(m)), {}})
                   /\ ~hnd.boot /\ m # hnd.node => disk[m] = cur[m]
                   /\ ~hnd.boot /\ m = hnd.node =>
                         /\ CleanNode(m) => disk[m] \in {Rows(acked[m]), Rows(flight[m]), {}}
                         /\ disk[m] = cur[m] \/ (cur[m] = {} /\ run[m] # {} /\ ToFill(m)')
        BY <1>2, <1>5, <1>8, <3>1 DEF Store, Committed, Want
      <3> QED BY <1>2, <1>4, <1>6, <1>8, <3>1 DEF Committed
    <2> QED BY <1>7, <2>1, <2>2, <2>3 DEF Store
  <1>9. CASE hnd'.pc = "insert" /\ hnd'.table = n /\ cur[n] = {} /\ Want(n) # {}
    <2>1. fails = 0 /\ ~hnd.boot => n = hnd.node
      BY <1>3, <1>9 DEF Store, InStep, Same, Want
    <2>2. InStep'
      <3>1. fails = 0 /\ hnd.boot => \A m \in Node : cur[m] # {} \/ Factory(m) = {} \/ ToFill(m)' \/ m = n
        BY <1>2, <1>5 DEF Store, InStep
      <3>2. fails = 0 /\ ~hnd.boot => \A m \in Node : m # hnd.node => Same(m)
        BY DEF Store, InStep
      <3> QED BY <1>2, <1>4, <1>6, <1>9, <2>1, <3>1, <3>2 DEF InStep, Idle
    <2>3. LeftOpen'
      BY <1>2, <1>4, <1>6, <1>9 DEF Store, LeftOpen
    <2>4. Committed'
      BY <1>2, <1>4, <1>6, <1>9 DEF Store, Committed
    <2> QED BY <1>7, <2>2, <2>3, <2>4 DEF Store
  <1>10. \/ hnd'.pc = "tables" /\ (cur[n] # {} \/ Want(n) = {})
         \/ hnd'.pc = "insert" /\ hnd'.table = n /\ cur[n] = {} /\ Want(n) # {}
    <2>1. hnd \in Handlers(hnd.rest)
      BY <1>2 DEF TypeOK
    <2> QED BY <1>1, <1>2, <2>1 DEF SelectTable, Handlers
  <1> QED BY <1>8, <1>9, <1>10

\* Rows go to the table that is being filled, and not to the disk.
LEMMA InsertRowStore ==
    ASSUME IInv, Store, InsertRow
    PROVE  Store'
  <1>1. /\ TypeOK /\ hnd.pc = "insert" /\ hnd.table \in Node
        /\ UNCHANGED <<run, disk, tx, acked, flight, accepted, fails>>
    BY DEF IInv, Filling, InsertRow, told, count
  <1>2. /\ hnd'.pc = "insert" /\ hnd'.table = hnd.table /\ hnd'.node = hnd.node
        /\ hnd'.boot = hnd.boot /\ hnd'.todo = hnd.todo
    BY <1>1 DEF TypeOK, Handlers, InsertRow
  <1>3. \A m \in Node : m # hnd.table => cur'[m] = cur[m]
    BY <1>1 DEF InsertRow, TypeOK, Tables
  <1>4. \A m \in Node : /\ (Alone(m)' <=> Alone(m)) /\ (CleanNode(m)' <=> CleanNode(m))
                        /\ (Emptied(m)' <=> Emptied(m)) /\ (ToFill(m)' <=> ToFill(m))
                        /\ m # hnd.table => (Same(m)' <=> Same(m))
    BY <1>1, <1>2, <1>3 DEF CleanNode, Alone, Emptied, Same, ToFill
  <1>5. InStep'
    BY <1>1, <1>2, <1>3, <1>4 DEF Store, InStep, Idle
  <1>6. Answers'
    BY <1>1, <1>2, <1>4 DEF Store, Answers, Idle
  <1>7. LeftOpen'
    BY <1>1, <1>2, <1>4 DEF Store, LeftOpen
  <1>8. Committed'
    BY <1>1, <1>2, <1>3, <1>4 DEF Store, InStep, Committed
  <1> QED BY <1>5, <1>6, <1>7, <1>8 DEF Store

\* A failing row: from then on the database need not agree with the memory.
LEMMA RowFailsStore ==
    ASSUME IInv, Store, RowFails
    PROVE  Store'
  <1>1. TypeOK /\ hnd.pc = "insert" /\ UNCHANGED <<run, acked, flight, accepted>>
    BY DEF IInv, RowFails, told
  <1>2. fails' # 0
    BY <1>1 DEF RowFails, Fail, TypeOK
  <1>3. hnd'.pc = "tables" /\ hnd'.node = hnd.node /\ hnd'.boot = hnd.boot
    BY <1>1 DEF TypeOK, Handlers, RowFails
  <1> QED BY <1>1, <1>2, <1>3 DEF Store, InStep, Answers, LeftOpen, Committed, Idle

\* The filled table is committed.
LEMMA CommitStore ==
    ASSUME IInv, Store, Commit
    PROVE  Store'
  <1>1. /\ TypeOK /\ hnd.pc = "insert" /\ hnd.table \in Node /\ hnd.rest = {}
        /\ disk' = cur /\ ~tx' /\ UNCHANGED <<run, cur, acked, flight, accepted, fails>>
    BY DEF IInv, Filling, Commit, told, count
  <1>2. /\ hnd'.pc = "tables" /\ hnd'.node = hnd.node
        /\ hnd'.boot = hnd.boot /\ hnd'.todo = hnd.todo
    BY <1>1 DEF TypeOK, Handlers, Commit
  <1>3. cur[hnd.table] = Rows(Want(hnd.table))
    <2>1. cur[hnd.table] = Rows(Want(hnd.table) \ hnd.rest) /\ Want(hnd.table) \ hnd.rest = Want(hnd.table)
      BY <1>1 DEF IInv, Filling
    <2> QED BY <2>1
  <1>4. \A m \in Node : /\ (Alone(m)' <=> Alone(m)) /\ (CleanNode(m)' <=> CleanNode(m))
                        /\ (Emptied(m)' <=> Emptied(m)) /\ (ToFill(m)' <=> ToFill(m))
                        /\ (Same(m)' <=> Same(m))
    BY <1>1, <1>2 DEF CleanNode, Alone, Emptied, Same, ToFill
  <1>5. fails = 0 /\ ~hnd.boot => hnd.table = hnd.node /\ Same(hnd.node) /\ cur[hnd.node] = Rows(run[hnd.node])
    BY <1>1, <1>3, EmptyRows DEF Store, InStep, Want, Same
  <1>6. InStep'
    <2>1. fails = 0 /\ hnd.boot => \A m \in Node : cur[m] # {} \/ Factory(m) = {} \/ ToFill(m)
      <3>1. hnd.boot => cur[hnd.table] # {} \/ Factory(hnd.table) = {}
        BY <1>3, EmptyRows DEF Want
      <3> QED BY <3>1 DEF Store, InStep
    <2> QED BY <1>1, <1>2, <1>4, <1>5, <2>1 DEF Store, InStep, Idle
  <1>7. Answers'
    BY <1>1, <1>2, <1>4 DEF Store, Answers, Idle
  <1>8. LeftOpen'
    BY <1>1, <1>2, <1>4 DEF Store, LeftOpen
  <1>9. Committed'
    <2>1. ASSUME fails = 0, hnd.boot, NEW m \in Node, Alone(m), CleanNode(m)
          PROVE  cur[m] \in {Rows(acked[m]), Rows(flight[m]), Rows(Factory(m)), {}}
      <3>1. CASE m = hnd.table
        BY <1>3, <2>1, <3>1 DEF Want
      <3>2. CASE m # hnd.table
        <4>1. cur[m] = disk[m]
          BY <2>1, <3>2 DEF IInv, CurWhole
        <4> QED BY <2>1, <4>1 DEF Store, Committed
      <3> QED BY <3>1, <3>2
    <2>2. fails = 0 /\ ~hnd.boot => hnd.node \in Node /\ cur[hnd.node] = Rows(flight[hnd.node])
      BY <1>1, <1>5 DEF Store, Answers
    <2> QED BY <1>1, <1>2, <1>4, <2>1, <2>2 DEF Committed
  <1> QED BY <1>6, <1>7, <1>8, <1>9 DEF Store

\* No table is left: the update is answered.
LEMMA ReplyStore ==
    ASSUME IInv, Store, Reply
    PROVE  Store'
  <1>1. PICK n : n = hnd.node
    OBVIOUS
  <1>2. /\ TypeOK /\ hnd.pc = "tables" /\ hnd.todo = <<>> /\ ~hnd.boot /\ n \in Node
        /\ acked' = [acked EXCEPT ![n] = flight[n]]
        /\ UNCHANGED <<run, disk, cur, tx, flight, accepted, fails>>
    BY <1>1 DEF IInv, FillsAccepted, Reply, db, count
  <1>3. hnd'.pc = "idle" /\ ~hnd'.boot
    BY <1>2 DEF TypeOK, Handlers, Reply
  <1>4. acked'[n] = flight[n] /\ \A m \in Node : m # n => acked'[m] = acked[m]
    BY <1>2 DEF TypeOK, Tables
  <1>5. \A m \in Node : /\ (Alone(m)' <=> Alone(m)) /\ (CleanNode(m)' <=> CleanNode(m))
                        /\ (Emptied(m)' <=> Emptied(m)) /\ (Same(m)' <=> Same(m)) /\ ~ToFill(m)
    BY <1>2 DEF CleanNode, Alone, Emptied, Same, ToFill, Range
  <1>6. InStep'
    BY <1>1, <1>2, <1>3, <1>5 DEF Store, InStep, Idle
  <1>7. Answers'
    BY <1>1, <1>2, <1>3, <1>4, <1>5 DEF Store, Answers, Idle
  <1>8. LeftOpen'
    BY <1>2, <1>3, <1>5 DEF Store, LeftOpen
  <1>9. Committed'
    BY <1>1, <1>2, <1>3, <1>5 DEF Store, Committed
  <1> QED BY <1>6, <1>7, <1>8, <1>9 DEF Store

\* A configuration of a clean node, or nothing, is read as what was written.
LEMMA LoadReads ==
    ASSUME IInv, SInv, Load, fails = 0, NEW n \in Node
    PROVE  /\ run'[n] = {Entry(n, q) : q \in cur[n]} /\ cur[n] = disk[n]
           /\ (cur[n] = {}) <=> (run'[n] = {})
           /\ cur[n] = {} => Factory(n) = {}
           /\ CleanNode(n) => cur[n] = Rows(run'[n]) /\ run'[n] \in accepted[n]
           /\ \A S \in accepted[n] : CleanNode(n) /\ cur[n] = Rows(S) => run'[n] = S
  <1>1. hnd.boot /\ hnd.pc = "tables" /\ hnd.todo = <<>> /\ run'[n] = {Entry(n, q) : q \in cur[n]}
    BY DEF Load
  <1>2. cur[n] \in Whole(n) /\ Factory(n) \in accepted[n] /\ cur[n] = disk[n]
    BY <1>1 DEF IInv, CurWhole
  <1>3. (cur[n] = {}) <=> (run'[n] = {})
    BY <1>1
  <1>4. cur[n] = {} => Factory(n) = {}
    BY <1>1 DEF SInv, InStep, ToFill, Range
  <1>5. ASSUME NEW S \in accepted[n], CleanNode(n), cur[n] = Rows(S) PROVE run'[n] = S
    <2>1. AllGiven(n, S) /\ \A e \in S : Clean(n \in ListNodes, e.body)
      BY <1>5 DEF SInv, BodiesGiven, CleanNode
    <2>2. {Entry(n, q) : q \in Rows(S)} = S
      BY <2>1, ReadBack
    <2> QED BY <1>1, <1>5, <2>2
  <1>6. CleanNode(n) => cur[n] = Rows(run'[n]) /\ run'[n] \in accepted[n]
    <2>1. CASE cur[n] = {}
      BY <1>2, <1>3, <1>4, <2>1, EmptyRows
    <2>2. ASSUME NEW S \in accepted[n], cur[n] = Rows(S)
          PROVE  CleanNode(n) => cur[n] = Rows(run'[n]) /\ run'[n] \in accepted[n]
      BY <1>5, <2>2
    <2> QED BY <1>2, <2>1, <2>2 DEF Whole
  <1> QED BY <1>1, <1>2, <1>3, <1>4, <1>5, <1>6

\* A start: memory is the tables.
LEMMA LoadStore ==
    ASSUME IInv, SInv, Load
    PROVE  Store'
  <1>1. /\ TypeOK /\ hnd.boot /\ hnd.pc = "tables" /\ UNCHANGED <<disk, cur, tx, accepted, fails>>
        /\ acked' = run' /\ flight' = run'
    BY DEF IInv, Load, db, count
  <1>2. hnd'.pc = "idle" /\ ~hnd'.boot
    BY <1>1 DEF TypeOK, Handlers, Load
  <1>3. \A m \in Node : (CleanNode(m)' <=> CleanNode(m)) /\ (Emptied(m)' <=> Emptied(m))
    BY <1>1 DEF CleanNode, Emptied
  <1>4. ASSUME fails = 0, NEW m \in Node
        PROVE  /\ Same(m)' /\ cur[m] = disk[m] /\ (run'[m] = {} => Emptied(m))
               /\ CleanNode(m) => run'[m] \in accepted[m]
    <2>1. Factory(m) \in accepted[m]
      BY DEF IInv, CurWhole
    <2> QED BY <1>1, <1>3, <1>4, <2>1, LoadReads DEF Same, Emptied
  <1>5. InStep'
    BY <1>1, <1>2, <1>4 DEF InStep, Idle
  <1>6. Answers'
    BY <1>1, <1>2, <1>3, <1>4 DEF Answers, Idle
  <1>7. LeftOpen'
    BY <1>1, <1>2, <1>3, <1>4 DEF SInv, LeftOpen
  <1>8. Committed'
    BY <1>1, <1>2, <1>4 DEF Committed
  <1> QED BY <1>5, <1>6, <1>7, <1>8 DEF Store

\* Another thread commits what was left open, or rolls it back.
LEMMA OtherSaveStore ==
    ASSUME IInv, Store, OtherSave
    PROVE  Store'
  <1>1. /\ TypeOK /\ hnd.pc # "insert" /\ ~hnd.boot /\ ~tx'
        /\ hnd.pc # "idle" => hnd.node \in Node
        /\ UNCHANGED <<run, hnd, acked, flight, accepted>>
    BY DEF IInv, FillsAccepted, OtherSave, told
  <1>2. \A m \in Node : /\ (Alone(m)' <=> Alone(m)) /\ (CleanNode(m)' <=> CleanNode(m))
                        /\ (Emptied(m)' <=> Emptied(m)) /\ (ToFill(m)' <=> ToFill(m))
    BY <1>1 DEF CleanNode, Alone, Emptied, ToFill
  <1>3. CASE fails' # 0
    BY <1>1, <1>3 DEF Store, InStep, Answers, LeftOpen, Committed, Idle
  <1>4. CASE disk' = cur /\ cur' = cur /\ fails' = fails
    <2>1. \A m \in Node : Same(m)' <=> Same(m)
      BY <1>1, <1>2, <1>4 DEF Same
    <2>2. InStep'
      BY <1>1, <1>2, <1>4, <2>1 DEF Store, InStep, Idle
    <2>3. Answers' /\ LeftOpen'
      BY <1>1, <1>2, <1>4 DEF Store, Answers, LeftOpen, Idle
    <2>4. Committed'
      <3>1. ASSUME fails = 0, hnd.pc = "tables", hnd.node \in Node, CleanNode(hnd.node)
            PROVE  cur[hnd.node] \in {Rows(flight[hnd.node]), {}}
        BY <1>1, <3>1 DEF Store, InStep, Answers, Same
      <3> QED BY <1>1, <1>2, <1>4, <3>1 DEF Committed
    <2> QED BY <2>2, <2>3, <2>4 DEF Store
  <1>5. fails' # 0 \/ (disk' = cur /\ cur' = cur /\ fails' = fails)
    BY <1>1 DEF OtherSave, Fail, TypeOK, count
  <1> QED BY <1>3, <1>4, <1>5

\* The process dies: what is committed is what was answered or set last.
LEMMA CrashStore ==
    ASSUME IInv, Store, Crash
    PROVE  Store'
  <1>1. /\ ~tx' /\ hnd' = Booting /\ UNCHANGED <<disk, acked, flight, accepted, fails>>
    BY DEF Crash, told
  <1>2. hnd'.boot /\ hnd'.pc = "tables" /\ hnd'.todo = Nodes
    BY <1>1 DEF Booting
  <1>3. \A m \in Node : (Alone(m)' <=> Alone(m)) /\ (CleanNode(m)' <=> CleanNode(m)) /\ ToFill(m)'
    BY <1>1, <1>2 DEF CleanNode, Alone, Emptied, ToFill, Node
  <1>4. InStep' /\ LeftOpen'
    BY <1>1, <1>2, <1>3 DEF InStep, LeftOpen
  <1>5. Answers'
    BY <1>1, <1>2, <1>3 DEF Store, Answers
  <1>6. ASSUME fails = 0, NEW m \in Node, Alone(m), CleanNode(m)
        PROVE  disk[m] \in {Rows(acked[m]), Rows(flight[m]), Rows(Factory(m)), {}}
    <2>1. hnd.pc \in {"idle", "delete", "tables", "insert"}
      BY DEF IInv, TypeOK, Handlers
    <2>2. CASE hnd.boot
      BY <1>6, <2>2 DEF Store, Committed
    <2>3. CASE ~hnd.boot /\ (Idle \/ m # hnd.node)
      <3>1. disk[m] = cur[m] /\ cur[m] = Rows(run[m]) /\ run[m] = flight[m]
        BY <1>6, <2>3 DEF Store, Committed, InStep, Answers, Same, Idle
      <3> QED BY <3>1
    <2>4. CASE ~hnd.boot /\ hnd.pc = "delete" /\ m = hnd.node
      <3>1. disk[m] = cur[m] /\ cur[m] = Rows(acked[m])
        BY <1>6, <2>4 DEF Store, Committed, InStep
      <3> QED BY <3>1
    <2>5. CASE ~hnd.boot /\ hnd.pc \in {"tables", "insert"} /\ m = hnd.node
      BY <1>6, <2>5 DEF Store, Committed
    <2> QED BY <2>1, <2>2, <2>3, <2>4, <2>5 DEF Idle
  <1>7. Committed'
    BY <1>1, <1>2, <1>3, <1>6 DEF Committed
  <1> QED BY <1>4, <1>5, <1>7 DEF Store

\* The invariant is inductive.
LEMMA StepSInv ==
    ASSUME IInv, SInv, [Next]_vars
    PROVE  SInv'
  <1>1. BodiesGiven /\ Store
    BY DEF SInv, Store
  <1>2. BodiesGiven'
    BY <1>1, StepBodies
  <1> SUFFICES Store'
    BY <1>2 DEF SInv, Store
  <1>3. CASE UNCHANGED vars
    BY <1>1, <1>3, QuietStore DEF vars, db, told, count
  <1>4. ASSUME NEW c \in Client, GetCfg(c) PROVE Store'
    BY <1>1, <1>4, QuietStore DEF GetCfg, db, told, count
  <1>5. CASE Handler
    BY <1>1, <1>5, DeleteRootStore, SelectTableStore, InsertRowStore, RowFailsStore, CommitStore,
       ReplyStore, LoadStore DEF Handler
  <1> QED BY <1>1, <1>3, <1>4, <1>5, SetCfgStore, OtherSaveStore, CrashStore DEF Next

\* Between updates the tables are what runs, for any number of tools, nodes, updates
\* and restarts, as long as no statement failed.
THEOREM MemoryAgrees == SafeSpec => []StoreAgrees
  <1>1. IInv /\ SInv /\ [Next]_vars => SInv'
    BY StepSInv
  <1>2. IInv /\ SInv => StoreAgrees
    BY DEF IInv, CurWhole, SInv, InStep, Same, StoreAgrees, Idle
  <1> QED BY <1>1, <1>2, InitIInv, StepIInv, InitSInv, PTL DEF SafeSpec

\* A start never brings back an older configuration.
THEOREM RecoveryKnown == SafeSpec => RecoversKnown
  <1> DEFINE Known == fails = 0 /\ hnd.boot /\ Idle' =>
                        \A n \in Node : CleanNode(n) /\ Alone(n) =>
                            run'[n] \in {acked[n], flight[n], Factory(n)}
  <1>1. IInv /\ SInv /\ [Next]_vars => SInv'
    BY StepSInv
  <1>2. IInv /\ SInv /\ [Next]_vars => [Known]_vars
    <2> SUFFICES ASSUME IInv, SInv, Next, fails = 0, hnd.boot, Idle',
                        NEW n \in Node, CleanNode(n), Alone(n)
                 PROVE  run'[n] \in {acked[n], flight[n], Factory(n)}
      OBVIOUS
    <2>1. Load
      <3>1. hnd.pc \in {"tables", "insert"} /\ hnd'.pc = "idle" /\ hnd \in Handlers(hnd.rest)
        BY DEF IInv, TypeOK, CurWhole, Idle
      <3>2. ~Crash
        BY <3>1 DEF Crash, Booting
      <3>3. ~OtherSave /\ ~DeleteRoot /\ ~Reply
        BY <3>1 DEF OtherSave, DeleteRoot, Reply
      <3>4. ~SelectTable /\ ~InsertRow /\ ~RowFails /\ ~Commit
        BY <3>1 DEF SelectTable, InsertRow, RowFails, Commit, Handlers
      <3>5. \A c \in Client : ~GetCfg(c)
        BY <3>1 DEF GetCfg, Idle
      <3>6. \A c, m, kept, k, b : ~SetCfg(c, m, kept, k, b)
        BY <3>1 DEF SetCfg, Idle
      <3> QED BY <3>2, <3>3, <3>4, <3>5, <3>6 DEF Next, Handler
    <2>2. cur[n] \in {Rows(acked[n]), Rows(flight[n]), Rows(Factory(n)), {}}
      BY <2>1, LoadReads DEF SInv, Committed
    <2>3. acked[n] \in accepted[n] /\ flight[n] \in accepted[n] /\ Factory(n) \in accepted[n]
      BY DEF IInv, CurWhole, SInv, Answers
    <2> QED BY <2>1, <2>2, <2>3, LoadReads
  <1>3. SafeSpec => [](IInv /\ SInv)
    BY <1>1, InitIInv, StepIInv, InitSInv, PTL DEF SafeSpec
  <1>4. SafeSpec => [][Known]_vars
    <2> HIDE DEF Known
    <2> QED BY <1>2, <1>3, PTL DEF SafeSpec
  <1> QED BY <1>4 DEF RecoversKnown
=============================================================================
