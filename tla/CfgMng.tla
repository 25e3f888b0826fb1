------------------------------- MODULE CfgMng -------------------------------
(***************************************************************************)
(* The system configuration: in memory (CCfgMng), in SQLite (SqliteDbSvr,  *)
(* CSqliteDbMng, CSmartDB) and in the factory file, over updates by        *)
(* configuration tools, failing statements, and restarts of the process.   *)
(*                                                                         *)
(* A configuration of a root node ("App", "Transfer", ...) is a set of     *)
(* entries; an entry is its idx, the update it was created by (so two      *)
(* entries may have the same idx), and its attribute objects, which become *)
(* text in a row of the node's table (module CfgText).  All threads share  *)
(* one SQLite connection: cur is what it sees, disk what is committed.  A  *)
(* transaction that was left open collects the statements of every thread. *)
(*                                                                         *)
(* One update runs at a time: CCfgMng has no lock, and two handlers in     *)
(* RuntimeSysCfgUpdate would be a data race with no defined outcome.       *)
(***************************************************************************)
EXTENDS CfgText

CONSTANTS
    Client,        \* configuration tools
    Nodes,         \* root nodes with a table of their own, in the order of DBTableOpt
    ListNodes,     \* the nodes whose entries have a list of objects (data_src)
    FactorySize,   \* entries of a node in config.json
    FactoryBody,   \* the attribute objects of these entries, for each node
    Bodies,        \* bound: those of new entries, some for each node
    MaxVer,        \* bound: updates in a behaviour
    MaxNew,        \* bound: new entries in an update
    MaxCrash,      \* bound: restarts in a behaviour
    MaxFail        \* bound: failing statements in a behaviour

Node == Range(Nodes)

ASSUME ConfigAssumption ==
    /\ Nodes \in Seq(Node)
    /\ FactorySize \in Nat /\ MaxVer \in Nat /\ MaxNew \in Nat /\ MaxCrash \in Nat /\ MaxFail \in Nat

\* The bodies somebody may give to a node.
Given(n) == {FactoryBody[n]} \cup Bodies[n]

\* "params" and "model" are one object, "data_src" is a list of objects.
ASSUME BodyAssumption == \A n \in Node : \A b \in Given(n) : IsBody(n \in ListNodes, b)

VARIABLES
    run,       \* m_jRuntimeSysCfg: a configuration for each node
    disk,      \* the committed tables
    cur,       \* the tables as the connection sees them
    tx,        \* a transaction is open
    hnd,       \* the handler, or main in LoadCfg: [pc, boot, node, todo, table, rest]
    view,      \* what each tool last read, or NoView
    acked,     \* the configuration of each node that was answered, or started with, last
    flight,    \* the one that was set, or started with, last
    accepted,  \* every configuration a node was ever given
    ver, crashes, fails   \* counters

db == <<disk, cur, tx>>
told == <<acked, flight, accepted>>
count == <<ver, crashes, fails>>
vars == <<run, db, hnd, view, told, count>>

Factory(n) == {[ver |-> 0, idx |-> i, body |-> FactoryBody[n]] : i \in 1..FactorySize}
NoView == [n \in Node |-> {[ver |-> -1, idx |-> -1, body |-> <<>>]}]
Booting == [pc |-> "tables", boot |-> TRUE, node |-> "none", todo |-> Nodes, table |-> "none", rest |-> {}]

\* The first start, with no database file.
Init ==
    /\ run = [n \in Node |-> {}]
    /\ disk = [n \in Node |-> {}] /\ cur = disk /\ tx = FALSE
    /\ hnd = Booting
    /\ view = [c \in Client |-> NoView]
    /\ acked = [n \in Node |-> Factory(n)] /\ flight = acked
    /\ accepted = [n \in Node |-> {Factory(n)}]
    /\ ver = 0 /\ crashes = 0 /\ fails = 0

Idle == hnd.pc = "idle"

\* A statement outside of a transaction is committed at once.
Write(c) == cur' = c /\ disk' = IF tx THEN disk ELSE c

\* The bodies that occur, and CfgText on them as functions, which TLC computes once.
Body == LET given == {FactoryBody[n] : n \in Node} \cup UNION {Bodies[n] : n \in Node}
        IN  given \cup {Loaded(l, Column(b)) : l \in BOOLEAN, b \in given}
ColumnOf == [b \in Body |-> Column(b)]
LoadedOf == [l \in BOOLEAN |-> [t \in Range(ColumnOf) |-> Loaded(l, t)]]

\* An entry as a row of its table, and a row as an entry.
Row(e) == [ver |-> e.ver, idx |-> e.idx, text |-> ColumnOf[e.body]]
Entry(n, r) == [ver |-> r.ver, idx |-> r.idx, body |-> LoadedOf[(n \in ListNodes)][r.text]]

Fail == fails < MaxFail /\ fails' = fails + 1 /\ UNCHANGED <<ver, crashes>>
-----------------------------------------------------------------------------
\* 0x11 and 0x12: a tool reads the runtime configuration.
GetCfg(c) ==
    /\ Idle
    /\ view' = [view EXCEPT ![c] = run]
    /\ UNCHANGED <<run, db, hnd, told, count>>

\* New entries keep the "-1" of the tool.
Bug_NoNumbers(n, k, b) == {[ver |-> ver + 1, idx |-> -1, body |-> b] : i \in 1..k}

\* The largest idx of the old configuration is not looked for: numbering from 1.
Bug_NewEntries(n, k, b) == {[ver |-> ver + 1, idx |-> i, body |-> b] : i \in 1..k}

\* "-1" entries are numbered from the largest idx of the old runtime configuration.
NewEntries(n, k, b) ==
    LET largest == CHOOSE m \in {0} \cup {e.idx : e \in run[n]} : \A e \in run[n] : e.idx <= m
    IN  {[ver |-> ver + 1, idx |-> largest + i, body |-> b] : i \in 1..k}

\* 0x13, 0x14, 0x15 up to the memory: the tool keeps some entries of what it read
\* and adds k new ones; RuntimeSysCfgUpdate numbers them and replaces the node.
\* A tool reads again before its next update (external: the tool is not in this
\* repository), so what it keeps is stale only if another tool was faster.
SetCfg(c, n, kept, k, b) ==
    /\ Idle /\ view[c] # NoView /\ ver < MaxVer
    /\ LET new == kept \cup NewEntries(n, k, b)
       IN  /\ run' = [run EXCEPT ![n] = new]
           /\ flight' = [flight EXCEPT ![n] = new]
           /\ accepted' = [accepted EXCEPT ![n] = @ \cup {new}]
    /\ ver' = ver + 1
    /\ hnd' = [hnd EXCEPT !.pc = "delete", !.node = n]
    /\ view' = [view EXCEPT ![c] = NoView]
    /\ UNCHANGED <<db, acked, crashes, fails>>

\* The table is not cleared first: InitDb finds rows and inserts nothing.
Bug_DeleteRoot ==
    /\ hnd.pc = "delete"
    /\ hnd' = [hnd EXCEPT !.pc = "tables", !.todo = Nodes]
    /\ UNCHANGED <<run, tx, view, told, disk, cur, count>>

\* The delete goes into the transaction of the inserts, which may stay open.
Bug_DeleteLater ==
    /\ hnd.pc = "delete"
    /\ cur' = [cur EXCEPT ![hnd.node] = {}] /\ tx' = TRUE
    /\ hnd' = [hnd EXCEPT !.pc = "tables", !.todo = Nodes]
    /\ UNCHANGED <<run, disk, view, told, count>>

\* "delete from <node>", whose result nobody looks at.
DeleteRoot ==
    /\ hnd.pc = "delete"
    /\ \/ Write([cur EXCEPT ![hnd.node] = {}]) /\ UNCHANGED count
       \/ Fail /\ UNCHANGED <<disk, cur>>
    /\ hnd' = [hnd EXCEPT !.pc = "tables", !.todo = Nodes]
    /\ UNCHANGED <<run, tx, view, told>>

\* What the table of a node is filled from: the factory configuration when booting.
Want(n) == IF hnd.boot THEN Factory(n) ELSE run[n]

\* DBTableOpt, one table, and CSqliteDbMng::InitDb: a table is filled if it is empty.
\* JsonTransaction begins a transaction (which fails inside another one); with
\* no row to insert it returns and leaves the transaction open.
SelectTable ==
    /\ hnd.pc = "tables" /\ hnd.todo # <<>>
    /\ LET n == Head(hnd.todo)
       IN  \/ /\ cur[n] # {}
              /\ hnd' = [hnd EXCEPT !.todo = Tail(@)]
              /\ UNCHANGED tx
           \/ /\ cur[n] = {} /\ Want(n) = {}
              /\ hnd' = [hnd EXCEPT !.todo = Tail(@)]
              /\ tx' = TRUE
           \/ /\ cur[n] = {} /\ Want(n) # {}
              /\ hnd' = [hnd EXCEPT !.pc = "insert", !.todo = Tail(@), !.table = n, !.rest = Want(n)]
              /\ tx' = TRUE
    /\ UNCHANGED <<run, disk, cur, view, told, count>>

\* One row of the transaction, without the transaction.
Bug_InsertRow ==
    /\ hnd.pc = "insert"
    /\ \E e \in hnd.rest :
          /\ cur' = [cur EXCEPT ![hnd.table] = @ \cup {Row(e)}]
          /\ disk' = cur'
          /\ hnd' = [hnd EXCEPT !.rest = @ \ {e}]
    /\ UNCHANGED <<run, tx, view, told, count>>

\* One row of the transaction.
InsertRow ==
    /\ hnd.pc = "insert"
    /\ \E e \in hnd.rest :
          /\ cur' = [cur EXCEPT ![hnd.table] = @ \cup {Row(e)}]
          /\ hnd' = [hnd EXCEPT !.rest = @ \ {e}]
    /\ UNCHANGED <<run, disk, tx, view, told, count>>

\* A row fails: everything since the transaction began is rolled back, and the
\* failure is reported to nobody.
RowFails ==
    /\ hnd.pc = "insert" /\ hnd.rest # {}
    /\ Fail
    /\ cur' = disk /\ tx' = FALSE
    /\ hnd' = [hnd EXCEPT !.pc = "tables", !.rest = {}]
    /\ UNCHANGED <<run, disk, view, told>>

Commit ==
    /\ hnd.pc = "insert" /\ hnd.rest = {}
    /\ disk' = cur /\ tx' = FALSE
    /\ hnd' = [hnd EXCEPT !.pc = "tables"]
    /\ UNCHANGED <<run, cur, view, told, count>>

\* The handler waits for the transaction that an empty list left open.
Bug_Reply ==
    /\ hnd.pc = "tables" /\ hnd.todo = <<>> /\ ~hnd.boot /\ ~tx
    /\ acked' = [acked EXCEPT ![hnd.node] = flight[hnd.node]]
    /\ hnd' = [hnd EXCEPT !.pc = "idle"]
    /\ UNCHANGED <<run, db, view, flight, accepted, count>>

\* The update is answered "ok", whatever the database did.
Reply ==
    /\ hnd.pc = "tables" /\ hnd.todo = <<>> /\ ~hnd.boot
    /\ acked' = [acked EXCEPT ![hnd.node] = flight[hnd.node]]
    /\ hnd' = [hnd EXCEPT !.pc = "idle"]
    /\ UNCHANGED <<run, db, view, flight, accepted, count>>

\* LoadRuntimeSysCfgInDb: the tables become the runtime configuration.
Load ==
    /\ hnd.pc = "tables" /\ hnd.todo = <<>> /\ hnd.boot
    /\ run' = [n \in Node |-> {Entry(n, r) : r \in cur[n]}]
    /\ acked' = run' /\ flight' = run'
    /\ hnd' = [hnd EXCEPT !.pc = "idle", !.boot = FALSE]
    /\ UNCHANGED <<db, view, accepted, count>>

\* Another thread saves an alert or a face while a transaction is open: its own
\* begin fails, its commit ends the open one, its failure rolls that one back.
OtherSave ==
    /\ tx /\ hnd.pc # "insert" /\ ~hnd.boot
    /\ tx' = FALSE
    /\ \/ disk' = cur /\ UNCHANGED <<cur, count>>
       \/ Fail /\ cur' = disk /\ UNCHANGED disk
    /\ UNCHANGED <<run, hnd, view, told>>

\* The process dies, the tools lose their connections and will read again, SQLite
\* rolls back what is not committed, main runs again.
Crash ==
    /\ crashes < MaxCrash
    /\ crashes' = crashes + 1
    /\ cur' = disk /\ tx' = FALSE
    /\ hnd' = Booting
    /\ run' = [n \in Node |-> {}]
    /\ view' = [c \in Client |-> NoView]
    /\ UNCHANGED <<disk, told, ver, fails>>

Handler == \/ DeleteRoot \/ SelectTable \/ InsertRow \/ RowFails
           \/ Commit \/ Reply \/ Load

Next ==
    \/ \E c \in Client : \/ GetCfg(c)
                         \/ \E n \in Node : \E kept \in SUBSET view[c][n], k \in 0..MaxNew, b \in Bodies[n] :
                               SetCfg(c, n, kept, k, b)
    \/ Handler \/ OtherSave \/ Crash

SafeSpec == Init /\ [][Next]_vars
Spec == SafeSpec /\ WF_vars(Handler)
-----------------------------------------------------------------------------
\* Entries, or rows, that v updates can have made.
Numbered(S, v) == \A e \in S : e.ver \in 0..v /\ e.idx \in 1..(FactorySize + v * MaxNew)
Tables(f, v) == f = [n \in Node |-> f[n]] /\ \A n \in Node : Numbered(f[n], v)
Handlers(rest) == [pc : {"idle", "delete", "tables", "insert"}, boot : BOOLEAN, todo : Seq(Node),
                   node : Node \cup {"none"}, table : Node \cup {"none"}, rest : {rest}]

\* Type correctness; in particular an entry never keeps the idx -1.
TypeOK ==
    /\ ver \in 0..MaxVer /\ crashes \in 0..MaxCrash /\ fails \in 0..MaxFail
    /\ Tables(run, ver) /\ Tables(disk, ver) /\ Tables(cur, ver)
    /\ Tables(acked, ver) /\ Tables(flight, ver)
    /\ accepted = [n \in Node |-> accepted[n]] /\ \A n \in Node : \A S \in accepted[n] : Numbered(S, ver)
    /\ tx \in BOOLEAN
    /\ hnd \in Handlers(hnd.rest) /\ Numbered(hnd.rest, ver)
    /\ view = [c \in Client |-> view[c]] /\ \A c \in Client : view[c] = NoView \/ Tables(view[c], ver)

Rows(S) == {Row(e) : e \in S}

\* No configuration of the node ever had a separator in a value.
CleanNode(n) == \A S \in accepted[n] : \A e \in S : Clean(n \in ListNodes, e.body)

\* The node was once given an empty configuration; it is not one of two such nodes.
Emptied(n) == {} \in accepted[n]
Alone(n) == Emptied(n) => \A m \in Node \ {n} : ~Emptied(m)

\* Whenever the process dies it leaves, for each node, a configuration somebody set,
\* the factory's, or nothing: never a part of one, although rows are inserted one by
\* one and a transaction may be shared by several threads.
Whole(n) == {Rows(S) : S \in accepted[n]} \cup {{}}
DiskWhole == \A n \in Node : disk[n] \in Whole(n)

\* A start brings back what was answered last, what was being set, or the factory's,
\* if no statement failed: an older configuration never comes back, and the way
\* through text loses no attribute, empty ones, empty lists and several objects
\* included.  Two exceptions: a value that contains a separator does not survive,
\* and of two nodes with empty lists one may have been emptied in the transaction
\* that the other left open, which nobody committed.
RecoversKnown ==
    [][fails = 0 /\ hnd.boot /\ Idle' =>
         \A n \in Node : CleanNode(n) /\ Alone(n) =>
             run'[n] \in {acked[n], flight[n], Factory(n)}]_vars

\* Memory and database agree between updates, if no statement failed: also after
\* empty configurations, which leave a transaction open.
StoreAgrees ==
    fails = 0 /\ Idle => \A n \in Node : CleanNode(n) => cur[n] = Rows(run[n])

\* "唯一标识方式": within a node the idx names one entry, so that the task or the
\* camera found by type and idx is the one that was meant.
Unique(S) == \A d, e \in S : d.idx = e.idx => d = e
UniqueIdx == \A n \in Node : Unique(run[n])

\* An update, or a start, comes to its end.
HandlerEnds == ~Idle ~> Idle

\* "配置更新及持久化", updated and persisted: what runs after a restart is what was
\* answered "ok" last, or what was being set when the process died.
Persisted == [][hnd.boot /\ Idle' => \A n \in Node : run'[n] \in {acked[n], flight[n]}]_vars
-----------------------------------------------------------------------------
\* Why the disk is whole.  What the connection sees is whole but for the table that
\* is being filled, which holds the rows of Want without the rest; a table whose
\* entries in memory were read back (and may differ from what was set) is not empty
\* in either view, so that it is never filled from memory.
CurWhole ==
    /\ \A n \in Node : Factory(n) \in accepted[n]
    /\ \A n \in Node : cur[n] \in Whole(n) \/ (hnd.pc = "insert" /\ n = hnd.table)
    /\ ~tx => cur = disk
    /\ hnd.boot => /\ hnd.pc \in {"tables", "insert"}
                   /\ \A n \in Node : cur[n] = disk[n] \/ (hnd.pc = "insert" /\ n = hnd.table)

Filling ==
    hnd.pc = "insert" =>
        /\ tx /\ hnd.table \in Node
        /\ Want(hnd.table) \in accepted[hnd.table] /\ hnd.rest \subseteq Want(hnd.table)
        /\ cur[hnd.table] = Rows(Want(hnd.table) \ hnd.rest)

FillsAccepted ==
    ~hnd.boot =>
        /\ \A n \in Node : run[n] \in accepted[n] \/ run[n] = {} \/ (cur[n] # {} /\ disk[n] # {})
        /\ hnd.pc # "idle" => hnd.node \in Node /\ run[hnd.node] \in accepted[hnd.node]

IInv == TypeOK /\ DiskWhole /\ CurWhole /\ Filling /\ FillsAccepted

\* Why the idx is unique with one tool: what it read is what runs.
ViewFresh == \A c \in Client : view[c] = NoView \/ (view[c] = run /\ ~hnd.boot)
AcceptedUnique == \A n \in Node : \A S \in accepted[n] : Unique(S)

\* JsonTransaction and BuildJsonObject are inverse: the attribute objects that became
\* the text of a column are read back with every attribute, object and empty value, if
\* no value contains a separator and no object of a list is without attributes.
RoundTrip ==
    \A n \in Node : \A b \in Given(n) :
        Clean(n \in ListNodes, b) => LoadedOf[(n \in ListNodes)][ColumnOf[b]] = b

\* Why memory and database agree.  Entries of a clean node have bodies that somebody
\* gave: these, by RoundTrip, are read back as they were.
AllGiven(n, S) == S \subseteq [ver : Nat, idx : Nat, body : Given(n)]
BodiesGiven ==
    \A n \in Node : CleanNode(n) =>
        /\ \A S \in accepted[n] : AllGiven(n, S)
        /\ AllGiven(n, run[n])
        /\ \A c \in Client : view[c] # NoView => AllGiven(n, view[c][n])

\* Outside of the node that is being updated memory and database agree.
Same(n) == ((cur[n] = {}) <=> (run[n] = {})) /\ (CleanNode(n) => cur[n] = Rows(run[n]))
ToFill(n) == n \in Range(hnd.todo)
InStep ==
    fails = 0 =>
        /\ hnd.boot => \A n \in Node : cur[n] # {} \/ Factory(n) = {} \/ ToFill(n)
                                       \/ (hnd.pc = "insert" /\ n = hnd.table)
        /\ ~hnd.boot => \A n \in Node : Idle \/ n # hnd.node => Same(n)
        /\ ~hnd.boot /\ hnd.pc = "delete" =>
              (CleanNode(hnd.node) => cur[hnd.node] = Rows(acked[hnd.node]))
        /\ ~hnd.boot /\ hnd.pc = "tables" =>
              Same(hnd.node) \/ (cur[hnd.node] = {} /\ run[hnd.node] # {} /\ ToFill(hnd.node))
        /\ ~hnd.boot /\ hnd.pc = "insert" => hnd.table = hnd.node

\* The last answers are what runs, and were accepted.
Answers ==
    /\ ~hnd.boot => \A n \in Node : flight[n] = run[n] /\ (Idle \/ n # hnd.node => acked[n] = run[n])
    /\ fails = 0 => \A n \in Node : CleanNode(n) => acked[n] \in accepted[n] /\ flight[n] \in accepted[n]

\* A transaction stays open only behind an empty table.
LeftOpen ==
    fails = 0 =>
        /\ ~hnd.boot => \A n \in Node : run[n] = {} => Emptied(n)
        /\ tx /\ hnd.pc # "insert" => \E m \in Node : cur[m] = {} /\ Emptied(m)

\* What is committed.
Committed ==
    fails = 0 => \A n \in Node : Alone(n) =>
        /\ hnd.boot => (CleanNode(n) => disk[n] \in {Rows(acked[n]), Rows(flight[n]), Rows(Factory(n)), {}})
        /\ ~hnd.boot /\ (hnd.pc \in {"idle", "delete"} \/ n # hnd.node) => disk[n] = cur[n]
        /\ ~hnd.boot /\ hnd.pc \in {"tables", "insert"} /\ n = hnd.node =>
              /\ CleanNode(n) => disk[n] \in {Rows(acked[n]), Rows(flight[n]), {}}
              /\ disk[n] = cur[n] \/ (cur[n] = {} /\ run[n] # {} /\ ToFill(n)) \/ hnd.pc = "insert"

SInv == BodiesGiven /\ InStep /\ Answers /\ LeftOpen /\ Committed
=============================================================================
