# TLA+ models of the edge perception server

This directory holds TLA+ models of the program in `src/src`: an edge server
that pulls pictures from cameras (RTSP streams or HTTP snapshots), runs
detection and face recognition on them, stores alerts in SQLite, and is
configured and read out over a TCP protocol
(`src/doc/边缘计算端与配置端通信协议.txt`). Paths below are relative to `src/src`.

TLC checks each model on a small instance; TLAPS proves the theorems of the
`*_proofs` modules for every value of the constants. `PROJECT.json` lists the
components, the runs, the source lines behind every definition, the findings,
the hazards and the theorems.

To repeat a check: `tlc -config MCRWLock.cfg MCRWLock`, and
`tlapm RWLock_proofs.tla` for the proofs.

## 1. Inventory

### How the program runs

`main/main.cpp` loads the configuration, opens redis, starts the northbound
transports, the algorithm modules, the application modules and finally the
southbound transports: cameras and the TCP servers. After that these threads
exist:

- one **pull thread** for each camera (`CPullStream`, period 5 ms) which runs
  the live555 scheduler, and for a snapshot camera a **snapshot thread**
  (`CRtspCliMng::SnapShotLoop`, period 5 s);
- one **camera thread** for each camera (`CVsTransferMng::PullVideLoop`,
  period 10 ms) which takes pictures out of the queue and publishes them on the
  message bus. The bus is synchronous: inference, the task's report and the
  SQLite statements all happen in this thread;
- the **I/O threads** of the muduo TCP servers. A handler reads or replaces the
  configuration, restarts cameras and tasks, registers faces, and answers
  downloads, also synchronously.

### Components

| component | state | operations | what makes it correct |
|---|---|---|---|
| `common/cmmobj/mutex/RWLock.hpp` | two counters, a flag, two condition variables | lock and release, read and write | exclusion, no lost wakeup, writers first, progress |
| `common/cmmobj/thread/Thread.*` | mutex, condition variable, thread | construct, loop, destroy | callbacks never run after the destructor; the destructor returns |
| camera: `transfer/rtsp/net/{PullStream,RtspCliMng,RtspCli,VideoQueue}` | camera info and `bUpdate`, URLs, decoder, scheduler, session, queues | start, update, restart, delete, RTSP events, frames, snapshots, pop | one producer, pictures copied with their own size, orderly teardown, updates take effect, a broken stream reconnects |
| camera managers: `VideoMng`, `PullStreamMng`, `VideoQueueMng`, `main/TransferMng/VsTransferMng.cpp` | maps of cameras under the read-write lock, publishing threads | start, add, modify, delete | not destroyed while opened; a camera is whole or gone; every operation returns |
| alert tables: `app/CommSafe/CommSafe{Detect,Face,Mng}.cpp` over SQLite | rows with increasing ids | delete oldest, insert, info query, batch query | bounded window; downloads complete, without duplicates, finite |
| detection: `CommSafeDetect`, `alg/.../DetectAlg*`, `main/AppMng/AppModuleMng.cpp` | data sources of tasks, report topics, loaded models, subscriptions | start and update of tasks, frame to alert | alerts of configured sources only; an answered update is in force; an update is answered, "ok" only if it is in force; disabled tasks stop |
| face recognition: `CommSafeFace`, `alg/.../FaceAlg*` | features, report topics, subscriptions, two tables | initialise, register, update features, recognise | alerts name stored faces; the algorithm compares with the stored faces; two mutexes without a circle |
| configuration: `main/CfgMng`, `main/DbMng/SqliteDbSvr.cpp` | JSON in memory, tables, factory file | read, update, number, persist, load | whole configurations on disk, memory and disk agree, idx unique, survives a restart |
| SQLite access: `db/sqlitedb` | one connection, one open transaction at most | statements and transactions | one user at a time; a failure leaves no partial transaction |
| message bus: `common/template/msgbus` | topics and callbacks | attach, remove, send | every subscriber called once |
| TCP framing: `common/cmmobj/network/NetTcpDataPkg.cpp`, `buf/SmartBuffer.cpp` | bytes received so far | encode, append, decode | what is decoded is what was sent, however it is cut |
| RPC client pool: `transfer/rpc/client`, `common/template/rpc` | clients, their busy and connection flags | take, create, call, reconnect, give back | a client has one user; no answer is read by another call; every call returns |

Not listed above and not modelled: redis and HTTP clients (thin wrappers, pure
I/O), the USB camera (device I/O), inference and image processing (floating
point on the NPU), the algorithm loader (`dlopen` once at start), the coroutine
library and the thread pool (neither is used by the program), and the generated or
vendored code (thrift, gSOAP, tinyxml, metann).

### Where it is hard

`PROJECT.json` lists the hazards with their lines. In short: state is shared by
threads that were written as if alone (`bUpdate`, the report topics, the one
SQLite connection with its one transaction); locks are held across callbacks
into other modules; several operations are a pair of statements with nothing in
between to hold them together (delete and insert of an alert, of a
configuration); the configuration tool works from what it read earlier; a
restart can fall anywhere; a thread is stopped by a signal that is not
remembered.

## 2. Modules and how they correspond to the code

### `RWLockSpec`, `RWLock`, `MCRWLock`, `RWLock_proofs`

`RWLockSpec` is the abstract write-first lock: what each thread holds or wants;
a reader enters only while no writer is inside or waiting, a writer only while
nobody is inside. `RWLock` is `WfirstRWLock`: `read_cnt`, `write_cnt` and
`inwriteflag` as in the code, `pc` for the threads. A method holds
`counter_mutex` from its first line to its return or to the wait, so each such
section is one action: `lock_read`, `lock_write`, the re-evaluation of the
predicate after a wakeup (`reread`, `rewrite`), `release_read` and
`release_write` with their `notify_one` or `notify_all`, and `SpuriousWakeup`.
The refinement mapping `absMode` forgets the difference between asleep and
woken.

### `CThread`, `RtspCliMng`, `MCRtspCliMng`, `RtspCliMng_proofs`

`CThread` holds the steps of a periodic thread: the loop's wait, timeout, exit
with `i_mutex` locked, and the destructor's signal and join. A signal reaches
only a loop that is in its wait, a wakeup may be spurious, and a period in
milliseconds may fail with `EINVAL` near a full second because `GetTv` does not
carry. `RtspCliMng` instantiates it for the pull thread and the snapshot thread
of one camera and adds `CPullStream::Start` and destructor, `OpenCamera`,
`ReleaseSource`, `RestartCam`, `PullStream`, `SetUpdate`, the RTSP session's
handlers, `CallBackFunc`, `SnapShotLoop` and the queue. A configuration of the
camera is its number and work mode; a picture is the number of the configuration
that took it and the size it was copied with, and two configurations have
different sizes.

### `AlertTable`, `AlertReport`, `MCAlertReport`, `AlertReport_proofs`

`AlertTable` is the promise of an alert table: a writer deletes
`id <= max(id) - s32QueueSize`, then inserts one row; each statement is atomic
(`m_rwLock`), the pair is not; either may fail and nobody looks. `AlertReport`
adds a tool that downloads the table with `ReportInfo` and `ReportBatch` while
writers go on and the process restarts. A row is its id.

### `DetectPipeline`, `MCDetectPipeline`, `DetectPipeline_proofs`

Both directions through a detection task: a camera thread in `ProcMat`,
`ProResultMsg` and the two statements; a handler in `AppUpdate`,
`CCommSafeDetect::Init` and `CDetectAlg::Init`. They meet at the task's
`m_CfgMutex`, the data source's `m_mapReportTopicMutex` and the alert table.
`ImplementsAlertTable` says that the pipeline is an `AlertTable` with one writer
for each *task*, because `m_CfgMutex` is held across both statements.

An update visits the tasks that `GetAppModuleTaskLst` lists (`listed`), which are
not always the enabled ones (`on`). The first enabled task, of whatever kind, whose
algorithm is not found ends the loop (`AppModuleMng.cpp:102-105`), and a Transfer
node without `SouthTcpSvr` ends `StartAppModule` before it (`:27-31`); the handler
replies "ok" all the same. Which tasks come before the failing one depends on the
order of the tool's list, so a failed lookup (`found` is false) leaves any subset of
the enabled tasks. A data source that Transfer does not have is left out of its
task's list silently (`:108-113`); `src` is what remains.

### `VideoMng`, `MCVideoMng`, `VideoMng_proofs`

The cameras as a collection. A camera is an entry in `m_mapVSObjs` (its queue),
one in `m_mapPSObjs` (its `CPullStream`) and one in `m_mapPullStream` (the thread
that publishes its pictures). Handlers run `StartCameras` and the three `Sync`
functions at the same time; each lookup or change of a map is an action, because
each takes and releases its lock, and an operation makes several. The lock of
`CPullStreamMng` is `RWLockSpec`, instantiated with the handlers as threads: what
`RWLock` was shown to implement is what this module relies on. `Start` (opening,
under the read lock) and `Erase` (joining the threads, under the write lock) take
time; `Erase` may hang, as `CThread` shows. The information of a camera is the
number of the operation that gave it. `alone` and `mixed` only record which
operations overlapped on one camera.

### `FaceTask`, `MCFaceTask`, `FaceTask_proofs`

One `CFaceAlg`, its tasks, cameras and the handlers of 0x13, 0x71 and 0x72.
`ProcVideoStream`, `Compare`, `Report`, `ProResultMsg` and the two statements run
in a camera's thread with `m_mapFaceFeatureMutex` held from the comparison and
`m_mapReportTopicMutex` from the report; `SetReportTopic` and `SetFaceFeature`
take them in a handler's. A face is its id in `FaceRegisteTable`, where nothing is
deleted, so that a list of faces is a number; `who` is the `face_id` of each
alert. `Restart` keeps the tables and loses the memory. `DataSrcInit` subscribes
again at every update, which `subs` counts. `on` is the list that
`GetAppModuleTaskLst` makes, early returns included; an update may bring any list.
A registration whose insert fails is answered "ok" and stores nothing, so the
properties speak of stored faces, not of answered registrations.

### `RpcPool`, `MCRpcPool`, `Network_proofs`

`CRPCClientMng` and `CRPCClient` under `RpcWrap`: `GetRpc`, one step of `Scan`
for each client looked at, `CreateClientService` under `m_Mutex`, `OpenRPCConn`,
the call, `CloseRPCConn` and `SetWorkStatus`. The server stops and starts, a call
may time out with its answer still to come (`link = "late"`), and `Abandon` is
the exception of `RpcWrap`'s cast between taking a client and calling it.
`StartRpcli` of this version returns before it brings the pool into use; the
model is of what the pool does when it is used.

### `CfgText`, `CfgMng`, `MCCfgMng`, `CfgMng_proofs`

`CfgText` is the text that attribute objects become in a table column
(`ParseSubElmFun`, `Column`) and what `SpliteStrFun` and `Strtok` make of it at
the next start. Texts are sequences of words and separators. `Strtok` drops empty
pieces, so an object without attributes is lost from a list, and is read back only
because the column of a single object falls back to the empty one.

`CfgMng` is the configuration in memory (`run`), as the SQLite connection sees it
(`cur`) and as committed (`disk`), with the transaction `tx` of the one
connection. A tool reads (`GetCfg`) and sends an edited node (`SetCfg`); the
handler deletes the node's rows, walks all tables as `DBTableOpt` does, fills the
empty ones row by row in a transaction, and replies. `Load` (which decodes the
rows) and `Booting` are the start of the process, `OtherSave` is a save of another
thread that falls into a transaction left open, `Crash` is a restart. An entry of
a configuration is its idx, the update that created it and its attribute objects.

### `TcpFrame`, `Crc1021`, `MCTcpFrame`, `Network_proofs`

The bytes of the TCP protocol. `PkgProtocolData` packs a message (head flag,
length, escaped header, body and CRC-1021, tail flag), `UnDataPkg`,
`ReadPkgHead`, `ReadWholePkg` and `ParsePkgData` take a stream of pieces apart,
and `OnTcpConnect` keeps one unpacker for each address and port. Bytes are real
bytes and the checksum is the real one, because whether the rest of a broken
package passes for a message depends on them. `ReadWholePkg` is a loop: `NextPkg`
is one turn of it, and the number of turns is bounded by the tail flags in the
buffer, each of which one turn takes away. `TcpFrame` has the checksum as a
parameter; `Crc1021` is the program's, with which the runs are made. It works on
bits, which the provers do not, and nothing in the proofs depends on which
function it is.

## 3. Runs

Passing:

| run | instance | what it shows |
|---|---|---|
| `rwlock` | 4 threads | counters and flag are exact, exclusion, no lost wakeup, refinement of `RWLockSpec`, progress of writers always and of readers once writers stop |
| `camera` | both work modes, 2 updates, queue of 2 | after any order of restarts and mode changes there is one producer, a picture is copied with its own decoder's size, no thread outlives the camera, and an update is noticed unless a thread hung |
| `alerts` | 2 writers, queue size 2, 6 rows, 1 failing delete, batches of 1 or 2 | the table is a gapless window of bounded size; a download is complete, free of duplicates, never meets the empty reply and ends |
| `pipeline` | 2 tasks, 2 cameras, 1 update after the start | alerts come only from data sources the task has at that moment; an answered update is in force for every enabled task if no lookup failed, and for every listed task in any case; refinement of `AlertTable` |
| `cameras` | 2 handlers, 2 cameras, 3 operations | a camera is not destroyed while it is opened; after operations that did not overlap on it a camera is whole, with the last information, or gone from both maps; every operation returns unless a destructor hangs |
| `face` | 1 task, 2 cameras, 2 registrations of 2 faces, 1 update, 1 restart, failing inserts, repeated subscriptions | every alert names a stored face; the algorithm compares with exactly the stored faces, failed inserts or not, unless two lists overlapped; whoever holds the feature mutex never waits for the topic mutex; refinement of `AlertTable` with one writer |
| `rpc` | 2 callers, pool of 2, 4 client objects, a server that stops and answers late, abandoned clients | a client has one user, no call meets a late answer, every call returns |
| `config` | 1 tool, 2 nodes (one with a list of objects), 2 updates, 2 restarts, 1 failing statement, values that are empty, of a word, or with a separator | the disk holds whole configurations; if no statement failed, a start brings back what was answered, what was in flight or the factory configuration of a node, entries without separators as they were stored, except for nodes of which two were given empty lists; memory and database agree, idx is unique with one tool, every update and start ends |
| `tcp` | 4 bodies, 2 versions, 2 messages on each of 2 connections, pieces of 1, 6, 31 or 300 bytes, buffer limit 30 | every message that is well-formed, of a known version and within the limit arrives with its last byte, whatever came before it; nothing arrives that was not sent |

Violations, each a disagreement between the code and what its comments or the
protocol document say (details in `PROJECT.json`, "findings"):

| run | what TLC finds |
|---|---|
| `camera_update` | an update that arrives while the camera restarts for an earlier one is cleared with it and never opened |
| `pipeline_answer` | the handler and a camera thread take `m_CfgMutex` and `m_mapReportTopicMutex` in opposite orders and wait for each other |
| `tcp_length` | a package whose length contains 0x0B is cut there and lost, because the length is the one field that is not escaped |

Further disagreements have no run of their own. The first five are stated as
definitions in their modules and TLC refutes them when they are added to the
run's cfg:

- `Reconnects` (`RtspCliMng`): the comment "断线重启" (restart on disconnection) at
  `RtspCliMng.cpp:208` does not come true: `m_bReconnFlag` is set only where it is
  set already, so a broken stream is never reopened until an update.
- `AnsweredOkInForce` (`DetectPipeline`): an update is answered "ok" (the protocol
  document, line 153, has "ok/fail") although an enabled task was not taken over:
  the loop over the tasks ends at the first enabled one whose algorithm is not
  configured (`AppModuleMng.cpp:102`), and does not begin without a `SouthTcpSvr`.
  The skipped tasks keep what they had.
- `DisabledTasksStop` (`DetectPipeline`): a task that was running and is disabled
  keeps writing alerts, because an update skips it and its subscriptions stay;
  `UpdateInForce` is about enabled tasks and does not see it
  (`AppModuleMng.cpp:91` says that start and end time decide).
- `Persisted` (`CfgMng`): a restart between the delete and the insert of a node,
  or after an empty list, brings the factory configuration back
  (`CfgMng.cpp:373`: "update and persist"). With three updates (`MaxVer = 3`) even
  an older configuration may come back: after two nodes were given empty lists the
  delete of the second is in the transaction that the first left open, so that a
  restart undoes it together with whatever that node was given since (`Alone` in
  `CfgMng` excludes it).
- `TopicFollows` (`VideoMng`): the publishing thread of a camera keeps the address
  it was created with, so that after a change of address the tasks wait for a
  topic that nobody publishes.
- `UniqueIdx` fails with two tools (`Client = {c1, c2}` in `MCCfgMng.cfg`): new
  entries are numbered against the stored configuration while the kept ones come
  from what the tool read earlier.
- Of two registrations at the same time the older list of faces may be applied
  last; the newer face is then unknown to the algorithm until the next
  registration or update (`mixed` in `FaceTask` excludes it).
- Operations on one camera at the same time may leave a queue without a stream or
  a stream without a queue (`mixed` in `VideoMng` excludes it).
- A registration whose insert fails is answered "ok" (`CommSafeFace.cpp:218,226`);
  the face is neither stored nor compared with.
- Separators in configuration values are not escaped: "a:b" is "a" after a
  restart, "a|b" two attributes, "a&b" two objects (`CleanNode` in `CfgMng`
  excludes it).
- A client that `RpcWrap` took and could not cast stays busy for ever; the calls
  then go over short connections.

### Bounds

Every bound is a constant of the module that uses it. Two readers and two
writers are needed for a lost wakeup and for barging; four threads allow any
split. Two updates of a camera are needed for an update during a restart, and a
queue of two for pictures of two configurations side by side. Six rows with a
queue of two let the window pass a whole download range and a restart. Two tasks
on two cameras are needed for the lock cycle through two reports and for a
source that is taken away from one task and kept by another; with two tasks a failed
lookup leaves out one, both or none. Two updates of two
nodes reach an open transaction left by one node and used by the other, and two
restarts a restart of what an earlier one brought back. The
bodies of `tcp` are an empty one, one of flags and escapes only, one longer than
the buffer limit, so that the buffer is dropped in the middle of a package with
more than a minimal package still to come, and one that makes the length 267 =
0x010B; pieces of one byte reach every cut. Two handlers and three operations on
two cameras reach an opening that overlaps a deletion and a third operation
waiting behind the writer. Two registrations with one update, one camera in a
report and one waiting, and a restart reach every overlap of lists with a report.
A pool of two with four clients reaches a full pool, an abandoned one, and two
short connections at once. The bodies of `config` are an empty list, two
objects, an object without attributes, an empty value, and a value with a
separator. The
deadlock check is off where the bounded system ends legitimately (all updates
used up and the camera deleted) or where a hang is itself the subject (the
mutexes of the pipeline, `~CThread`).

### Fairness

- `RWLock`: a woken thread gets `counter_mutex`, and a guard object is
  destroyed. Nothing is assumed about threads asking for the lock.
- `RtspCliMng`: threads are scheduled; `i_mutex` and `m_CamBaseInfoMutex` are
  held for a callback or an HTTP request and then left for a period, hence
  strong fairness on what waits for them. RTSP events are not fair: a camera may
  stay silent for ever.
- `AlertReport`: the tool asks for the next batch and the server answers.
  Nothing is assumed about the writers.
- `DetectPipeline`: handler and camera threads are scheduled, a mutex that is
  free again and again is obtained, a task's list of entries is finite, cameras
  deliver frames. Nothing is assumed about updates.
- `CfgMng`: the handler runs on. Tools, failures and restarts are not fair.
- `VideoMng`: a handler goes on when it can again and again, which is the progress
  of the lock that `rwlock` shows, and a camera's network requests time out.
- `RpcPool`: a caller goes on (`m_Mutex` is left after a search or a connection
  attempt with a timeout). The server need not come back.
- `FaceTask`: none; its properties are safety properties.
- `TcpFrame`: none; its properties are invariants.

## 4. Theorems

- `RWLock_proofs`, for any finite set of threads (`ThreadAssumption`):
  `Invariance` proves `IInv` = types, exact counters, exclusion and
  `NoLostWakeup` together. Exclusion by itself is not inductive: it needs the
  counters to be cardinalities of sets of threads, so the proof rests on lemmas
  about adding and removing one element of a finite set. `LockExcludes`,
  `CountersAgree`, `NobodyForgotten` and `Refinement` follow from it; the last
  shows that every
  step of the counters and wait sets is a step of `RWLockSpec` or a stutter.
- `AlertReport_proofs`, for any number of writers, queue size and batch size
  (`TableAssumption`, `BatchAssumption`): `RingBounded` (the table is a window
  without gaps, and its size is bounded by the queue, the writers that are
  between their two statements, and failed deletes), and from the invariant of
  the download `DownloadComplete`, `DownloadOnce` and `DownloadAnswered`. The
  invariant adds to these that everything received lies below `next`, and that
  while a download runs `next <= last <= seq`: this is why the empty reply is
  not met. `DownloadWindow` carries `RingBounded` over to the system with
  downloads and restarts.
- `RtspCliMng_proofs`, for any capacity of the queue and any number of updates and
  session steps (`CameraAssumption`): `TypeCorrect`, `OneProducer`, `SizesMatch`
  and `CallbacksEnd`. One producer is not inductive, because opening and releasing
  a camera take many steps and are done by the camera's owner or by its pull thread.
  `IInv` adds `OneWorker` (the pull thread is there only while the owner runs the
  camera or waits to join that thread, and works on the source only inside its
  callback, so that one of the two at a time does), `SnapOwned` (the snapshot thread
  is being destroyed exactly while one of them waits for it), `SourceClosed` (from
  the end of `ReleaseSource` to the end of `OpenCamera` there is no scheduler and no
  snapshot thread) and `SizeKnown` (a scheduler has a decoder whose size the queue
  has, or takes over with the first picture).
  The steps of `CThread` are treated once for both threads.
- `CfgMng_proofs`, for any nodes, updates, failing statements and restarts
  (`ConfigAssumption`): `TypeCorrect` and `WholeOnDisk` rest on `IInv`: what the
  connection sees is whole except for the table being filled, which holds the rows
  of the wanted configuration without the rest, and a table is only filled from a
  configuration somebody set. A save of another thread that commits the open
  transaction is harmless for this reason only. `UniqueForOneTool` assumes that
  there is one tool, since the property is false with two; `UInv` says that what
  the tool read is what runs. `MemoryAgrees` and the action property
  `RecoveryKnown` hold for any number of tools. Their invariant `SInv` says that
  tables and memory are in step for every node that is not on the way to be filled,
  what was answered and is in flight, that a transaction stays open only behind an
  emptied node, and what is committed meanwhile. Both rest on `TextReadBack`: a
  body (`IsBody`) whose values contain no separator, and whose objects have
  attributes if it is a list (`Clean`), is read back from its column as it was, for
  any words (`WordsAssumption`) and any number of objects. It is proved by
  induction over the text: `Runs` is a run of `Strtok` over a part of a text, runs
  can be joined (`RunsJoin`), a piece and the separator behind it add that piece
  (`RunsPiece`); attribute by attribute the pieces build the object (`ObjectText`)
  and object by object the list (`ColumnCut`). `RoundTripHolds` says it for the
  bodies of the nodes (`BodyAssumption`); TLC evaluates it on those of `config`
  (`MCRoundTrip`).
- `DetectPipeline_proofs`, for any tasks and cameras (`SourceAssumption`):
  `PipelineInvariance` proves that m_CfgMutex has one holder, which the model
  does not keep as a variable but reads off the program counters;
  `AlertsAreConfigured` and `PipelineImplementsTable` follow. Without the single
  holder two cameras could write for one task at once and the refinement
  mapping, which knows one writer for a task, would not exist.
  `AnsweredIsInForce` needs a strengthening of its own, `UpdateOnItsWay`: in the
  middle of an update a listed task is still to be visited, or has its data sources
  and lacks a topic only at those that `CreateAlgObj` has not reached. That all
  enabled tasks are listed when no lookup failed is part of the type invariant.
- `VideoMng_proofs`, for any cameras, handlers and number of operations
  (`ListingsAssumption`): `ManagersInvariance` and from it
  `NotErasedWhileOpened`. The invariant says who holds the lock at which step,
  that a writer excludes, that what is opened is there, and that a camera in the
  map has been given information, without which an update could turn an entry
  into the absent one. `CamerasStayWhole` needs `WInv` beside it: what each handler
  still has to visit (`Shapes`), that nobody else is at work on a camera that is not
  `mixed` (`Apart`), and for each handler and each of its cameras whether the camera
  is still as before, is midway, with what each step has put into which map, or
  is finished (`Stages`).
- `FaceTask_proofs`, for any tasks, cameras and registrations (`FaceAssumption`):
  `FaceInvariance`, and from it `FacesKnown`, `NoCircularWait`,
  `FaceImplementsTable` and `FacesInForce`. The invariant adds that every list on its way to the
  algorithm, in a handler or already in force, and every match on its way to the
  table names stored faces; a restart keeps it because faces are never deleted.
  For `FacesInForce` it is strengthened by `OneList`: unless lists overlapped, at
  most one handler has one on its way, and it is the list that is stored.
- `Network_proofs`, for any callers, clients and pool size (`PoolAssumption`):
  `PoolInvariance`, `ClientsApart` and `NoStrayAnswer`. A client is taken only
  when it is not busy, so apartness needs that every client in use is marked busy
  and that one caller searches at a time; a late answer belongs to a caller that
  is about to close its connection.
- `Network_proofs`, for any bodies, versions, pieces, buffer limit and checksum
  (`FrameAssumption`, `CrcAssumption`: bodies are bytes, numbers have 16 bits, a
  checksum is a number). First the codec, for every input: `UnconvtConvt` (escapes
  are undone), `ParsePacked` (the unpacker makes of a package what was packed) and
  `ReadSettles` (the loop leaves no complete package behind). What a recursive
  function computes is proved by induction over its argument; the induction
  principle (`LeastNumber`, `Induction`, `Recursion`) is derived from the
  well-foundedness of `<`, with a set in the place of the predicate. Then the
  connection: `FrameInvariant` proves `FrameInv`, which says where each package
  lies in the stream, behind the beginning or a tail flag (`StreamInv`); that the
  unpacker is settled (`PkgInv`); that its buffer is the end of what was received
  and begins with the package that is on its way, if that one can be read
  (`CursorInv`); and what was delivered (`DeliveredInv`). The last one is not
  inductive without the others: a package is found because the unpacker, having
  lost its place, finds it again at a tail flag, and every package stands behind
  one. `FrameTypeCorrect` and `FrameDelivered` follow. `FrameOnlySent` needs two
  more parts, `ChainInv` (the packages fill the stream) and `OrderInv` (the buffer
  begins where a package does, and what was delivered comes from before it), and
  assumes of a behaviour that the packages sent fit the buffer and have no tail
  flag in their length (`AllFit`). Without that the rest of a package that was cut
  in two is looked at, and only its checksum keeps it from being delivered: for an
  arbitrary checksum the property is false, and that CRC-1021 refuses it is a fact
  about the bytes, which the run `tcp` shows on its bodies.

Only model-checked: everything about liveness (TLAPS does not do fairness);
the table of `Crc1021`; and that CRC-1021 refuses the halves of the
packages that do not fit.

## 5. Assumptions about what is outside

- The configuration tool is not in the repository. It reads the configuration
  before each update and again after it lost its connection, and downloads
  alerts as the protocol document describes.
- One handler at a time updates the configuration. Handlers of different
  connections do run in different threads and `CCfgMng` has no lock, but two of
  them at once are a data race on a JSON object with no outcome to model. The
  same holds for the bus's multimap and for `CVSQueue`, whose push and pop are
  single steps here.
- SQLite commits a statement outside of a transaction at once and rolls an open
  transaction back after a crash; `begin` inside a transaction fails and changes
  nothing. A query ends (`BuildJsonObject` does not leave its loop on an error).
- `CDetectAlgMng::CreateAlgObj` has no return statement on its last path; the
  models let it return.
- TCP delivers the bytes of a connection in order. Tools number their messages.
- ONVIF, HTTP and decoding succeed or fail in any order. Inference may report
  anything in any frame.
- Attribute names hold no separator and JSON lists attributes in a fixed order.
- Face detection, alignment and scores may find any faces and match any registered
  one.

## 6. Not modelled, and what is left

Most of the repository's lines are not the program's own: gSOAP's ONVIF code
(68,000 lines), thrift output (23,000), metann (12,000), tinyxml (7,000) are four
fifths of all C++ under `src/src` and hold no logic of this system. Their effects
(an answer, a failure, a timeout) are external results in the models. Of the
program's own code these parts are left out:

- inference, image processing, non-maximum suppression, the helmet alarm and the
  face numerics (`alg/`, `common/cmmobj/{rknn,ffmpeg,img}`): floating point and
  pictures;
- redis, HTTP and USB clients: single calls of a library, no protocol of their own;
- `BThreadPool`, `myco`, `mmpool`, `paralleltask` and other library headers that no
  code of the program instantiates;
- data races on containers (`MessageBus`'s multimap, `CVSQueue`, the JSON of
  `CCfgMng`, members of a camera that two handlers start at once): they have no
  defined outcome;
- the write past `UnCode[nMaxPkgLen]` (`NetTcpDataPkg.cpp:108`) for a package of
  more than 3,072,000 bytes that is complete before its buffer is dropped: it has no
  defined outcome either (if the process dies of it, the connection closes);
- the dynamic loading of libraries at the start;
- `SendTcpData` of the server, which hands one packed message to muduo.

Left without a proof: the checksum and liveness.
