------------------------------ MODULE VideoMng ------------------------------
(***************************************************************************)
(* The cameras as a collection: CVideoMng over CPullStreamMng and          *)
(* CVSQueueManager (transfer/rtsp/net), driven by CVsTransferMng, which    *)
(* starts the configured cameras, and by the Sync functions of the video   *)
(* module's interface.                                                     *)
(*                                                                         *)
(* A camera is two entries, a queue in m_mapVSObjs and a CPullStream in    *)
(* m_mapPSObjs that writes into that queue through a weak pointer, and a   *)
(* thread in m_mapPullStream that publishes the pictures of the queue.     *)
(* Each access of a map is locked; an operation makes several.  Handlers   *)
(* of different connections run operations at the same time.               *)
(*                                                                         *)
(* The m_rwLock of CPullStreamMng is held while a camera is opened (for    *)
(* reading) and while one is destroyed (for writing): it is RWLockSpec.    *)
(* That of CVSQueueManager guards single lookups.  What happens inside one *)
(* camera is module RtspCliMng.                                            *)
(*                                                                         *)
(* The information a camera is given is the number of the operation that   *)
(* gives it; each operation gives another address.  A Sync function with   *)
(* several cameras is several calls.                                       *)
(***************************************************************************)
EXTENDS Integers, FiniteSets

CONSTANTS
    Cam,        \* camera codes
    Handler,    \* threads that call the operations
    Listings,   \* bound: the sets of cameras that a configuration lists
    MaxOps      \* bound: operations in a behaviour

ASSUME ListingsAssumption == Listings \subseteq SUBSET Cam /\ Cam \in Listings /\ MaxOps \in Nat

VARIABLES
    queue,      \* m_mapVSObjs: the cameras that have a queue
    stream,     \* m_mapPSObjs: [ver, running, linked] of each camera, or NoStream
    loopIp,     \* m_mapPullStream: the address a publishing thread was created with
    psMode,     \* m_rwLock of CPullStreamMng
    hd,         \* the handlers
    ops,        \* operations so far
    want,       \* the last information each camera was given, None after a deletion
    mixed       \* cameras that had two operations at the same time

maps == <<queue, stream>>
asked == <<want, mixed>>
vars == <<maps, loopIp, psMode, hd, ops, asked>>

None == 0
NoStream == [ver |-> None, running |-> FALSE, linked |-> FALSE]
NoCam == "none"

PS == INSTANCE RWLockSpec WITH Thread <- Handler, mode <- psMode

\* with are the cameras an operation is about, todo those still to be visited.
Idle == [pc |-> "idle", op |-> "none", cam |-> NoCam, ver |-> None,
         todo |-> {}, with |-> {}, alone |-> TRUE]

Init ==
    /\ queue = {}
    /\ stream = [c \in Cam |-> NoStream]
    /\ loopIp = [c \in Cam |-> None]
    /\ psMode = [h \in Handler |-> "out"]
    /\ hd = [h \in Handler |-> Idle]
    /\ ops = 0
    /\ want = [c \in Cam |-> None] /\ mixed = {}

Goto(h, pc) == hd' = [hd EXCEPT ![h].pc = pc]

\* A lookup under unique_readguard, or a change under unique_writeguard, that
\* does not block while it holds the lock.
ReadPS(h) ==
    /\ psMode[h] \in {"out", "wantRead"} /\ PS!NoWriter
    /\ psMode' = [psMode EXCEPT ![h] = "out"]

WritePS(h) ==
    /\ psMode[h] \in {"out", "wantWrite"} /\ PS!Free
    /\ psMode' = [psMode EXCEPT ![h] = "out"]

\* A handler finds the lock taken and waits; a writer that waits keeps readers out.
Wait(h) ==
    /\ \/ hd[h].pc \in {"update", "exists", "start"} /\ PS!BlockRead(h)
       \/ hd[h].pc \in {"addPS", "delPS"} /\ PS!BlockWrite(h)
    /\ UNCHANGED <<maps, loopIp, hd, ops, asked>>
-----------------------------------------------------------------------------
\* The handlers at work on one of the cameras C.
Busy(C) == {h \in Handler : hd[h].pc # "idle" /\ hd[h].with \cap C # {}}

\* An operation op on the cameras C begins.  alone and mixed only record which
\* operations ran at the same time.
Begin(h, op, pc, cam, C) ==
    /\ hd[h].pc = "idle" /\ ops < MaxOps
    /\ ops' = ops + 1
    /\ hd' = [g \in Handler |->
                IF g = h THEN [pc |-> pc, op |-> op, cam |-> cam, ver |-> ops + 1, todo |-> C,
                               with |-> C, alone |-> Busy(C) = {}]
                ELSE IF g \in Busy(C) THEN [hd[g] EXCEPT !.alone = FALSE] ELSE hd[g]]
    /\ mixed' = mixed \cup {c \in C : Busy({c}) # {}}
    /\ UNCHANGED <<maps, loopIp, psMode, want>>

\* CTransferMng::TransUpdate and CVsTransferMng::StartCameras: the cameras E of the
\* configuration are enabled; nothing happens when there are none.
StartCameras(h, E) == E # {} /\ Begin(h, "start", "pick", NoCam, E)

SyncAddCameraInfo(h, c) == Begin(h, "add", "pick", c, {c})
SyncDelCameraInfo(h, c) == Begin(h, "del", "delPS", c, {c})
SyncModifyCameraInfo(h, c) == Begin(h, "mod", "exists", c, {c})

\* The camera that handler h turns to: in CVideoMng::StartPullStreamObj the next one
\* of the map, in SyncAddCameraInfo the only one.
Turns(h, c) == hd[h].pc = "pick" /\ c \in hd[h].todo

\* CVideoMng::AddPullStreamObj: CVSQueueManager::QueueIsExist.
QueueIsExist(h, c) ==
    /\ Turns(h, c)
    /\ hd' = [hd EXCEPT ![h].pc = IF c \in queue THEN "update" ELSE "addQueue",
                        ![h].cam = c, ![h].todo = @ \ {c}]
    /\ UNCHANGED <<maps, loopIp, psMode, ops, asked>>

\* CVideoMng::ModifyPullStreamObj: CPullStreamMng::CameraIsExist.
CameraIsExist(h) ==
    /\ hd[h].pc = "exists"
    /\ ReadPS(h)
    /\ Goto(h, IF stream[hd[h].cam] = NoStream THEN "addQueue" ELSE "update")
    /\ UNCHANGED <<maps, loopIp, ops, asked>>

\* CPullStreamMng::UpdateCamBaseInfo, which leaves a missing camera missing.  Then
\* StartPullStreamObj continues with the next camera, SyncAddCameraInfo starts
\* this one, ModifyPullStreamObj returns.
UpdateCamBaseInfo(h) ==
    /\ hd[h].pc = "update"
    /\ ReadPS(h)
    /\ LET c == hd[h].cam
       IN  stream' = IF stream[c] = NoStream THEN stream ELSE [stream EXCEPT ![c].ver = hd[h].ver]
    /\ Goto(h, CASE hd[h].op = "start" -> "pick" [] hd[h].op = "add" -> "start" [] OTHER -> "end")
    /\ UNCHANGED <<queue, loopIp, ops, asked>>

\* CVSQueueManager::AddQueueObj.
AddQueueObj(h) ==
    /\ hd[h].pc = "addQueue"
    /\ queue' = queue \cup {hd[h].cam}
    /\ Goto(h, "addPS")
    /\ UNCHANGED <<stream, loopIp, psMode, ops, asked>>

\* CPullStreamMng::AddPullStreamObj and the constructor of CRtspCliMng, which asks
\* for the camera's queue.
AddPullStreamObj(h) ==
    /\ hd[h].pc = "addPS"
    /\ WritePS(h)
    /\ LET c == hd[h].cam
       IN  stream' = IF stream[c] = NoStream
                       THEN [stream EXCEPT ![c] = [ver |-> hd[h].ver, running |-> FALSE,
                                                   linked |-> c \in queue]]
                       ELSE stream
    /\ Goto(h, "start")
    /\ UNCHANGED <<queue, loopIp, ops, asked>>
-----------------------------------------------------------------------------
AfterStart(h) == IF hd[h].op = "start" THEN "pick" ELSE "end"

\* The camera is opened after the read lock is released.
Bug_StartPullStreamObj(h) ==
    /\ hd[h].pc = "start"
    /\ ReadPS(h)
    /\ Goto(h, IF stream[hd[h].cam] = NoStream \/ stream[hd[h].cam].running
                 THEN AfterStart(h) ELSE "opening")
    /\ UNCHANGED <<maps, loopIp, ops, asked>>

\* CPullStreamMng::StartPullStreamObj and the first lines of CPullStream::Start:
\* a camera that runs, or is not there, is left alone.
StartPullStreamObj(h) ==
    /\ hd[h].pc = "start"
    /\ IF stream[hd[h].cam] = NoStream \/ stream[hd[h].cam].running
         THEN ReadPS(h) /\ Goto(h, AfterStart(h))
         ELSE PS!EnterRead(h) /\ Goto(h, "opening")
    /\ UNCHANGED <<maps, loopIp, ops, asked>>

\* The read lock stays taken.
Bug_Start(h) ==
    /\ hd[h].pc = "opening"
    /\ stream' = [stream EXCEPT ![hd[h].cam].running = TRUE]
    /\ Goto(h, AfterStart(h))
    /\ UNCHANGED <<queue, loopIp, psMode, ops, asked>>

\* CPullStream::Start: OpenCamera, the new thread and m_bRuning = true, with the
\* read lock held; then the lock is released.
Start(h) ==
    /\ hd[h].pc = "opening"
    /\ stream' = [stream EXCEPT ![hd[h].cam].running = TRUE]
    /\ psMode' = [psMode EXCEPT ![h] = "out"]
    /\ Goto(h, AfterStart(h))
    /\ UNCHANGED <<queue, loopIp, ops, asked>>
-----------------------------------------------------------------------------
\* CVideoMng::DelPullStreamObj: CPullStreamMng::DelPullStreamObj takes the write lock.
DelPullStreamObj(h) ==
    /\ hd[h].pc = "delPS"
    /\ IF stream[hd[h].cam] = NoStream
         THEN WritePS(h) /\ Goto(h, "delQueue")
         ELSE PS!EnterWrite(h) /\ Goto(h, "erasing")
    /\ UNCHANGED <<maps, loopIp, ops, asked>>

\* ~CPullStream joins the camera's threads; or never returns (StopLost of CThread).
Erase(h) ==
    /\ hd[h].pc = "erasing"
    /\ \/ /\ stream' = [stream EXCEPT ![hd[h].cam] = NoStream]
          /\ PS!Leave(h)
          /\ Goto(h, "delQueue")
       \/ Goto(h, "hung") /\ UNCHANGED <<stream, psMode>>
    /\ UNCHANGED <<queue, loopIp, ops, asked>>

\* The queue is left behind.
Bug_DelQueueObj(h) ==
    /\ hd[h].pc = "delQueue"
    /\ Goto(h, "end")
    /\ UNCHANGED <<maps, loopIp, psMode, ops, asked>>

\* CVSQueueManager::DelQueueObj: weak pointers to the queue expire.
DelQueueObj(h) ==
    /\ hd[h].pc = "delQueue"
    /\ queue' = queue \ {hd[h].cam}
    /\ stream' = [stream EXCEPT ![hd[h].cam].linked = FALSE]
    /\ Goto(h, "end")
    /\ UNCHANGED <<loopIp, psMode, ops, asked>>
-----------------------------------------------------------------------------
\* StartCameras, second half: a thread for each of the cameras P that the same
\* configuration lists, enabled or not, unless there is one already.
StartLoops(h, P) ==
    /\ hd[h].op = "start" /\ hd[h].pc = "pick" /\ hd[h].todo = {}
    /\ hd[h].with \subseteq P
    /\ loopIp' = [c \in Cam |-> IF c \in P /\ loopIp[c] = None THEN hd[h].ver ELSE loopIp[c]]
    /\ Goto(h, "end")
    /\ UNCHANGED <<maps, psMode, ops, asked>>

\* The operation returns.  want and mixed record what it was asked to do: deleting
\* a camera undoes what operations at the same time left of it.
Return(h) ==
    /\ hd[h].pc = "end"
    /\ want' = [c \in Cam |-> IF c \notin hd[h].with THEN want[c]
                              ELSE IF hd[h].op = "del" THEN None ELSE hd[h].ver]
    /\ mixed' = IF hd[h].op = "del" /\ hd[h].alone THEN mixed \ hd[h].with ELSE mixed
    /\ hd' = [hd EXCEPT ![h] = Idle]
    /\ UNCHANGED <<maps, loopIp, psMode, ops>>

\* The steps of handler h once it has begun.
Step(h) ==
    \/ \E c \in Cam : QueueIsExist(h, c)
    \/ CameraIsExist(h) \/ UpdateCamBaseInfo(h)
    \/ AddQueueObj(h) \/ AddPullStreamObj(h) \/ StartPullStreamObj(h) \/ Start(h)
    \/ DelPullStreamObj(h) \/ Erase(h) \/ DelQueueObj(h)
    \/ \E P \in Listings : StartLoops(h, P)
    \/ Return(h)

\* The interface of the video module: what a handler may ask for.
Request(h) ==
    \/ \E E \in SUBSET Cam : StartCameras(h, E)
    \/ \E c \in Cam : \/ SyncAddCameraInfo(h, c)
                      \/ SyncDelCameraInfo(h, c)
                      \/ SyncModifyCameraInfo(h, c)

Next == \E h \in Handler : Request(h) \/ Wait(h) \/ Step(h)

\* Threads are scheduled, opening a camera ends (its
\* requests time out), and the lock serves who waits (WriterProgress and
\* ReaderProgress of RWLock).
Fairness ==
    \A h \in Handler : SF_vars(Step(h))

SafeSpec == Init /\ [][Next]_vars

Spec == SafeSpec /\ Fairness
-----------------------------------------------------------------------------
\* Type correctness.
TypeOK ==
    /\ queue \subseteq Cam
    /\ stream \in [Cam -> [ver : Nat, running : BOOLEAN, linked : BOOLEAN]]
    /\ loopIp \in [Cam -> Nat]
    /\ PS!TypeOK
    /\ hd \in [Handler ->
                [pc : {"idle", "pick", "exists", "update", "addQueue", "addPS",
                       "start", "opening", "delPS", "erasing", "hung", "delQueue", "end"},
                 op : {"none", "start", "add", "mod", "del"}, cam : Cam \cup {NoCam}, ver : Nat,
                 todo : SUBSET Cam, with : SUBSET Cam, alone : BOOLEAN]]
    /\ ops \in Nat /\ want \in [Cam -> Nat] /\ mixed \subseteq Cam

\* A camera that is being opened under the read lock, however long its network
\* requests take, is not destroyed by another handler at the same time.
NoOpenAfterErase ==
    \A h \in Handler : hd[h].pc = "opening" =>
        /\ stream[hd[h].cam] # NoStream
        /\ \A g \in Handler : hd[g].pc \in {"erasing", "hung"} => hd[g].cam # hd[h].cam

\* After any sequence of operations, of which some on other cameras ran at the same
\* time, a camera is all there or not at all: with the information it was last given,
\* running, and writing into the queue that is read; or with no entry left in the two
\* maps.  (Operations on one camera at the same time do not have this property.)
Gone(c) == stream[c] = NoStream /\ c \notin queue
Has(c, v) == stream[c] = [ver |-> v, running |-> TRUE, linked |-> TRUE] /\ c \in queue
Settled(c) == IF want[c] = None THEN Gone(c) ELSE Has(c, want[c])
CamerasWhole == \A c \in Cam \ mixed : Busy({c}) = {} => Settled(c)

\* A handler opens a camera with the read lock and destroys one with the write lock.
LockHeld ==
    \A h \in Handler : /\ hd[h].pc = "opening" => psMode[h] = "read"
                       /\ hd[h].pc \in {"erasing", "hung"} => psMode[h] = "write"

\* The write lock excludes.
LockExcludes == \A g, h \in Handler : psMode[g] = "write" /\ psMode[h] \in {"read", "write"} => g = h

\* A handler works on a camera, with information that the absence of a camera is not
\* taken for; so has every camera that is there.
Numbered ==
    /\ \A h \in Handler : /\ hd[h].pc \notin {"idle", "pick", "end"} => hd[h].cam \in Cam
                          /\ hd[h].pc # "idle" => hd[h].ver # None
    /\ \A c \in Cam : stream[c] = NoStream \/ stream[c].ver # None

\* A camera that is being opened is in the map.
Opened == \A h \in Handler : hd[h].pc = "opening" => stream[hd[h].cam] # NoStream

\* The invariant the proofs use.
IInv == TypeOK /\ LockHeld /\ LockExcludes /\ Numbered /\ Opened

\* Why a camera is whole.  A handler at work has one of these shapes.
AtWork(h) == hd[h].pc # "idle"
Shape(h) ==
    LET d == hd[h]
    IN  /\ d.op # "none" /\ d.todo \subseteq d.with
        /\ d.op # "start" => d.with = {d.cam}
        /\ d.pc \notin {"pick", "end"} => d.cam \in d.with
        /\ d.pc = "pick" => d.op \in {"start", "add"}
        /\ d.pc = "pick" /\ d.op = "add" => d.todo = d.with
        /\ d.op \in {"start", "add"} /\ d.pc # "pick" => d.cam \notin d.todo
        /\ d.op \in {"start", "add"} /\ d.pc = "end" => d.todo = {}
        /\ d.pc = "exists" => d.op = "mod"
        /\ d.pc \in {"delPS", "erasing", "hung", "delQueue"} => d.op = "del"
        /\ d.op = "del" => d.pc \in {"delPS", "erasing", "hung", "delQueue", "end"}
Shapes == \A h \in Handler : AtWork(h) => Shape(h)

\* No other handler is at work on a camera that is not mixed, or together with an
\* operation that is alone.
Apart ==
    /\ \A c \in Cam \ mixed : \A g, h \in Busy({c}) : g = h
    /\ \A g, h \in Handler : AtWork(g) /\ AtWork(h) /\ hd[h].alone /\ g # h => hd[g].with \cap hd[h].with = {}
    /\ \A h \in Handler : AtWork(h) /\ hd[h].op = "del" /\ ~hd[h].alone => hd[h].cam \in mixed

\* How far handler h has come with camera c: not begun, in between, or done.
Waiting(h, c) == hd[h].op \in {"start", "add"} /\ c \in hd[h].todo
Within(h, c) == hd[h].cam = c /\ hd[h].pc \notin {"pick", "end"}
Midway(h, c) ==
    /\ hd[h].pc = "exists" => Settled(c)
    /\ hd[h].pc = "update" => Settled(c) /\ want[c] # None
    /\ hd[h].pc = "addQueue" => Gone(c)
    /\ hd[h].pc = "addPS" => stream[c] = NoStream /\ c \in queue
    /\ hd[h].pc \in {"start", "opening"} => stream[c].ver = hd[h].ver /\ stream[c].linked /\ c \in queue
    /\ hd[h].pc = "delQueue" => stream[c] = NoStream
Finished(h, c) == IF hd[h].op = "del" THEN Gone(c) ELSE Has(c, hd[h].ver)
Stage(h, c) ==
    /\ Waiting(h, c) => Settled(c)
    /\ Within(h, c) => Midway(h, c)
    /\ ~Waiting(h, c) /\ ~Within(h, c) => Finished(h, c)

\* Deleting a camera alone succeeds whatever was left of it.
Counts(h, c) == c \notin mixed \/ (hd[h].op = "del" /\ hd[h].alone)
Stages == \A h \in Handler : AtWork(h) => \A c \in hd[h].with : Counts(h, c) => Stage(h, c)

WInv == Shapes /\ Apart /\ Stages /\ CamerasWhole

Hung == \E h \in Handler : hd[h].pc = "hung"

\* Every operation returns, whatever the others hold, unless a destructor hangs.
OperationEnds == \A h \in Handler : hd[h].pc # "idle" ~> (hd[h].pc = "idle" \/ Hung)

\* "南向拉流更新" (update of the pulled streams): when the operations are over, the
\* pictures of a camera are published under the address that it is configured with.
TopicFollows ==
    \A c \in Cam : Busy(Cam) = {} /\ want[c] # None /\ loopIp[c] # None => loopIp[c] = stream[c].ver
=============================================================================
