----------------------------- MODULE RtspCliMng -----------------------------
(***************************************************************************)
(* One camera: CPullStream with its CRtspCliMng, the RTSP session of       *)
(* RtspCli.cpp and the picture queues of CVSQueue (transfer/rtsp/net).     *)
(*                                                                         *)
(* Four threads meet here: the owner (a TCP handler that starts the        *)
(* camera, later deletes it), the pull thread (a CThread, period 5 ms,     *)
(* callback PullStream), the snapshot thread (a CThread, period 5 s,       *)
(* callback SnapShotLoop) and any handler that calls UpdateCamBaseInfo.    *)
(*                                                                         *)
(* A configuration of the camera is its number (how many updates came      *)
(* before it) and its work mode; a picture is the number of the            *)
(* configuration it was taken with and the size it was copied with.  The   *)
(* cameras of two configurations have different picture sizes.             *)
(***************************************************************************)
EXTENDS Integers, Sequences

CONSTANTS
    Modes,        \* s32WorkMode: a subset of {"stream", "snapshot"}
    QueueTypes,   \* eQueueType
    Capacity,     \* gTaskQueueCapacity
    MaxVer,       \* bound: updates in a behaviour
    MaxSub        \* bound: subsessions of an RTSP session

ASSUME CameraAssumption == Capacity \in Nat /\ MaxVer \in Nat /\ MaxSub \in Nat

VARIABLES
    info,         \* m_CamBaseInfo: [ver, mode]
    bUpdate,      \* m_CamBaseInfo.bUpdate
    at,           \* where the owner and the pull thread are
    url,          \* configuration m_strRtspUrl and m_strSnapshotUrl come from, or None
    source,       \* configuration of the open decoder or snapshot thread, or None
    sched,        \* m_pScheduler is not NULL
    session,      \* state of the RTSP session of RtspCli.cpp
    subs,         \* subsessions still to be set up
    first,        \* m_bFirstPicFlag
    silent,       \* more than s32ReconTimeOut since m_TimeForReConn
    reconn,       \* m_bReconnFlag
    http,         \* the snapshot thread is inside m_cb with m_CamBaseInfoMutex locked
    qsize,        \* m_s32Height, m_s32Width of the queue
    que,          \* m_VideoStreamQue
    loop, unit    \* the two CThreads

cfg == <<info, bUpdate>>
src == <<url, source, sched, session, subs>>
conn == <<silent, reconn>>
pics == <<first, qsize, que>>
thr == <<loop, unit>>
vars == <<cfg, at, src, conn, pics, http, thr>>

None == -1
INSTANCE CThread WITH Obj <- {"pull", "snap"}, SubSecond <- {"pull"}

\* Who opens and closes the source: the owner and the callback of the pull thread.
Workers == {"owner", "pull"}
OwnerSteps == {"new", "url", "setcb", "opened", "running", "joinPull", "release",
               "joinSnap", "released", "gone"}
PullSteps == {"begin", "release", "joinSnap", "released", "url", "setcb", "opened",
              "step", "check", "end"}

Infos == [ver : 0..MaxVer, mode : Modes]
Vers == {None} \cup 0..MaxVer
Pictures == [ver : 0..MaxVer, size : 0..MaxVer]

\* CPullStream(camBaseInfo): nothing is open and no thread runs.
Init ==
    /\ info \in [ver : {0}, mode : Modes]
    /\ bUpdate = FALSE
    /\ at = [w \in Workers |-> IF w = "owner" THEN "new" ELSE "begin"]
    /\ url = None /\ source = None
    /\ sched = FALSE /\ session = "none" /\ subs = 0
    /\ first = TRUE /\ silent = FALSE /\ reconn = FALSE
    /\ http = FALSE
    /\ qsize = None /\ que = [q \in QueueTypes |-> <<>>]
    /\ CThreadInit

Goto(w, s) == at' = [at EXCEPT ![w] = s]

\* Worker w executes its step s: the owner, or the pull thread in its callback.
Runs(w, s) == at[w] = s /\ (w = "pull" => loop["pull"] = "cb")

\* m_CamBaseInfoMutex is free: all its critical sections but GetSnapShotPic's
\* are single statements.
InfoFree == ~http
-----------------------------------------------------------------------------
\* The snapshot thread is forgotten.
Bug_ReleaseSource(w) ==
    /\ Runs(w, "release")
    /\ sched' = FALSE /\ session' = "none" /\ subs' = 0
    /\ Goto(w, "released")
    /\ UNCHANGED <<cfg, conn, pics, thr, url, source, http>>

\* CRtspCliMng::ReleaseSource, first part: CloseScheduler and the reset of the
\* client; the snapshot thread, if any, is destroyed before anything goes on.
ReleaseSource(w) ==
    /\ Runs(w, "release")
    /\ sched' = FALSE /\ session' = "none" /\ subs' = 0
    /\ IF loop["snap"] # "none"
         THEN Destroy("snap") /\ Goto(w, "joinSnap")
         ELSE Goto(w, "released") /\ UNCHANGED thr
    /\ UNCHANGED <<cfg, conn, pics, url, source, http>>

\* ReleaseThread(m_ptrSnapShotThread) has returned.
SnapJoined(w) ==
    /\ Runs(w, "joinSnap")
    /\ UnitJoined("snap")
    /\ Goto(w, "released")
    /\ UNCHANGED <<cfg, src, conn, pics, http>>

\* CloseFmpeg; then OpenCamera (RestartCam), or the end of ~CRtspCliMng.
Released(w) ==
    /\ Runs(w, "released")
    /\ source' = None
    /\ Goto(w, IF w = "pull" THEN "url" ELSE "gone")
    /\ UNCHANGED <<cfg, conn, pics, thr, url, sched, session, subs, http>>

\* GetRtspAndSnapUrl: ONVIF with the address and the password of m_CamBaseInfo,
\* read without m_CamBaseInfoMutex; OpenCamera returns when an URL is empty.
OpenCamera(w) ==
    /\ Runs(w, "url")
    /\ \/ url' = info.ver /\ Goto(w, "setcb")
       \/ url' = None /\ Goto(w, "opened")
    /\ UNCHANGED <<cfg, conn, pics, thr, source, sched, session, subs, http>>

\* m_bFirstPicFlag is not set again: the queue keeps the old size.
Bug_SetPullStreamCB(w) ==
    /\ Runs(w, "setcb")
    /\ source' = url
    /\ \/ /\ info.mode = "stream"
          /\ sched' = TRUE /\ session' = "describe"
          /\ UNCHANGED <<thr, first>>
       \/ /\ info.mode = "snapshot"
          /\ Create("snap")
          /\ UNCHANGED <<sched, session, first>>
    /\ Goto(w, "opened")
    /\ UNCHANGED <<cfg, conn, url, subs, http, qsize, que>>

\* SetPullStreamCB with CRtspCli::Open, which sends DESCRIBE.
SetPullStreamCB(w) ==
    /\ Runs(w, "setcb")
    /\ source' = url
    /\ \/ /\ info.mode = "stream"
          /\ sched' = TRUE /\ session' = "describe" /\ first' = TRUE
          /\ UNCHANGED thr
       \/ /\ info.mode = "snapshot"
          /\ Create("snap")
          /\ UNCHANGED <<sched, session, first>>
    /\ Goto(w, "opened")
    /\ UNCHANGED <<cfg, conn, url, subs, http, qsize, que>>
-----------------------------------------------------------------------------
\* CPullStream::Start: OpenCamera by the owner, then the pull thread.
Start ==
    /\ at["owner"] = "new"
    /\ Goto("owner", "url")
    /\ UNCHANGED <<cfg, src, conn, pics, thr, http>>

Started ==
    /\ at["owner"] = "opened"
    /\ Create("pull")
    /\ Goto("owner", "running")
    /\ UNCHANGED <<cfg, src, conn, pics, http>>

\* ~CPullStream: the pull thread is joined before CRtspCliMng releases its source.
Delete ==
    /\ at["owner"] = "running"
    /\ Destroy("pull")
    /\ Goto("owner", "joinPull")
    /\ UNCHANGED <<cfg, src, conn, pics, http>>

\* The members are destroyed in the other order: CRtspCliMng before the thread.
Bug_PullJoined ==
    /\ at["owner"] = "joinPull"
    /\ Goto("owner", "release")
    /\ UNCHANGED <<cfg, src, conn, pics, thr, http>>

PullJoined ==
    /\ at["owner"] = "joinPull"
    /\ UnitJoined("pull")
    /\ Goto("owner", "release")
    /\ UNCHANGED <<cfg, src, conn, pics, http>>

\* UpdateCamBaseInfo from another thread, while the object is in m_mapPSObjs.
UpdateCamBaseInfo(m) ==
    /\ at["owner"] \in {"new", "url", "setcb", "opened", "running"}
    /\ InfoFree
    /\ info.ver < MaxVer
    /\ info' = [ver |-> info.ver + 1, mode |-> m]
    /\ bUpdate' = TRUE
    /\ UNCHANGED <<src, conn, pics, thr, at, http>>
-----------------------------------------------------------------------------
\* CRtspCliMng::PullStream up to its first decision.
PullStream ==
    /\ Runs("pull", "begin") /\ InfoFree
    /\ Goto("pull", IF bUpdate THEN "release" ELSE IF sched THEN "step" ELSE "end")
    /\ UNCHANGED <<cfg, src, conn, pics, thr, http>>

\* The update is served and not marked as served.
Bug_RestartCam ==
    /\ Runs("pull", "opened") /\ InfoFree
    /\ Goto("pull", "end")
    /\ UNCHANGED <<cfg, src, conn, pics, thr, http>>

\* The last statement of RestartCam: SetUpdate(false).
RestartCam ==
    /\ Runs("pull", "opened") /\ InfoFree
    /\ bUpdate' = FALSE
    /\ Goto("pull", "end")
    /\ UNCHANGED <<src, conn, pics, thr, info, http>>

\* SingleStep: at most one event of the RTSP session, by the handlers of
\* RtspCli.cpp.  shutdownStream closes the client and leaves the scheduler.
SessionEvent ==
    \/ session = "none" /\ UNCHANGED <<session, subs>>
    \/ session = "describe" /\ session' = "setup" /\ subs' \in 1..MaxSub
    \/ session = "describe" /\ session' = "dead" /\ UNCHANGED subs
    \/ session = "setup" /\ subs > 0 /\ subs' = subs - 1 /\ UNCHANGED session
    \/ session = "setup" /\ subs = 0 /\ session' = "play" /\ UNCHANGED subs
    \/ session = "play" /\ session' \in {"playing", "stalled"} /\ UNCHANGED subs
    \/ session = "playing" /\ session' = "dead" /\ UNCHANGED subs
    \/ UNCHANGED <<session, subs>>

SingleStep ==
    /\ Runs("pull", "step")
    /\ SessionEvent
    /\ Goto("pull", "check")
    /\ UNCHANGED <<cfg, conn, pics, thr, url, source, sched, http>>

\* The limit is tested one picture too late.
Bug_PushAll(p) == [q \in QueueTypes |-> IF Len(que[q]) <= Capacity THEN Append(que[q], p) ELSE que[q]]

\* Append to every queue that is not full.
PushAll(p) == [q \in QueueTypes |-> IF Len(que[q]) < Capacity THEN Append(que[q], p) ELSE que[q]]

\* SingleStep delivers a frame: CallBackFunc.  It ignores the frame while an
\* update is pending, without SPS and PPS, or when it is no I frame.
IgnoreFrame ==
    /\ Runs("pull", "step") /\ session = "playing" /\ InfoFree
    /\ Goto("pull", "check")
    /\ UNCHANGED <<cfg, src, conn, pics, thr, http>>

\* An I frame: decoded (or not), sized on the first picture, pushed.
AcceptFrame ==
    /\ Runs("pull", "step") /\ session = "playing" /\ InfoFree
    /\ ~bUpdate
    /\ \/ UNCHANGED pics
       \/ /\ first' = FALSE
          /\ qsize' = IF first THEN source ELSE qsize
          /\ que' = PushAll([ver |-> source, size |-> qsize'])
    /\ silent' = FALSE /\ reconn' = FALSE
    /\ Goto("pull", "check")
    /\ UNCHANGED <<cfg, src, thr, http>>

\* GetConnTimeOut, then SetUpdate(true) and RestartCam.  m_bReconnFlag becomes
\* TRUE only where it is TRUE already.
CheckConn ==
    /\ Runs("pull", "check") /\ InfoFree
    /\ IF reconn /\ silent
         THEN reconn' = TRUE /\ bUpdate' = TRUE /\ Goto("pull", "release")
         ELSE Goto("pull", "end") /\ UNCHANGED <<reconn, bUpdate>>
    /\ UNCHANGED <<src, pics, thr, info, silent, http>>

PullReturn ==
    /\ Runs("pull", "end")
    /\ CbReturn("pull")
    /\ Goto("pull", "begin")
    /\ UNCHANGED <<cfg, src, conn, pics, http>>
-----------------------------------------------------------------------------
\* SnapShotLoop: GetSnapShotPic holds m_CamBaseInfoMutex during the HTTP request.
GetSnapShotPic ==
    /\ loop["snap"] = "cb" /\ InfoFree
    /\ http' = TRUE
    /\ UNCHANGED <<cfg, src, conn, pics, thr, at>>

\* The picture, which carries its own size, is pushed and the callback returns.
SnapShotLoop ==
    /\ http
    /\ http' = FALSE
    /\ que' = PushAll([ver |-> url, size |-> url])
    /\ silent' = FALSE /\ reconn' = FALSE
    /\ CbReturn("snap")
    /\ UNCHANGED <<cfg, src, at, first, qsize>>

\* GetCmmImage and GetActImage pop the oldest picture of a queue.
Pop(q) ==
    /\ que[q] # <<>>
    /\ que' = [que EXCEPT ![q] = Tail(@)]
    /\ UNCHANGED <<cfg, src, conn, thr, at, first, http, qsize>>

\* s32ReconTimeOut seconds pass.
Silence ==
    /\ ~silent
    /\ silent' = TRUE
    /\ UNCHANGED <<cfg, src, pics, thr, at, reconn, http>>

\* The steps of the two CThreads that are not callbacks or joins.
ThreadStep ==
    /\ \E o \in {"pull", "snap"} : LoopWait(o) \/ LoopTimeout(o) \/ LoopExit(o) \/ UnitSignal(o)
    /\ UNCHANGED <<cfg, at, src, conn, pics, http>>

Worker(w) == ReleaseSource(w) \/ SnapJoined(w) \/ Released(w) \/ OpenCamera(w) \/ SetPullStreamCB(w)

PullThread == PullStream \/ RestartCam \/ SingleStep \/ AcceptFrame \/ IgnoreFrame \/ CheckConn \/ PullReturn

Next ==
    \/ Start \/ Started \/ Delete \/ PullJoined
    \/ \E m \in Modes : UpdateCamBaseInfo(m)
    \/ \E w \in Workers : Worker(w)
    \/ PullThread
    \/ GetSnapShotPic \/ SnapShotLoop
    \/ \E q \in QueueTypes : Pop(q)
    \/ Silence
    \/ ThreadStep

\* The scheduler runs every thread; the two mutexes are held for one callback or
\* one HTTP request and then left for a period, so nobody starves on them.
Fairness ==
    /\ WF_vars(Start) /\ WF_vars(Started) /\ WF_vars(PullJoined)
    /\ \A w \in Workers : WF_vars(Worker(w))
    /\ SF_vars(PullThread)
    /\ SF_vars(GetSnapShotPic) /\ WF_vars(SnapShotLoop)
    /\ \A o \in {"pull", "snap"} :
          /\ WF_vars(LoopWait(o) /\ ThreadStep) /\ WF_vars(LoopTimeout(o) /\ ThreadStep)
          /\ SF_vars(UnitSignal(o) /\ ThreadStep)
          /\ WF_vars(loop[o] = "signalled" /\ LoopExit(o) /\ ThreadStep)
    /\ WF_vars(Silence)

SafeSpec == Init /\ [][Next]_vars
Spec == SafeSpec /\ Fairness
-----------------------------------------------------------------------------
\* Type correctness; in particular a picture is never pushed without a size or a
\* source (m_s32Height and m_s32Width still 0, a decoder already released).
TypeOK ==
    /\ info \in Infos /\ bUpdate \in BOOLEAN
    /\ at \in [Workers -> OwnerSteps \cup PullSteps]
    /\ at["owner"] \in OwnerSteps /\ at["pull"] \in PullSteps
    /\ url \in Vers /\ source \in Vers /\ qsize \in Vers
    /\ sched \in BOOLEAN /\ first \in BOOLEAN /\ http \in BOOLEAN
    /\ silent \in BOOLEAN /\ reconn \in BOOLEAN
    /\ session \in {"none", "describe", "setup", "play", "playing", "stalled", "dead"}
    /\ subs \in 0..MaxSub
    /\ que \in [QueueTypes -> Seq(Pictures)]
    /\ \A q \in QueueTypes : Len(que[q]) <= Capacity
    /\ CThreadTypeOK

\* A camera has one producer: a change of s32WorkMode never leaves the snapshot
\* thread beside a live RTSP session, both pushing into the unlocked queues.
SingleProducer == sched => loop["snap"] = "none"

\* CVSQueue::Push copies m_s32Width * m_s32Height * 3 bytes from the decoder's
\* picture: after any sequence of restarts the size is that of this decoder.
PictureSizes == \A q \in QueueTypes : \A i \in DOMAIN que[q] : que[q][i].size = que[q][i].ver

\* ~CPullStream joins the pull thread before the source goes, and ~CRtspCliMng the
\* snapshot thread: no callback runs on a camera that is being freed.
NoThreadOutlivesCamera ==
    /\ at["owner"] \in {"release", "joinSnap", "released", "gone"} => loop["pull"] = "none"
    /\ at["owner"] = "gone" => loop["snap"] = "none" /\ ~sched

\* What the three invariants above rest on.  The pull thread lives while the owner
\* runs the camera and is somewhere in PullStream only inside its callback, so
\* that at most one of the two workers is between opening and closing.
OneWorker ==
    /\ loop["pull"] = "none" <=> at["owner"] \notin {"running", "joinPull"}
    /\ unit["pull"] # "none" => at["owner"] = "joinPull"
    /\ at["pull"] # "begin" => loop["pull"] = "cb"

\* The snapshot thread is destroyed by a worker that waits for it, and holds
\* m_CamBaseInfoMutex only in its callback.
SnapOwned ==
    /\ unit["snap"] # "none" <=> \E w \in Workers : at[w] = "joinSnap"
    /\ unit["snap"] # "none" => loop["snap"] # "none"
    /\ http => loop["snap"] = "cb"

\* From the end of ReleaseSource to the end of OpenCamera there is no producer.
SourceClosed ==
    /\ session # "none" => sched
    /\ \A w \in Workers :
          /\ at[w] \in {"new", "joinSnap", "released", "url", "setcb", "gone"} => ~sched
          /\ at[w] \in {"new", "released", "url", "setcb", "gone"} => loop["snap"] = "none"

\* The producer's pictures have a size: a stream's is that of its decoder, taken
\* over with the first picture, and a snapshot's that of the address in use.
SizeKnown ==
    /\ sched => source # None /\ (first \/ qsize = source)
    /\ loop["snap"] # "none" => url # None
    /\ \A w \in Workers : at[w] = "setcb" => url # None

\* The inductive invariant.
IInv == /\ TypeOK /\ SingleProducer /\ PictureSizes
        /\ OneWorker /\ SnapOwned /\ SourceClosed /\ SizeKnown

\* An update is taken notice of: bUpdate is reset, unless the camera is deleted or
\* one of its threads has hung or died in the ways CThread allows.
UpdateServed ==
    bUpdate ~> \/ ~bUpdate \/ at["owner"] \in {"joinPull", "gone"}
               \/ loop["pull"] = "exited" \/ StopLost("snap")

\* "更新重启": a running camera comes to run with the configuration it was last
\* given, unless that camera cannot be opened, is deleted or its thread died.
UpdateApplied ==
    \A v \in 1..MaxVer :
        (info.ver = v /\ at["owner"] = "running") ~>
            \/ source = v \/ info.ver # v \/ url = None
            \/ at["owner"] # "running" \/ loop["pull"] = "exited"

\* "断线重启": a stream that has broken down is opened again.
Reconnects ==
    (session = "dead" /\ at["owner"] = "running") ~>
        \/ session # "dead" \/ at["owner"] # "running" \/ loop["pull"] = "exited"
=============================================================================
