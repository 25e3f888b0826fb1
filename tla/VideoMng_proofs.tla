-------------------------- MODULE VideoMng_proofs --------------------------
(***************************************************************************)
(* Proofs about the camera managers, for any cameras, any handlers and any *)
(* number of operations: what the read lock around CPullStream::Start and  *)
(* the write lock around its destruction protect (IInv), and that a camera *)
(* is all there or not at all between operations (WInv).                   *)
(***************************************************************************)
EXTENDS VideoMng, TLAPS

\* There is no camera and nobody holds the lock at the start.
LEMMA InitIInv == Init => IInv
<1> USE DEF Idle, NoStream, None, NoCam
<1> SUFFICES ASSUME Init PROVE IInv
  OBVIOUS
<1>1. TypeOK
  BY DEF Init, TypeOK, PS!TypeOK, PS!Modes
<1> QED BY <1>1 DEF Init, IInv, LockHeld, LockExcludes, Numbered, Opened

Pcs == {"idle", "pick", "exists", "update", "addQueue", "addPS", "start", "opening",
        "delPS", "erasing", "hung", "delQueue", "end"}

\* What a handler is doing.
Work == [pc : Pcs, op : {"none", "start", "add", "mod", "del"}, cam : Cam \cup {NoCam},
         ver : Nat, todo : SUBSET Cam, with : SUBSET Cam, alone : BOOLEAN]

\* The part of TypeOK about handlers, with the sets named.
LEMMA HandlerTypes == TypeOK => hd \in [Handler -> Work]
  BY DEF TypeOK, Work, Pcs

\* A jump inside an operation changes the program counter of its handler only.
LEMMA GotoFacts ==
    ASSUME TypeOK, NEW h \in Handler, NEW pc \in Pcs, Goto(h, pc)
    PROVE  /\ hd' \in [Handler -> Work]
           /\ hd'[h].pc = pc /\ hd'[h].cam = hd[h].cam /\ hd'[h].ver = hd[h].ver
           /\ hd'[h].op = hd[h].op /\ hd'[h].todo = hd[h].todo /\ hd'[h].with = hd[h].with
           /\ hd'[h].alone = hd[h].alone
           /\ \A g \in Handler \ {h} : hd'[g] = hd[g]
<1>1. hd \in [Handler -> Work] /\ hd[h] \in Work
  BY HandlerTypes
<1>2. hd' = [hd EXCEPT ![h] = [hd[h] EXCEPT !.pc = pc]]
  BY DEF Goto
<1>3. [hd[h] EXCEPT !.pc = pc] \in Work
  BY <1>1 DEF Work
<1>4. /\ [hd[h] EXCEPT !.pc = pc].pc = pc
      /\ [hd[h] EXCEPT !.pc = pc].cam = hd[h].cam
      /\ [hd[h] EXCEPT !.pc = pc].ver = hd[h].ver
      /\ [hd[h] EXCEPT !.pc = pc].op = hd[h].op
      /\ [hd[h] EXCEPT !.pc = pc].todo = hd[h].todo
      /\ [hd[h] EXCEPT !.pc = pc].with = hd[h].with
      /\ [hd[h] EXCEPT !.pc = pc].alone = hd[h].alone
  BY <1>1 DEF Work
<1>5. hd' \in [Handler -> Work] /\ hd'[h] = [hd[h] EXCEPT !.pc = pc]
  BY <1>1, <1>2, <1>3
<1>6. \A g \in Handler \ {h} : hd'[g] = hd[g]
  BY <1>1, <1>2
<1> QED BY <1>4, <1>5, <1>6

\* The lock's operations change the mode of the handler that calls them only.
LEMMA ModeFacts ==
    ASSUME TypeOK, NEW h \in Handler, NEW m \in PS!Modes, psMode' = [psMode EXCEPT ![h] = m]
    PROVE  PS!TypeOK' /\ psMode'[h] = m /\ \A g \in Handler \ {h} : psMode'[g] = psMode[g]
  BY DEF TypeOK, PS!TypeOK

\* What a request does: its handler leaves "idle" with a camera or a list of cameras, and
\* nothing changes for the others but the record of who was alone.
LEMMA RequestFacts ==
    ASSUME IInv, NEW h \in Handler, Request(h)
    PROVE  /\ TypeOK' /\ UNCHANGED <<stream, psMode>>
           /\ hd[h].pc = "idle" /\ hd'[h].pc \in {"pick", "delPS", "exists"} /\ hd'[h].ver # None
           /\ hd'[h].pc # "pick" => hd'[h].cam \in Cam
           /\ \A g \in Handler \ {h} : /\ hd'[g].pc = hd[g].pc /\ hd'[g].cam = hd[g].cam
                                       /\ hd'[g].ver = hd[g].ver
<1>0. TypeOK /\ hd \in [Handler -> Work]
  BY HandlerTypes DEF IInv
<1>1. PICK op \in {"start", "add", "mod", "del"}, pc \in {"pick", "delPS", "exists"},
           cam \in Cam \cup {NoCam}, C \in SUBSET Cam :
        Begin(h, op, pc, cam, C) /\ (pc # "pick" => cam \in Cam)
  <2>1. CASE \E E \in SUBSET Cam : StartCameras(h, E)
    BY <2>1 DEF StartCameras
  <2>2. CASE \E c \in Cam : SyncAddCameraInfo(h, c)
    BY <2>2 DEF SyncAddCameraInfo
  <2>3. CASE \E c \in Cam : SyncDelCameraInfo(h, c)
    BY <2>3 DEF SyncDelCameraInfo
  <2>4. CASE \E c \in Cam : SyncModifyCameraInfo(h, c)
    BY <2>4 DEF SyncModifyCameraInfo
  <2> QED BY <2>1, <2>2, <2>3, <2>4 DEF Request
<1>2. hd[h].pc = "idle" /\ ops + 1 \in Nat /\ ops + 1 # None
  BY <1>0, <1>1 DEF Begin, TypeOK, None
<1> DEFINE alone == Busy(C) = {}
           new == [pc |-> pc, op |-> op, cam |-> cam, ver |-> ops + 1, todo |-> C,
                   with |-> C, alone |-> alone]
           other(g) == IF g \in Busy(C) THEN [hd[g] EXCEPT !.alone = FALSE] ELSE hd[g]
<1>3. alone \in BOOLEAN
  BY Zenon
<1>4. hd' = [g \in Handler |-> IF g = h THEN new ELSE other(g)]
  BY <1>1 DEF Begin
<1>5. new \in Work /\ new.pc = pc /\ new.cam = cam /\ new.ver = ops + 1
  <2> HIDE DEF alone
  <2> QED BY <1>2, <1>3 DEF Work, Pcs
<1>6. ASSUME NEW g \in Handler
      PROVE other(g) \in Work /\ other(g).pc = hd[g].pc /\ other(g).cam = hd[g].cam
            /\ other(g).ver = hd[g].ver
  <2>1. hd[g] \in Work
    BY <1>0
  <2>2. /\ [hd[g] EXCEPT !.alone = FALSE] \in Work
        /\ [hd[g] EXCEPT !.alone = FALSE].pc = hd[g].pc
        /\ [hd[g] EXCEPT !.alone = FALSE].cam = hd[g].cam
        /\ [hd[g] EXCEPT !.alone = FALSE].ver = hd[g].ver
    BY <2>1 DEF Work
  <2>3. CASE g \in Busy(C)
    BY <2>2, <2>3
  <2>4. CASE g \notin Busy(C)
    BY <2>1, <2>4
  <2> QED BY <2>3, <2>4
<1> HIDE DEF new, other
<1>7. hd' \in [Handler -> Work] /\ hd'[h] = new /\ \A g \in Handler \ {h} : hd'[g] = other(g)
  BY <1>4, <1>5, <1>6
<1>8. mixed' \subseteq Cam
  BY <1>0, <1>1 DEF Begin, TypeOK
<1>9. UNCHANGED <<queue, stream, loopIp, psMode, want>> /\ ops' = ops + 1
  BY <1>1 DEF Begin, maps
<1>10. TypeOK'
  BY <1>0, <1>2, <1>7, <1>8, <1>9 DEF TypeOK, Work, Pcs, PS!TypeOK
<1> QED BY <1>1, <1>2, <1>5, <1>6, <1>7, <1>9, <1>10
-----------------------------------------------------------------------------
\* What one step of handler h owes to the invariant: it touches its own lock mode and
\* program counter only, enters the lock when it may, and makes a camera vanish only with
\* the write lock.
Kept(h) ==
    /\ TypeOK'
    /\ \A g \in Handler \ {h} : hd'[g] = hd[g] /\ psMode'[g] = psMode[g]
    /\ psMode'[h] = "read" => psMode[h] = "read" \/ PS!NoWriter
    /\ psMode'[h] = "write" => psMode[h] = "write" \/ PS!Free
    /\ hd'[h].pc = "opening" => psMode'[h] = "read" /\ stream'[hd'[h].cam] # NoStream
    /\ hd'[h].pc \in {"erasing", "hung"} => psMode'[h] = "write"
    /\ hd'[h].pc \notin {"idle", "pick", "end"} => hd'[h].cam \in Cam
    /\ hd'[h].pc # "idle" => hd'[h].ver # None
    /\ \A c \in Cam : stream'[c] = NoStream \/ stream'[c].ver # None
    /\ \A c \in Cam : stream'[c] = NoStream => stream[c] = NoStream \/ psMode[h] = "write"

\* Lookups, the wait for the lock and the steps on other maps: the cameras stay.
LEMMA LookupStep ==
    ASSUME IInv, NEW h \in Handler,
           \/ CameraIsExist(h) \/ AddQueueObj(h) \/ Wait(h)
           \/ \E P \in Listings : StartLoops(h, P)
    PROVE  Kept(h)
<1>0. TypeOK /\ Numbered /\ LockHeld
  BY DEF IInv
<1>1. CASE CameraIsExist(h)
  <2>1. PICK pc \in {"addQueue", "update"} : Goto(h, pc)
    BY <1>1 DEF CameraIsExist
  <2>2. psMode' = [psMode EXCEPT ![h] = "out"] /\ UNCHANGED <<maps, loopIp, ops, asked>>
        /\ hd[h].pc = "exists"
    BY <1>1 DEF CameraIsExist, ReadPS
  <2>3. PS!TypeOK' /\ psMode'[h] = "out" /\ \A g \in Handler \ {h} : psMode'[g] = psMode[g]
    BY <1>0, <2>2, ModeFacts DEF PS!Modes
  <2>4. /\ hd' \in [Handler -> Work]
        /\ hd'[h].pc = pc /\ hd'[h].cam = hd[h].cam /\ hd'[h].ver = hd[h].ver
        /\ \A g \in Handler \ {h} : hd'[g] = hd[g]
    BY <1>0, <2>1, GotoFacts DEF Pcs
  <2>5. TypeOK'
    BY <1>0, <2>2, <2>3, <2>4 DEF TypeOK, Work, Pcs, maps, asked
  <2> QED BY <1>0, <2>2, <2>3, <2>4, <2>5 DEF Kept, Numbered, maps
<1>2. CASE AddQueueObj(h)
  <2>1. Goto(h, "addPS") /\ UNCHANGED <<stream, loopIp, psMode, ops, asked>> /\ hd[h].pc = "addQueue"
    BY <1>2 DEF AddQueueObj
  <2>2. /\ hd' \in [Handler -> Work]
        /\ hd'[h].pc = "addPS" /\ hd'[h].cam = hd[h].cam /\ hd'[h].ver = hd[h].ver
        /\ \A g \in Handler \ {h} : hd'[g] = hd[g]
    BY <1>0, <2>1, GotoFacts DEF Pcs
  <2>3. queue' \subseteq Cam
    BY <1>0, <1>2 DEF AddQueueObj, Numbered, TypeOK
  <2>4. TypeOK'
    BY <1>0, <2>1, <2>2, <2>3 DEF TypeOK, Work, Pcs, asked, PS!TypeOK
  <2> QED BY <1>0, <2>1, <2>2, <2>4 DEF Kept, Numbered
<1>3. CASE Wait(h)
  <2>1. PICK m \in {"wantRead", "wantWrite"} : psMode' = [psMode EXCEPT ![h] = m]
    BY <1>3 DEF Wait, PS!BlockRead, PS!BlockWrite
  <2>2. UNCHANGED <<maps, loopIp, hd, ops, asked>> /\ hd[h].pc \notin {"opening", "erasing", "hung"}
    BY <1>3 DEF Wait
  <2>3. PS!TypeOK' /\ psMode'[h] = m /\ \A g \in Handler \ {h} : psMode'[g] = psMode[g]
    BY <1>0, <2>1, ModeFacts DEF PS!Modes
  <2>4. TypeOK'
    BY <1>0, <2>2, <2>3 DEF TypeOK, maps, asked
  <2> QED BY <1>0, <2>2, <2>3, <2>4 DEF Kept, Numbered, maps
<1>4. ASSUME NEW P \in Listings, StartLoops(h, P) PROVE Kept(h)
  <2>1. Goto(h, "end") /\ UNCHANGED <<maps, psMode, ops, asked>> /\ hd[h].pc = "pick"
    BY <1>4 DEF StartLoops
  <2>2. /\ hd' \in [Handler -> Work]
        /\ hd'[h].pc = "end" /\ hd'[h].cam = hd[h].cam /\ hd'[h].ver = hd[h].ver
        /\ \A g \in Handler \ {h} : hd'[g] = hd[g]
    BY <1>0, <2>1, GotoFacts DEF Pcs
  <2>3. hd[h].ver \in Nat
    BY <1>0 DEF TypeOK
  <2>4. loopIp' \in [Cam -> Nat]
    BY <1>0, <1>4, <2>3 DEF StartLoops, TypeOK
  <2>5. TypeOK'
    BY <1>0, <2>1, <2>2, <2>4 DEF TypeOK, Work, Pcs, maps, asked, PS!TypeOK
  <2> QED BY <1>0, <2>1, <2>2, <2>5 DEF Kept, Numbered, maps
<1> QED BY <1>1, <1>2, <1>3, <1>4

\* A handler turns to its next camera, or returns.
LEMMA TurnStep ==
    ASSUME IInv, NEW h \in Handler, Return(h) \/ \E c \in Cam : QueueIsExist(h, c)
    PROVE  Kept(h)
<1>0. TypeOK /\ Numbered /\ hd \in [Handler -> Work] /\ hd[h] \in Work
  BY HandlerTypes DEF IInv
<1>1. ASSUME NEW c \in Cam, QueueIsExist(h, c) PROVE Kept(h)
  <2>1. PICK pc \in {"update", "addQueue"} :
          hd' = [hd EXCEPT ![h] = [hd[h] EXCEPT !.pc = pc, !.cam = c, !.todo = @ \ {c}]]
    BY <1>0, <1>1 DEF QueueIsExist
  <2> DEFINE new == [hd[h] EXCEPT !.pc = pc, !.cam = c, !.todo = @ \ {c}]
  <2>2. new \in Work /\ new.pc = pc /\ new.cam = c /\ new.ver = hd[h].ver
    BY <1>0 DEF Work, Pcs
  <2> HIDE DEF new
  <2>3. hd' \in [Handler -> Work] /\ hd'[h] = new /\ \A g \in Handler \ {h} : hd'[g] = hd[g]
    BY <1>0, <2>1, <2>2 DEF new
  <2>4. UNCHANGED <<maps, loopIp, psMode, ops, asked>> /\ hd[h].pc = "pick"
    BY <1>1 DEF QueueIsExist, Turns
  <2>5. TypeOK'
    BY <1>0, <2>3, <2>4 DEF TypeOK, Work, Pcs, maps, asked, PS!TypeOK
  <2> QED BY <1>0, <2>2, <2>3, <2>4, <2>5 DEF Kept, Numbered, maps
<1>2. CASE Return(h)
  <2>1. hd' = [hd EXCEPT ![h] = Idle] /\ UNCHANGED <<maps, loopIp, psMode, ops>>
    BY <1>2 DEF Return
  <2>2. Idle \in Work /\ Idle.pc = "idle"
    BY DEF Idle, Work, Pcs, None
  <2>3. hd' \in [Handler -> Work] /\ hd'[h] = Idle /\ \A g \in Handler \ {h} : hd'[g] = hd[g]
    BY <1>0, <2>1, <2>2
  <2>4. hd[h].ver \in Nat
    BY <1>0 DEF Work
  <2>5. want' \in [Cam -> Nat] /\ mixed' \subseteq Cam
    BY <1>0, <1>2, <2>4 DEF Return, TypeOK, None
  <2>6. TypeOK'
    BY <1>0, <2>1, <2>3, <2>5 DEF TypeOK, Work, Pcs, maps, PS!TypeOK
  <2> QED BY <1>0, <2>1, <2>2, <2>3, <2>6 DEF Kept, Numbered, maps
<1> QED BY <1>1, <1>2

\* A step that changes the entry of one camera keeps the types of the map.
LEMMA StreamFacts ==
    ASSUME TypeOK, NEW c \in Cam, NEW e \in [ver : Nat, running : BOOLEAN, linked : BOOLEAN],
           stream' = [stream EXCEPT ![c] = e]
    PROVE  /\ stream' \in [Cam -> [ver : Nat, running : BOOLEAN, linked : BOOLEAN]]
           /\ stream'[c] = e /\ \A d \in Cam \ {c} : stream'[d] = stream[d]
  BY DEF TypeOK

\* The steps that add, update and start a camera leave every camera in the map.
LEMMA AddStep ==
    ASSUME IInv, NEW h \in Handler, UpdateCamBaseInfo(h) \/ AddPullStreamObj(h)
    PROVE  Kept(h)
<1>0. TypeOK /\ Numbered
  BY DEF IInv
<1>1. hd[h].pc \in {"update", "addPS"} /\ hd[h].cam \in Cam /\ hd[h].ver \in Nat /\ hd[h].ver # None
  BY <1>0 DEF UpdateCamBaseInfo, AddPullStreamObj, Numbered, TypeOK
<1>2. PICK pc \in {"pick", "start", "end"} : Goto(h, pc)
  BY DEF UpdateCamBaseInfo, AddPullStreamObj
<1>3. psMode' = [psMode EXCEPT ![h] = "out"] /\ UNCHANGED <<queue, loopIp, ops, asked>>
  BY DEF UpdateCamBaseInfo, AddPullStreamObj, ReadPS, WritePS
<1>4. PS!TypeOK' /\ psMode'[h] = "out" /\ \A g \in Handler \ {h} : psMode'[g] = psMode[g]
  BY <1>0, <1>3, ModeFacts DEF PS!Modes
<1>5. /\ hd' \in [Handler -> Work]
      /\ hd'[h].pc = pc /\ hd'[h].cam = hd[h].cam /\ hd'[h].ver = hd[h].ver
      /\ \A g \in Handler \ {h} : hd'[g] = hd[g]
  BY <1>0, <1>2, GotoFacts DEF Pcs
<1> DEFINE c == hd[h].cam
<1>6. \/ stream' = stream
      \/ \E e \in [ver : Nat, running : BOOLEAN, linked : BOOLEAN] :
           stream' = [stream EXCEPT ![c] = e] /\ e.ver = hd[h].ver
  <2>1. CASE UpdateCamBaseInfo(h)
    <3>1. stream[c] \in [ver : Nat, running : BOOLEAN, linked : BOOLEAN]
      BY <1>0, <1>1 DEF TypeOK
    <3>2. /\ [stream[c] EXCEPT !.ver = hd[h].ver] \in [ver : Nat, running : BOOLEAN, linked : BOOLEAN]
          /\ [stream[c] EXCEPT !.ver = hd[h].ver].ver = hd[h].ver
      BY <1>1, <3>1
    <3>3. stream' = stream \/ stream' = [stream EXCEPT ![c] = [stream[c] EXCEPT !.ver = hd[h].ver]]
      BY <2>1 DEF UpdateCamBaseInfo
    <3> QED BY <3>2, <3>3
  <2>2. CASE AddPullStreamObj(h)
    <3> DEFINE linked == c \in queue
               e == [ver |-> hd[h].ver, running |-> FALSE, linked |-> linked]
    <3>1. linked \in BOOLEAN
      OBVIOUS
    <3>2. e \in [ver : Nat, running : BOOLEAN, linked : BOOLEAN] /\ e.ver = hd[h].ver
      <4> HIDE DEF linked
      <4> QED BY <1>1, <3>1
    <3>3. stream' = stream \/ stream' = [stream EXCEPT ![c] = e]
      BY <2>2 DEF AddPullStreamObj
    <3> QED BY <3>2, <3>3
  <2> QED BY <2>1, <2>2
<1>7. /\ stream' \in [Cam -> [ver : Nat, running : BOOLEAN, linked : BOOLEAN]]
      /\ \A d \in Cam : stream'[d] = stream[d] \/ stream'[d].ver # None
  <2>1. CASE stream' = stream
    BY <1>0, <2>1 DEF TypeOK
  <2>2. ASSUME NEW e \in [ver : Nat, running : BOOLEAN, linked : BOOLEAN],
               stream' = [stream EXCEPT ![c] = e], e.ver = hd[h].ver
        PROVE  /\ stream' \in [Cam -> [ver : Nat, running : BOOLEAN, linked : BOOLEAN]]
               /\ \A d \in Cam : stream'[d] = stream[d] \/ stream'[d].ver # None
    BY <1>0, <1>1, <2>2, StreamFacts
  <2> QED BY <1>6, <2>1, <2>2
<1>8. NoStream.ver = None
  BY DEF NoStream
<1>9. TypeOK'
  BY <1>0, <1>3, <1>4, <1>5, <1>7 DEF TypeOK, Work, Pcs, asked
<1> QED BY <1>0, <1>1, <1>4, <1>5, <1>7, <1>8, <1>9 DEF Kept, Numbered

\* A camera is opened with the read lock, and is there.
LEMMA StartStep ==
    ASSUME IInv, NEW h \in Handler, StartPullStreamObj(h) \/ Start(h)
    PROVE  Kept(h)
<1>0. TypeOK /\ Numbered /\ Opened
  BY DEF IInv
<1>1. hd[h].cam \in Cam /\ hd[h].pc # "idle" /\ hd[h].ver # None
  BY <1>0 DEF StartPullStreamObj, Start, Numbered
<1>2. CASE StartPullStreamObj(h)
  <2>1. \/ psMode' = [psMode EXCEPT ![h] = "out"] /\ Goto(h, AfterStart(h))
        \/ /\ PS!EnterRead(h) /\ Goto(h, "opening")
           /\ stream[hd[h].cam] # NoStream
    BY <1>2 DEF StartPullStreamObj, ReadPS
  <2>2. UNCHANGED <<maps, loopIp, ops, asked>>
    BY <1>2 DEF StartPullStreamObj
  <2>3. PICK pc \in {"pick", "end", "opening"}, m \in {"out", "read"} :
          /\ Goto(h, pc) /\ psMode' = [psMode EXCEPT ![h] = m]
          /\ pc = "opening" => m = "read" /\ stream[hd[h].cam] # NoStream
          /\ m = "read" => PS!NoWriter
    BY <2>1 DEF AfterStart, PS!EnterRead
  <2>4. PS!TypeOK' /\ psMode'[h] = m /\ \A g \in Handler \ {h} : psMode'[g] = psMode[g]
    BY <1>0, <2>3, ModeFacts DEF PS!Modes
  <2>5. /\ hd' \in [Handler -> Work]
        /\ hd'[h].pc = pc /\ hd'[h].cam = hd[h].cam /\ hd'[h].ver = hd[h].ver
        /\ \A g \in Handler \ {h} : hd'[g] = hd[g]
    BY <1>0, <2>3, GotoFacts DEF Pcs
  <2>6. TypeOK'
    BY <1>0, <2>2, <2>4, <2>5 DEF TypeOK, Work, Pcs, maps, asked
  <2> QED BY <1>0, <1>1, <2>2, <2>3, <2>4, <2>5, <2>6 DEF Kept, Numbered, maps
<1>3. CASE Start(h)
  <2>1. /\ psMode' = [psMode EXCEPT ![h] = "out"] /\ Goto(h, AfterStart(h))
        /\ UNCHANGED <<queue, loopIp, ops, asked>> /\ hd[h].pc = "opening"
    BY <1>3 DEF Start
  <2>2. PICK pc \in {"pick", "end"} : Goto(h, pc)
    BY <2>1 DEF AfterStart
  <2>3. PS!TypeOK' /\ psMode'[h] = "out" /\ \A g \in Handler \ {h} : psMode'[g] = psMode[g]
    BY <1>0, <2>1, ModeFacts DEF PS!Modes
  <2>4. /\ hd' \in [Handler -> Work]
        /\ hd'[h].pc = pc /\ hd'[h].cam = hd[h].cam /\ hd'[h].ver = hd[h].ver
        /\ \A g \in Handler \ {h} : hd'[g] = hd[g]
    BY <1>0, <2>2, GotoFacts DEF Pcs
  <2> DEFINE c == hd[h].cam
             e == [stream[c] EXCEPT !.running = TRUE]
  <2>5. stream[c] \in [ver : Nat, running : BOOLEAN, linked : BOOLEAN]
    BY <1>0, <1>1 DEF TypeOK
  <2>6. stream' = [stream EXCEPT ![c] = e]
    BY <1>3 DEF Start
  <2>7. e \in [ver : Nat, running : BOOLEAN, linked : BOOLEAN] /\ e.ver = stream[c].ver
    BY <2>5
  <2>8. stream[c].ver # None
    BY <1>0, <1>1, <2>1 DEF Opened, Numbered
  <2> HIDE DEF e
  <2>9. /\ stream' \in [Cam -> [ver : Nat, running : BOOLEAN, linked : BOOLEAN]]
        /\ stream'[c].ver # None /\ \A d \in Cam \ {c} : stream'[d] = stream[d]
    BY <1>0, <1>1, <2>6, <2>7, <2>8, StreamFacts
  <2>10. NoStream.ver = None
    BY DEF NoStream
  <2>11. TypeOK'
    BY <1>0, <2>1, <2>3, <2>4, <2>9 DEF TypeOK, Work, Pcs, asked
  <2> QED BY <1>0, <1>1, <2>3, <2>4, <2>9, <2>10, <2>11 DEF Kept, Numbered
<1> QED BY <1>2, <1>3

\* A camera vanishes only while its handler has the write lock.
LEMMA DelStep ==
    ASSUME IInv, NEW h \in Handler, DelPullStreamObj(h) \/ Erase(h) \/ DelQueueObj(h)
    PROVE  Kept(h)
<1>0. TypeOK /\ Numbered /\ LockHeld
  BY DEF IInv
<1>1. hd[h].cam \in Cam /\ hd[h].pc # "idle" /\ hd[h].ver # None
  BY <1>0 DEF DelPullStreamObj, Erase, DelQueueObj, Numbered
<1> DEFINE c == hd[h].cam
<1>2. stream[c] \in [ver : Nat, running : BOOLEAN, linked : BOOLEAN]
      /\ NoStream \in [ver : Nat, running : BOOLEAN, linked : BOOLEAN]
  BY <1>0, <1>1 DEF TypeOK, NoStream, None
<1>3. CASE DelPullStreamObj(h)
  <2>1. PICK pc \in {"delQueue", "erasing"}, m \in {"out", "write"} :
          /\ Goto(h, pc) /\ psMode' = [psMode EXCEPT ![h] = m]
          /\ pc = "erasing" => m = "write"
          /\ m = "write" => PS!Free
    BY <1>3 DEF DelPullStreamObj, WritePS, PS!EnterWrite
  <2>2. UNCHANGED <<maps, loopIp, ops, asked>>
    BY <1>3 DEF DelPullStreamObj
  <2>3. PS!TypeOK' /\ psMode'[h] = m /\ \A g \in Handler \ {h} : psMode'[g] = psMode[g]
    BY <1>0, <2>1, ModeFacts DEF PS!Modes
  <2>4. /\ hd' \in [Handler -> Work]
        /\ hd'[h].pc = pc /\ hd'[h].cam = hd[h].cam /\ hd'[h].ver = hd[h].ver
        /\ \A g \in Handler \ {h} : hd'[g] = hd[g]
    BY <1>0, <2>1, GotoFacts DEF Pcs
  <2>5. TypeOK'
    BY <1>0, <2>2, <2>3, <2>4 DEF TypeOK, Work, Pcs, maps, asked
  <2> QED BY <1>0, <1>1, <2>1, <2>2, <2>3, <2>4, <2>5 DEF Kept, Numbered, maps
<1>4. CASE Erase(h)
  <2>1. UNCHANGED <<queue, loopIp, ops, asked>> /\ psMode[h] = "write"
    BY <1>0, <1>4 DEF Erase, LockHeld
  <2>2. \/ /\ stream' = [stream EXCEPT ![c] = NoStream] /\ Goto(h, "delQueue")
           /\ psMode' = [psMode EXCEPT ![h] = "out"]
        \/ Goto(h, "hung") /\ UNCHANGED <<stream, psMode>>
    BY <1>4 DEF Erase, PS!Leave
  <2>3. CASE stream' = [stream EXCEPT ![c] = NoStream] /\ Goto(h, "delQueue")
             /\ psMode' = [psMode EXCEPT ![h] = "out"]
    <3>1. PS!TypeOK' /\ psMode'[h] = "out" /\ \A g \in Handler \ {h} : psMode'[g] = psMode[g]
      BY <1>0, <2>3, ModeFacts DEF PS!Modes
    <3>2. /\ hd' \in [Handler -> Work]
          /\ hd'[h].pc = "delQueue" /\ hd'[h].cam = hd[h].cam /\ hd'[h].ver = hd[h].ver
          /\ \A g \in Handler \ {h} : hd'[g] = hd[g]
      BY <1>0, <2>3, GotoFacts DEF Pcs
    <3>3. /\ stream' \in [Cam -> [ver : Nat, running : BOOLEAN, linked : BOOLEAN]]
          /\ stream'[c] = NoStream /\ \A d \in Cam \ {c} : stream'[d] = stream[d]
      BY <1>0, <1>1, <1>2, <2>3, StreamFacts
    <3>4. TypeOK'
      BY <1>0, <2>1, <3>1, <3>2, <3>3 DEF TypeOK, Work, Pcs, asked
    <3> QED BY <1>0, <1>1, <2>1, <3>1, <3>2, <3>3, <3>4 DEF Kept, Numbered
  <2>4. CASE Goto(h, "hung") /\ UNCHANGED <<stream, psMode>>
    <3>1. /\ hd' \in [Handler -> Work]
          /\ hd'[h].pc = "hung" /\ hd'[h].cam = hd[h].cam /\ hd'[h].ver = hd[h].ver
          /\ \A g \in Handler \ {h} : hd'[g] = hd[g]
      BY <1>0, <2>4, GotoFacts DEF Pcs
    <3>2. TypeOK'
      BY <1>0, <2>1, <2>4, <3>1 DEF TypeOK, Work, Pcs, asked, PS!TypeOK
    <3> QED BY <1>0, <1>1, <2>1, <2>4, <3>1, <3>2 DEF Kept, Numbered
  <2> QED BY <2>2, <2>3, <2>4
<1>5. CASE DelQueueObj(h)
  <2>1. Goto(h, "end") /\ UNCHANGED <<loopIp, psMode, ops, asked>> /\ queue' = queue \ {c}
    BY <1>5 DEF DelQueueObj
  <2>2. /\ hd' \in [Handler -> Work]
        /\ hd'[h].pc = "end" /\ hd'[h].cam = hd[h].cam /\ hd'[h].ver = hd[h].ver
        /\ \A g \in Handler \ {h} : hd'[g] = hd[g]
    BY <1>0, <2>1, GotoFacts DEF Pcs
  <2> DEFINE e == [stream[c] EXCEPT !.linked = FALSE]
  <2>3. stream' = [stream EXCEPT ![c] = e]
    BY <1>5 DEF DelQueueObj
  <2>4. /\ e \in [ver : Nat, running : BOOLEAN, linked : BOOLEAN] /\ e.ver = stream[c].ver
        /\ stream[c] = NoStream => e = NoStream
    BY <1>2 DEF NoStream
  <2>5. NoStream.ver = None
    BY DEF NoStream
  <2> HIDE DEF e
  <2>6. /\ stream' \in [Cam -> [ver : Nat, running : BOOLEAN, linked : BOOLEAN]]
        /\ stream'[c] = e /\ \A d \in Cam \ {c} : stream'[d] = stream[d]
    BY <1>0, <1>1, <2>3, <2>4, StreamFacts
  <2>7. TypeOK'
    BY <1>0, <2>1, <2>2, <2>6 DEF TypeOK, Work, Pcs, asked, PS!TypeOK
  <2>8. stream[c] = NoStream \/ stream[c].ver # None
    BY <1>0, <1>1 DEF Numbered
  <2> QED BY <1>0, <1>1, <2>1, <2>2, <2>4, <2>5, <2>6, <2>7, <2>8 DEF Kept, Numbered
<1> QED BY <1>3, <1>4, <1>5

\* Every step of every handler preserves the invariant: a reader and a writer are never
\* inside together, so that nobody's camera vanishes while it is opened.
LEMMA StepIInv == IInv /\ [Next]_vars => IInv'
<1> SUFFICES ASSUME IInv, [Next]_vars PROVE IInv'
  OBVIOUS
<1>0. TypeOK /\ LockHeld /\ LockExcludes /\ Numbered /\ Opened
  BY DEF IInv
<1>1. ASSUME NEW h \in Handler, Request(h) PROVE IInv'
  <2>1. /\ TypeOK' /\ UNCHANGED <<stream, psMode>>
        /\ hd'[h].pc \in {"pick", "delPS", "exists"} /\ hd'[h].ver # None
        /\ hd'[h].pc # "pick" => hd'[h].cam \in Cam
        /\ \A g \in Handler \ {h} : /\ hd'[g].pc = hd[g].pc /\ hd'[g].cam = hd[g].cam
                                    /\ hd'[g].ver = hd[g].ver
    BY <1>1, RequestFacts
  <2> QED BY <1>0, <2>1 DEF IInv, LockHeld, LockExcludes, Numbered, Opened
<1>2. ASSUME NEW h \in Handler, Wait(h) \/ Step(h) PROVE IInv'
  <2>1. Kept(h)
    BY <1>2, LookupStep, TurnStep, AddStep, StartStep, DelStep DEF Step
  <2>2. LockHeld'
    BY <1>0, <2>1 DEF Kept, LockHeld
  <2>3. LockExcludes'
    BY <1>0, <2>1 DEF Kept, LockExcludes, PS!NoWriter, PS!Free
  <2>4. Numbered'
    BY <1>0, <2>1 DEF Kept, Numbered
  <2>5. ASSUME NEW g \in Handler, hd'[g].pc = "opening" PROVE stream'[hd'[g].cam] # NoStream
    <3>1. CASE g = h
      BY <2>1, <2>5, <3>1 DEF Kept
    <3>2. CASE g # h
      <4>1. hd[g].pc = "opening" /\ hd'[g].cam = hd[g].cam
        BY <2>1, <2>5, <3>2 DEF Kept
      <4>2. hd[g].cam \in Cam /\ psMode[g] = "read" /\ stream[hd[g].cam] # NoStream
        BY <1>0, <4>1 DEF Numbered, LockHeld, Opened
      <4>3. psMode[h] # "write"
        BY <1>0, <3>2, <4>2 DEF LockExcludes
      <4> QED BY <2>1, <4>1, <4>2, <4>3 DEF Kept
    <3> QED BY <3>1, <3>2
  <2> QED BY <2>1, <2>2, <2>3, <2>4, <2>5 DEF Kept, IInv, Opened
<1>3. CASE UNCHANGED vars
  <2>1. TypeOK'
    BY <1>0, <1>3 DEF vars, maps, asked, TypeOK, PS!TypeOK
  <2> QED BY <1>0, <1>3, <2>1 DEF vars, maps, IInv, LockHeld, LockExcludes, Numbered, Opened
<1> QED BY <1>1, <1>2, <1>3 DEF Next

\* The lock is held where the code says so, and what is opened is there, in every
\* behaviour of any number of handlers.
THEOREM ManagersInvariance == SafeSpec => []IInv
  BY InitIInv, StepIInv, PTL DEF SafeSpec

\* However long CPullStream::Start takes, the camera it opens is in the map and no other
\* handler is in its destructor.
THEOREM NotErasedWhileOpened == SafeSpec => []NoOpenAfterErase
<1>1. IInv => NoOpenAfterErase
  <2> SUFFICES ASSUME IInv, NEW h \in Handler, hd[h].pc = "opening"
               PROVE  /\ stream[hd[h].cam] # NoStream
                      /\ \A g \in Handler : hd[g].pc \in {"erasing", "hung"} => hd[g].cam # hd[h].cam
    BY DEF NoOpenAfterErase
  <2>1. stream[hd[h].cam] # NoStream /\ psMode[h] = "read"
    BY DEF IInv, Opened, LockHeld
  <2>2. ASSUME NEW g \in Handler, hd[g].pc \in {"erasing", "hung"} PROVE FALSE
    <3>1. psMode[g] = "write"
      BY <2>2 DEF IInv, LockHeld
    <3>2. g = h
      BY <2>1, <3>1 DEF IInv, LockExcludes
    <3> QED BY <2>1, <3>1, <3>2
  <2> QED BY <2>1, <2>2
<1> QED BY <1>1, ManagersInvariance, PTL

-----------------------------------------------------------------------------
\* A step inside an operation: handler h touches its own cameras, and brings each of
\* them from one stage to the next.
Moves(h) ==
    /\ AtWork(h) /\ AtWork(h)' /\ Shape(h)'
    /\ hd'[h].op = hd[h].op /\ hd'[h].with = hd[h].with /\ hd'[h].alone = hd[h].alone
    /\ \A g \in Handler \ {h} : hd'[g] = hd[g]
    /\ UNCHANGED <<want, mixed>>
    /\ \A c \in Cam \ hd[h].with : stream'[c] = stream[c] /\ (c \in queue' <=> c \in queue)
    /\ \A c \in hd[h].with : Counts(h, c) /\ Stage(h, c) => Stage(h, c)'

\* Such a step keeps all cameras whole: nobody else is at work on those it touches.
LEMMA MovesWInv ==
    ASSUME IInv, WInv, NEW h \in Handler, Moves(h)
    PROVE  WInv'
<1>1. Shapes /\ Apart /\ Stages /\ CamerasWhole /\ TypeOK
  BY DEF WInv, IInv
<1>2. \A g \in Handler : /\ AtWork(g)' <=> AtWork(g)
                         /\ hd'[g].op = hd[g].op /\ hd'[g].with = hd[g].with /\ hd'[g].alone = hd[g].alone
  BY DEF Moves, AtWork
<1>3. Shapes'
  BY <1>1 DEF Moves, Shapes, Shape, AtWork
<1>4. \A c \in Cam : Busy({c})' = Busy({c})
  BY <1>2 DEF Busy, AtWork
<1>5. Apart'
  <2>1. \A c \in Cam \ mixed' : \A f, g \in Busy({c})' : f = g
    BY <1>1, <1>4 DEF Apart, Moves
  <2>2. \A f, g \in Handler : AtWork(f)' /\ AtWork(g)' /\ hd'[g].alone /\ f # g => hd'[f].with \cap hd'[g].with = {}
    BY <1>1, <1>2 DEF Apart
  <2>3. ASSUME NEW g \in Handler, AtWork(g)', hd'[g].op = "del", ~hd'[g].alone PROVE hd'[g].cam \in mixed'
    <3>1. AtWork(g) /\ hd[g].op = "del" /\ ~hd[g].alone /\ mixed' = mixed
      BY <1>2, <2>3 DEF Moves
    <3>2. hd[g].with = {hd[g].cam} /\ hd'[g].with = {hd'[g].cam}
      BY <1>1, <1>3, <2>3, <3>1 DEF Shapes, Shape
    <3>3. hd'[g].cam = hd[g].cam
      BY <1>2, <3>2
    <3> QED BY <1>1, <3>1, <3>3 DEF Apart
  <2> QED BY <2>1, <2>2, <2>3 DEF Apart
<1>6. Stages'
  <2>1. SUFFICES ASSUME NEW g \in Handler, AtWork(g)', NEW c \in hd'[g].with, Counts(g, c)'
                 PROVE  Stage(g, c)'
    BY DEF Stages
  <2>2. AtWork(g) /\ c \in hd[g].with /\ Counts(g, c) /\ c \in Cam
    BY <1>1, <1>2, <2>1, HandlerTypes DEF Counts, Moves, Work
  <2>3. Stage(g, c)
    BY <1>1, <2>2 DEF Stages
  <2>4. CASE g = h
    BY <2>2, <2>3, <2>4 DEF Moves
  <2>5. CASE g # h
    <3>1. c \notin hd[h].with
      <4>1. SUFFICES ASSUME c \in hd[h].with PROVE FALSE
        OBVIOUS
      <4>2. AtWork(h) /\ g \in Busy({c}) /\ h \in Busy({c})
        BY <2>2, <4>1 DEF Moves, Busy, AtWork
      <4> QED BY <1>1, <2>2, <2>5, <4>1, <4>2 DEF Apart, Counts
    <3>2. hd'[g] = hd[g] /\ stream'[c] = stream[c] /\ (c \in queue' <=> c \in queue) /\ want' = want
      BY <2>2, <2>5, <3>1 DEF Moves
    <3> QED BY <2>3, <3>2 DEF Stage, Waiting, Within, Midway, Finished, Settled, Gone, Has
  <2> QED BY <2>4, <2>5
<1>7. CamerasWhole'
  <2>1. SUFFICES ASSUME NEW c \in Cam \ mixed', Busy({c})' = {} PROVE Settled(c)'
    BY DEF CamerasWhole
  <2>2. c \notin mixed /\ Busy({c}) = {} /\ want' = want
    BY <1>4, <2>1 DEF Moves
  <2>3. c \notin hd[h].with
    BY <2>2 DEF Moves, Busy, AtWork
  <2>4. Settled(c) /\ stream'[c] = stream[c] /\ (c \in queue' <=> c \in queue)
    BY <1>1, <2>2, <2>3 DEF CamerasWhole, Moves
  <2> QED BY <2>2, <2>4 DEF Settled, Gone, Has
<1> QED BY <1>3, <1>5, <1>6, <1>7 DEF WInv

\* A jump of handler h while it is at work on its camera.
LEMMA GotoMoves ==
    ASSUME IInv, WInv, NEW h \in Handler, NEW pc \in Pcs \ {"idle", "exists"}, Goto(h, pc),
           hd[h].pc \notin {"idle", "pick", "end"}, UNCHANGED <<want, mixed>>,
           pc = "pick" => hd[h].op = "start", pc = "end" => hd[h].op # "start",
           pc \in {"delPS", "erasing", "hung", "delQueue"} => hd[h].op = "del",
           hd[h].op = "del" => pc \in {"delPS", "erasing", "hung", "delQueue", "end"},
           NEW c, c = hd[h].cam,
           \A d \in Cam \ {c} : stream'[d] = stream[d] /\ (d \in queue' <=> d \in queue),
           pc \in {"pick", "end"} /\ Midway(h, c) => Finished(h, c)',
           pc \notin {"pick", "end"} /\ Midway(h, c) => Midway(h, c)'
    PROVE  Moves(h)
<1>1. TypeOK /\ Shape(h) /\ AtWork(h) /\ hd[h] \in Work
  BY HandlerTypes DEF WInv, Shapes, AtWork, IInv
<1>2. /\ hd'[h].pc = pc /\ hd'[h].cam = hd[h].cam /\ hd'[h].ver = hd[h].ver
      /\ hd'[h].op = hd[h].op /\ hd'[h].todo = hd[h].todo /\ hd'[h].with = hd[h].with
      /\ hd'[h].alone = hd[h].alone /\ \A g \in Handler \ {h} : hd'[g] = hd[g]
  BY <1>1, GotoFacts
<1>3. hd[h].cam \in hd[h].with /\ (hd[h].op \in {"start", "add"} => hd[h].cam \notin hd[h].todo)
  BY <1>1 DEF Shape
<1>4. AtWork(h)'
  BY <1>2 DEF AtWork
<1>5. Shape(h)'
  <2>1. pc = "end" /\ hd[h].op \in {"start", "add"} => hd[h].todo = {}
    BY <1>1, <1>3 DEF Shape
  <2> QED BY <1>1, <1>2, <1>3, <2>1 DEF Shape
<1>6. ASSUME NEW d \in hd[h].with, Stage(h, d) PROVE Stage(h, d)'
  <2>1. (Waiting(h, d)' <=> Waiting(h, d)) /\ d \in Cam
    BY <1>1, <1>2 DEF Waiting, Work
  <2>2. CASE d = c
    <3>1. Within(h, c) /\ ~Waiting(h, c) /\ Midway(h, c)
      BY <1>3, <1>6, <2>2 DEF Within, Waiting, Stage
    <3>2. CASE pc \in {"pick", "end"}
      <4>1. Finished(h, c)' /\ ~Within(h, c)'
        BY <1>2, <3>1, <3>2 DEF Within
      <4> QED BY <2>1, <2>2, <3>1, <4>1 DEF Stage
    <3>3. CASE pc \notin {"pick", "end"}
      <4>1. Midway(h, c)' /\ Within(h, c)'
        BY <1>2, <3>1, <3>3 DEF Within
      <4> QED BY <2>1, <2>2, <3>1, <4>1 DEF Stage
    <3> QED BY <3>2, <3>3
  <2>3. CASE d # c
    <3>1. ~Within(h, d) /\ ~Within(h, d)'
      BY <1>2, <2>3 DEF Within
    <3>2. stream'[d] = stream[d] /\ (d \in queue' <=> d \in queue) /\ want' = want
      BY <2>1, <2>3
    <3>3. (Finished(h, d)' <=> Finished(h, d)) /\ (Settled(d)' <=> Settled(d))
      BY <1>2, <3>2 DEF Finished, Settled, Gone, Has
    <3> QED BY <1>6, <2>1, <3>1, <3>3 DEF Stage
  <2> QED BY <2>2, <2>3
<1>7. \A d \in Cam \ hd[h].with : stream'[d] = stream[d] /\ (d \in queue' <=> d \in queue)
  BY <1>3
<1> QED BY <1>1, <1>2, <1>4, <1>5, <1>6, <1>7 DEF Moves

\* Looking up the camera, and giving new information to one that is there.
LEMMA LookupMoves ==
    ASSUME IInv, WInv, NEW h \in Handler, CameraIsExist(h) \/ UpdateCamBaseInfo(h)
    PROVE  Moves(h)
<1>1. PICK c : c = hd[h].cam
  OBVIOUS
<1>2. TypeOK /\ Shapes /\ hd[h] \in Work /\ hd[h].pc \in {"exists", "update"} /\ UNCHANGED <<queue, want, mixed>>
  BY HandlerTypes DEF IInv, WInv, CameraIsExist, UpdateCamBaseInfo, maps, asked
<1>3. Shape(h) /\ c \in Cam /\ hd[h].ver # None
  BY <1>1, <1>2 DEF Shapes, AtWork, IInv, Numbered
<1>4. CASE CameraIsExist(h)
  <2>1. PICK pc : pc = IF stream[c] = NoStream THEN "addQueue" ELSE "update"
    OBVIOUS
  <2>2. hd[h].pc = "exists" /\ Goto(h, pc) /\ stream' = stream /\ hd[h].op = "mod"
    BY <1>1, <1>3, <1>4, <2>1 DEF CameraIsExist, maps, Shape
  <2>3. pc \in Pcs \ {"idle", "exists"} /\ pc \in {"addQueue", "update"}
    BY <2>1 DEF Pcs
  <2>4. hd'[h].pc = pc
    BY <1>2, <2>2, <2>3, GotoFacts
  <2>5. Midway(h, c) => Midway(h, c)'
    <3>1. Midway(h, c) => IF pc = "addQueue" THEN Gone(c) ELSE Settled(c) /\ want[c] # None
      BY <2>1, <2>2 DEF Midway, Settled, Gone, Has, NoStream, None
    <3>2. (Gone(c)' <=> Gone(c)) /\ (Settled(c)' <=> Settled(c))
      BY <1>2, <2>2 DEF Settled, Gone, Has
    <3> QED BY <1>2, <2>3, <2>4, <3>1, <3>2 DEF Midway
  <2> QED BY <1>1, <1>2, <2>2, <2>3, <2>5, GotoMoves
<1>5. CASE UpdateCamBaseInfo(h)
  <2>1. PICK pc : pc = CASE hd[h].op = "start" -> "pick" [] hd[h].op = "add" -> "start" [] OTHER -> "end"
    OBVIOUS
  <2>2. /\ hd[h].pc = "update" /\ Goto(h, pc)
        /\ stream' = IF stream[c] = NoStream THEN stream ELSE [stream EXCEPT ![c].ver = hd[h].ver]
    BY <1>1, <1>5, <2>1 DEF UpdateCamBaseInfo
  <2>3. /\ hd[h].op \in {"start", "add", "mod"} /\ pc \in {"pick", "start", "end"}
        /\ (pc = "pick" <=> hd[h].op = "start") /\ (pc = "start" <=> hd[h].op = "add")
    BY <1>2, <1>3, <2>1, <2>2 DEF Shape, Work
  <2>4. pc \in Pcs \ {"idle", "exists"}
    BY <2>3 DEF Pcs
  <2>5. hd'[h].pc = pc /\ hd'[h].op = hd[h].op /\ hd'[h].ver = hd[h].ver
    BY <1>2, <2>2, <2>4, GotoFacts
  <2>6. \A d \in Cam \ {c} : stream'[d] = stream[d]
    BY <1>2, <1>3, <2>2 DEF TypeOK
  <2>7. ASSUME Midway(h, c) PROVE (pc \in {"pick", "end"} => Finished(h, c)') /\ (pc = "start" => Midway(h, c)')
    <3>1. want[c] # None /\ stream[c] = [ver |-> want[c], running |-> TRUE, linked |-> TRUE] /\ c \in queue
      BY <2>2, <2>7 DEF Midway, Settled, Has
    <3>2. stream[c] # NoStream
      BY <3>1 DEF NoStream
    <3>3. stream'[c] = [ver |-> hd[h].ver, running |-> TRUE, linked |-> TRUE]
      <4>1. stream'[c] = [stream[c] EXCEPT !.ver = hd[h].ver]
        BY <1>2, <1>3, <2>2, <3>2 DEF TypeOK
      <4>2. stream[c] \in [ver : Nat, running : BOOLEAN, linked : BOOLEAN]
        BY <1>2, <1>3 DEF TypeOK
      <4>3. stream[c].running = TRUE /\ stream[c].linked = TRUE
        BY <3>1
      <4> QED BY <4>1, <4>2, <4>3
    <3>4. stream'[c].linked
      BY <3>3
    <3> QED BY <1>2, <2>3, <2>5, <3>1, <3>3, <3>4 DEF Finished, Has, Midway
  <2> QED BY <1>1, <1>2, <2>2, <2>3, <2>4, <2>6, <2>7, GotoMoves
<1> QED BY <1>4, <1>5

\* The queue and the stream of a camera that was not there.
LEMMA AddMoves ==
    ASSUME IInv, WInv, NEW h \in Handler, AddQueueObj(h) \/ AddPullStreamObj(h)
    PROVE  Moves(h)
<1>1. PICK c : c = hd[h].cam
  OBVIOUS
<1>2. TypeOK /\ Shapes /\ hd[h] \in Work /\ hd[h].pc \in {"addQueue", "addPS"} /\ UNCHANGED <<want, mixed>>
  BY HandlerTypes DEF IInv, WInv, AddQueueObj, AddPullStreamObj, asked
<1>3. Shape(h) /\ c \in Cam /\ hd[h].ver # None /\ hd[h].op # "del"
  BY <1>1, <1>2 DEF Shapes, Shape, AtWork, IInv, Numbered
<1>4. CASE AddQueueObj(h)
  <2>1. hd[h].pc = "addQueue" /\ Goto(h, "addPS") /\ stream' = stream /\ queue' = queue \cup {c}
    BY <1>1, <1>4 DEF AddQueueObj
  <2>2. hd'[h].pc = "addPS" /\ "addPS" \in Pcs \ {"idle", "exists"}
    BY <1>2, <2>1, GotoFacts DEF Pcs
  <2>3. Midway(h, c) => Midway(h, c)'
    BY <2>1, <2>2 DEF Midway, Gone
  <2> QED BY <1>1, <1>2, <1>3, <2>1, <2>2, <2>3, GotoMoves
<1>5. CASE AddPullStreamObj(h)
  <2>1. /\ hd[h].pc = "addPS" /\ Goto(h, "start") /\ queue' = queue
        /\ stream' = IF stream[c] = NoStream
                       THEN [stream EXCEPT ![c] = [ver |-> hd[h].ver, running |-> FALSE, linked |-> c \in queue]]
                       ELSE stream
    BY <1>1, <1>5 DEF AddPullStreamObj
  <2>2. hd'[h].pc = "start" /\ hd'[h].ver = hd[h].ver /\ "start" \in Pcs \ {"idle", "exists"}
    BY <1>2, <2>1, GotoFacts DEF Pcs
  <2>3. \A d \in Cam \ {c} : stream'[d] = stream[d]
    BY <1>2, <1>3, <2>1 DEF TypeOK
  <2>4. ASSUME Midway(h, c) PROVE Midway(h, c)'
    <3>1. stream[c] = NoStream /\ c \in queue
      BY <2>1, <2>4 DEF Midway
    <3>2. stream'[c] = [ver |-> hd[h].ver, running |-> FALSE, linked |-> c \in queue]
      BY <1>2, <1>3, <2>1, <3>1 DEF TypeOK
    <3>3. stream'[c].ver = hd[h].ver /\ stream'[c].linked
      <4>1. (c \in queue) = TRUE
        BY <3>1
      <4>2. stream'[c] = [ver |-> hd[h].ver, running |-> FALSE, linked |-> TRUE]
        BY <3>2, <4>1
      <4> QED BY <4>2
    <3> QED BY <2>1, <2>2, <3>1, <3>3 DEF Midway
  <2> QED BY <1>1, <1>2, <1>3, <2>1, <2>2, <2>3, <2>4, GotoMoves
<1> QED BY <1>4, <1>5

\* The stream of the camera is started, or runs already.
LEMMA StartMoves ==
    ASSUME IInv, WInv, NEW h \in Handler, StartPullStreamObj(h) \/ Start(h)
    PROVE  Moves(h)
<1>1. PICK c, pc : c = hd[h].cam /\ pc = AfterStart(h)
  OBVIOUS
<1>2. TypeOK /\ Shapes /\ hd[h] \in Work /\ hd[h].pc \in {"start", "opening"} /\ UNCHANGED <<queue, want, mixed>>
  BY HandlerTypes DEF IInv, WInv, StartPullStreamObj, Start, maps, asked
<1>3. Shape(h) /\ c \in Cam /\ hd[h].ver # None /\ hd[h].op # "del"
  BY <1>1, <1>2 DEF Shapes, Shape, AtWork, IInv, Numbered
<1>4. pc \in {"pick", "end"} /\ (pc = "pick" <=> hd[h].op = "start") /\ pc \in Pcs \ {"idle", "exists"}
  BY <1>1 DEF AfterStart, Pcs
<1>5. Midway(h, c) => stream[c].ver = hd[h].ver /\ stream[c].linked /\ c \in queue /\ stream[c] # NoStream
  BY <1>2, <1>3 DEF Midway, NoStream
<1>6. CASE StartPullStreamObj(h) /\ Goto(h, "opening")
  <2>1. stream' = stream /\ "opening" \in Pcs \ {"idle", "exists"}
    BY <1>6 DEF StartPullStreamObj, maps, Pcs
  <2>2. hd'[h].pc = "opening" /\ hd'[h].ver = hd[h].ver
    BY <1>2, <1>6, <2>1, GotoFacts
  <2>3. Midway(h, c) => Midway(h, c)'
    BY <1>2, <1>5, <2>1, <2>2 DEF Midway
  <2> QED BY <1>1, <1>2, <1>3, <1>6, <2>1, <2>3, GotoMoves
<1>7. CASE StartPullStreamObj(h) /\ Goto(h, pc) /\ (stream[c] = NoStream \/ stream[c].running)
  <2>1. stream' = stream
    BY <1>7 DEF StartPullStreamObj, maps
  <2>2. hd'[h].op = hd[h].op /\ hd'[h].ver = hd[h].ver
    BY <1>2, <1>4, <1>7, GotoFacts
  <2>3. ASSUME Midway(h, c) PROVE Finished(h, c)'
    <3>1. stream[c] \in [ver : Nat, running : BOOLEAN, linked : BOOLEAN]
      BY <1>2, <1>3 DEF TypeOK
    <3>2. stream[c].ver = hd[h].ver /\ stream[c].linked /\ stream[c].running /\ c \in queue
      BY <1>5, <1>7, <2>3
    <3>3. stream[c].linked = TRUE /\ stream[c].running = TRUE
      BY <3>1, <3>2
    <3>4. stream[c] = [ver |-> hd[h].ver, running |-> TRUE, linked |-> TRUE]
      BY <3>1, <3>2, <3>3
    <3> QED BY <1>2, <1>3, <2>1, <2>2, <3>2, <3>4 DEF Finished, Has
  <2> QED BY <1>1, <1>2, <1>3, <1>4, <1>7, <2>1, <2>3, GotoMoves
<1>8. CASE Start(h)
  <2>1. stream' = [stream EXCEPT ![c].running = TRUE] /\ Goto(h, pc)
    BY <1>1, <1>8 DEF Start
  <2>2. hd'[h].op = hd[h].op /\ hd'[h].ver = hd[h].ver
    BY <1>2, <1>4, <2>1, GotoFacts
  <2>3. \A d \in Cam \ {c} : stream'[d] = stream[d]
    BY <1>2, <1>3, <2>1 DEF TypeOK
  <2>4. ASSUME Midway(h, c) PROVE Finished(h, c)'
    <3>1. stream[c] \in [ver : Nat, running : BOOLEAN, linked : BOOLEAN]
      BY <1>2, <1>3 DEF TypeOK
    <3>2. stream[c].ver = hd[h].ver /\ stream[c].linked = TRUE /\ c \in queue
      BY <1>5, <2>4, <3>1
    <3>3. stream'[c] = [stream[c] EXCEPT !.running = TRUE]
      BY <1>2, <1>3, <2>1 DEF TypeOK
    <3>4. stream'[c] = [ver |-> hd[h].ver, running |-> TRUE, linked |-> TRUE]
      BY <3>1, <3>2, <3>3
    <3> QED BY <1>2, <1>3, <2>2, <3>2, <3>4 DEF Finished, Has
  <2> QED BY <1>1, <1>2, <1>3, <1>4, <2>1, <2>3, <2>4, GotoMoves
<1> QED BY <1>1, <1>6, <1>7, <1>8 DEF StartPullStreamObj

\* Stream and queue are deleted.
LEMMA DelMoves ==
    ASSUME IInv, WInv, NEW h \in Handler, DelPullStreamObj(h) \/ Erase(h) \/ DelQueueObj(h)
    PROVE  Moves(h)
<1>1. PICK c : c = hd[h].cam
  OBVIOUS
<1>2. /\ TypeOK /\ Shapes /\ hd[h] \in Work /\ hd[h].pc \in {"delPS", "erasing", "delQueue"}
      /\ UNCHANGED <<want, mixed>>
  BY HandlerTypes DEF IInv, WInv, DelPullStreamObj, Erase, DelQueueObj, maps, asked
<1>3. Shape(h) /\ c \in Cam /\ hd[h].op = "del"
  BY <1>1, <1>2 DEF Shapes, Shape, AtWork, IInv, Numbered
<1>4. {"erasing", "hung", "delQueue", "end"} \subseteq Pcs \ {"idle", "exists"}
  BY DEF Pcs
<1>5. ASSUME NEW pc \in {"erasing", "hung", "delQueue"}, Goto(h, pc), queue' = queue,
             \A d \in Cam \ {c} : stream'[d] = stream[d], pc = "delQueue" => stream'[c] = NoStream
      PROVE  Moves(h)
  <2>1. hd'[h].pc = pc /\ pc \in Pcs \ {"idle", "exists"}
    BY <1>2, <1>4, <1>5, GotoFacts
  <2>2. Midway(h, c)'
    BY <1>5, <2>1 DEF Midway
  <2> QED BY <1>1, <1>2, <1>3, <1>5, <2>1, <2>2, GotoMoves
<1>6. CASE DelPullStreamObj(h)
  <2>1. \/ Goto(h, "delQueue") /\ stream[c] = NoStream
        \/ Goto(h, "erasing")
    BY <1>1, <1>6 DEF DelPullStreamObj
  <2>2. queue' = queue /\ stream' = stream
    BY <1>6 DEF DelPullStreamObj, maps
  <2> QED BY <1>5, <2>1, <2>2
<1>7. CASE Erase(h)
  <2>1. \/ Goto(h, "delQueue") /\ stream' = [stream EXCEPT ![c] = NoStream]
        \/ Goto(h, "hung") /\ stream' = stream
    BY <1>1, <1>7 DEF Erase
  <2>2. stream' = [stream EXCEPT ![c] = NoStream] =>
           stream'[c] = NoStream /\ \A d \in Cam \ {c} : stream'[d] = stream[d]
    BY <1>2, <1>3 DEF TypeOK
  <2>3. queue' = queue
    BY <1>7 DEF Erase
  <2> QED BY <1>5, <2>1, <2>2, <2>3
<1>8. CASE DelQueueObj(h)
  <2>1. /\ hd[h].pc = "delQueue" /\ Goto(h, "end")
        /\ queue' = queue \ {c} /\ stream' = [stream EXCEPT ![c].linked = FALSE]
    BY <1>1, <1>8 DEF DelQueueObj
  <2>2. hd'[h].op = hd[h].op
    BY <1>2, <1>4, <2>1, GotoFacts
  <2>3. \A d \in Cam \ {c} : stream'[d] = stream[d]
    BY <1>2, <1>3, <2>1 DEF TypeOK
  <2>4. ASSUME Midway(h, c) PROVE Finished(h, c)'
    <3>1. stream[c] = NoStream
      BY <2>1, <2>4 DEF Midway
    <3>2. stream'[c] = [NoStream EXCEPT !.linked = FALSE]
      BY <1>2, <1>3, <2>1, <3>1 DEF TypeOK
    <3>3. stream'[c] = NoStream
      BY <3>2 DEF NoStream
    <3> QED BY <1>3, <2>1, <2>2, <3>3 DEF Finished, Gone
  <2> QED BY <1>1, <1>2, <1>3, <1>4, <2>1, <2>3, <2>4, GotoMoves
<1> QED BY <1>6, <1>7, <1>8

\* The handler turns to its next camera.
LEMMA TurnMoves ==
    ASSUME IInv, WInv, NEW h \in Handler, NEW c \in Cam, QueueIsExist(h, c)
    PROVE  Moves(h)
<1>1. PICK pc : pc = IF c \in queue THEN "update" ELSE "addQueue"
  OBVIOUS
<1>2. /\ TypeOK /\ Shape(h) /\ hd \in [Handler -> Work] /\ hd[h] \in Work
      /\ hd[h].pc = "pick" /\ c \in hd[h].todo /\ UNCHANGED <<queue, stream, want, mixed>>
  BY HandlerTypes DEF IInv, WInv, Shapes, AtWork, QueueIsExist, Turns, maps, asked
<1>3. hd' = [hd EXCEPT ![h] = [hd[h] EXCEPT !.pc = pc, !.cam = c, !.todo = hd[h].todo \ {c}]]
  BY <1>1 DEF QueueIsExist
<1>4. /\ hd'[h] = [hd[h] EXCEPT !.pc = pc, !.cam = c, !.todo = hd[h].todo \ {c}]
      /\ \A g \in Handler \ {h} : hd'[g] = hd[g]
  BY <1>2, <1>3
<1>5. /\ hd'[h].pc = pc /\ hd'[h].cam = c /\ hd'[h].todo = hd[h].todo \ {c} /\ hd'[h].ver = hd[h].ver
      /\ hd'[h].op = hd[h].op /\ hd'[h].with = hd[h].with /\ hd'[h].alone = hd[h].alone
  BY <1>2, <1>4 DEF Work
<1>6. AtWork(h) /\ AtWork(h)' /\ pc \in {"update", "addQueue"}
  BY <1>1, <1>2, <1>5 DEF AtWork
<1>7. hd[h].op \in {"start", "add"} /\ hd[h].todo \subseteq hd[h].with /\ c \in hd[h].with
  BY <1>2 DEF Shape
<1>8. Shape(h)'
  <2>1. hd[h].op = "add" => hd[h].with = {c}
    BY <1>2, <1>7 DEF Shape
  <2> QED BY <1>5, <1>6, <1>7, <2>1 DEF Shape
<1>9. ASSUME NEW d \in hd[h].with, Stage(h, d) PROVE Stage(h, d)'
  <2>1. (Finished(h, d)' <=> Finished(h, d)) /\ (Settled(d)' <=> Settled(d)) /\ (Gone(d)' <=> Gone(d))
    BY <1>2, <1>5 DEF Finished, Settled, Gone, Has
  <2>2. CASE d = c
    <3>1. Settled(c) /\ want' = want
      BY <1>2, <1>7, <1>9, <2>2 DEF Stage, Waiting
    <3>2. ~Waiting(h, c)' /\ Within(h, c)'
      BY <1>5, <1>6 DEF Waiting, Within
    <3>3. IF c \in queue THEN want[c] # None ELSE Gone(c)
      BY <3>1 DEF Settled, Gone, Has
    <3>4. Midway(h, c)'
      BY <1>1, <1>5, <1>6, <2>1, <2>2, <3>1, <3>3 DEF Midway
    <3> QED BY <2>2, <3>2, <3>4 DEF Stage
  <2>3. CASE d # c
    <3>1. ~Within(h, d) /\ ~Within(h, d)' /\ (Waiting(h, d)' <=> Waiting(h, d))
      BY <1>2, <1>5, <2>3 DEF Waiting, Within
    <3> QED BY <1>9, <2>1, <3>1 DEF Stage
  <2> QED BY <2>2, <2>3
<1> QED BY <1>2, <1>4, <1>5, <1>6, <1>8, <1>9 DEF Moves

\* All cameras were visited: the publishing threads are started.
LEMMA LoopsMoves ==
    ASSUME IInv, WInv, NEW h \in Handler, NEW P, StartLoops(h, P)
    PROVE  Moves(h)
<1>1. /\ TypeOK /\ Shape(h) /\ hd[h].op = "start" /\ hd[h].pc = "pick" /\ hd[h].todo = {}
      /\ Goto(h, "end") /\ "end" \in Pcs /\ UNCHANGED <<queue, stream, want, mixed>>
  BY DEF IInv, WInv, Shapes, AtWork, StartLoops, maps, asked, Pcs
<1>2. /\ hd'[h].pc = "end" /\ hd'[h].cam = hd[h].cam /\ hd'[h].ver = hd[h].ver
      /\ hd'[h].op = hd[h].op /\ hd'[h].todo = hd[h].todo /\ hd'[h].with = hd[h].with
      /\ hd'[h].alone = hd[h].alone /\ \A g \in Handler \ {h} : hd'[g] = hd[g]
  BY <1>1, GotoFacts
<1>3. AtWork(h) /\ AtWork(h)' /\ Shape(h)'
  BY <1>1, <1>2 DEF AtWork, Shape
<1>4. ASSUME NEW d \in hd[h].with, Stage(h, d) PROVE Stage(h, d)'
  <2>1. ~Within(h, d) /\ ~Within(h, d)' /\ ~Waiting(h, d) /\ ~Waiting(h, d)'
    BY <1>1, <1>2 DEF Waiting, Within
  <2>2. Finished(h, d)' <=> Finished(h, d)
    BY <1>1, <1>2 DEF Finished, Gone, Has
  <2> QED BY <1>4, <2>1, <2>2 DEF Stage
<1> QED BY <1>1, <1>2, <1>3, <1>4 DEF Moves

\* An operation begins: its cameras are settled, or mixed from now on.
LEMMA RequestWInv ==
    ASSUME IInv, WInv, NEW h \in Handler, Request(h)
    PROVE  WInv'
<1>0. TypeOK /\ Shapes /\ Apart /\ Stages /\ CamerasWhole /\ hd \in [Handler -> Work]
  BY HandlerTypes DEF IInv, WInv
<1>1. PICK op \in {"start", "add", "mod", "del"}, pc \in {"pick", "delPS", "exists"},
           cam \in Cam \cup {NoCam}, C \in SUBSET Cam :
        /\ Begin(h, op, pc, cam, C)
        /\ op # "start" => C = {cam}
        /\ (pc = "pick" <=> op \in {"start", "add"}) /\ (pc = "delPS" <=> op = "del")
  <2>1. CASE \E E \in SUBSET Cam : StartCameras(h, E)
    BY <2>1 DEF StartCameras
  <2>2. CASE \E c \in Cam : SyncAddCameraInfo(h, c)
    BY <2>2 DEF SyncAddCameraInfo
  <2>3. CASE \E c \in Cam : SyncDelCameraInfo(h, c)
    BY <2>3 DEF SyncDelCameraInfo
  <2>4. CASE \E c \in Cam : SyncModifyCameraInfo(h, c)
    BY <2>4 DEF SyncModifyCameraInfo
  <2> QED BY <2>1, <2>2, <2>3, <2>4 DEF Request
<1>2. /\ hd[h].pc = "idle" /\ UNCHANGED <<queue, stream, want>>
      /\ mixed' = mixed \cup {c \in C : Busy({c}) # {}}
  BY <1>1 DEF Begin, maps
<1>3. /\ hd'[h].pc = pc /\ hd'[h].op = op /\ hd'[h].cam = cam /\ hd'[h].todo = C /\ hd'[h].with = C
      /\ hd'[h].alone <=> Busy(C) = {}
  <2>1. hd'[h] = [pc |-> pc, op |-> op, cam |-> cam, ver |-> ops + 1, todo |-> C,
                  with |-> C, alone |-> Busy(C) = {}]
    BY <1>1 DEF Begin
  <2>2. /\ hd'[h].pc = pc /\ hd'[h].op = op /\ hd'[h].cam = cam /\ hd'[h].todo = C /\ hd'[h].with = C
        /\ hd'[h].alone = (Busy(C) = {})
    BY <2>1
  <2>3. CASE Busy(C) = {}
    <3>1. (Busy(C) = {}) = TRUE
      BY <2>3
    <3> QED BY <2>2, <2>3, <3>1
  <2>4. CASE Busy(C) # {}
    <3>1. (Busy(C) = {}) = FALSE
      BY <2>4
    <3> QED BY <2>2, <2>4, <3>1
  <2> QED BY <2>3, <2>4
<1>4. ASSUME NEW g \in Handler \ {h}
      PROVE  /\ hd'[g].pc = hd[g].pc /\ hd'[g].op = hd[g].op /\ hd'[g].cam = hd[g].cam
             /\ hd'[g].todo = hd[g].todo /\ hd'[g].with = hd[g].with /\ hd'[g].ver = hd[g].ver
             /\ hd'[g].alone => hd[g].alone /\ g \notin Busy(C)
             /\ ~hd'[g].alone => ~hd[g].alone \/ g \in Busy(C)
  <2>1. hd'[g] = IF g \in Busy(C) THEN [hd[g] EXCEPT !.alone = FALSE] ELSE hd[g]
    BY <1>1 DEF Begin
  <2>2. hd[g] \in Work
    BY <1>0
  <2>3. CASE g \in Busy(C)
    <3>1. hd'[g] = [hd[g] EXCEPT !.alone = FALSE]
      BY <2>1, <2>3
    <3>2. hd'[g].alone = FALSE
      BY <2>2, <3>1 DEF Work
    <3> QED BY <2>2, <2>3, <3>1, <3>2 DEF Work
  <2>4. CASE g \notin Busy(C)
    BY <2>1, <2>4
  <2> QED BY <2>3, <2>4
<1>5. AtWork(h)' /\ ~AtWork(h) /\ \A g \in Handler \ {h} : AtWork(g)' <=> AtWork(g)
  BY <1>1, <1>2, <1>3, <1>4 DEF AtWork
<1>6. Shapes'
  <2>1. Shape(h)'
    BY <1>1, <1>3 DEF Shape
  <2>2. \A g \in Handler \ {h} : AtWork(g)' => Shape(g)'
    BY <1>0, <1>4, <1>5 DEF Shapes, Shape
  <2> QED BY <2>1, <2>2 DEF Shapes
<1>7. \A c \in Cam : \A g \in Handler \ {h} : g \in Busy({c})' <=> g \in Busy({c})
  BY <1>4 DEF Busy
<1>8. \A c \in Cam : h \in Busy({c})' <=> c \in C
  BY <1>3, <1>5 DEF Busy, AtWork
<1>9. \A g \in Handler : g \in Busy(C) <=> AtWork(g) /\ hd[g].with \cap C # {}
  BY DEF Busy, AtWork
<1>10. \A c \in Cam : \A g \in Handler : g \in Busy({c}) <=> AtWork(g) /\ c \in hd[g].with
  BY DEF Busy, AtWork
<1>11. Apart'
  <2>1. ASSUME NEW c \in Cam \ mixed', NEW f \in Busy({c})', NEW g \in Busy({c})' PROVE f = g
    <3>1. f \in Handler /\ g \in Handler
      BY DEF Busy
    <3>2. c \notin mixed /\ (c \in C => Busy({c}) = {})
      BY <1>2
    <3>3. CASE c \in C
      <4>1. f = h /\ g = h
        BY <1>7, <3>1, <3>2, <3>3
      <4> QED BY <4>1
    <3>4. CASE c \notin C
      <4>1. f # h /\ g # h
        BY <1>8, <3>4
      <4>2. f \in Busy({c}) /\ g \in Busy({c})
        BY <1>7, <3>1, <4>1
      <4> QED BY <1>0, <3>2, <4>2 DEF Apart
    <3> QED BY <3>3, <3>4
  <2>2. ASSUME NEW f \in Handler, NEW g \in Handler, AtWork(f)', AtWork(g)', hd'[g].alone, f # g
        PROVE  hd'[f].with \cap hd'[g].with = {}
    <3>1. CASE g = h
      BY <1>3, <1>4, <1>5, <1>9, <2>2, <3>1
    <3>2. CASE f = h
      BY <1>3, <1>4, <1>5, <1>9, <2>2, <3>2
    <3>3. CASE f # h /\ g # h
      BY <1>0, <1>4, <1>5, <2>2, <3>3 DEF Apart
    <3> QED BY <3>1, <3>2, <3>3
  <2>3. ASSUME NEW g \in Handler, AtWork(g)', hd'[g].op = "del", ~hd'[g].alone PROVE hd'[g].cam \in mixed'
    <3>1. CASE g = h
      <4>1. C = {cam} /\ Busy(C) # {}
        BY <1>1, <1>3, <2>3, <3>1
      <4> QED BY <1>2, <1>3, <3>1, <4>1
    <3>2. CASE g # h
      <4>1. AtWork(g) /\ hd[g].op = "del" /\ hd'[g].cam = hd[g].cam
        BY <1>4, <1>5, <2>3, <3>2
      <4>2. hd[g].with = {hd[g].cam}
        BY <1>0, <4>1 DEF Shapes, Shape
      <4>3. CASE ~hd[g].alone
        BY <1>0, <1>2, <4>1, <4>3 DEF Apart
      <4>4. CASE g \in Busy(C)
        <5>1. hd[g].cam \in C
          BY <1>9, <4>2, <4>4
        <5>2. g \in Busy({hd[g].cam})
          BY <1>10, <4>1, <4>2, <5>1
        <5> QED BY <1>2, <4>1, <5>1, <5>2
      <4> QED BY <1>4, <2>3, <3>2, <4>3, <4>4
    <3> QED BY <3>1, <3>2
  <2> QED BY <2>1, <2>2, <2>3 DEF Apart
<1>12. \A c \in Cam : Settled(c)' <=> Settled(c)
  BY <1>2 DEF Settled, Gone, Has
<1>13. Stages'
  <2>1. SUFFICES ASSUME NEW g \in Handler, AtWork(g)', NEW c \in hd'[g].with, Counts(g, c)'
                 PROVE  Stage(g, c)'
    BY DEF Stages
  <2>2. CASE g = h
    <3>1. c \in C /\ c \in Cam
      BY <1>3, <2>1, <2>2
    <3>2. op # "del" => Settled(c)'
      <4>1. op # "del" => c \notin mixed'
        BY <1>3, <2>1, <2>2 DEF Counts
      <4>2. op # "del" => c \notin mixed /\ Busy({c}) = {}
        BY <1>2, <3>1, <4>1
      <4> QED BY <1>0, <1>12, <3>1, <4>2 DEF CamerasWhole
    <3>3. Midway(h, c)'
      BY <1>1, <1>3, <3>2 DEF Midway
    <3>4. Waiting(h, c)' <=> op \in {"start", "add"}
      BY <1>3, <3>1 DEF Waiting
    <3>5. Within(h, c)' <=> op \in {"mod", "del"}
      BY <1>1, <1>3, <3>1 DEF Within
    <3> QED BY <2>2, <3>2, <3>3, <3>4, <3>5 DEF Stage
  <2>3. CASE g # h
    <3>1. AtWork(g) /\ c \in hd[g].with /\ c \in Cam
      BY <1>0, <1>4, <1>5, <2>1, <2>3 DEF Work
    <3>2. Counts(g, c)
      BY <1>2, <1>4, <2>1, <2>3 DEF Counts
    <3>3. Stage(g, c)
      BY <1>0, <3>1, <3>2 DEF Stages
    <3>4. /\ (Waiting(g, c)' <=> Waiting(g, c)) /\ (Within(g, c)' <=> Within(g, c))
          /\ (Finished(g, c)' <=> Finished(g, c)) /\ (Midway(g, c)' <=> Midway(g, c))
      BY <1>2, <1>4, <2>3 DEF Waiting, Within, Finished, Midway, Settled, Gone, Has
    <3> QED BY <1>12, <3>1, <3>3, <3>4 DEF Stage
  <2> QED BY <2>2, <2>3
<1>14. CamerasWhole'
  <2>1. SUFFICES ASSUME NEW c \in Cam \ mixed', Busy({c})' = {} PROVE Settled(c)'
    BY DEF CamerasWhole
  <2>2. Busy({c}) = {} /\ c \notin mixed
    <3>1. h \notin Busy({c})
      BY <1>5, <1>10
    <3>2. Busy({c}) \subseteq Handler
      BY DEF Busy
    <3> QED BY <1>2, <1>7, <2>1, <3>1, <3>2
  <2> QED BY <1>0, <1>12, <2>2 DEF CamerasWhole
<1> QED BY <1>6, <1>11, <1>13, <1>14 DEF WInv

\* An operation returns: what it finished is what its cameras were last asked to be.
LEMMA ReturnWInv ==
    ASSUME IInv, WInv, NEW h \in Handler, Return(h)
    PROVE  WInv'
<1>0. /\ TypeOK /\ Shapes /\ Apart /\ Stages /\ CamerasWhole /\ hd \in [Handler -> Work]
      /\ hd[h].pc = "end" /\ AtWork(h) /\ Shape(h) /\ hd[h].ver # None /\ UNCHANGED <<queue, stream>>
  BY HandlerTypes DEF IInv, Numbered, WInv, Return, Shapes, AtWork, maps
<1>1. /\ want' = [c \in Cam |-> IF c \notin hd[h].with THEN want[c]
                               ELSE IF hd[h].op = "del" THEN None ELSE hd[h].ver]
      /\ mixed' = IF hd[h].op = "del" /\ hd[h].alone THEN mixed \ hd[h].with ELSE mixed
      /\ \A g \in Handler \ {h} : hd'[g] = hd[g]
      /\ hd'[h] = Idle
  BY <1>0 DEF Return
<1>2. ~AtWork(h)' /\ \A g \in Handler \ {h} : AtWork(g)' <=> AtWork(g)
  BY <1>1 DEF AtWork, Idle
<1>3. Shapes'
  BY <1>0, <1>1, <1>2 DEF Shapes, Shape
<1>4. \A c \in Cam : \A g \in Handler : /\ g \in Busy({c}) <=> AtWork(g) /\ c \in hd[g].with
                                        /\ g \in Busy({c})' <=> g # h /\ g \in Busy({c})
  BY <1>1, <1>2 DEF Busy, AtWork
<1>5. ASSUME NEW c \in Cam, c \notin mixed'
      PROVE  c \notin mixed \/ (hd[h].op = "del" /\ hd[h].alone /\ c \in hd[h].with)
  BY <1>1, <1>5
<1>6. ASSUME NEW g \in Handler \ {h}, AtWork(g), NEW c \in hd[g].with, c \in hd[h].with,
             c \notin mixed \/ hd[h].alone \/ hd[g].alone
      PROVE  FALSE
  <2>1. c \in Cam
    BY <1>0 DEF Work
  <2>2. g \in Busy({c}) /\ h \in Busy({c})
    BY <1>0, <1>4, <1>6, <2>1
  <2> QED BY <1>0, <1>6, <2>1, <2>2 DEF Apart
<1>7. Apart'
  <2>1. ASSUME NEW c \in Cam \ mixed', NEW f \in Busy({c})', NEW g \in Busy({c})' PROVE f = g
    <3>1. f \in Handler \ {h} /\ g \in Handler \ {h} /\ f \in Busy({c}) /\ g \in Busy({c})
      <4>1. f \in Handler /\ g \in Handler
        BY DEF Busy
      <4> QED BY <1>4, <4>1
    <3>2. CASE c \notin mixed
      BY <1>0, <3>1, <3>2 DEF Apart
    <3>3. CASE hd[h].alone /\ c \in hd[h].with
      BY <1>4, <1>6, <3>1, <3>3
    <3> QED BY <1>5, <3>2, <3>3
  <2>2. \A f, g \in Handler : AtWork(f)' /\ AtWork(g)' /\ hd'[g].alone /\ f # g => hd'[f].with \cap hd'[g].with = {}
    BY <1>0, <1>1, <1>2 DEF Apart
  <2>3. ASSUME NEW g \in Handler, AtWork(g)', hd'[g].op = "del", ~hd'[g].alone PROVE hd'[g].cam \in mixed'
    <3>1. g # h /\ AtWork(g) /\ hd'[g] = hd[g]
      BY <1>1, <1>2, <2>3
    <3>2. hd[g].cam \in mixed /\ hd[g].with = {hd[g].cam}
      BY <1>0, <2>3, <3>1 DEF Apart, Shapes, Shape
    <3>3. hd[g].cam \in hd[h].with => ~hd[h].alone
      BY <1>6, <3>1, <3>2
    <3> QED BY <1>1, <3>1, <3>2, <3>3
  <2> QED BY <2>1, <2>2, <2>3 DEF Apart
<1>8. Stages'
  <2>1. SUFFICES ASSUME NEW g \in Handler, AtWork(g)', NEW c \in hd'[g].with, Counts(g, c)'
                 PROVE  Stage(g, c)'
    BY DEF Stages
  <2>2. g # h /\ AtWork(g) /\ hd'[g] = hd[g] /\ c \in hd[g].with /\ c \in Cam
    BY <1>0, <1>1, <1>2, <2>1 DEF Work
  <2>3. c \notin mixed' \/ (hd[g].op = "del" /\ hd[g].alone)
    BY <2>1, <2>2 DEF Counts
  <2>4. c \notin hd[h].with
    BY <1>5, <1>6, <2>2, <2>3
  <2>5. Counts(g, c)
    BY <1>5, <2>2, <2>3, <2>4 DEF Counts
  <2>6. want'[c] = want[c] /\ Stage(g, c)
    BY <1>0, <1>1, <2>2, <2>4, <2>5 DEF Stages
  <2> QED BY <1>0, <2>2, <2>6 DEF Stage, Waiting, Within, Midway, Finished, Settled, Gone, Has
<1>9. CamerasWhole'
  <2>1. SUFFICES ASSUME NEW c \in Cam \ mixed', Busy({c})' = {} PROVE Settled(c)'
    BY DEF CamerasWhole
  <2>2. CASE c \notin hd[h].with
    <3>1. Busy({c}) = {}
      <4>1. Busy({c}) \subseteq Handler
        BY DEF Busy
      <4> QED BY <1>4, <2>1, <2>2, <4>1
    <3>2. Settled(c) /\ want'[c] = want[c]
      BY <1>0, <1>1, <1>5, <2>2, <3>1 DEF CamerasWhole
    <3> QED BY <1>0, <3>2 DEF Settled, Gone, Has
  <2>3. CASE c \in hd[h].with
    <3>1. Stage(h, c)
      BY <1>0, <1>5, <2>3 DEF Stages, Counts
    <3>2. ~Waiting(h, c) /\ ~Within(h, c)
      BY <1>0 DEF Waiting, Within, Shape
    <3>3. Finished(h, c)
      BY <3>1, <3>2 DEF Stage
    <3>4. want'[c] = IF hd[h].op = "del" THEN None ELSE hd[h].ver
      BY <1>1, <2>3
    <3> QED BY <1>0, <3>3, <3>4 DEF Finished, Settled, Gone, Has
  <2> QED BY <2>2, <2>3
<1> QED BY <1>3, <1>7, <1>8, <1>9 DEF WInv

\* The invariant is inductive.
LEMMA StepWInv == IInv /\ WInv /\ [Next]_vars => WInv'
<1> SUFFICES ASSUME IInv, WInv, [Next]_vars PROVE WInv'
  OBVIOUS
<1>1. ASSUME UNCHANGED <<queue, stream, hd, want, mixed>> PROVE WInv'
  BY <1>1 DEF WInv, Shapes, Shape, Apart, Stages, CamerasWhole, Busy, AtWork, Counts, Stage, Waiting, Within,
              Midway, Finished, Settled, Gone, Has
<1>2. CASE UNCHANGED vars
  BY <1>1, <1>2 DEF vars, maps, asked
<1>3. ASSUME NEW h \in Handler, Wait(h) PROVE WInv'
  BY <1>1, <1>3 DEF Wait, maps, asked
<1>4. ASSUME NEW h \in Handler, Step(h) PROVE WInv'
  BY <1>4, MovesWInv, ReturnWInv, LookupMoves, AddMoves, StartMoves, DelMoves, TurnMoves, LoopsMoves DEF Step
<1> QED BY <1>2, <1>3, <1>4, RequestWInv DEF Next

\* A camera that nobody is at work on is all there or not at all, for any number of
\* cameras, handlers and operations.
THEOREM CamerasStayWhole == SafeSpec => []CamerasWhole
<1>1. Init => WInv
  <2> SUFFICES ASSUME Init PROVE WInv
    OBVIOUS
  <2>1. \A h \in Handler : hd[h].pc = "idle"
    BY DEF Init, Idle
  <2>2. \A c \in Cam : want[c] = None /\ Gone(c)
    BY DEF Init, Gone
  <2> QED BY <2>1, <2>2 DEF WInv, Shapes, Apart, Stages, CamerasWhole, Busy, AtWork, Settled
<1>2. WInv => CamerasWhole
  BY DEF WInv
<1> QED BY <1>1, <1>2, StepWInv, InitIInv, StepIInv, PTL DEF SafeSpec
=============================================================================
