------------------------------ MODULE RpcPool ------------------------------
(***************************************************************************)
(* The pool of RPC clients: CRPCClientMng over CRPCClient                  *)
(* (transfer/rpc/client), as CRpcTransferMng and RpcWrap use it.           *)
(*                                                                         *)
(* A caller takes a client (GetRpc), then makes one call with it           *)
(* (CallRpcFunc), or throws before that: RpcWrap casts what it was given   *)
(* and the cast fails when the types differ.  m_Mutex is held while the    *)
(* pool is searched and while a new connection is opened.  When the pool   *)
(* is full a client with a short connection is used, which goes away with  *)
(* its call.                                                               *)
(*                                                                         *)
(* The server may stop, which breaks every connection, and come back; an   *)
(* answer may come later than RPC_REC_TIMEOUT.  The callers' steps read    *)
(* and change a client's flags under its own mutexes, one at a time.       *)
(***************************************************************************)
EXTENDS Integers, Sequences, FiniteSets

CONSTANTS
    Caller,     \* threads that call RpcWrap
    Client,     \* CRPCClient objects
    MaxRpcConn  \* m_nMaxRpcConn

ASSUME PoolAssumption == MaxRpcConn \in Nat \ {0}

VARIABLES
    pool,       \* m_vecRpcClientObj
    busy,       \* m_bBusy of each client
    conn,       \* m_bConn of each client
    link,       \* the socket: "down", "up", or "late" with an answer still to come
    up,         \* the server runs
    pc, at,     \* the callers, and the place in the pool each has come to
    mine        \* the client of each caller, or NoClient

clients == <<pool, busy, conn, link>>
callers == <<pc, at, mine>>
vars == <<clients, up, callers>>

NoClient == "none"

\* A caller owns its client from GetRpc to the end of RpcCall.
Owning == {"have", "call", "close", "free"}

Init ==
    /\ pool = <<>>
    /\ busy = [c \in Client |-> FALSE] /\ conn = [c \in Client |-> FALSE]
    /\ link = [c \in Client |-> "down"]
    /\ up \in BOOLEAN
    /\ pc = [p \in Caller |-> "idle"] /\ at = [p \in Caller |-> 0]
    /\ mine = [p \in Caller |-> NoClient]

Goto(p, to) == pc' = [pc EXCEPT ![p] = to]

\* m_Mutex of CRPCClientMng.
MutexFree == \A p \in Caller : pc[p] \notin {"scan", "create"}

\* RpcWrap is called.
RpcWrap(p) ==
    /\ pc[p] = "idle"
    /\ Goto(p, "want")
    /\ UNCHANGED <<clients, up, at, mine>>

\* GetRpcClientFromPool takes the lock.
GetRpc(p) ==
    /\ pc[p] = "want" /\ MutexFree
    /\ Goto(p, "scan")
    /\ at' = [at EXCEPT ![p] = 1]
    /\ UNCHANGED <<clients, up, mine>>

\* A full pool is searched until a client comes back.
Bug_Scan(p) ==
    /\ pc[p] = "scan"
    /\ UNCHANGED <<pool, conn, link, up>>
    /\ \/ /\ at[p] \in 1..Len(pool) /\ ~busy[pool[at[p]]]
          /\ busy' = [busy EXCEPT ![pool[at[p]]] = TRUE]
          /\ mine' = [mine EXCEPT ![p] = pool[at[p]]]
          /\ Goto(p, "have") /\ at' = [at EXCEPT ![p] = 0]
       \/ /\ at[p] \in 1..Len(pool) /\ busy[pool[at[p]]]
          /\ at' = [at EXCEPT ![p] = (@ % MaxRpcConn) + 1] /\ UNCHANGED <<pc, busy, mine>>
       \/ /\ at[p] > Len(pool)
          /\ Goto(p, "create") /\ at' = [at EXCEPT ![p] = 0] /\ UNCHANGED <<busy, mine>>

\* One step of the search: the client at this place is taken, or it is busy, or the
\* pool is over.
Scan(p) ==
    /\ pc[p] = "scan"
    /\ UNCHANGED <<pool, conn, link, up>>
    /\ \/ /\ at[p] \in 1..Len(pool) /\ ~busy[pool[at[p]]]
          /\ busy' = [busy EXCEPT ![pool[at[p]]] = TRUE]
          /\ mine' = [mine EXCEPT ![p] = pool[at[p]]]
          /\ Goto(p, "have") /\ at' = [at EXCEPT ![p] = 0]
       \/ /\ at[p] \in 1..Len(pool) /\ busy[pool[at[p]]]
          /\ at' = [at EXCEPT ![p] = @ + 1] /\ UNCHANGED <<pc, busy, mine>>
       \/ /\ at[p] > Len(pool)
          /\ Goto(p, "create") /\ at' = [at EXCEPT ![p] = 0] /\ UNCHANGED <<busy, mine>>

Pooled(c) == \E i \in 1..Len(pool) : pool[i] = c

\* An object that is neither in the pool nor in a caller's hands.
New(c) == ~Pooled(c) /\ \A q \in Caller : mine[q] # c

\* The new client is not marked busy.
Bug_CreateClientService(p, c) ==
    /\ pc[p] = "create" /\ New(c) /\ up
    /\ busy' = [busy EXCEPT ![c] = FALSE] /\ conn' = [conn EXCEPT ![c] = TRUE]
    /\ link' = [link EXCEPT ![c] = "up"]
    /\ pool' = IF Len(pool) < MaxRpcConn THEN Append(pool, c) ELSE pool
    /\ mine' = [mine EXCEPT ![p] = c]
    /\ Goto(p, "have")
    /\ UNCHANGED <<up, at>>

\* CreateClientService succeeds; the client joins the pool while there is room.
CreateClientService(p, c) ==
    /\ pc[p] = "create" /\ New(c) /\ up
    /\ busy' = [busy EXCEPT ![c] = TRUE] /\ conn' = [conn EXCEPT ![c] = TRUE]
    /\ link' = [link EXCEPT ![c] = "up"]
    /\ pool' = IF Len(pool) < MaxRpcConn THEN Append(pool, c) ELSE pool
    /\ mine' = [mine EXCEPT ![p] = c]
    /\ Goto(p, "have")
    /\ UNCHANGED <<up, at>>

\* It fails: GetRpc hands nothing out and RpcWrap returns false.
CreateFails(p) ==
    /\ pc[p] = "create"
    /\ Goto(p, "idle")
    /\ UNCHANGED <<clients, up, at, mine>>

\* The caller lets go of client c: a short connection is closed by ~CRPCClient.
Release(p, c) ==
    /\ conn' = IF Pooled(c) THEN conn ELSE [conn EXCEPT ![c] = FALSE]
    /\ link' = IF Pooled(c) THEN link ELSE [link EXCEPT ![c] = "down"]
    /\ mine' = [mine EXCEPT ![p] = NoClient]
    /\ Goto(p, "idle")

\* RpcWrap throws on its cast: a client of the pool stays busy for ever.
Abandon(p) ==
    /\ pc[p] = "have"
    /\ busy' = [busy EXCEPT ![mine[p]] = Pooled(mine[p])]
    /\ Release(p, mine[p])
    /\ UNCHANGED <<pool, up, at>>
-----------------------------------------------------------------------------
\* RpcCall: OpenRPCConn, unless m_bConn says that there is a connection.
OpenRPCConn(p) ==
    /\ pc[p] = "have"
    /\ LET c == mine[p]
       IN  \/ conn[c] /\ Goto(p, "call") /\ UNCHANGED <<conn, link>>
           \/ /\ ~conn[c] /\ up
              /\ conn' = [conn EXCEPT ![c] = TRUE] /\ link' = [link EXCEPT ![c] = "up"]
              /\ Goto(p, "call")
           \/ ~conn[c] /\ Goto(p, "free") /\ UNCHANGED <<conn, link>>
    /\ UNCHANGED <<pool, busy, up, at, mine>>

\* fun(): the answer comes.
Answer(p) ==
    /\ pc[p] = "call" /\ link[mine[p]] = "up"
    /\ Goto(p, "free")
    /\ UNCHANGED <<clients, up, at, mine>>

\* A timeout leaves the connection open.
Bug_CallFails(p) ==
    /\ pc[p] = "call"
    /\ IF link[mine[p]] = "up" THEN /\ link' = [link EXCEPT ![mine[p]] = "late"]
                                    /\ Goto(p, "free")
                               ELSE Goto(p, "close") /\ UNCHANGED link
    /\ UNCHANGED <<pool, busy, conn, up, at, mine>>

\* fun() throws a TException: the connection is broken, or the answer is late.
CallFails(p) ==
    /\ pc[p] = "call"
    /\ link' = IF link[mine[p]] = "up" THEN [link EXCEPT ![mine[p]] = "late"] ELSE link
    /\ Goto(p, "close")
    /\ UNCHANGED <<pool, busy, conn, up, at, mine>>

\* CloseRPCConn, before the client is given back.
CloseRPCConn(p) ==
    /\ pc[p] = "close"
    /\ conn' = [conn EXCEPT ![mine[p]] = FALSE]
    /\ link' = [link EXCEPT ![mine[p]] = "down"]
    /\ Goto(p, "free")
    /\ UNCHANGED <<pool, busy, up, at, mine>>

\* SetWorkStatus(): the client is given back and RpcCall returns.
SetWorkStatus(p) ==
    /\ pc[p] = "free"
    /\ busy' = [busy EXCEPT ![mine[p]] = FALSE]
    /\ Release(p, mine[p])
    /\ UNCHANGED <<pool, up, at>>

\* The server stops, and comes back.
ServerStops ==
    /\ up /\ up' = FALSE
    /\ link' = [c \in Client |-> "down"]
    /\ UNCHANGED <<pool, busy, conn, callers>>

ServerStarts ==
    /\ ~up /\ up' = TRUE
    /\ UNCHANGED <<clients, callers>>

Step(p) ==
    \/ GetRpc(p) \/ Scan(p) \/ CreateFails(p) \/ Abandon(p)
    \/ \E c \in Client : CreateClientService(p, c)
    \/ OpenRPCConn(p) \/ Answer(p) \/ CallFails(p) \/ CloseRPCConn(p) \/ SetWorkStatus(p)

Next == ServerStops \/ ServerStarts \/ \E p \in Caller : RpcWrap(p) \/ Step(p)

SafeSpec == Init /\ [][Next]_vars

\* Threads are scheduled, opening and calling end (RPC_CONNECT_TIMEOUT,
\* RPC_REC_TIMEOUT, RPC_SENT_TIMEOUT), and m_Mutex is obtained by one who waits.
Spec == SafeSpec /\ \A p \in Caller : SF_vars(Step(p))
-----------------------------------------------------------------------------
\* Type correctness; in particular the pool never grows past m_nMaxRpcConn.
TypeOK ==
    /\ pool \in Seq(Client) /\ Len(pool) <= MaxRpcConn
    /\ busy \in [Client -> BOOLEAN] /\ conn \in [Client -> BOOLEAN]
    /\ link \in [Client -> {"down", "up", "late"}]
    /\ up \in BOOLEAN
    /\ pc \in [Caller -> {"idle", "want", "scan", "create"} \cup Owning]
    /\ at \in [Caller -> Nat]
    /\ mine \in [Caller -> Client \cup {NoClient}]
    /\ \A p \in Caller : IF pc[p] \in Owning THEN mine[p] \in Client ELSE mine[p] = NoClient

\* Two callers never use one connection, whatever was abandoned, reopened or released
\* while the pool was searched: their requests and answers would mix.
Exclusive ==
    \A p, q \in Caller : pc[p] \in Owning /\ pc[q] \in Owning /\ mine[p] = mine[q] => p = q

\* A call never begins on a connection on which an earlier answer is still to come,
\* so that a late answer is not taken for the answer to the next request.
NoLateAnswer == \A p \in Caller : pc[p] = "call" => link[mine[p]] # "late"

\* Every call returns, with the server down, with the whole pool abandoned, and
\* while other callers connect with m_Mutex held.
CallEnds == \A p \in Caller : pc[p] # "idle" ~> pc[p] = "idle"

\* m_Mutex is a mutex: one caller at a time searches the pool or adds to it.
OneSearches ==
    \A p, q \in Caller : pc[p] \in {"scan", "create"} /\ pc[q] \in {"scan", "create"} => p = q

\* A client in use is marked busy.
InUseBusy == \A p \in Caller : pc[p] \in Owning => busy[mine[p]]

\* Only the caller that is about to close a connection has left an answer on it.
LateIsClosed == \A c \in Client : link[c] = "late" => \E p \in Caller : pc[p] = "close" /\ mine[p] = c

\* The invariant the proofs use.
IInv == TypeOK /\ Exclusive /\ OneSearches /\ InUseBusy /\ LateIsClosed
=============================================================================
