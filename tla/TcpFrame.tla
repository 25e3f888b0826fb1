------------------------------ MODULE TcpFrame ------------------------------
(***************************************************************************)
(* Frames of the TCP protocol: CNetTcpDataPkg packs and unpacks them       *)
(* (common/cmmobj/network), CTcpTransferMng keeps one unpacker for each    *)
(* connection.  TCP delivers the bytes in order, cut anywhere.             *)
(*                                                                         *)
(* A message is its sequence number and its body.  The bytes are the       *)
(* program's own: flags, length, escapes and CRC-1021.                     *)
(***************************************************************************)
EXTENDS Integers, Sequences, SequencesExt, FiniteSets

Byte == 0..255

CONSTANTS
    Bodies,          \* bodies of messages: sequences of bytes
    Versions,        \* protocol versions of the tools
    Pieces,          \* bound: sizes of the pieces the bytes arrive in
    MaxRecCache,     \* nMaxRecCache
    MaxMsg,          \* bound: messages of a connection
    MaxConn,         \* bound: connections, all from the same address and port
    CalcCRC1021(_)   \* the checksum of a sequence of bytes (Crc1021)

\* A sequence number has 16 bits.
ASSUME FrameAssumption ==
    /\ Bodies \subseteq Seq(Byte) /\ Versions \subseteq Byte
    /\ Pieces \subseteq Nat \ {0} /\ MaxRecCache \in Nat
    /\ MaxMsg \in Nat /\ MaxMsg < 65536

VARIABLES
    conns,    \* connections so far
    open,     \* the connection is open
    stream,   \* bytes sent on this connection
    read,     \* how many of them were received
    pkg,      \* the unpacker in m_mapNetTcpDataPkgPtr, or NoPkg
    sent,     \* messages sent on this connection, each with its bytes and where they start
    rcvd      \* messages handed to DistributProtocolData on this connection

frame == <<conns, open, stream, read, pkg, sent, rcvd>>

HeadFlag == 125   \* 0x7D
TailFlag == 11    \* 0x0B
Escape == 52      \* 0x34
CurrentVersion == 4
HeadOffset == 5   \* s32HeardOffSet: flag and length
NobodyLen == 14   \* nPkgNobodyLen: head 11, tail 3

NoPkg == [buf |-> <<>>, have |-> FALSE, live |-> FALSE, got |-> <<>>]
NewPkg == [NoPkg EXCEPT !.live = TRUE]

FrameInit == /\ conns = 0 /\ open = FALSE
             /\ stream = <<>> /\ read = 0 /\ pkg = NoPkg /\ sent = <<>> /\ rcvd = <<>>
-----------------------------------------------------------------------------
htons(n) == <<(n \div 256) % 256, n % 256>>
htonl(n) == htons(n \div 65536) \o htons(n % 65536)

\* A flag or escape byte becomes an escape and its complement.
Code(b) == IF b \in {HeadFlag, TailFlag, Escape} THEN <<Escape, 255 - b>> ELSE <<b>>

ConvtCode(s) ==
    LET out[i \in 0..Len(s)] == IF i = 0 THEN <<>> ELSE out[i - 1] \o Code(s[i])
    IN  out[Len(s)]

\* One byte more: the bytes decoded so far, and whether an escape came last.
Decode(r, b) ==
    IF r.esc THEN [out |-> Append(r.out, 255 - b), esc |-> FALSE]
    ELSE IF b = Escape THEN [out |-> r.out, esc |-> TRUE]
    ELSE [out |-> Append(r.out, b), esc |-> FALSE]

\* An escape at the very end takes the byte behind it, which is the tail flag.
UnconvtCode(s) ==
    LET raw[i \in 0..Len(s)] ==
          IF i = 0 THEN [out |-> <<>>, esc |-> FALSE] ELSE Decode(raw[i - 1], s[i])
        end == raw[Len(s)]
    IN  IF end.esc THEN Append(end.out, 255 - TailFlag) ELSE end.out

\* A request.  The length is that of the escaped package, and is not escaped itself.
\* The tool numbers its requests; what the server sends this way has seqno 0.
Raw(m) == <<m.version>> \o htons(m.seqno) \o <<m.cmd, 0, 0>> \o m.body
PkgProtocolData(m) ==
    LET code == ConvtCode(Raw(m) \o htons(CalcCRC1021(Raw(m))))
    IN  <<HeadFlag>> \o htonl(HeadOffset + Len(code) + 1) \o code \o <<TailFlag>>

\* The messages of the tools (0x13 updates), each with its bytes.
Message == [version : Versions, seqno : 1..MaxMsg, cmd : {19}, body : Bodies]
Packed == {[msg |-> m, bytes |-> PkgProtocolData(m)] : m \in Message}

\* The checksum of what a tool packs is a number.
ASSUME CrcAssumption == \A m \in Message : CalcCRC1021(Raw(m)) \in Nat
-----------------------------------------------------------------------------
Find(s, flag) == SelectInSeq(s, LAMBDA b : b = flag)
From(s, i) == SubSeq(s, i, Len(s))

\* The checksum is not compared.
Bug_Intact(raw) == Len(raw) + HeadOffset + 1 >= NobodyLen

Intact(raw) ==
    /\ Len(raw) + HeadOffset + 1 >= NobodyLen
    /\ htons(CalcCRC1021(SubSeq(raw, 1, Len(raw) - 2))) = From(raw, Len(raw) - 1)

\* What ReadWholePkg makes of the bytes from a head flag to a tail flag, and
\* ParsePkgData of an intact package: at most one message.
ParsePkgData(s) ==
    LET raw == UnconvtCode(SubSeq(s, HeadOffset + 1, Len(s) - 1))
    IN  IF Len(s) < NobodyLen \/ ~Intact(raw) \/ raw[1] > CurrentVersion THEN <<>>
        ELSE <<[version |-> raw[1], seqno |-> raw[2] * 256 + raw[3], cmd |-> raw[4],
                body |-> SubSeq(raw, 7, Len(raw) - 2)]>>

\* Bytes with no head flag are kept (empty() taken for a question).
Bug_ReadPkgHead(p) ==
    LET h == Find(p.buf, HeadFlag)
    IN  IF h = 0 THEN [p EXCEPT !.have = FALSE]
        ELSE [p EXCEPT !.buf = From(@, h), !.have = TRUE]

ReadPkgHead(p) ==
    LET h == Find(p.buf, HeadFlag)
    IN  IF h = 0 THEN [p EXCEPT !.buf = <<>>, !.have = FALSE]
        ELSE [p EXCEPT !.buf = From(@, h), !.have = TRUE]

\* One turn of the loop: the next package, if all of it has come.
NextPkg(p) ==
    LET q == IF p.have THEN p ELSE ReadPkgHead(p)
        t == Find(q.buf, TailFlag)
    IN  IF ~q.have \/ t = 0 THEN q
        ELSE [q EXCEPT !.buf = From(@, t + 1), !.have = FALSE,
                       !.got = @ \o ParsePkgData(SubSeq(q.buf, 1, t))]

\* Every turn but the last takes a tail flag away.
Tails(s) == {i \in DOMAIN s : s[i] = TailFlag}
ReadWholePkg(p) ==
    LET turns == Cardinality(Tails(p.buf)) + 1
        turn[k \in 0..turns] == IF k = 0 THEN p ELSE NextPkg(turn[k - 1])
    IN  turn[turns]

\* A buffer that is too long is dropped, m_bHaveHead is not reset.  (A piece of more
\* than nMaxPkgLen would be refused; the server reads far less at a time.)
UnDataPkg(p, piece) ==
    ReadWholePkg([p EXCEPT !.buf = (IF Len(p.buf) > MaxRecCache THEN <<>> ELSE p.buf) \o piece])
-----------------------------------------------------------------------------
\* OnTcpConnect forgets to erase the unpacker of a closed connection.
Bug_OnTcpConnect(status) == pkg' = IF pkg.live THEN pkg ELSE NewPkg

\* CTcpTransferMng::OnTcpConnect.
OnTcpConnect(status) ==
    pkg' = IF ~pkg.live THEN NewPkg ELSE IF status THEN pkg ELSE NoPkg

\* A tool connects, from the same address and port every time.
Connect ==
    /\ ~open /\ conns < MaxConn
    /\ open' = TRUE /\ conns' = conns + 1
    /\ OnTcpConnect(TRUE)
    /\ stream' = <<>> /\ read' = 0 /\ sent' = <<>> /\ rcvd' = <<>>

Close ==
    /\ open /\ open' = FALSE
    /\ OnTcpConnect(FALSE)
    /\ stream' = <<>> /\ read' = 0 /\ sent' = <<>> /\ rcvd' = <<>>
    /\ UNCHANGED conns

\* The tool sends a message, numbered as the protocol says.
Send(p) ==
    /\ open /\ p.msg.seqno = Len(sent) + 1
    /\ sent' = Append(sent, [msg |-> p.msg, bytes |-> p.bytes, from |-> Len(stream)])
    /\ stream' = stream \o p.bytes
    /\ UNCHANGED <<conns, open, read, pkg, rcvd>>

\* OnTcpMessage with the next bytes, n at most; ParsePkgData hands over what is complete.
OnTcpMessage(n) ==
    /\ open /\ pkg.live /\ read < Len(stream)
    /\ read' = IF read + n < Len(stream) THEN read + n ELSE Len(stream)
    /\ LET p == UnDataPkg(pkg, SubSeq(stream, read + 1, read'))
       IN  /\ pkg' = [p EXCEPT !.got = <<>>]
           /\ rcvd' = rcvd \o p.got
    /\ UNCHANGED <<conns, open, stream, sent>>

FrameNext ==
    \/ Connect \/ Close
    \/ \E p \in Packed : Send(p)
    \/ \E n \in Pieces : OnTcpMessage(n)

FrameSpec == FrameInit /\ [][FrameNext]_frame
-----------------------------------------------------------------------------
\* Types; in particular an unpacker never sits on bytes without a head flag, or on a
\* whole package until the next bytes come.
FrameTypeOK ==
    /\ conns \in Nat /\ open \in BOOLEAN /\ pkg.live = open
    /\ stream \in Seq(Byte) /\ read \in 0..Len(stream)
    /\ pkg.buf \in Seq(Byte) /\ pkg.have = (pkg.buf # <<>>) /\ TailFlag \notin Range(pkg.buf)

\* Messages whose last byte has arrived.
End(p) == p.from + Len(p.bytes)
Arrived == {i \in DOMAIN sent : End(sent[i]) <= read}

\* The package fits the buffer, and its length needs no escape.
Fits(p) ==
    /\ Len(p.bytes) <= MaxRecCache
    /\ Find(SubSeq(p.bytes, 2, HeadOffset), TailFlag) = 0

\* And the version is known.
Clean(p) == p.msg.version <= CurrentVersion /\ Fits(p)

\* However the stream is cut, and whatever became of the message before it or of the
\* connection before, a message is delivered with its last byte, unless its length
\* contains a tail flag, its version is unknown or it exceeds the buffer.
Delivered == \A i \in Arrived : Clean(sent[i]) => \E j \in DOMAIN rcvd : rcvd[j] = sent[i].msg

\* "如除包头标识、包尾标识外的数据中出现 ...": every byte between the flags is escaped, so
\* that a message of any length that fits the buffer is delivered.
AnyLength ==
    \A i \in Arrived : LET p == sent[i] IN
        p.msg.version <= CurrentVersion /\ Len(p.bytes) <= MaxRecCache
            => \E j \in DOMAIN rcvd : rcvd[j] = p.msg

\* Nothing is delivered but what was sent, at most once and in order: the rest of a
\* package that was cut in two is never taken for a message.
OnlySent ==
    /\ \A j \in DOMAIN rcvd : \E i \in DOMAIN sent : rcvd[j] = sent[i].msg
    /\ \A i, j \in DOMAIN rcvd : i < j => rcvd[i].seqno < rcvd[j].seqno
=============================================================================
