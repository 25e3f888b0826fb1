----------------------------- MODULE MCTcpFrame -----------------------------
EXTENDS Crc1021, TcpFrame

\* An empty body; one of nothing but flags and the escape; one that does not fit
\* the buffer; one that makes the length 267, which is 0x010B.
MCBodies == {<<>>, <<125, 11, 52>>, [i \in 1..40 |-> 1], [i \in 1..127 |-> IF i = 1 THEN 0 ELSE 11]}
MCPieces == {1, 6, 31, 300}
MCVersions == {4, 5}
=============================================================================
