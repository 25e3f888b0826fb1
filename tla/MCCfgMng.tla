------------------------------ MODULE MCCfgMng ------------------------------
(* Two root nodes with two factory entries each.  Two updates: one may      *)
(* empty a node and leave its transaction open for the other.  New entries  *)
(* of "App" have two data sources or none, those of "Transfer" a parameter  *)
(* with no value or with a separator in its value.                          *)
EXTENDS CfgMng

TwoNodes == <<"App", "Transfer">>
MCWords == <<"admin", "code", "pwd">>

Source(name) == [k \in {"code", "pwd"} |-> IF k = "code" THEN <<name>> ELSE <<>>]
Password(value) == << [k \in {"pwd"} |-> value] >>

MCFactoryBody == [n \in {"App", "Transfer"} |->
                    IF n = "App" THEN << Source("code") >> ELSE <<NoAttributes>>]
MCBodies == [n \in {"App", "Transfer"} |->
               IF n = "App" THEN { <<>>, << Source("admin"), Source("code") >> }
               ELSE { Password(<<>>), Password(<<"admin", ":", "code">>) }]

\* What RoundTripHolds proves for all bodies, evaluated on these: each one without a
\* separator is read back from its column as it was.
ASSUME MCRoundTrip == RoundTrip
=============================================================================
