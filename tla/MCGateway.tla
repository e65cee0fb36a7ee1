----------------------------- MODULE MCGateway ------------------------------
(* Instances of Gateway for TLC.                                           *)
EXTENDS Gateway

\* Two bridges with the same pattern, and one that names its chat.
Bridges == [s1 |-> [key |-> <<"signal">>, prefix |-> TRUE],
            s2 |-> [key |-> <<"signal">>, prefix |-> TRUE],
            s3 |-> [key |-> <<"signal", "a">>, prefix |-> FALSE]]
SomeCasts == {{"root", "child", "s1"}, {"root", "s1", "s2"}, {"root", "s3"}}

Named == [s1 |-> [key |-> <<"signal", "a">>, prefix |-> FALSE]]
OneChat == {<<"signal", "a">>}
Family == {{"root", "child", "s1"}}
=============================================================================
