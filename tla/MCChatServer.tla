---------------------------- MODULE MCChatServer ----------------------------
(* Instances of ChatServer for TLC.                                        *)
EXTENDS ChatServer

\* A user who connects again, and one to talk to.
Pair == [a1 |-> "a", a2 |-> "a", b1 |-> "b"]

\* The user is replaced while both write; two bridges talk; a bridge floods the
\* server, within a minute or over several; it sends frames of every kind.
Replaced == [who |-> {"a1", "a2", "b1"}, senders |-> {"a1", "b1"}, to |-> {"a"}, kinds |-> {"text"},
             sends |-> 2, now |-> 0, faults |-> 1]
Talk == [Replaced EXCEPT !.who = {"a1", "b1"}, !.senders = {"a1"}, !.to = {"b"}, !.sends = 3,
                         !.now = 2, !.faults = 0]
Flood == [Talk EXCEPT !.who = {"a1", "a2"}, !.sends = 5, !.now = 0]
Steady == [Flood EXCEPT !.who = {"a1"}, !.now = 4]
Odd == [Talk EXCEPT !.who = {"a1"}, !.kinds = {"text", "large", "garbled"}]
SomePlays == {Replaced, Talk, Flood, Steady, Odd}
=============================================================================
