----------------------------- MODULE MCApiCalls -----------------------------
(* Instances of ApiCalls for TLC.                                          *)
EXTENDS ApiCalls

\* A root and a child that share a model.
Family == [child |-> "root"]
FamilyModels == [root |-> "new", child |-> "new"]
NewBody == [new |-> [adaptive |-> TRUE, enabled |-> FALSE, effort |-> TRUE]]

\* The limits of the code in their order, scaled down.
Limits == [overloaded |-> 4, server |-> 2]

Replies == {<<"thinking", "execute">>, <<"text">>}
=============================================================================
