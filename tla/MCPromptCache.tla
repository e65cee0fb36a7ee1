--------------------------- MODULE MCPromptCache ----------------------------
(* Instances of PromptCache for TLC.                                       *)
EXTENDS PromptCache

\* Tiers within and beyond the budget, with and without prefix attachments,
\* breakpoints switched off, and a head too small to be cached.
SomeConfigs ==
  {[stride |-> 2, tiers |-> 2, attach |-> 0, header |-> "long"],
   [stride |-> 2, tiers |-> 4, attach |-> 0, header |-> "short"],
   [stride |-> 2, tiers |-> 3, attach |-> 2, header |-> "long"],
   [stride |-> 0, tiers |-> 2, attach |-> 1, header |-> "short"]}

\* An execution clears the threshold of 8 alone or with a neighbour.
Sizes == [f \in Forms |-> CASE f = "long" -> 6 [] f \in {"open", "short"} -> 1 [] f = "full" -> 5
                            [] f \in {"alert"} \cup Descriptions -> 2 [] OTHER -> 3]
=============================================================================
