---------------------------- MODULE MCAgentLoop ----------------------------
(* Instances of AgentLoop for TLC: the scripts and hook runs of each run.  *)
EXTENDS AgentLoop, TLC

\* A script that handles everything it sees.
Handle ==
  [raises |-> FALSE, badmsg |-> FALSE, pops |-> "all", replies |-> TRUE,
   acks |-> TRUE, timer |-> "keep", hooks |-> "keep", edits |-> FALSE,
   adds |-> FALSE, ids |-> 0,
   notice |-> FALSE, request |-> FALSE, compact |-> FALSE, done |-> FALSE,
   defer |-> "no"]

\* A script that leaves the queue as it is.
Look == [Handle EXCEPT !.pops = "none"]

\* Scripts that fail after having removed items and sent replies.
Failing == {[Handle EXCEPT !.raises = TRUE], [Handle EXCEPT !.badmsg = TRUE]}

EventScripts ==
  Failing \cup
  {[Handle EXCEPT !.pops = "any"], [Handle EXCEPT !.defer = "wait"],
   [Look EXCEPT !.defer = "kill", !.hooks = "remove"],
   [Look EXCEPT !.hooks = "register"],
   [Handle EXCEPT !.done = TRUE], [Handle EXCEPT !.notice = TRUE]}

TimerScripts ==
  {[Handle EXCEPT !.raises = TRUE], Handle, [Handle EXCEPT !.timer = "once"],
   [Handle EXCEPT !.timer = "every", !.edits = TRUE],
   [Handle EXCEPT !.timer = "cancel"],
   [Look EXCEPT !.compact = TRUE], [Look EXCEPT !.request = TRUE],
   [Look EXCEPT !.adds = TRUE, !.timer = "every", !.ids = 1]}

HookScripts ==
  {Handle, [Handle EXCEPT !.hooks = "register", !.timer = "every"]}

ChildScripts ==
  {Handle, [Look EXCEPT !.done = TRUE],
   [Handle EXCEPT !.timer = "once", !.ids = 1, !.defer = "wait"],
   [Handle EXCEPT !.timer = "every", !.raises = TRUE],
   [Look EXCEPT !.timer = "every", !.defer = "kill"]}

\* A child with a fresh history, and one that inherits history and hooks and is
\* given files.
SomeForks ==
  {[hooked |-> FALSE, inherits |-> FALSE, attach |-> FALSE],
   [hooked |-> TRUE, inherits |-> TRUE, attach |-> TRUE]}

NoHooks == {[out |-> "nomatch", ids |-> 0]}
SafeHooks == NoHooks \cup {[out |-> "consumed", ids |-> 0], [out |-> "passed", ids |-> 1]}
AllHooks == SafeHooks \cup {[out |-> "failed", ids |-> 0], [out |-> "failed", ids |-> 1]}

Symmetry == Permutations(Works)
=============================================================================
