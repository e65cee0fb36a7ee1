------------------------ MODULE MCProcessSupervisor ------------------------
(* Instances of ProcessSupervisor for TLC.                                 *)
EXTENDS ProcessSupervisor

\* A short command that the agent waits for, with one line of output on each pipe.
Short == [interactive |-> FALSE, block |-> TRUE, hook |-> FALSE, out |-> 1,
          err |-> 1, good |-> [out |-> 2, err |-> 2], reads |-> FALSE, ok |-> TRUE,
          heir |-> "none"]
\* A command that prints more errors than a pipe holds.
Noisy == [Short EXCEPT !.block = FALSE, !.out = 0, !.err = 2, !.ok = FALSE]
\* A session that reads its input.
Session == [Short EXCEPT !.interactive = TRUE, !.block = FALSE, !.out = 0, !.err = 0,
                         !.reads = TRUE]
\* A command started by a hook.
Chained == [Short EXCEPT !.block = FALSE, !.hook = TRUE, !.err = 0]

\* A command whose second line and whose errors are not UTF-8.
Garbled == [Short EXCEPT !.block = FALSE, !.out = 3, !.good = [out |-> 1, err |-> 0]]
\* A pipeline that may end after its first command, and a command that leaves one
\* in the background that never ends.
Pipeline == [Short EXCEPT !.block = FALSE, !.out = 2, !.heir = "ends"]
Background == [Short EXCEPT !.block = FALSE, !.err = 0, !.heir = "stays"]

Quick == [Chained EXCEPT !.hook = FALSE]

\* One process of any kind, and one after a restart that may give out its
\* predecessor's pid again.
One == [procs |-> {"p"}, live |-> 1, requests |-> {Short, Noisy, Session, Chained},
        ops |-> {"kill", "write", "close"}, inputs |-> 2, lost |-> 0, restarts |-> 1]
Reuse == [One EXCEPT !.procs = {"p", "q"}, !.requests = {Quick}, !.ops = {}]
\* One process whose output is cut short or held open by a descendant.
Loss == [One EXCEPT !.requests = {Garbled, Pipeline, Background}, !.ops = {"kill"},
                    !.lost = 1, !.restarts = 0]
SomePlays == {One, Reuse, Loss}
=============================================================================
