------------------------------ MODULE ApiCalls ------------------------------
(***************************************************************************)
(* The API calls of the agents of one daemon: ApiClient::call with its     *)
(* retries and extract_code, the root's trace of src/src/api_client.rs, the*)
(* shared cache of src/src/model_capabilities.rs, and the accounting of    *)
(* tokens: the accumulator and the usage log of src/src/types.rs as        *)
(* run_turn, apply_event and run_child_agent_loop of                       *)
(* src/src/agent_loop.rs keep them.                                        *)
(*                                                                         *)
(* Agents run concurrently, each with one call at a time.  A call is the   *)
(* lookup of the model's capabilities, with a probe when they are not      *)
(* cached, then attempts with sleeps between them.  The service is         *)
(* external: it may answer an attempt in any way.                          *)
(***************************************************************************)
EXTENDS Integers, Sequences, FiniteSets

CONSTANTS
  Agents,
  Root,
  Parent,    \* the parent of each agent but the root
  ModelOf,   \* the model each agent calls
  Body,      \* what GET /v1/models says of each model
  Limit,     \* the attempts for each kind of failure: 20, 8, 5 and 8
  Bearer,    \* auth.is_bearer()
  Responses, \* the responses a model may give: sequences of content blocks
  TraceCap,  \* capacity of the ApiTrace
  UsageCap,  \* capacity of the UsageLog, before max(1)
  MaxCalls,  \* bound on the turns of an agent
  MaxAnswers \* bound on the responses

\* overloaded, rate-limited, server error and network.
Kinds == DOMAIN Limit
Models == {ModelOf[a] : a \in Agents}
\* What is said of a call when its latest word is no failure to retry.
Outcomes == {"none", "ok", "gaveup", "expired", "refused", "unusable"}
Blocks == {"thinking", "text", "execute", "other"}

ASSUME AgentsAssumption ==
  /\ Root \in Agents /\ IsFiniteSet(Agents)
  /\ Parent \in [Agents \ {Root} -> Agents]
ASSUME BodyAssumption ==
  Body \in [Models -> [adaptive : BOOLEAN, enabled : BOOLEAN, effort : BOOLEAN]]
ASSUME LimitAssumption == Limit \in [Kinds -> Nat \ {0}] /\ Bearer \in BOOLEAN
ASSUME KindsAssumption == Kinds \cap Outcomes = {}
ASSUME ResponsesAssumption == Responses \subseteq Seq(Blocks)
ASSUME CapacityAssumption == TraceCap \in Nat /\ UsageCap \in Nat /\ MaxCalls \in Nat /\ MaxAnswers \in Nat

VARIABLES
  phase,    \* where each agent is
  attempt,  \* attempt
  kinds,    \* the kinds of failures this call has met
  last,     \* the kind of its latest failure, or how the call ended
  caps,     \* the capabilities its request was built with
  cache,    \* ModelCapabilityCache::cache
  trace,    \* the ring buffer of answered calls, by their number
  answered, \* every answered call, in order: whose it was
  discarded,\* those of them whose answer had no execute block
  turns,    \* the turns of each agent that a usable response began
  acc,      \* TokenAccumulator: one token per turn
  local,    \* local_*_tokens of a child
  log,      \* UsageLog
  logged,   \* every entry ever written to it, by the number of its call
  done      \* ChildCompleted: none, sent or applied

callVars == <<phase, attempt, kinds, last, caps>>
countVars == <<turns, acc, local, log, logged>>
vars == <<callVars, cache, trace, answered, discarded, countVars, done>>

-----------------------------------------------------------------------------
\* ModelCapabilities.
Caps == [thinking : {"none", "adaptive", "enabled"}, effort : BOOLEAN]
Fallback == [thinking |-> "none", effort |-> FALSE]
Unknown == [thinking |-> "unknown", effort |-> FALSE]

\* parse_capabilities.
ParseCapabilities(b) ==
  [thinking |-> IF b.adaptive THEN "adaptive" ELSE IF b.enabled THEN "enabled" ELSE "none",
   effort |-> b.effort]

\* The fields thinking and output_config of build_request: effort goes with
\* adaptive thinking only.
RequestFields(c) ==
  [thinking |-> c.thinking, effort |-> c.thinking = "adaptive" /\ c.effort]

\* ApiTrace::push and UsageLog::push: the oldest entry makes room; a buffer
\* without capacity stays empty.
Ring(ring, cap, e) ==
  IF cap = 0 THEN ring
  ELSE IF Len(ring) < cap THEN Append(ring, e) ELSE Append(Tail(ring), e)

\* extract_code finds a tool_use block named execute.
HasExecute(r) == \E i \in DOMAIN r : r[i] = "execute"

Init ==
  /\ phase = [a \in Agents |-> "idle"] /\ attempt = [a \in Agents |-> 0]
  /\ kinds = [a \in Agents |-> {}] /\ last = [a \in Agents |-> "none"]
  /\ caps = [a \in Agents |-> Fallback] /\ cache = [m \in Models |-> Unknown]
  /\ trace = <<>> /\ answered = <<>> /\ discarded = {} /\ log = <<>> /\ logged = <<>>
  /\ turns = [a \in Agents |-> 0] /\ acc = 0 /\ local = [a \in Agents |-> 0]
  /\ done = [a \in Agents |-> "none"]

-----------------------------------------------------------------------------
\* ModelCapabilityCache::get: a hit is used at once, a miss makes a probe.
StartCall(a) ==
  /\ phase[a] = "idle" /\ turns[a] < MaxCalls
  /\ attempt' = [attempt EXCEPT ![a] = 0]
  /\ kinds' = [kinds EXCEPT ![a] = {}] /\ last' = [last EXCEPT ![a] = "none"]
  /\ LET c == cache[ModelOf[a]]
     IN  IF c = Unknown
           THEN phase' = [phase EXCEPT ![a] = "probing"] /\ UNCHANGED caps
           ELSE /\ phase' = [phase EXCEPT ![a] = "sending"]
                /\ caps' = [caps EXCEPT ![a] = c]
  /\ UNCHANGED <<cache, trace, answered, discarded, countVars, done>>

\* The probe succeeds: its result is cached and used.
ProbeOk(a) ==
  /\ phase[a] = "probing"
  /\ LET c == ParseCapabilities(Body[ModelOf[a]])
     IN  cache' = [cache EXCEPT ![ModelOf[a]] = c] /\ caps' = [caps EXCEPT ![a] = c]
  /\ phase' = [phase EXCEPT ![a] = "sending"]
  /\ UNCHANGED <<attempt, kinds, last, trace, answered, discarded, countVars, done>>

\* Mutant: the fallback is cached like a result.
ProbeFailsCached(a) ==
  /\ phase[a] = "probing"
  /\ caps' = [caps EXCEPT ![a] = Fallback]
  /\ cache' = [cache EXCEPT ![ModelOf[a]] = Fallback]
  /\ phase' = [phase EXCEPT ![a] = "sending"]
  /\ UNCHANGED <<attempt, kinds, last, trace, answered, discarded, countVars, done>>

\* The probe fails: the fallback is used and not cached.
ProbeFails(a) ==
  /\ phase[a] = "probing"
  /\ caps' = [caps EXCEPT ![a] = Fallback]
  /\ phase' = [phase EXCEPT ![a] = "sending"]
  /\ UNCHANGED <<attempt, kinds, last, cache, trace, answered, discarded, countVars, done>>

\* The call returns an error, which fails the turn.
Fails(a, how) ==
  /\ phase' = [phase EXCEPT ![a] = "idle"]
  /\ last' = [last EXCEPT ![a] = how]

\* Mutant: one attempt too many.
AttemptFailsLate(a, k) ==
  /\ phase[a] = "sending"
  /\ attempt' = [attempt EXCEPT ![a] = @ + 1]
  /\ kinds' = [kinds EXCEPT ![a] = @ \cup {k}]
  /\ IF attempt[a] + 1 > Limit[k]
       THEN Fails(a, "gaveup")
       ELSE phase' = [phase EXCEPT ![a] = "sleeping"] /\ last' = [last EXCEPT ![a] = k]
  /\ UNCHANGED <<caps, cache, trace, answered, discarded, countVars, done>>

\* Mutant: the attempts are counted anew for each kind of failure.
AttemptFailsAnew(a, k) ==
  /\ phase[a] = "sending"
  /\ attempt' = [attempt EXCEPT ![a] = IF last[a] = k THEN @ + 1 ELSE 1]
  /\ kinds' = [kinds EXCEPT ![a] = @ \cup {k}]
  /\ IF attempt'[a] >= Limit[k]
       THEN Fails(a, "gaveup")
       ELSE phase' = [phase EXCEPT ![a] = "sleeping"] /\ last' = [last EXCEPT ![a] = k]
  /\ UNCHANGED <<caps, cache, trace, answered, discarded, countVars, done>>

\* An attempt fails in a way that may be tried again: the limit is the one of
\* this kind, the count is the one of all attempts.
AttemptFails(a, k) ==
  /\ phase[a] = "sending"
  /\ attempt' = [attempt EXCEPT ![a] = @ + 1]
  /\ kinds' = [kinds EXCEPT ![a] = @ \cup {k}]
  /\ IF attempt[a] + 1 >= Limit[k]
       THEN Fails(a, "gaveup")
       ELSE phase' = [phase EXCEPT ![a] = "sleeping"] /\ last' = [last EXCEPT ![a] = k]
  /\ UNCHANGED <<caps, cache, trace, answered, discarded, countVars, done>>

\* A status that is not tried again: 401 in bearer mode, with advice, and every
\* other one; or a success whose body is not JSON.
Refused(a, status) ==
  /\ phase[a] = "sending"
  /\ attempt' = [attempt EXCEPT ![a] = @ + 1]
  /\ Fails(a, IF status = "unauthorized" /\ Bearer THEN "expired" ELSE "refused")
  /\ UNCHANGED <<kinds, caps, cache, trace, answered, discarded, countVars, done>>

\* The sleep between two attempts is over.
Wake(a) ==
  /\ phase[a] = "sleeping"
  /\ phase' = [phase EXCEPT ![a] = "sending"]
  /\ UNCHANGED <<attempt, kinds, last, caps, cache, trace, answered, discarded, countVars, done>>

\* Only the root's client was built with a trace.
Traced(a) ==
  /\ trace' = IF a = Root THEN Ring(trace, TraceCap, Len(answered) + 1) ELSE trace
  /\ answered' = Append(answered, a)

\* A response that is not of the expected shape, or has no execute block: it is
\* traced, and the turn fails before run_turn's accounting.
Unusable(a) ==
  /\ phase[a] = "sending" /\ Len(answered) < MaxAnswers
  /\ attempt' = [attempt EXCEPT ![a] = @ + 1]
  /\ Traced(a) /\ discarded' = discarded \cup {Len(answered) + 1}
  /\ Fails(a, "unusable")
  /\ UNCHANGED <<kinds, caps, cache, countVars, done>>

\* Mutant: a child's tokens go to the accumulator as well as to its own count.
CountTwice(a) ==
  /\ acc' = acc + 1
  /\ local' = IF a = Root THEN local ELSE [local EXCEPT ![a] = @ + 1]

\* run_turn adds the tokens of a turn: the root's to the accumulator, a child's
\* to its own count.
Count(a) ==
  \/ a = Root /\ acc' = acc + 1 /\ UNCHANGED local
  \/ a # Root /\ local' = [local EXCEPT ![a] = @ + 1] /\ UNCHANGED acc

\* A usable response, and what run_turn records of it before it runs the code.
Usable(a) ==
  /\ phase[a] = "sending" /\ Len(answered) < MaxAnswers
  /\ attempt' = [attempt EXCEPT ![a] = @ + 1]
  /\ Traced(a)
  /\ Count(a)
  /\ turns' = [turns EXCEPT ![a] = @ + 1]
  /\ log' = Ring(log, IF UsageCap = 0 THEN 1 ELSE UsageCap, Len(answered) + 1)
  /\ logged' = Append(logged, Len(answered) + 1)
  /\ phase' = [phase EXCEPT ![a] = "idle"] /\ last' = [last EXCEPT ![a] = "ok"]
  /\ UNCHANGED <<kinds, caps, cache, discarded, done>>

Answer(a, r) == IF HasExecute(r) THEN Usable(a) ELSE Unusable(a)

\* A child ends and tells its parent what it used.
Finish(a) ==
  /\ a # Root /\ phase[a] = "idle" /\ phase' = [phase EXCEPT ![a] = "ended"]
  /\ done' = [done EXCEPT ![a] = "sent"]
  /\ UNCHANGED <<attempt, kinds, last, caps, cache, trace, answered, discarded, countVars>>

\* The parent takes ChildCompleted: only the root has the accumulator.
Completed(a) ==
  /\ a # Root /\ done[a] = "sent" /\ phase[Parent[a]] = "idle"
  /\ done' = [done EXCEPT ![a] = "applied"]
  /\ acc' = IF Parent[a] = Root THEN acc + local[a] ELSE acc
  /\ UNCHANGED <<callVars, cache, trace, answered, discarded, turns, local, log, logged>>

CallStep(a) ==
  \/ ProbeOk(a) \/ ProbeFails(a) \/ Wake(a)
  \/ \E k \in Kinds : AttemptFails(a, k)
  \/ \E status \in {"unauthorized", "other"} : Refused(a, status)
  \/ \E r \in Responses : Answer(a, r)

Next == \E a \in Agents : StartCall(a) \/ CallStep(a) \/ Finish(a) \/ Completed(a)

\* A request is answered, refused or times out, and a sleep ends.  Nothing is
\* assumed of the answers.
Spec == Init /\ [][Next]_vars
FairSpec == Spec /\ \A a \in Agents : WF_vars(CallStep(a))

-----------------------------------------------------------------------------
\* The limits of the kinds of failure a call has met.
MetLimits(a) == {Limit[k] : k \in kinds[a]}

\* The retry budget: a call that has failures of one kind gives up after exactly
\* that kind's limit; one that has met several is never past the largest of
\* their limits, nor gives up before the smallest.
RetryBudget ==
  \A a \in Agents :
    /\ phase[a] = "sleeping" => \E n \in MetLimits(a) : attempt[a] < n
    /\ last[a] = "gaveup" =>
         (\E n \in MetLimits(a) : attempt[a] <= n) /\ (\E n \in MetLimits(a) : attempt[a] >= n)

\* What a request asks of its model is what the model's entry supports, whether
\* the probe of this or of another agent found it out or none did; and a failed
\* probe leaves no model with less than it supports for the calls after it.
RequestSupported ==
  /\ \A a \in Agents :
       phase[a] \in {"sending", "sleeping"} =>
         LET b == Body[ModelOf[a]]
             f == RequestFields(caps[a])
         IN  /\ f.thinking = "adaptive" => b.adaptive
             /\ f.thinking = "enabled" => b.enabled /\ ~b.adaptive
             /\ f.effort => b.effort /\ b.adaptive
  /\ \A m \in Models : cache[m] # Unknown => cache[m] = ParseCapabilities(Body[m])

\* The tokens a counter says these agents have used, agent by agent.
Tokens(S, counter) == UNION {{a} \X (1 .. counter[a]) : a \in S}

\* Children whose tokens the root has yet to be told of.
Direct == {a \in Agents \ {Root} : Parent[a] = Root}
Untold == {a \in Direct : done[a] # "applied"}

\* Those whose tokens the accumulator is for, and the answers to some agents.
Kin == {Root} \cup Direct
AnswersTo(S) == {n \in DOMAIN answered : answered[n] \in S}

\* Every answer to the root or to one of its children is a token in the
\* accumulator, or in the count of a child that has yet to report, or was
\* discarded for want of an execute block: nothing else is lost, and nothing is
\* counted twice, between the response, the child's own count and the accumulator.
TokensConserved ==
  acc + Cardinality(Tokens(Untold, local)) + Cardinality(AnswersTo(Kin) \cap discarded)
    = Cardinality(AnswersTo(Kin))

\* The answers to the root, by their numbers, and those of them after a number.
RootAnswers == AnswersTo({Root})
After(S, n) == {m \in S : m > n}

\* The last n elements of a sequence.
Latest(s, n) == IF Len(s) <= n THEN s ELSE SubSeq(s, Len(s) - n + 1, Len(s))

\* Trace and usage log hold the latest entries in order: the trace every call of
\* the root's that was answered, the log those of every agent that were not discarded.
RingsLatest ==
  /\ {trace[k] : k \in DOMAIN trace} = {n \in RootAnswers : Cardinality(After(RootAnswers, n)) < TraceCap}
  /\ \A k, l \in DOMAIN trace : k < l => trace[k] < trace[l]
  /\ log = Latest(logged, IF UsageCap = 0 THEN 1 ELSE UsageCap)
  /\ {logged[k] : k \in DOMAIN logged} = DOMAIN answered \ discarded
  /\ \A k, l \in DOMAIN logged : k < l => logged[k] < logged[l]

\* What the daemon tells of its calls, tokens spent and latest calls, is what the
\* API answered, but for the answers without an execute block, which the tokens
\* and the log leave out and the trace has.
BooksTrue == TokensConserved /\ RingsLatest

\* Every call ends, however the service answers.
CallEnds == \A a \in Agents : (phase[a] = "probing") ~> (phase[a] \in {"idle", "ended"})
=============================================================================
