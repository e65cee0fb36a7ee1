--------------------------- MODULE ApiCallsProofs ---------------------------
(***************************************************************************)
(* Proofs about ApiCalls, for any agents, models, limits and answers.      *)
(***************************************************************************)
EXTENDS ApiCalls, FiniteSetTheorems, TLAPS

(***************************************************************************)
(* The inductive invariant of the retries.  RetryBudget speaks of a call   *)
(* that sleeps or has given up; what carries it there is that a call about *)
(* to send has made no attempt yet or is below the limit of a failure it   *)
(* has met.                                                                *)
(***************************************************************************)
CallTypes ==
  /\ phase \in [Agents -> {"idle", "probing", "sending", "sleeping", "ended"}]
  /\ attempt \in [Agents -> Nat] /\ kinds \in [Agents -> SUBSET Kinds]
  /\ last \in [Agents -> Kinds \cup Outcomes]

HasRoom(a) == \E k \in kinds[a] : attempt[a] < Limit[k]

Budget(a) ==
  /\ phase[a] = "probing" => attempt[a] = 0
  /\ phase[a] = "sending" => attempt[a] = 0 \/ HasRoom(a)
  /\ phase[a] = "sleeping" => HasRoom(a)
  /\ last[a] = "gaveup" =>
       /\ phase[a] \in {"idle", "ended"}
       /\ \E k \in kinds[a] : attempt[a] <= Limit[k]
       /\ \E k \in kinds[a] : attempt[a] >= Limit[k]

RetryInv == CallTypes /\ \A a \in Agents : Budget(a)

\* What happens in one agent's call is nothing to the others'.
LEMMA OthersKept ==
  ASSUME RetryInv, NEW a \in Agents, NEW b \in Agents, b # a,
         phase'[b] = phase[b], attempt'[b] = attempt[b],
         kinds'[b] = kinds[b], last'[b] = last[b]
  PROVE  Budget(b)'
BY DEF RetryInv, Budget, HasRoom

\* A step that leaves the calls alone.
LEMMA CallsKept ==
  ASSUME RetryInv, UNCHANGED <<phase, attempt, kinds, last>>
  PROVE  RetryInv'
BY DEF RetryInv, CallTypes, Budget, HasRoom

\* An agent's step keeps the invariant when its own call does.
LEMMA OneCall ==
  ASSUME RetryInv, NEW a \in Agents,
         NEW p \in {"idle", "probing", "sending", "sleeping", "ended"},
         NEW n \in Nat, NEW K \in SUBSET Kinds, NEW l \in Kinds \cup Outcomes,
         phase' = [phase EXCEPT ![a] = p], attempt' = [attempt EXCEPT ![a] = n],
         kinds' = [kinds EXCEPT ![a] = K], last' = [last EXCEPT ![a] = l],
         p = "probing" => n = 0,
         p = "sending" => n = 0 \/ \E k \in K : n < Limit[k],
         p = "sleeping" => \E k \in K : n < Limit[k],
         l = "gaveup" => /\ p \in {"idle", "ended"}
                         /\ \E k \in K : n <= Limit[k]
                         /\ \E k \in K : n >= Limit[k]
  PROVE  RetryInv'
<1>1. CallTypes'
  BY DEF RetryInv, CallTypes
<1>2. phase'[a] = p /\ attempt'[a] = n /\ kinds'[a] = K /\ last'[a] = l
  BY DEF RetryInv, CallTypes
<1>3. Budget(a)'
  BY <1>2 DEF Budget, HasRoom
<1>4. ASSUME NEW b \in Agents, b # a PROVE Budget(b)'
  <2>1. phase'[b] = phase[b] /\ attempt'[b] = attempt[b] /\ kinds'[b] = kinds[b] /\ last'[b] = last[b]
    BY <1>4 DEF RetryInv, CallTypes
  <2> QED BY <1>4, <2>1, OthersKept
<1> QED BY <1>1, <1>3, <1>4 DEF RetryInv

\* What the invariant says of one agent's call.
LEMMA CallFacts ==
  ASSUME RetryInv, NEW a \in Agents
  PROVE  /\ phase[a] \in {"idle", "probing", "sending", "sleeping", "ended"}
         /\ attempt[a] \in Nat /\ kinds[a] \in SUBSET Kinds
         /\ last[a] \in Kinds \cup Outcomes
         /\ phase = [phase EXCEPT ![a] = phase[a]]
         /\ attempt = [attempt EXCEPT ![a] = attempt[a]]
         /\ kinds = [kinds EXCEPT ![a] = kinds[a]]
         /\ last = [last EXCEPT ![a] = last[a]]
         /\ Budget(a)
BY DEF RetryInv, CallTypes

\* An attempt that fails in a way that may be tried again.
LEMMA AttemptFailsKeeps ==
  ASSUME RetryInv, NEW a \in Agents, NEW k \in Kinds, AttemptFails(a, k)
  PROVE  RetryInv'
<1> DEFINE K == kinds[a] \cup {k}
           n == attempt[a] + 1
<1>1. /\ phase[a] = "sending"
      /\ attempt' = [attempt EXCEPT ![a] = n] /\ kinds' = [kinds EXCEPT ![a] = K]
  BY DEF AttemptFails
<1>2. n \in Nat /\ K \in SUBSET Kinds /\ k \in K /\ Limit[k] \in Nat /\ Limit[k] > 0
  BY CallFacts, LimitAssumption
<1>3. \A j \in Kinds : Limit[j] \in Nat
  BY LimitAssumption
<1>4. \E j \in K : n <= Limit[j]
  <2>1. CASE attempt[a] = 0
    BY <1>2, <2>1
  <2>2. CASE HasRoom(a)
    BY <1>2, <1>3, <2>2, CallFacts DEF HasRoom
  <2> QED BY <1>1, <2>1, <2>2, CallFacts DEF Budget
<1>5. CASE n >= Limit[k]
  <2>1. phase' = [phase EXCEPT ![a] = "idle"] /\ last' = [last EXCEPT ![a] = "gaveup"]
    BY <1>5 DEF AttemptFails, Fails
  <2>2. "gaveup" \in Kinds \cup Outcomes
    BY DEF Outcomes
  <2>3. \E j \in K : n >= Limit[j]
    BY <1>2, <1>5
  <2> HIDE DEF K, n
  <2> QED BY <1>1, <1>2, <1>4, <2>1, <2>2, <2>3, OneCall
<1>6. CASE ~(n >= Limit[k])
  <2>1. phase' = [phase EXCEPT ![a] = "sleeping"] /\ last' = [last EXCEPT ![a] = k]
    BY <1>6 DEF AttemptFails
  <2>2. k # "gaveup" /\ k \in Kinds \cup Outcomes
    BY KindsAssumption DEF Outcomes
  <2>3. \E j \in K : n < Limit[j]
    BY <1>2, <1>6
  <2> HIDE DEF K, n
  <2> QED BY <1>1, <1>2, <2>1, <2>2, <2>3, OneCall
<1> QED BY <1>5, <1>6

\* An attempt after which the call ends otherwise.
LEMMA EndsOtherwise ==
  ASSUME RetryInv, NEW a \in Agents, NEW l \in Outcomes, l # "gaveup",
         attempt' = [attempt EXCEPT ![a] = @ + 1], UNCHANGED kinds,
         phase' = [phase EXCEPT ![a] = "idle"], last' = [last EXCEPT ![a] = l]
  PROVE  RetryInv'
<1>1. /\ attempt[a] + 1 \in Nat /\ kinds[a] \in SUBSET Kinds /\ l \in Kinds \cup Outcomes
      /\ attempt' = [attempt EXCEPT ![a] = attempt[a] + 1]
      /\ kinds' = [kinds EXCEPT ![a] = kinds[a]]
  BY CallFacts
<1> DEFINE n == attempt[a] + 1
           K == kinds[a]
<1>2. n \in Nat /\ K \in SUBSET Kinds /\ attempt' = [attempt EXCEPT ![a] = n]
      /\ kinds' = [kinds EXCEPT ![a] = K]
  BY <1>1
<1> HIDE DEF n, K
<1> QED BY <1>1, <1>2, OneCall

\* A step that only moves a call from one phase to another.
LEMMA PhaseMoves ==
  ASSUME RetryInv, NEW a \in Agents, UNCHANGED <<attempt, kinds, last>>,
         \/ phase[a] \in {"probing", "sleeping"} /\ phase' = [phase EXCEPT ![a] = "sending"]
         \/ phase[a] = "idle" /\ phase' = [phase EXCEPT ![a] = "ended"]
  PROVE  RetryInv'
<1>1. PICK p \in {"sending", "ended"} : phase' = [phase EXCEPT ![a] = p]
  OBVIOUS
<1>2. CallTypes'
  BY <1>1 DEF RetryInv, CallTypes
<1>3. \/ phase'[a] = "sending" /\ phase[a] \in {"probing", "sleeping"}
      \/ phase'[a] = "ended" /\ phase[a] = "idle"
  BY DEF RetryInv, CallTypes
<1>4. Budget(a)'
  BY <1>3, CallFacts DEF Budget, HasRoom
<1>5. ASSUME NEW b \in Agents, b # a PROVE Budget(b)'
  <2>1. phase'[b] = phase[b]
    BY <1>1, <1>5 DEF RetryInv, CallTypes
  <2> QED BY <1>5, <2>1, OthersKept
<1> QED BY <1>2, <1>4, <1>5 DEF RetryInv

\* Every step keeps the invariant.
LEMMA RetryStep ==
  ASSUME RetryInv, [Next]_vars
  PROVE  RetryInv'
<1>1. CASE UNCHANGED vars
  BY <1>1, CallsKept DEF vars, callVars
<1>2. ASSUME NEW a \in Agents, StartCall(a) PROVE RetryInv'
  <2>1. /\ attempt' = [attempt EXCEPT ![a] = 0] /\ kinds' = [kinds EXCEPT ![a] = {}]
        /\ last' = [last EXCEPT ![a] = "none"]
    BY <1>2 DEF StartCall
  <2>2. PICK p \in {"probing", "sending"} : phase' = [phase EXCEPT ![a] = p]
    BY <1>2 DEF StartCall
  <2>3. "none" \in Kinds \cup Outcomes /\ {} \in SUBSET Kinds /\ 0 \in Nat
    BY DEF Outcomes
  <2> QED BY <2>1, <2>2, <2>3, OneCall
<1>3. ASSUME NEW a \in Agents, ProbeOk(a) \/ ProbeFails(a) \/ Wake(a) \/ Finish(a) PROVE RetryInv'
  BY <1>3, PhaseMoves DEF ProbeOk, ProbeFails, Wake, Finish
<1>4. ASSUME NEW a \in Agents, NEW k \in Kinds, AttemptFails(a, k) PROVE RetryInv'
  BY <1>4, AttemptFailsKeeps
<1>5. ASSUME NEW a \in Agents, NEW status \in {"unauthorized", "other"}, Refused(a, status)
      PROVE  RetryInv'
  <2>1. PICK l \in {"expired", "refused"} : last' = [last EXCEPT ![a] = l]
    BY <1>5 DEF Refused, Fails
  <2>2. l \in Outcomes /\ l # "gaveup"
    BY DEF Outcomes
  <2> QED BY <1>5, <2>1, <2>2, EndsOtherwise DEF Refused, Fails
<1>6. ASSUME NEW a \in Agents, NEW r \in Responses, Answer(a, r) PROVE RetryInv'
  <2>1. "ok" \in Outcomes /\ "unusable" \in Outcomes
    BY DEF Outcomes
  <2>2. CASE Usable(a)
    BY <2>1, <2>2, EndsOtherwise DEF Usable
  <2>3. CASE Unusable(a)
    BY <2>1, <2>3, EndsOtherwise DEF Unusable, Fails
  <2> QED BY <1>6, <2>2, <2>3 DEF Answer
<1>7. ASSUME NEW a \in Agents, Completed(a) PROVE RetryInv'
  BY <1>7, CallsKept DEF Completed, callVars
<1> QED
  BY <1>1, <1>2, <1>3, <1>4, <1>5, <1>6, <1>7 DEF Next, CallStep

(***************************************************************************)
(* Whatever failures alternate, a call never goes on past the largest of   *)
(* the limits of the kinds it has met, nor gives up before the smallest    *)
(* (the loop of ApiClient::call).                                          *)
(***************************************************************************)
THEOREM BudgetKept == Spec => []RetryBudget
<1>1. Init => RetryInv
  BY KindsAssumption DEF Init, RetryInv, CallTypes, Budget, HasRoom, Outcomes
<1>2. RetryInv => RetryBudget
  BY DEF RetryInv, Budget, HasRoom, RetryBudget, MetLimits
<1> QED BY <1>1, <1>2, RetryStep, PTL DEF Spec

-----------------------------------------------------------------------------
(***************************************************************************)
(* The inductive invariant of the capabilities: what is cached was parsed, *)
(* and what a call goes out with was parsed or is the fallback.            *)
(***************************************************************************)
CapsInv ==
  /\ phase \in [Agents -> {"idle", "probing", "sending", "sleeping", "ended"}]
  /\ caps \in [Agents -> Caps] /\ cache \in [Models -> Caps \cup {Unknown}]
  /\ \A m \in Models : cache[m] # Unknown => cache[m] = ParseCapabilities(Body[m])
  /\ \A a \in Agents :
       phase[a] \in {"sending", "sleeping"} =>
         caps[a] = Fallback \/ caps[a] = ParseCapabilities(Body[ModelOf[a]])

\* parse_capabilities returns capabilities.
LEMMA ParsedCaps ==
  ASSUME NEW m \in Models
  PROVE  ParseCapabilities(Body[m]) \in Caps
BY BodyAssumption DEF ParseCapabilities, Caps

\* Every step keeps the invariant.
LEMMA CapsStep ==
  ASSUME CapsInv, [Next]_vars
  PROVE  CapsInv'
<1>0. \A a \in Agents : ModelOf[a] \in Models
  BY DEF Models
<1>1. CASE UNCHANGED vars
  BY <1>1 DEF vars, callVars, CapsInv
<1>2. ASSUME NEW a \in Agents, StartCall(a) PROVE CapsInv'
  <2>1. cache' = cache
    BY <1>2 DEF StartCall
  <2>2. CASE cache[ModelOf[a]] = Unknown
    BY <1>2, <2>1, <2>2 DEF StartCall, CapsInv
  <2>3. CASE cache[ModelOf[a]] # Unknown
    <3>1. cache[ModelOf[a]] \in Caps /\ cache[ModelOf[a]] = ParseCapabilities(Body[ModelOf[a]])
      BY <1>0, <2>3 DEF CapsInv
    <3>2. caps' = [caps EXCEPT ![a] = cache[ModelOf[a]]] /\ phase' = [phase EXCEPT ![a] = "sending"]
      BY <1>2, <2>3 DEF StartCall
    <3> QED BY <2>1, <3>1, <3>2 DEF CapsInv
  <2> QED BY <2>2, <2>3
<1>3. ASSUME NEW a \in Agents, ProbeOk(a) PROVE CapsInv'
  <2> DEFINE c == ParseCapabilities(Body[ModelOf[a]])
  <2>1. /\ cache' = [cache EXCEPT ![ModelOf[a]] = c] /\ caps' = [caps EXCEPT ![a] = c]
        /\ phase' = [phase EXCEPT ![a] = "sending"]
    BY <1>3 DEF ProbeOk
  <2>2. c \in Caps /\ ModelOf[a] \in Models
    BY <1>0, ParsedCaps
  <2>3. \A m \in Models : cache'[m] = IF m = ModelOf[a] THEN c ELSE cache[m]
    BY <2>1, <2>2 DEF CapsInv
  <2>4. \A m \in Models : cache'[m] # Unknown => cache'[m] = ParseCapabilities(Body[m])
    BY <2>3 DEF CapsInv
  <2> HIDE DEF c
  <2>5. \A b \in Agents : caps'[b] = IF b = a THEN c ELSE caps[b]
    BY <2>1 DEF CapsInv
  <2>6. \A b \in Agents : phase'[b] \in {"sending", "sleeping"} =>
          caps'[b] = Fallback \/ caps'[b] = ParseCapabilities(Body[ModelOf[b]])
    BY <2>1, <2>5 DEF CapsInv, c
  <2> QED BY <2>1, <2>2, <2>4, <2>6 DEF CapsInv
<1>4. ASSUME NEW a \in Agents, ProbeFails(a) PROVE CapsInv'
  <2>1. Fallback \in Caps
    BY DEF Fallback, Caps
  <2> QED BY <1>4, <2>1 DEF ProbeFails, CapsInv
<1>5. ASSUME NEW a \in Agents, UNCHANGED <<caps, cache>>,
             \/ UNCHANGED phase
             \/ \E p \in {"idle", "ended"} : phase' = [phase EXCEPT ![a] = p]
             \/ \E p \in {"sending", "sleeping"} :
                  phase[a] \in {"sending", "sleeping"} /\ phase' = [phase EXCEPT ![a] = p]
      PROVE  CapsInv'
  BY <1>5 DEF CapsInv
<1>6. ASSUME NEW a \in Agents, NEW k \in Kinds, AttemptFails(a, k) PROVE CapsInv'
  BY <1>5, <1>6 DEF AttemptFails, Fails
<1>7. ASSUME NEW a \in Agents, NEW status \in {"unauthorized", "other"}, Refused(a, status)
      PROVE  CapsInv'
  BY <1>5, <1>7 DEF Refused, Fails
<1>8. ASSUME NEW a \in Agents, NEW r \in Responses, Answer(a, r) PROVE CapsInv'
  BY <1>5, <1>8 DEF Answer, Usable, Unusable, Fails
<1>9. ASSUME NEW a \in Agents, Wake(a) \/ Finish(a) \/ Completed(a) PROVE CapsInv'
  BY <1>5, <1>9 DEF Wake, Finish, Completed, callVars
<1> QED
  BY <1>1, <1>2, <1>3, <1>4, <1>6, <1>7, <1>8, <1>9 DEF Next, CallStep

\* A request built from parsed capabilities, or from the fallback, asks for
\* nothing the model's entry does not offer.
LEMMA FieldsSupported ==
  ASSUME NEW m \in Models, NEW c, c = Fallback \/ c = ParseCapabilities(Body[m])
  PROVE  /\ RequestFields(c).thinking = "adaptive" => Body[m].adaptive
         /\ RequestFields(c).thinking = "enabled" => Body[m].enabled /\ ~Body[m].adaptive
         /\ RequestFields(c).effort => Body[m].effort /\ Body[m].adaptive
<1>1. Body[m].adaptive \in BOOLEAN /\ Body[m].enabled \in BOOLEAN /\ Body[m].effort \in BOOLEAN
  BY BodyAssumption
<1>2. CASE c = Fallback
  BY <1>2 DEF Fallback, RequestFields
<1>3. CASE c = ParseCapabilities(Body[m])
  BY <1>1, <1>3 DEF ParseCapabilities, RequestFields
<1> QED BY <1>2, <1>3

(***************************************************************************)
(* However many agents probe, fail and share results, no request asks a    *)
(* model for thinking or effort that its entry does not offer, and what is *)
(* cached is what the service said (ModelCapabilityCache::get and          *)
(* build_request).                                                         *)
(***************************************************************************)
THEOREM RequestsSupported == Spec => []RequestSupported
<1>1. Init => CapsInv
  BY DEF Init, CapsInv, Caps, Fallback, Unknown
<1>2. CapsInv => RequestSupported
  <2> SUFFICES ASSUME CapsInv PROVE RequestSupported
    OBVIOUS
  <2>1. ASSUME NEW a \in Agents, phase[a] \in {"sending", "sleeping"}
        PROVE  LET b == Body[ModelOf[a]]
                   f == RequestFields(caps[a])
               IN  /\ f.thinking = "adaptive" => b.adaptive
                   /\ f.thinking = "enabled" => b.enabled /\ ~b.adaptive
                   /\ f.effort => b.effort /\ b.adaptive
    <3>1. ModelOf[a] \in Models
      BY DEF Models
    <3>2. caps[a] = Fallback \/ caps[a] = ParseCapabilities(Body[ModelOf[a]])
      BY <2>1 DEF CapsInv
    <3> QED BY <3>1, <3>2, FieldsSupported
  <2> QED BY <2>1 DEF RequestSupported, CapsInv
<1> QED BY <1>1, <1>2, CapsStep, PTL DEF Spec

-----------------------------------------------------------------------------
(***************************************************************************)
(* The books.  A child that has told what it used has ended, so its count  *)
(* stands still; this keeps the tokens that wait to be told apart from     *)
(* those in the accumulator.                                               *)
(***************************************************************************)
CountTypes ==
  /\ phase \in [Agents -> {"idle", "probing", "sending", "sleeping", "ended"}]
  /\ turns \in [Agents -> Nat] /\ local \in [Agents -> Nat] /\ acc \in Nat
  /\ done \in [Agents -> {"none", "sent", "applied"}]
  /\ answered \in Seq(Agents) /\ discarded \subseteq DOMAIN answered

ToldEnded == \A a \in Agents : done[a] # "none" => phase[a] = "ended"

TokensInv == CountTypes /\ ToldEnded /\ TokensConserved

\* The tokens of finitely many agents are finitely many.
LEMMA TokensFinite ==
  ASSUME NEW S, IsFiniteSet(S), NEW f, \A a \in S : f[a] \in Nat
  PROVE  IsFiniteSet(Tokens(S, f)) /\ Cardinality(Tokens(S, f)) \in Nat
<1> DEFINE g == [a \in S |-> {a} \X (1 .. f[a])]
           T == {{a} \X (1 .. f[a]) : a \in S}
<1>1. g \in Surjection(S, T)
  BY DEF Surjection
<1>2. IsFiniteSet(T)
  <2> HIDE DEF g, T
  <2> QED BY <1>1, FS_Surjection
<1>3. ASSUME NEW a \in S PROVE IsFiniteSet({a} \X (1 .. f[a]))
  <2>1. f[a] \in Int /\ 1 \in Int
    OBVIOUS
  <2>2. IsFiniteSet({a}) /\ IsFiniteSet(1 .. f[a])
    BY <2>1, FS_Singleton, FS_Interval
  <2> QED BY <2>2, FS_Product
<1>4. \A t \in T : IsFiniteSet(t)
  BY <1>3
<1>5. IsFiniteSet(UNION T)
  <2> HIDE DEF T
  <2> QED BY <1>2, <1>4, FS_UNION
<1> QED BY <1>5, FS_CardinalityType DEF Tokens

\* One more token for one of the agents.
LEMMA TokenAdded ==
  ASSUME NEW S, IsFiniteSet(S), NEW f, NEW g, NEW a \in S, \A b \in S : f[b] \in Nat,
         \A b \in S : g[b] = IF b = a THEN f[b] + 1 ELSE f[b]
  PROVE  Cardinality(Tokens(S, g)) = Cardinality(Tokens(S, f)) + 1
<1> DEFINE x == <<a, f[a] + 1>>
<1>1. x \notin Tokens(S, f)
  BY DEF Tokens
<1>2. ASSUME NEW b \in S PROVE {b} \X (1 .. g[b]) \subseteq Tokens(S, f) \cup {x}
  BY <1>2 DEF Tokens
<1>3. ASSUME NEW b \in S PROVE {b} \X (1 .. f[b]) \subseteq Tokens(S, g)
  BY <1>3 DEF Tokens
<1>4. x \in Tokens(S, g)
  BY DEF Tokens
<1>5. Tokens(S, g) \subseteq Tokens(S, f) \cup {x}
  BY <1>2 DEF Tokens
<1>6. Tokens(S, f) \subseteq Tokens(S, g)
  BY <1>3 DEF Tokens
<1>7. Tokens(S, g) = Tokens(S, f) \cup {x}
  BY <1>4, <1>5, <1>6
<1>8. IsFiniteSet(Tokens(S, f))
  BY TokensFinite
<1> HIDE DEF x
<1> QED BY <1>1, <1>7, <1>8, FS_AddElement

\* An agent's tokens leave with it.
LEMMA TokensGone ==
  ASSUME NEW S, IsFiniteSet(S), NEW f, NEW a \in S, \A b \in S : f[b] \in Nat
  PROVE  Cardinality(Tokens(S, f)) = Cardinality(Tokens(S \ {a}, f)) + f[a]
<1> DEFINE own == {a} \X (1 .. f[a])
           rest == Tokens(S \ {a}, f)
<1>1. Tokens(S, f) = rest \cup own
  BY DEF Tokens
<1>2. rest \cap own = {}
  BY DEF Tokens
<1>3. IsFiniteSet(S \ {a})
  BY FS_RemoveElement
<1>4. IsFiniteSet(rest) /\ Cardinality(rest) \in Nat
  BY <1>3, TokensFinite
<1>5. IsFiniteSet(own) /\ Cardinality(own) = f[a] /\ f[a] \in Nat
  <2>1. f[a] \in Int /\ 1 \in Int /\ f[a] \in Nat
    OBVIOUS
  <2>2. IsFiniteSet({a}) /\ IsFiniteSet(1 .. f[a]) /\ Cardinality({a}) = 1
    BY <2>1, FS_Singleton, FS_Interval
  <2>3. Cardinality(1 .. f[a]) = f[a]
    BY <2>1, FS_Interval
  <2>4. IsFiniteSet(own) /\ Cardinality(own) = 1 * Cardinality(1 .. f[a])
    BY <2>2, FS_Product
  <2> QED BY <2>1, <2>3, <2>4
<1>6. Cardinality(rest \cup own) = Cardinality(rest) + f[a]
  <2> HIDE DEF own, rest
  <2>1. Cardinality(rest \cup own) = Cardinality(rest) + Cardinality(own) - Cardinality(rest \cap own)
    BY <1>4, <1>5, FS_Union
  <2>2. Cardinality(rest \cap own) = 0
    BY <1>2, FS_EmptySet
  <2> QED BY <1>4, <1>5, <2>1, <2>2
<1> QED BY <1>1, <1>6

\* Counters that agree on some agents count the same tokens of them.
LEMMA SameTokens ==
  ASSUME NEW S, NEW f, NEW g, \A a \in S : f[a] = g[a]
  PROVE  Tokens(S, f) = Tokens(S, g)
BY DEF Tokens

LEMMA FamilyFinite ==
  /\ IsFiniteSet(Direct) /\ IsFiniteSet(Untold)
  /\ Direct \subseteq Agents /\ Root \notin Direct /\ Untold \subseteq Direct /\ Root \in Agents
<1>1. Direct \subseteq Agents /\ Root \notin Direct /\ Untold \subseteq Direct
  BY DEF Direct, Untold
<1>2. IsFiniteSet(Direct) /\ IsFiniteSet(Untold)
  BY <1>1, AgentsAssumption, FS_Subset
<1> QED BY <1>1, <1>2, AgentsAssumption

\* Answers are finitely many.
LEMMA AnswersFinite ==
  ASSUME answered \in Seq(Agents), NEW S
  PROVE  /\ IsFiniteSet(AnswersTo(S)) /\ Cardinality(AnswersTo(S)) \in Nat
         /\ IsFiniteSet(AnswersTo(S) \cap discarded) /\ Cardinality(AnswersTo(S) \cap discarded) \in Nat
<1>1. AnswersTo(S) \subseteq 1 .. Len(answered) /\ Len(answered) \in Int /\ 1 \in Int
  BY DEF AnswersTo
<1>2. IsFiniteSet(1 .. Len(answered))
  BY <1>1, FS_Interval
<1>3. IsFiniteSet(AnswersTo(S)) /\ IsFiniteSet(AnswersTo(S) \cap discarded)
  BY <1>1, <1>2, FS_Subset
<1> QED BY <1>3, FS_CardinalityType

LEMMA Crossed ==
  ASSUME NEW A, NEW E, NEW X, NEW D, A \cap D = {}, E \cap X = {}
  PROVE  (A \cup E) \cap (X \cup D) = (A \cap X) \cup (E \cap D)
OBVIOUS

\* One more answer, to an agent among S or not, discarded or not.
LEMMA AnswerAdded ==
  ASSUME answered \in Seq(Agents), discarded \subseteq DOMAIN answered, NEW S, NEW a \in Agents,
         answered' = Append(answered, a), NEW D \in {{}, {Len(answered) + 1}},
         discarded' = discarded \cup D
  PROVE  /\ answered' \in Seq(Agents) /\ discarded' \subseteq DOMAIN answered'
         /\ Cardinality(AnswersTo(S)') = Cardinality(AnswersTo(S)) + (IF a \in S THEN 1 ELSE 0)
         /\ Cardinality(AnswersTo(S)' \cap discarded')
              = Cardinality(AnswersTo(S) \cap discarded) + (IF a \in S /\ D # {} THEN 1 ELSE 0)
<1> DEFINE new == Len(answered) + 1
           A == AnswersTo(S)
           B == A \cap discarded
<1>1. /\ answered' \in Seq(Agents) /\ DOMAIN answered' = DOMAIN answered \cup {new} /\ new \notin DOMAIN answered
      /\ answered'[new] = a /\ \A n \in DOMAIN answered : answered'[n] = answered[n]
  OBVIOUS
<1>2. discarded' \subseteq DOMAIN answered'
  BY <1>1
<1>3. A' = A \cup (IF a \in S THEN {new} ELSE {}) /\ new \notin A /\ new \notin B /\ new \notin discarded
  BY <1>1 DEF AnswersTo
<1>4. A' \cap discarded' = B \cup (IF a \in S /\ D # {} THEN {new} ELSE {})
  <2> HIDE DEF new
  <2>1. D \in {{}, {new}} /\ A \subseteq DOMAIN answered
    BY DEF AnswersTo, new
  <2>2. PICK E : E = IF a \in S THEN {new} ELSE {}
    OBVIOUS
  <2>3. A' = A \cup E /\ discarded' = discarded \cup D /\ A \cap D = {} /\ E \cap discarded = {}
    BY <1>3, <2>1, <2>2
  <2>4. E \cap D = IF a \in S /\ D # {} THEN {new} ELSE {}
    BY <2>1, <2>2
  <2> HIDE DEF A
  <2>5. (A \cup E) \cap (discarded \cup D) = (A \cap discarded) \cup (E \cap D)
    BY <2>3, Crossed
  <2> QED BY <2>3, <2>4, <2>5
<1>5. IsFiniteSet(A) /\ IsFiniteSet(B) /\ Cardinality(A) \in Nat /\ Cardinality(B) \in Nat
  BY AnswersFinite
<1>6. Cardinality(A \cup {new}) = Cardinality(A) + 1 /\ Cardinality(B \cup {new}) = Cardinality(B) + 1
  BY <1>3, <1>5, FS_AddElement
<1>7. Cardinality(A') = Cardinality(A) + (IF a \in S THEN 1 ELSE 0)
  <2>1. CASE a \in S
    BY <1>3, <1>6, <2>1
  <2>2. CASE a \notin S
    <3>1. A' = A
      BY <1>3, <2>2
    <3> QED BY <1>5, <2>2, <3>1
  <2> QED BY <2>1, <2>2
<1>8. Cardinality(A' \cap discarded') = Cardinality(B) + (IF a \in S /\ D # {} THEN 1 ELSE 0)
  <2>1. CASE a \in S /\ D # {}
    BY <1>4, <1>6, <2>1
  <2>2. CASE ~(a \in S /\ D # {})
    <3>1. A' \cap discarded' = B
      BY <1>4, <2>2
    <3>2. (IF a \in S /\ D # {} THEN 1 ELSE 0) = 0
      BY <2>2
    <3>3. PICK b \in Nat : b = Cardinality(B)
      BY <1>5
    <3>4. Cardinality(A' \cap discarded') = b
      BY <3>1, <3>3
    <3>5. b = b + 0
      OBVIOUS
    <3> QED BY ONLY <3>2, <3>3, <3>4, <3>5
  <2> QED BY <2>1, <2>2
<1> QED BY <1>1, <1>2, <1>7, <1>8

\* A usable response brings its agent one answer, and the accumulator or the
\* agent's own count a token.
LEMMA UsableCounts ==
  ASSUME TokensInv, NEW a \in Agents, Usable(a)
  PROVE  TokensInv'
<1>1. /\ phase[a] = "sending" /\ phase' = [phase EXCEPT ![a] = "idle"] /\ done' = done
      /\ turns' = [turns EXCEPT ![a] = @ + 1] /\ Count(a)
      /\ answered' = Append(answered, a) /\ discarded' = discarded
  BY DEF Usable, Traced
<1>2. /\ answered' \in Seq(Agents) /\ discarded' \subseteq DOMAIN answered'
      /\ Cardinality(AnswersTo(Kin)') = Cardinality(AnswersTo(Kin)) + (IF a \in Kin THEN 1 ELSE 0)
      /\ Cardinality(AnswersTo(Kin)' \cap discarded') = Cardinality(AnswersTo(Kin) \cap discarded)
  <2>1. answered \in Seq(Agents) /\ discarded \subseteq DOMAIN answered /\ discarded' = discarded \cup {}
    BY <1>1 DEF TokensInv, CountTypes
  <2>2. Cardinality(AnswersTo(Kin) \cap discarded) \in Nat
    BY <2>1, AnswersFinite
  <2>3. PICK D : D = {}
    OBVIOUS
  <2>4. D \in {{}, {Len(answered) + 1}} /\ discarded' = discarded \cup D /\ ~(D # {})
    BY <2>1, <2>3
  <2>5. PICK S : S = Kin
    OBVIOUS
  <2>6. /\ answered' \in Seq(Agents) /\ discarded' \subseteq DOMAIN answered'
        /\ Cardinality(AnswersTo(S)') = Cardinality(AnswersTo(S)) + (IF a \in S THEN 1 ELSE 0)
        /\ Cardinality(AnswersTo(S)' \cap discarded')
              = Cardinality(AnswersTo(S) \cap discarded) + (IF a \in S /\ D # {} THEN 1 ELSE 0)
    BY <1>1, <2>1, <2>4, AnswerAdded
  <2> QED BY <2>2, <2>4, <2>5, <2>6
<1>3. CountTypes' /\ ToldEnded' /\ done[a] = "none"
  <2>1. acc' \in Nat /\ local' \in [Agents -> Nat]
    <3>1. acc \in Nat /\ local \in [Agents -> Nat]
      BY DEF TokensInv, CountTypes
    <3>2. CASE a = Root
      BY <1>1, <3>1, <3>2 DEF Count
    <3>3. CASE a # Root
      <4>1. acc' = acc /\ local' = [local EXCEPT ![a] = @ + 1]
        BY <1>1, <3>3 DEF Count
      <4> QED BY <3>1, <4>1
    <3> QED BY <3>2, <3>3
  <2>2. turns' \in [Agents -> Nat]
    BY <1>1 DEF TokensInv, CountTypes
  <2> QED BY <1>1, <1>2, <2>1, <2>2 DEF TokensInv, CountTypes, ToldEnded
<1>4. (\A b \in Untold : local[b] \in Nat) /\ Untold' = Untold /\ Kin' = Kin
  BY <1>1, FamilyFinite DEF TokensInv, CountTypes, Untold, Direct, Kin
<1>5. /\ Cardinality(Tokens(Untold, local)) \in Nat /\ Cardinality(AnswersTo(Kin)) \in Nat
      /\ Cardinality(AnswersTo(Kin) \cap discarded) \in Nat /\ acc \in Nat
      /\ acc + Cardinality(Tokens(Untold, local)) + Cardinality(AnswersTo(Kin) \cap discarded)
           = Cardinality(AnswersTo(Kin))
  BY <1>4, FamilyFinite, TokensFinite, AnswersFinite DEF TokensInv, CountTypes, TokensConserved
<1>6. CASE a = Root
  <2>1. acc' = acc + 1 /\ local' = local /\ a \in Kin
    BY <1>1, <1>6 DEF Count, Kin
  <2>2. TokensConserved'
    BY <1>2, <1>4, <1>5, <2>1 DEF TokensConserved
  <2> QED BY <1>3, <2>2 DEF TokensInv
<1>7. CASE a \in Direct
  <2>1. /\ acc' = acc /\ a \in Untold /\ a \in Kin
        /\ \A b \in Agents : local'[b] = IF b = a THEN local[b] + 1 ELSE local[b]
    BY <1>1, <1>3, <1>7, FamilyFinite DEF Count, Untold, Kin, TokensInv, CountTypes
  <2>2. Cardinality(Tokens(Untold, local')) = Cardinality(Tokens(Untold, local)) + 1
    BY <1>4, <2>1, FamilyFinite, TokenAdded
  <2>3. TokensConserved'
    BY <1>2, <1>4, <1>5, <2>1, <2>2 DEF TokensConserved
  <2> QED BY <1>3, <2>3 DEF TokensInv
<1>8. CASE a \notin Kin
  <2>1. /\ acc' = acc /\ a \notin Untold
        /\ \A b \in Agents : local'[b] = IF b = a THEN local[b] + 1 ELSE local[b]
    BY <1>1, <1>8, FamilyFinite DEF Count, Kin, TokensInv, CountTypes
  <2>2. Tokens(Untold, local') = Tokens(Untold, local)
    BY <2>1, FamilyFinite, SameTokens
  <2>3. TokensConserved'
    BY <1>2, <1>4, <1>5, <1>8, <2>1, <2>2 DEF TokensConserved
  <2> QED BY <1>3, <2>3 DEF TokensInv
<1> QED BY <1>6, <1>7, <1>8 DEF Kin

\* An unusable response is one more answer and one more that is discarded.
LEMMA UnusableCounts ==
  ASSUME TokensInv, NEW a \in Agents, Unusable(a)
  PROVE  TokensInv'
<1>1. /\ phase[a] = "sending" /\ phase' = [phase EXCEPT ![a] = "idle"]
      /\ UNCHANGED <<done, turns, acc, local>>
      /\ answered' = Append(answered, a) /\ discarded' = discarded \cup {Len(answered) + 1}
  BY DEF Unusable, Traced, Fails, countVars
<1>2. /\ answered' \in Seq(Agents) /\ discarded' \subseteq DOMAIN answered'
      /\ Cardinality(AnswersTo(Kin)') = Cardinality(AnswersTo(Kin)) + (IF a \in Kin THEN 1 ELSE 0)
      /\ Cardinality(AnswersTo(Kin)' \cap discarded')
           = Cardinality(AnswersTo(Kin) \cap discarded) + (IF a \in Kin THEN 1 ELSE 0)
  <2>1. answered \in Seq(Agents) /\ discarded \subseteq DOMAIN answered /\ {Len(answered) + 1} # {}
    BY DEF TokensInv, CountTypes
  <2> QED BY <1>1, <2>1, AnswerAdded
<1>3. CountTypes' /\ ToldEnded' /\ Untold' = Untold /\ Kin' = Kin
  BY <1>1, <1>2 DEF TokensInv, CountTypes, ToldEnded, Untold, Direct, Kin
<1>4. /\ Cardinality(Tokens(Untold, local)) \in Nat /\ Cardinality(AnswersTo(Kin)) \in Nat
      /\ Cardinality(AnswersTo(Kin) \cap discarded) \in Nat /\ acc \in Nat
      /\ acc + Cardinality(Tokens(Untold, local)) + Cardinality(AnswersTo(Kin) \cap discarded)
           = Cardinality(AnswersTo(Kin))
  <2>1. \A b \in Untold : local[b] \in Nat
    BY FamilyFinite DEF TokensInv, CountTypes
  <2> QED BY <2>1, FamilyFinite, TokensFinite, AnswersFinite DEF TokensInv, CountTypes, TokensConserved
<1>5. TokensConserved'
  BY <1>1, <1>2, <1>3, <1>4 DEF TokensConserved
<1> QED BY <1>3, <1>5 DEF TokensInv

\* A child's report moves its tokens to the accumulator.
LEMMA CompletedCounts ==
  ASSUME TokensInv, NEW a \in Agents, Completed(a)
  PROVE  TokensInv'
<1>1. /\ a # Root /\ done[a] = "sent" /\ phase' = phase /\ turns' = turns /\ local' = local
      /\ done' = [done EXCEPT ![a] = "applied"]
      /\ acc' = IF Parent[a] = Root THEN acc + local[a] ELSE acc
      /\ UNCHANGED <<answered, discarded>>
  BY DEF Completed, callVars
<1>2. CountTypes' /\ ToldEnded'
  <2>1. acc' \in Nat
    BY <1>1 DEF TokensInv, CountTypes
  <2> QED BY <1>1, <2>1 DEF TokensInv, CountTypes, ToldEnded
<1>3. (\A b \in Untold : local[b] \in Nat) /\ AnswersTo(Kin)' = AnswersTo(Kin)
      /\ Cardinality(AnswersTo(Kin)) \in Nat /\ Cardinality(AnswersTo(Kin) \cap discarded) \in Nat
  BY <1>1, FamilyFinite, AnswersFinite DEF TokensInv, CountTypes, AnswersTo, Kin, Direct
<1>4. CASE Parent[a] = Root
  <2>1. a \in Untold /\ Untold' = Untold \ {a}
    BY <1>1, <1>4 DEF Untold, Direct, TokensInv, CountTypes
  <2>2. Cardinality(Tokens(Untold, local)) = Cardinality(Tokens(Untold \ {a}, local)) + local[a]
    BY <1>3, <2>1, FamilyFinite, TokensGone
  <2>3. /\ IsFiniteSet(Untold \ {a})
        /\ Cardinality(Tokens(Untold \ {a}, local)) \in Nat /\ acc \in Nat /\ local[a] \in Nat
    BY <1>3, <2>1, FamilyFinite, FS_RemoveElement, TokensFinite DEF TokensInv, CountTypes
  <2> QED BY <1>1, <1>2, <1>3, <1>4, <2>1, <2>2, <2>3 DEF TokensInv, TokensConserved
<1>5. CASE Parent[a] # Root
  <2>1. Untold' = Untold
    BY <1>1, <1>5 DEF Untold, Direct, TokensInv, CountTypes
  <2> QED BY <1>1, <1>2, <1>3, <1>5, <2>1 DEF TokensInv, TokensConserved
<1> QED BY <1>4, <1>5

\* Every step keeps the invariant.
LEMMA TokensStep ==
  ASSUME TokensInv, [Next]_vars
  PROVE  TokensInv'
<1>0. ASSUME UNCHANGED <<acc, local, answered, discarded>>, Untold' = Untold PROVE TokensConserved'
  BY <1>0 DEF TokensInv, TokensConserved, AnswersTo, Kin, Direct
<1>1. ASSUME NEW a \in Agents, UNCHANGED <<turns, acc, local, done, answered, discarded>>, phase[a] # "ended",
             NEW p \in {"idle", "probing", "sending", "sleeping", "ended"},
             phase' = [phase EXCEPT ![a] = p]
      PROVE  TokensInv'
  <2>1. CountTypes' /\ ToldEnded' /\ Untold' = Untold
    BY <1>1 DEF TokensInv, CountTypes, ToldEnded, Untold, Direct
  <2> QED BY <1>0, <1>1, <2>1 DEF TokensInv
<1>2. CASE UNCHANGED vars
  <2>1. CountTypes' /\ ToldEnded' /\ Untold' = Untold
    BY <1>2 DEF vars, callVars, countVars, TokensInv, CountTypes, ToldEnded, Untold, Direct
  <2> QED BY <1>0, <1>2, <2>1 DEF vars, countVars, TokensInv
<1>3. ASSUME NEW a \in Agents, StartCall(a) \/ ProbeOk(a) \/ ProbeFails(a) \/ Wake(a) PROVE TokensInv'
  <2>1. phase[a] # "ended" /\ UNCHANGED <<turns, acc, local, done, answered, discarded>>
    BY <1>3 DEF StartCall, ProbeOk, ProbeFails, Wake, countVars
  <2>2. PICK p \in {"probing", "sending"} : phase' = [phase EXCEPT ![a] = p]
    BY <1>3 DEF StartCall, ProbeOk, ProbeFails, Wake
  <2> QED BY <1>1, <2>1, <2>2
<1>4. ASSUME NEW a \in Agents,
             \/ \E k \in Kinds : AttemptFails(a, k)
             \/ \E status \in {"unauthorized", "other"} : Refused(a, status)
      PROVE  TokensInv'
  <2>1. phase[a] # "ended" /\ UNCHANGED <<turns, acc, local, done, answered, discarded>>
    BY <1>4 DEF AttemptFails, Refused, countVars
  <2>2. PICK p \in {"idle", "sleeping"} : phase' = [phase EXCEPT ![a] = p]
    BY <1>4 DEF AttemptFails, Refused, Fails
  <2> QED BY <1>1, <2>1, <2>2
<1>5. ASSUME NEW a \in Agents, Finish(a) PROVE TokensInv'
  <2>1. /\ phase' = [phase EXCEPT ![a] = "ended"] /\ done' = [done EXCEPT ![a] = "sent"]
        /\ UNCHANGED <<turns, acc, local, answered, discarded>> /\ phase[a] = "idle"
    BY <1>5 DEF Finish, countVars
  <2>2. CountTypes' /\ ToldEnded' /\ done[a] = "none"
    BY <2>1 DEF TokensInv, CountTypes, ToldEnded
  <2>3. Untold' = Untold
    BY <2>1, <2>2 DEF Untold, Direct, TokensInv, CountTypes
  <2> QED BY <1>0, <2>1, <2>2, <2>3 DEF TokensInv
<1> QED
  BY <1>2, <1>3, <1>4, <1>5, UsableCounts, UnusableCounts, CompletedCounts DEF Next, CallStep, Answer

(***************************************************************************)
(* The rings.  What is known of the trace between two steps: each entry is *)
(* an answer to the root with as many after it as the trace has entries    *)
(* after it, and an answer that is missing is older than a full trace.     *)
(***************************************************************************)
LogCap == IF UsageCap = 0 THEN 1 ELSE UsageCap

TraceInv ==
  /\ answered \in Seq(Agents) /\ trace \in Seq(Nat) /\ Len(trace) <= TraceCap
  /\ \A k \in DOMAIN trace :
       trace[k] \in RootAnswers /\ Cardinality(After(RootAnswers, trace[k])) = Len(trace) - k
  /\ \A k, l \in DOMAIN trace : k < l => trace[k] < trace[l]
  /\ \A n \in RootAnswers :
       \/ \E k \in DOMAIN trace : trace[k] = n
       \/ Len(trace) = TraceCap /\ \A k \in DOMAIN trace : n < trace[k]

LogInv == logged \in Seq(Nat) /\ log = Latest(logged, LogCap)

\* The log's entries are the answers that were not discarded, in order.
EntriesInv ==
  /\ answered \in Seq(Agents) /\ discarded \subseteq DOMAIN answered /\ logged \in Seq(Nat)
  /\ {logged[k] : k \in DOMAIN logged} = DOMAIN answered \ discarded
  /\ \A k, l \in DOMAIN logged : k < l => logged[k] < logged[l]

\* The answers after a number are finitely many.
LEMMA AfterFinite ==
  ASSUME answered \in Seq(Agents), NEW n
  PROVE  IsFiniteSet(After(RootAnswers, n)) /\ Cardinality(After(RootAnswers, n)) \in Nat
<1>1. After(RootAnswers, n) \subseteq 1 .. Len(answered) /\ Len(answered) \in Int /\ 1 \in Int
  BY DEF After, RootAnswers, AnswersTo
<1>2. IsFiniteSet(1 .. Len(answered))
  BY <1>1, FS_Interval
<1> QED BY <1>1, <1>2, FS_Subset, FS_CardinalityType

\* An answer to another agent is none to the root.
LEMMA OthersAnswered ==
  ASSUME TraceInv, NEW a \in Agents, a # Root, trace' = trace, answered' = Append(answered, a)
  PROVE  TraceInv'
<1>1. answered' \in Seq(Agents) /\ RootAnswers' = RootAnswers
  BY DEF TraceInv, RootAnswers, AnswersTo
<1>2. \A n : After(RootAnswers', n) = After(RootAnswers, n)
  BY <1>1 DEF After
<1> QED BY <1>1, <1>2 DEF TraceInv

\* An answer to the root comes after all others.
LEMMA RootAnswered ==
  ASSUME answered \in Seq(Agents), answered' = Append(answered, Root)
  PROVE  /\ answered' \in Seq(Agents) /\ RootAnswers' = RootAnswers \cup {Len(answered) + 1}
         /\ \A n \in RootAnswers :
              n < Len(answered) + 1 /\ Cardinality(After(RootAnswers', n)) = Cardinality(After(RootAnswers, n)) + 1
         /\ Cardinality(After(RootAnswers', Len(answered) + 1)) = 0
<1> DEFINE new == Len(answered) + 1
<1>1. answered' \in Seq(Agents)
  BY AgentsAssumption
<1>2. /\ RootAnswers' = RootAnswers \cup {new} /\ RootAnswers \subseteq 1 .. Len(answered)
      /\ Len(answered) \in Nat /\ new \in Nat
  BY AgentsAssumption DEF RootAnswers, AnswersTo
<1>3. ASSUME NEW n \in RootAnswers
      PROVE  n < new /\ Cardinality(After(RootAnswers', n)) = Cardinality(After(RootAnswers, n)) + 1
  <2>1. n < new
    BY <1>2
  <2>2. After(RootAnswers', n) = After(RootAnswers, n) \cup {new} /\ new \notin After(RootAnswers, n)
    BY <1>2, <2>1 DEF After
  <2> HIDE DEF new
  <2> QED BY <2>1, <2>2, AfterFinite, FS_AddElement
<1>4. After(RootAnswers', new) = {}
  <2>1. \A m \in RootAnswers' : m \in Int /\ m <= new
    BY <1>2
  <2>2. \A m \in RootAnswers' : ~(m > new)
    BY <1>2, <2>1
  <2> QED BY <2>2 DEF After
<1> QED BY <1>1, <1>2, <1>3, <1>4, FS_EmptySet

\* A ring that has dropped its first d entries and taken one.
Moved(r, t, d, e) ==
  /\ d \in Nat /\ d <= 1 /\ t \in Seq(Nat) /\ Len(t) = Len(r) - d + 1 /\ t[Len(t)] = e
  /\ \A k \in 1 .. Len(r) - d : t[k] = r[k + d]

\* Ring keeps the entries it had, but for the first when it is full.
LEMMA RingGrows ==
  ASSUME NEW r \in Seq(Nat), NEW cap \in Nat \ {0}, NEW e \in Nat, Len(r) <= cap
  PROVE  /\ Len(r) < cap => Moved(r, Ring(r, cap, e), 0, e)
         /\ Len(r) = cap => Moved(r, Ring(r, cap, e), 1, e)
<1>1. CASE Len(r) < cap
  <2> DEFINE t == Append(r, e)
  <2>1. Ring(r, cap, e) = t
    BY <1>1 DEF Ring
  <2>2. /\ t \in Seq(Nat) /\ Len(t) = Len(r) - 0 + 1 /\ t[Len(t)] = e /\ ~(Len(r) = cap)
        /\ \A k \in 1 .. Len(r) - 0 : t[k] = r[k + 0]
    BY <1>1
  <2> HIDE DEF t
  <2> QED BY <1>1, <2>1, <2>2 DEF Moved
<1>2. CASE Len(r) = cap
  <2> DEFINE t == Append(Tail(r), e)
  <2>1. Ring(r, cap, e) = t
    BY <1>2 DEF Ring
  <2>2. /\ r # <<>> /\ Tail(r) \in Seq(Nat) /\ Len(Tail(r)) = Len(r) - 1
        /\ \A k \in 1 .. Len(r) - 1 : Tail(r)[k] = r[k + 1]
    BY <1>2
  <2>3. /\ t \in Seq(Nat) /\ Len(t) = Len(r) - 1 + 1 /\ t[Len(t)] = e
        /\ \A k \in 1 .. Len(r) - 1 : t[k] = r[k + 1]
    BY <2>2
  <2> HIDE DEF t
  <2> QED BY <1>2, <2>1, <2>3 DEF Moved
<1> QED BY <1>1, <1>2

\* Where the entries of the longer ring come from.
LEMMA EntriesFrom ==
  ASSUME NEW r \in Seq(Nat), NEW t, NEW d, NEW e, Moved(r, t, d, e)
  PROVE  /\ \A k \in DOMAIN t :
              \/ k = Len(t) /\ t[k] = e
              \/ k < Len(t) /\ k + d \in DOMAIN r /\ t[k] = r[k + d]
         /\ \A k \in DOMAIN r : k > d => k - d \in DOMAIN t /\ t[k - d] = r[k]
<1>1. /\ Len(r) \in Nat /\ Len(t) \in Nat /\ DOMAIN r = 1 .. Len(r) /\ DOMAIN t = 1 .. Len(t)
      /\ d \in Nat /\ d <= 1 /\ Len(t) = Len(r) - d + 1 /\ t[Len(t)] = e
  BY DEF Moved
<1>a. \A k \in 1 .. Len(r) - d : t[k] = r[k + d]
  BY DEF Moved
<1>2. ASSUME NEW k \in DOMAIN t
      PROVE  \/ k = Len(t) /\ t[k] = e
             \/ k < Len(t) /\ k + d \in DOMAIN r /\ t[k] = r[k + d]
  <2>1. CASE k = Len(t)
    BY <1>1, <2>1
  <2>2. CASE k # Len(t)
    <3>1. k \in 1 .. Len(r) - d /\ k < Len(t) /\ k + d \in 1 .. Len(r)
      BY <1>1, <2>2
    <3> QED BY <1>1, <1>a, <3>1
  <2> QED BY <2>1, <2>2
<1>3. ASSUME NEW k \in DOMAIN r, k > d
      PROVE  k - d \in DOMAIN t /\ t[k - d] = r[k]
  <2>0. k \in Nat /\ k <= Len(r) /\ Len(t) = Len(r) - d + 1
    BY <1>1
  <2>1. k - d \in 1 .. Len(r) - d /\ k - d \in 1 .. Len(t) /\ (k - d) + d = k
    BY <1>1, <1>3, <2>0
  <2> QED BY <1>1, <1>a, <2>1
<1> QED BY <1>2, <1>3

\* The root's answer goes to the end of the trace.
LEMMA RootTraced ==
  ASSUME TraceInv, answered' = Append(answered, Root),
         trace' = Ring(trace, TraceCap, Len(answered) + 1)
  PROVE  TraceInv'
<1>0. /\ answered \in Seq(Agents) /\ trace \in Seq(Nat) /\ Len(trace) \in Nat
      /\ Len(trace) <= TraceCap /\ TraceCap \in Nat
  BY CapacityAssumption DEF TraceInv
<1>d. DOMAIN trace = 1 .. Len(trace)
  BY <1>0
<1>a. PICK new \in Nat : new = Len(answered) + 1
  BY <1>0
<1>1. /\ answered' \in Seq(Agents) /\ RootAnswers' = RootAnswers \cup {new}
      /\ \A n \in RootAnswers : n < new /\ Cardinality(After(RootAnswers', n)) = Cardinality(After(RootAnswers, n)) + 1
      /\ Cardinality(After(RootAnswers', new)) = 0
  BY <1>0, <1>a, RootAnswered
<1>2. CASE TraceCap = 0
  <2>1. trace' = trace /\ DOMAIN trace = {} /\ Len(trace) = 0
    BY <1>0, <1>d, <1>2 DEF Ring
  <2> QED BY <1>0, <1>1, <1>2, <2>1 DEF TraceInv
<1>3. CASE TraceCap # 0
  <2>0. trace \in Seq(Nat) /\ TraceCap \in Nat \ {0} /\ new \in Nat /\ Len(trace) <= TraceCap
    BY <1>0, <1>3
  <2> DEFINE t == Ring(trace, TraceCap, new)
  <2>a. PICK d : Moved(trace, t, d, new) /\ (d = 1 <=> Len(trace) = TraceCap)
    <3>1. CASE Len(trace) < TraceCap
      <4>1. Moved(trace, t, 0, new) /\ ~(0 = 1) /\ Len(trace) # TraceCap
        BY <2>0, <3>1, RingGrows
      <4> QED BY <4>1
    <3>2. CASE Len(trace) = TraceCap
      BY <2>0, <3>2, RingGrows
    <3> QED BY <1>0, <3>1, <3>2
  <2>b. trace' = t
    BY <1>a
  <2> HIDE DEF t
  <2>1. /\ d \in Nat /\ d <= 1 /\ (d = 1 <=> Len(trace) = TraceCap)
        /\ Len(t) = Len(trace) - d + 1 /\ t[Len(t)] = new /\ t \in Seq(Nat)
    BY <2>a DEF Moved
  <2>2. trace' = t /\ Len(t) \in Nat /\ DOMAIN t = 1 .. Len(t) /\ Len(t) <= TraceCap /\ Len(t) \in DOMAIN t
    <3>1. trace' = t /\ Len(t) \in Nat /\ DOMAIN t = 1 .. Len(t)
      BY <2>b, <2>1
    <3>2. Len(t) <= TraceCap /\ Len(t) >= 1
      BY <1>0, <1>3, <2>1
    <3> QED BY <3>1, <3>2
  <2>3. /\ \A k \in DOMAIN t :
             \/ k = Len(t) /\ t[k] = new
             \/ k < Len(t) /\ k + d \in DOMAIN trace /\ t[k] = trace[k + d]
        /\ \A k \in DOMAIN trace : k > d => k - d \in DOMAIN t /\ t[k - d] = trace[k]
    BY <2>0, <2>a, EntriesFrom
  <2>4. ASSUME NEW k \in DOMAIN t
        PROVE  t[k] \in RootAnswers' /\ Cardinality(After(RootAnswers', t[k])) = Len(t) - k
    <3>0. k \in Nat
      BY <2>2
    <3>1. CASE k = Len(t) /\ t[k] = new
      BY <1>1, <2>2, <3>1
    <3>2. CASE k + d \in DOMAIN trace /\ t[k] = trace[k + d]
      <4>1. trace[k + d] \in RootAnswers /\ Cardinality(After(RootAnswers, trace[k + d])) = Len(trace) - (k + d)
        BY <3>2 DEF TraceInv
      <4>2. Cardinality(After(RootAnswers', trace[k + d])) = Len(trace) - (k + d) + 1
        BY <1>1, <4>1
      <4>3. Len(trace) - (k + d) + 1 = Len(t) - k
        <5>1. Len(t) = Len(trace) - d + 1
          BY <2>1
        <5> QED BY <1>0, <2>1, <3>0, <5>1
      <4> QED BY <1>1, <3>2, <4>1, <4>2, <4>3
    <3> QED BY <2>3, <3>1, <3>2
  <2>5. ASSUME NEW k \in DOMAIN t, NEW l \in DOMAIN t, k < l
        PROVE  t[k] < t[l]
    <3>0. k \in Nat /\ l \in Nat /\ l <= Len(t)
      BY <2>2
    <3>1. k + d \in DOMAIN trace /\ t[k] = trace[k + d]
      BY <2>2, <2>3, <2>5, <3>0
    <3>2. CASE l = Len(t) /\ t[l] = new
      <4>1. trace[k + d] \in RootAnswers
        BY <3>1 DEF TraceInv
      <4> QED BY <1>1, <3>1, <3>2, <4>1
    <3>3. CASE l + d \in DOMAIN trace /\ t[l] = trace[l + d]
      <4>1. k + d < l + d
        BY <2>1, <2>5, <3>0
      <4> QED BY <3>1, <3>3, <4>1 DEF TraceInv
    <3> QED BY <2>3, <3>2, <3>3
  <2>6. ASSUME NEW n \in RootAnswers'
        PROVE  \/ \E k \in DOMAIN t : t[k] = n
               \/ Len(t) = TraceCap /\ \A k \in DOMAIN t : n < t[k]
    <3>1. CASE n = new
      BY <2>1, <2>2, <3>1
    <3>2. CASE \E k \in DOMAIN trace : k > d /\ trace[k] = n
      BY <2>3, <3>2
    <3>3. CASE /\ n \in RootAnswers /\ Len(trace) = TraceCap
               /\ \A k \in DOMAIN trace : k > d => n < trace[k]
      <4>1. Len(t) = TraceCap
        BY <1>0, <2>1, <2>2, <3>3
      <4>2. ASSUME NEW k \in DOMAIN t PROVE n < t[k]
        <5>1. CASE t[k] = new
          BY <1>1, <3>3, <5>1
        <5>2. CASE k + d \in DOMAIN trace /\ t[k] = trace[k + d]
          <6>1. k + d > d
            BY <2>1, <2>2
          <6> QED BY <3>3, <5>2, <6>1
        <5> QED BY <2>3, <5>1, <5>2
      <4> QED BY <4>1, <4>2
    <3>4. CASE n \in RootAnswers /\ \E k \in DOMAIN trace : ~(k > d) /\ trace[k] = n
      <4>1. PICK k \in DOMAIN trace : ~(k > d) /\ trace[k] = n
        BY <3>4
      <4>a. k \in Nat /\ k >= 1
        BY <1>d
      <4>2. k = 1 /\ d = 1
        BY <2>1, <4>1, <4>a
      <4>3. ASSUME NEW l \in DOMAIN trace, l > d PROVE n < trace[l]
        <5>1. k < l
          BY <4>2, <4>3
        <5> QED BY <4>1, <5>1 DEF TraceInv
      <4> QED BY <2>1, <3>3, <3>4, <4>2, <4>3
    <3>5. n \in RootAnswers => \/ \E k \in DOMAIN trace : trace[k] = n
                               \/ Len(trace) = TraceCap /\ \A k \in DOMAIN trace : n < trace[k]
      BY DEF TraceInv
    <3> QED BY <1>1, <3>1, <3>2, <3>3, <3>4, <3>5
  <2>7. trace' = t /\ t \in Seq(Nat) /\ Len(t) <= TraceCap
    BY <2>1, <2>2
  <2> QED BY <1>1, <2>4, <2>5, <2>6, <2>7 DEF TraceInv
<1> QED BY <1>2, <1>3

\* t is what is left of q when the first n elements are dropped.
Rest(t, q, n, c, S) == t \in Seq(S) /\ Len(t) = c /\ \A k \in 1 .. c : t[k] = q[n + k]

\* The elements of a sequence after the first n.
LEMMA Dropped ==
  ASSUME NEW S, NEW q \in Seq(S), NEW n \in Nat, NEW c \in Nat \ {0}, Len(q) = n + c
  PROVE  Rest(SubSeq(q, n + 1, Len(q)), q, n, c, S)
<1> DEFINE t == SubSeq(q, n + 1, Len(q))
<1>1. \A k \in n + 1 .. Len(q) : q[k] \in S
  OBVIOUS
<1>2. t \in Seq(S) /\ Len(t) = Len(q) - n
  BY <1>1
<1>3. ASSUME NEW k \in 1 .. c PROVE t[k] = q[n + k]
  <2>1. k \in 1 .. Len(q) - n /\ n + 1 + k - 1 = n + k
    OBVIOUS
  <2> QED BY <1>2, <2>1
<1>4. Len(t) = c
  BY <1>2
<1> HIDE DEF t
<1> QED BY <1>2, <1>3, <1>4 DEF t, Rest

\* The log keeps the latest entries.
LEMMA EntryLogged ==
  ASSUME LogInv, NEW a \in Nat, logged' = Append(logged, a), log' = Ring(log, LogCap, a)
  PROVE  LogInv'
<1>0. logged \in Seq(Nat) /\ Len(logged) \in Nat /\ LogCap \in Nat \ {0} /\ LogCap' = LogCap
  BY CapacityAssumption DEF LogInv, LogCap
<1> HIDE DEF LogCap
<1>1. logged' \in Seq(Nat) /\ Len(logged') = Len(logged) + 1
  BY <1>0
<1>2. log = Latest(logged, LogCap)
  BY DEF LogInv
<1>3. CASE Len(logged) < LogCap
  <2>1. log = logged
    BY <1>0, <1>2, <1>3 DEF Latest
  <2> QED BY <1>0, <1>1, <1>3, <2>1 DEF LogInv, Ring, Latest
<1>4. CASE Len(logged) >= LogCap
  <2> DEFINE n == Len(logged) - LogCap
  <2>1. n \in Nat
    BY <1>0, <1>4
  <2>2. /\ log \in Seq(Nat) /\ Len(log) = LogCap
        /\ \A k \in 1 .. LogCap : log[k] = logged[n + k]
    <3>1. CASE Len(logged) = LogCap
      BY <1>0, <1>2, <3>1 DEF Latest
    <3>2. CASE Len(logged) > LogCap
      <4>1. log = SubSeq(logged, n + 1, Len(logged))
        BY <1>0, <1>2, <3>2 DEF Latest
      <4>2. Len(logged) = n + LogCap
        BY <1>0
      <4> HIDE DEF n
      <4>3. Rest(SubSeq(logged, n + 1, Len(logged)), logged, n, LogCap, Nat)
        BY ONLY <1>0, <2>1, <4>2, Dropped
      <4> QED BY ONLY <4>1, <4>3 DEF Rest
    <3> QED BY <1>0, <1>4, <3>1, <3>2
  <2>3. log' = Append(Tail(log), a)
    BY <1>0, <2>2 DEF Ring
  <2>4. /\ Tail(log) \in Seq(Nat) /\ Len(Tail(log)) = LogCap - 1
        /\ \A k \in 1 .. LogCap - 1 : Tail(log)[k] = log[k + 1]
    BY <1>0, <2>2
  <2>5. /\ log' \in Seq(Nat) /\ Len(log') = LogCap /\ log'[LogCap] = a
        /\ \A k \in 1 .. LogCap - 1 : log'[k] = log[k + 1]
    BY <1>0, <2>3, <2>4
  <2> DEFINE t == SubSeq(logged', n + 2, Len(logged'))
  <2>6. Latest(logged', LogCap) = t
    <3>1. ~(Len(logged') <= LogCap) /\ Len(logged') - LogCap + 1 = n + 2
      BY <1>0, <1>1, <1>4
    <3> QED BY <3>1 DEF Latest
  <2>a. Len(logged) = n + LogCap
    BY <1>0
  <2> HIDE DEF n
  <2>7. /\ t \in Seq(Nat) /\ Len(t) = LogCap
        /\ \A k \in 1 .. LogCap : t[k] = logged'[n + 1 + k]
    <3>1. PICK m \in Nat : m = n + 1
      BY <2>1
    <3>2. Len(logged') = m + LogCap /\ m + 1 = n + 2
      BY <1>0, <1>1, <2>1, <2>a, <3>1
    <3>3. PICK q \in Seq(Nat) : q = logged' /\ Len(q) = m + LogCap
      BY <1>1, <3>2
    <3>4. /\ SubSeq(q, m + 1, Len(q)) \in Seq(Nat) /\ Len(SubSeq(q, m + 1, Len(q))) = LogCap
          /\ \A k \in 1 .. LogCap : SubSeq(q, m + 1, Len(q))[k] = q[m + k]
      <4>1. Rest(SubSeq(q, m + 1, Len(q)), q, m, LogCap, Nat)
        BY ONLY q \in Seq(Nat), m \in Nat, <1>0, <3>3, Dropped
      <4> QED BY ONLY <4>1 DEF Rest
    <3>5. SubSeq(q, m + 1, Len(q)) = t
      BY <3>2, <3>3
    <3> HIDE DEF t
    <3> QED BY <3>1, <3>3, <3>4, <3>5
  <2>8. \A k \in 1 .. LogCap : t[k] = log'[k]
    <3> SUFFICES ASSUME NEW k \in 1 .. LogCap PROVE logged'[n + 1 + k] = log'[k]
      BY <2>7
    <3>1. CASE k = LogCap
      <4>1. n + 1 + k = Len(logged) + 1
        BY <1>0, <2>1, <2>a, <3>1
      <4> QED BY <1>0, <2>5, <3>1, <4>1
    <3>2. CASE k # LogCap
      <4>1. k \in 1 .. LogCap - 1 /\ k + 1 \in 1 .. LogCap /\ n + (k + 1) \in 1 .. Len(logged)
        BY <1>0, <2>1, <2>a, <3>2
      <4>2. log'[k] = logged[n + (k + 1)]
        BY <2>2, <2>5, <4>1
      <4>3. n + 1 + k = n + (k + 1)
        BY <2>1
      <4> QED BY <1>0, <4>1, <4>2, <4>3
    <3> QED BY <3>1, <3>2
  <2>9. t = log'
    <3> HIDE DEF t
    <3> QED BY <2>5, <2>7, <2>8
  <2> QED BY <1>0, <1>1, <2>6, <2>9 DEF LogInv
<1> QED BY <1>0, <1>3, <1>4

\* A usable answer is entered at the end, an unusable one is discarded.
LEMMA EntriesStep ==
  ASSUME EntriesInv, [Next]_vars
  PROVE  EntriesInv'
<1> DEFINE new == Len(answered) + 1
<1>1. CASE UNCHANGED <<answered, discarded, logged>>
  BY <1>1 DEF EntriesInv
<1>2. ASSUME NEW a \in Agents, answered' = Append(answered, a)
      PROVE  /\ answered' \in Seq(Agents) /\ DOMAIN answered' = DOMAIN answered \cup {new}
             /\ new \notin DOMAIN answered /\ new \notin discarded /\ new \in Nat
             /\ \A n \in DOMAIN answered : n < new
  BY <1>2 DEF EntriesInv
<1>3. ASSUME NEW a \in Agents, Unusable(a) PROVE EntriesInv'
  <2>1. answered' = Append(answered, a) /\ discarded' = discarded \cup {new} /\ logged' = logged
    BY <1>3 DEF Unusable, Traced, countVars
  <2> HIDE DEF new
  <2> QED BY <1>2, <2>1 DEF EntriesInv
<1>4. ASSUME NEW a \in Agents, Usable(a) PROVE EntriesInv'
  <2>1. answered' = Append(answered, a) /\ discarded' = discarded /\ logged' = Append(logged, new)
    BY <1>4 DEF Usable, Traced
  <2>2. /\ answered' \in Seq(Agents) /\ DOMAIN answered' = DOMAIN answered \cup {new}
        /\ new \notin discarded /\ new \in Nat /\ \A n \in DOMAIN answered : n < new
    BY <1>2, <2>1
  <2> HIDE DEF new
  <2>3. /\ logged' \in Seq(Nat) /\ Len(logged') = Len(logged) + 1 /\ Len(logged) \in Nat
        /\ DOMAIN logged = 1 .. Len(logged) /\ DOMAIN logged' = 1 .. Len(logged) + 1
        /\ logged'[Len(logged) + 1] = new /\ \A k \in 1 .. Len(logged) : logged'[k] = logged[k]
    BY <2>1, <2>2 DEF EntriesInv
  <2>4. {logged'[k] : k \in DOMAIN logged'} = {logged[k] : k \in DOMAIN logged} \cup {new}
    <3>1. DOMAIN logged' = DOMAIN logged \cup {Len(logged) + 1}
      BY <2>3
    <3> QED BY <2>3, <3>1
  <2>5. {logged'[k] : k \in DOMAIN logged'} = DOMAIN answered' \ discarded'
    BY <2>1, <2>2, <2>4 DEF EntriesInv
  <2>6. \A k \in DOMAIN logged : logged[k] < new
    BY <2>2 DEF EntriesInv
  <2>7. ASSUME NEW k \in DOMAIN logged', NEW l \in DOMAIN logged', k < l PROVE logged'[k] < logged'[l]
    <3>1. k \in DOMAIN logged /\ (l \in DOMAIN logged \/ l = Len(logged) + 1)
      BY <2>3, <2>7
    <3> QED BY <2>3, <2>6, <2>7, <3>1 DEF EntriesInv
  <2> QED BY <2>1, <2>2, <2>3, <2>5, <2>7 DEF EntriesInv
<1>5. ASSUME NEW a \in Agents,
             \/ StartCall(a) \/ ProbeOk(a) \/ ProbeFails(a) \/ Wake(a) \/ Finish(a) \/ Completed(a)
             \/ \E k \in Kinds : AttemptFails(a, k)
             \/ \E status \in {"unauthorized", "other"} : Refused(a, status)
      PROVE  UNCHANGED <<answered, discarded, logged>>
  BY <1>5 DEF StartCall, ProbeOk, ProbeFails, Wake, Finish, Completed, AttemptFails, Refused, countVars
<1>6. CASE UNCHANGED vars
  BY <1>1, <1>6 DEF vars, countVars
<1> QED BY <1>1, <1>3, <1>4, <1>5, <1>6 DEF Next, CallStep, Answer

\* Every step keeps both.
LEMMA RingsStep ==
  ASSUME TraceInv, LogInv, [Next]_vars
  PROVE  TraceInv' /\ LogInv'
<1>1. ASSUME UNCHANGED <<trace, answered>> PROVE TraceInv'
  BY <1>1 DEF TraceInv, RootAnswers, AnswersTo, After
<1>2. ASSUME UNCHANGED <<log, logged>> PROVE LogInv'
  BY <1>2 DEF LogInv, LogCap
<1>3. ASSUME NEW a \in Agents, Traced(a) PROVE TraceInv'
  BY <1>3, OthersAnswered, RootTraced DEF Traced
<1>4. ASSUME NEW a \in Agents, Usable(a) PROVE TraceInv' /\ LogInv'
  <2>1. Len(answered) + 1 \in Nat
    BY DEF TraceInv
  <2> QED BY <1>3, <1>4, <2>1, EntryLogged DEF Usable, LogCap
<1>5. ASSUME NEW a \in Agents, Unusable(a) PROVE TraceInv' /\ LogInv'
  BY <1>2, <1>3, <1>5 DEF Unusable, countVars
<1>6. CASE UNCHANGED <<trace, answered, log, logged>>
  BY <1>1, <1>2, <1>6
<1>7. ASSUME NEW a \in Agents,
             \/ StartCall(a) \/ ProbeOk(a) \/ ProbeFails(a) \/ Wake(a) \/ Finish(a) \/ Completed(a)
             \/ \E k \in Kinds : AttemptFails(a, k)
             \/ \E status \in {"unauthorized", "other"} : Refused(a, status)
      PROVE  UNCHANGED <<trace, answered, log, logged>>
  BY <1>7 DEF StartCall, ProbeOk, ProbeFails, Wake, Finish, Completed, AttemptFails, Refused, countVars
<1>8. CASE UNCHANGED vars
  BY <1>6, <1>8 DEF vars, countVars
<1> QED BY <1>4, <1>5, <1>6, <1>7, <1>8 DEF Next, CallStep, Answer

\* A trace of which this is known holds the latest answers to the root.
LEMMA TraceLatest ==
  ASSUME TraceInv
  PROVE  {trace[k] : k \in DOMAIN trace} = {n \in RootAnswers : Cardinality(After(RootAnswers, n)) < TraceCap}
<1>0. /\ answered \in Seq(Agents) /\ Len(trace) \in Nat /\ DOMAIN trace = 1 .. Len(trace)
      /\ TraceCap \in Nat /\ Len(trace) <= TraceCap
  BY CapacityAssumption DEF TraceInv
<1>1. ASSUME NEW k \in DOMAIN trace
      PROVE  trace[k] \in RootAnswers /\ Cardinality(After(RootAnswers, trace[k])) < TraceCap
  <2>1. trace[k] \in RootAnswers /\ Cardinality(After(RootAnswers, trace[k])) = Len(trace) - k
    BY DEF TraceInv
  <2>2. k \in Nat /\ k >= 1
    BY <1>0
  <2> QED BY <1>0, <2>1, <2>2
<1>2. ASSUME NEW n \in RootAnswers, Cardinality(After(RootAnswers, n)) < TraceCap
      PROVE  \E k \in DOMAIN trace : trace[k] = n
  <2> SUFFICES ASSUME ~ \E k \in DOMAIN trace : trace[k] = n
               PROVE  FALSE
    OBVIOUS
  <2>1. Len(trace) = TraceCap /\ \A k \in DOMAIN trace : n < trace[k]
    BY DEF TraceInv
  <2>2. TraceCap > 0 /\ 1 \in DOMAIN trace
    BY <1>0, <1>2, <2>1, AfterFinite
  <2>3. trace[1] \in RootAnswers /\ Cardinality(After(RootAnswers, trace[1])) = TraceCap - 1 /\ n < trace[1]
    BY <2>1, <2>2 DEF TraceInv
  <2>4. n \in Nat /\ trace[1] \in Nat
    BY <1>0, <2>2, <2>3 DEF RootAnswers, AnswersTo
  <2>5. After(RootAnswers, trace[1]) \cup {trace[1]} \subseteq After(RootAnswers, n) /\ trace[1] \notin After(RootAnswers, trace[1])
    BY <1>0, <2>3, <2>4 DEF After, RootAnswers, AnswersTo
  <2>6. Cardinality(After(RootAnswers, trace[1]) \cup {trace[1]}) = TraceCap
    <3>1. IsFiniteSet(After(RootAnswers, trace[1]))
      BY <1>0, AfterFinite
    <3>2. Cardinality(After(RootAnswers, trace[1]) \cup {trace[1]}) = Cardinality(After(RootAnswers, trace[1])) + 1
      BY <2>5, <3>1, FS_AddElement
    <3> QED BY <1>0, <2>3, <3>2
  <2>7. Cardinality(After(RootAnswers, trace[1]) \cup {trace[1]}) <= Cardinality(After(RootAnswers, n))
    BY <1>0, <2>5, AfterFinite, FS_Subset
  <2> QED BY <1>0, <1>2, <2>6, <2>7, AfterFinite
<1> QED BY <1>1, <1>2

(***************************************************************************)
(* However calls, answers, ends of children and reports interleave, every  *)
(* answer to the root and its children is a token in the accumulator or in *)
(* the count of a child that has yet to report, once, unless it had no     *)
(* execute block; and the trace and the usage log hold the latest entries, *)
(* in order: the log one for each answer with an execute block, the trace  *)
(* one for each of the root's (run_turn, apply_event, ApiTrace, UsageLog). *)
(***************************************************************************)
THEOREM BooksKept == Spec => []BooksTrue
<1> DEFINE Inv == TokensInv /\ TraceInv /\ LogInv /\ EntriesInv
<1>1. Init => Inv
  <2> SUFFICES ASSUME Init PROVE Inv
    OBVIOUS
  <2>1. CountTypes /\ ToldEnded
    BY DEF Init, CountTypes, ToldEnded
  <2>2. Tokens(Untold, local) = {} /\ AnswersTo(Kin) = {} /\ AnswersTo(Kin) \cap discarded = {}
    <3>1. \A a \in Untold : {a} \X (1 .. local[a]) = {}
      BY DEF Init, Untold, Direct
    <3> QED BY <3>1 DEF Init, Tokens, AnswersTo
  <2>3. TokensConserved
    <3>1. acc = 0 /\ Cardinality({}) = 0
      BY FS_EmptySet DEF Init
    <3> QED BY <2>2, <3>1 DEF TokensConserved
  <2>4. TraceInv
    BY CapacityAssumption DEF Init, TraceInv, RootAnswers, AnswersTo
  <2>5. LogInv
    BY CapacityAssumption DEF Init, LogInv, Latest, LogCap
  <2>6. EntriesInv
    BY DEF Init, EntriesInv
  <2> QED BY <2>1, <2>3, <2>4, <2>5, <2>6 DEF TokensInv
<1>2. Inv /\ [Next]_vars => Inv'
  BY TokensStep, RingsStep, EntriesStep
<1>3. Inv => BooksTrue
  <2>1. TraceInv => \A k, l \in DOMAIN trace : k < l => trace[k] < trace[l]
    BY DEF TraceInv
  <2> QED BY <2>1, TraceLatest DEF TokensInv, LogInv, LogCap, EntriesInv, BooksTrue, RingsLatest
<1> QED BY <1>1, <1>2, <1>3, PTL DEF Spec
=============================================================================
