-------------------------------- MODULE Agent -------------------------------
(***************************************************************************)
(* AgentExecutor: turns that ask a model, run the tools its answer calls   *)
(* and ask again, over one registry and one LRU cache of tool results.     *)
(* Turns of one executor may run concurrently; execute takes &self.        *)
(*                                                                         *)
(* An answer of the model is [wellformed, calls]: whether quick-xml reads  *)
(* it to its end, and the complete calls in it, [tool, params, json], with *)
(* json "flat", "nested" (an object in the object) or "bad".               *)
(***************************************************************************)
EXTENDS Naturals, Sequences, FiniteSets, Selection

CONSTANTS
    Turns,          \* calls of execute
    Tools,          \* the names in the registry
    Answers,        \* what the model may answer
    Results,        \* what a tool may return, [success, output]
    MaxIterations,  \* AgentConfig::max_iterations
    Capacity        \* AgentConfig::cache_capacity

ASSUME AgentAssumption ==
    /\ MaxIterations \in Nat
    /\ Capacity \in Nat \ {0}    \* ResultCache::new unwraps a NonZeroUsize
    /\ \A a \in Answers : a.calls \in Seq({a.calls[i] : i \in DOMAIN a.calls})

VARIABLES
    cache,   \* the entries [key, result], the least recently used first
    turn,    \* turn[t]: how far execute has come
    ran      \* history: what tools were run for, and returned

agentVars == <<cache, turn, ran>>

Key(call) == <<call.tool, call.params>>
Calls == UNION {{a.calls[i] : i \in DOMAIN a.calls} : a \in Answers}
Rounds == [calls : Seq(Calls), results : Seq(Results)]

NewTurn ==
    [phase |-> "new", iteration |-> 0, conversation |-> <<>>,
     calls |-> <<>>, results |-> <<>>, outcome |-> "none"]

AgentTypeOK ==
    /\ cache \in Seq([key : {Key(c) : c \in Calls}, result : Results])
    /\ turn \in [Turns ->
        [phase : {"new", "thinking", "asking", "tools", "running", "over"},
         iteration : 0 .. MaxIterations + 1, conversation : Seq(Rounds),
         calls : Seq(Calls), results : Seq(Results),
         outcome : {"none", "text", "max", "error"}]]
    /\ ran \subseteq {Key(c) : c \in Calls} \X Results

AgentInit ==
    /\ cache = <<>>
    /\ turn = [t \in Turns |-> NewTurn]
    /\ ran = {}

-----------------------------------------------------------------------------

\* ToolCallParser::parse: XML first; when that fails or finds nothing, the
\* regular expression, whose parameters end at the first closing brace.
CallsWith(answer, json) ==
    Chosen(answer.calls, {i \in DOMAIN answer.calls : answer.calls[i].json \in json})

ParseXml(answer) == CallsWith(answer, {"flat", "nested"})
ParseRegex(answer) == CallsWith(answer, {"flat"})

Parse(answer) ==
    IF answer.wellformed /\ ParseXml(answer) # <<>> THEN ParseXml(answer)
    ELSE ParseRegex(answer)

Has(key) == \E i \in DOMAIN cache : cache[i].key = key
PlaceOf(key) == CHOOSE i \in DOMAIN cache : cache[i].key = key
Cached(key) == cache[PlaceOf(key)].result
Without(key) ==
    Chosen(cache, {i \in DOMAIN cache : cache[i].key # key})

\* LruCache::get makes the entry the most recent one; put evicts the oldest.
Touched(key) == Append(Without(key), [key |-> key, result |-> Cached(key)])
Put(key, result) ==
    LET rest == Without(key) IN
    Append(IF Len(rest) = Capacity THEN Tail(rest) ELSE rest,
           [key |-> key, result |-> result])

-----------------------------------------------------------------------------

Begin(t) ==
    /\ turn[t].phase = "new"
    /\ turn' = [turn EXCEPT ![t].phase = "thinking"]
    /\ UNCHANGED <<cache, ran>>

\* The head of the loop.
Ask(t) ==
    /\ turn[t].phase = "thinking"
    /\ turn' = IF turn[t].iteration + 1 > MaxIterations
               THEN [turn EXCEPT ![t].phase = "over", ![t].iteration = @ + 1,
                                 ![t].outcome = "max"]
               ELSE [turn EXCEPT ![t].phase = "asking", ![t].iteration = @ + 1]
    /\ UNCHANGED <<cache, ran>>

\* send_request returns a response with a text.
Answered(t, answer) ==
    /\ turn[t].phase = "asking"
    /\ turn' = [turn EXCEPT ![t] =
                IF Parse(answer) = <<>>
                THEN [@ EXCEPT !.phase = "over", !.outcome = "text"]
                ELSE [@ EXCEPT !.phase = "tools", !.calls = Parse(answer), !.results = <<>>]]
    /\ UNCHANGED <<cache, ran>>

\* It fails, or the response has no text: the `?` ends the turn.
ModelFails(t) ==
    /\ turn[t].phase = "asking"
    /\ turn' = [turn EXCEPT ![t].phase = "over", ![t].outcome = "error"]
    /\ UNCHANGED <<cache, ran>>

Pending(t) == turn[t].phase = "tools" /\ Len(turn[t].results) < Len(turn[t].calls)
NextCall(t) == turn[t].calls[Len(turn[t].results) + 1]

\* execute_single_tool finds the result of an earlier call.
Reuse(t) ==
    /\ Pending(t) /\ Has(Key(NextCall(t)))
    /\ turn' = [turn EXCEPT ![t].results = Append(@, Cached(Key(NextCall(t))))]
    /\ cache' = Touched(Key(NextCall(t)))
    /\ UNCHANGED ran

\* Mutant: the model is asked for another name, without counting it.
NotFoundRetries(t) ==
    /\ Pending(t) /\ ~Has(Key(NextCall(t)))
    /\ NextCall(t).tool \notin Tools
    /\ turn' = [turn EXCEPT ![t].phase = "asking"]
    /\ UNCHANGED <<cache, ran>>

\* No tool of that name: what the earlier tools returned is lost.
NotFound(t) ==
    /\ Pending(t) /\ ~Has(Key(NextCall(t)))
    /\ NextCall(t).tool \notin Tools
    /\ turn' = [turn EXCEPT ![t].phase = "over", ![t].outcome = "error"]
    /\ UNCHANGED <<cache, ran>>

Run(t) ==
    /\ Pending(t) /\ ~Has(Key(NextCall(t)))
    /\ NextCall(t).tool \in Tools
    /\ turn' = [turn EXCEPT ![t].phase = "running"]
    /\ UNCHANGED <<cache, ran>>

\* Mutant: results are cached by the name of the tool alone.
ReturnsByName(t, result) ==
    /\ turn[t].phase = "running"
    /\ turn' = [turn EXCEPT ![t].phase = "tools", ![t].results = Append(@, result)]
    /\ \E c \in {c \in Calls : c.tool = NextCall(t).tool} : cache' = Put(Key(c), result)
    /\ ran' = ran \union {<<Key(NextCall(t)), result>>}

\* The tool returns Ok, which may tell of a failure, and is cached for good.
Returns(t, result) ==
    /\ turn[t].phase = "running"
    /\ turn' = [turn EXCEPT ![t].phase = "tools", ![t].results = Append(@, result)]
    /\ cache' = Put(Key(NextCall(t)), result)
    /\ ran' = ran \union {<<Key(NextCall(t)), result>>}

\* It returns Err, for parameters it does not take.
ToolFails(t) ==
    /\ turn[t].phase = "running"
    /\ turn' = [turn EXCEPT ![t].phase = "over", ![t].outcome = "error"]
    /\ UNCHANGED <<cache, ran>>

\* All results are there: the answer and they join the conversation.
Converse(t) ==
    /\ turn[t].phase = "tools" /\ ~Pending(t)
    /\ turn' = [turn EXCEPT
                ![t].phase = "thinking",
                ![t].conversation =
                    Append(@, [calls |-> turn[t].calls, results |-> turn[t].results])]
    /\ UNCHANGED <<cache, ran>>

\* All that begins, the model and the tools answer.
Work(t) ==
    \/ Ask(t) \/ ModelFails(t) \/ Reuse(t) \/ NotFound(t) \/ Run(t)
    \/ ToolFails(t) \/ Converse(t)
    \/ \E answer \in Answers : Answered(t, answer)
    \/ \E result \in Results : Returns(t, result)

AgentNext == \E t \in Turns : Begin(t) \/ Work(t)

-----------------------------------------------------------------------------

\* The model is asked at most MaxIterations times in a turn, and each time but
\* the last leaves a round in the conversation.
AsksAreBounded ==
    \A t \in Turns :
        /\ turn[t].phase = "asking" => turn[t].iteration <= MaxIterations
        /\ Len(turn[t].conversation) <= MaxIterations

\* What the model is told of the tools is, call by call and in order, what
\* that very tool returned for those very parameters, if perhaps in an
\* earlier turn; and the cache, evictions included, never says otherwise.
ResultsAreTheCalls ==
    /\ \A t \in Turns : \A i \in DOMAIN turn[t].conversation :
        LET round == turn[t].conversation[i] IN
        /\ Len(round.results) = Len(round.calls)
        /\ \A j \in DOMAIN round.calls : <<Key(round.calls[j]), round.results[j]>> \in ran
    /\ \A i \in DOMAIN cache : <<cache[i].key, cache[i].result>> \in ran
    /\ \A i, j \in DOMAIN cache : cache[i].key = cache[j].key => i = j
    /\ Len(cache) <= Capacity

AgentInv == AgentTypeOK /\ AsksAreBounded /\ ResultsAreTheCalls

\* A turn that was begun ends, whatever the model answers.
TurnsEnd == \A t \in Turns : turn[t].phase = "thinking" ~> turn[t].phase = "over"

=============================================================================
