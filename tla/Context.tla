------------------------------- MODULE Context ------------------------------
(***************************************************************************)
(* What the context manager drops of a conversation that is too long:      *)
(* SlidingWindow::optimize, Tokenizer::truncate_messages and, with the     *)
(* count of four characters a token, Tokenizer::truncate_text.             *)
(*                                                                         *)
(* A message is its role and its token count.  A result is the places of   *)
(* the messages kept, in the order they are kept in, and the number of     *)
(* dropped messages that its notice tells: 0 where there is no notice.     *)
(***************************************************************************)
EXTENDS Naturals, Sequences, SequencesExt, Selection

CONSTANTS
    Conversations,   \* the conversations tried
    Texts,           \* the texts tried: [length, stops], stops ends of sentences
    Budgets,         \* the token budgets tried
    NoticeTokens,    \* what a notice costs
    LookBack         \* how far back a sentence may end (100 in the code)

\* Messages are a slice; lengths and counts are of type usize.
ASSUME ContextAssumption ==
    /\ \A ms \in Conversations : ms \in Seq([role : {ms[i].role : i \in DOMAIN ms}, tokens : Nat])
    /\ \A text \in Texts : text.length \in Nat /\ text.stops \subseteq Nat
    /\ Budgets \subseteq Nat
    /\ NoticeTokens \in Nat /\ LookBack \in Nat

VARIABLE job   \* a call of one of the three, and what it returned

contextVars == <<job>>

Role(ms, i) == ms[i].role
All(ms) == [i \in DOMAIN ms |-> i]
SystemOf(ms) == Chosen(All(ms), {i \in DOMAIN ms : Role(ms, i) = "system"})
OthersOf(ms) == Chosen(All(ms), {i \in DOMAIN ms : Role(ms, i) # "system"})

Minus(a, b) == IF a > b THEN a - b ELSE 0

\* The last n of some places, and what the n-th from the end costs.
LastOf(places, n) == SubSeq(places, Len(places) - n + 1, Len(places))
Price(ms, places, n) == ms[places[Len(places) - n + 1]].tokens

\* What the messages at some places cost.
Cost(ms, places) ==
    LET paid[n \in 0 .. Len(places)] ==
            IF n = 0 THEN 0 ELSE paid[n - 1] + Price(ms, places, n)
    IN paid[Len(places)]

\* Mutant: a message that is too large is passed over, and older ones kept.
NewestSkipping(ms, places, budget) ==
    LET step(acc, i) ==
            IF acc.cost + ms[i].tokens > budget THEN acc
            ELSE [acc EXCEPT !.cost = @ + ms[i].tokens, !.kept = <<i>> \o @]
    IN FoldLeft(step, [cost |-> 0, kept |-> <<>>], Reverse(places)).kept

\* From the newest to the oldest, up to the first that does not fit.
Newest(ms, places, budget) ==
    LET seen[n \in 0 .. Len(places)] ==
            IF n = 0 THEN [cost |-> 0, kept |-> 0, full |-> FALSE]
            ELSE LET acc == seen[n - 1]
                     cost == acc.cost + Price(ms, places, n)
                 IN IF acc.full \/ cost > budget
                    THEN [cost |-> acc.cost, kept |-> acc.kept, full |-> TRUE]
                    ELSE [cost |-> cost, kept |-> acc.kept + 1, full |-> FALSE]
    IN LastOf(places, seen[Len(places)].kept)

Kept(places, told) == [places |-> places, told |-> told]

\* SlidingWindow::optimize; a system message is a message like the others.
Optimize(ms, budget) ==
    LET kept == Newest(ms, All(ms), budget)
    IN Kept(kept, Len(ms) - Len(kept))

\* Tokenizer::truncate_messages.  How many are lost is guessed before they are
\* chosen, at one token each, and what the guess takes up is not given back.
TruncateMessages(ms, budget) ==
    LET system == SystemOf(ms)
        others == OthersOf(ms)
        room == Minus(budget, Cost(ms, system))
        guessed == Min({Len(others), room})
        lost == Len(others) - guessed
        spent == guessed + (IF lost > 0 THEN NoticeTokens ELSE 0)
    IN CASE Cost(ms, All(ms)) <= budget -> Kept(All(ms), 0)
         [] Cost(ms, All(ms)) > budget /\ room = 0 -> Kept(system, 0)
         [] OTHER -> Kept(system \o Newest(ms, others, Minus(room, spent)), lost)

\* count_tokens without an encoding for the model.
CountTokens(chars) == Max({chars \div 4, 1})

\* find_sentence_boundary, for places from 0.
SentenceBoundary(text, start) ==
    LET ends == {i \in text.stops : i < start /\ i + LookBack >= start}
    IN IF ends = {} THEN start ELSE Max(ends) + 1

\* Tokenizer::truncate_text: the place of the first character kept.  The
\* floating point factors 0.9 and budget / tokens are taken as exact.
TruncateText(text, budget) ==
    LET tokens == CountTokens(text.length)
        keep == (text.length * budget * 9) \div (tokens * 10)
        start == Minus(text.length, Min({keep, 4 * Minus(budget, NoticeTokens)}))
    IN IF tokens <= budget THEN 0
       ELSE IF start > 0 THEN SentenceBoundary(text, start) ELSE 0

ContextInit == job = [what |-> "none"]

Call(call) == job.what = "none" /\ job' = call

ContextNext ==
    \E budget \in Budgets :
        \/ \E ms \in Conversations :
            \/ Call([what |-> "optimize", messages |-> ms, budget |-> budget,
                     result |-> Optimize(ms, budget)])
            \/ Call([what |-> "truncate", messages |-> ms, budget |-> budget,
                     result |-> TruncateMessages(ms, budget)])
        \/ \E text \in Texts :
            Call([what |-> "text", text |-> text, budget |-> budget,
                  start |-> TruncateText(text, budget)])

-----------------------------------------------------------------------------

\* How many of the last of some places a budget pays for.
Affordable(ms, places, budget) ==
    Max({n \in 0 .. Len(places) : Cost(ms, LastOf(places, n)) <= budget})

OptimizeKeeps ==
    LET ms == job.messages
        kept == job.result.places
    IN /\ kept = LastOf(All(ms), Affordable(ms, All(ms), job.budget))
       /\ job.result.told = Len(ms) - Len(kept)

TruncateKeeps ==
    LET ms == job.messages
        places == job.result.places
        kept == Chosen(places, {k \in DOMAIN places : Role(ms, places[k]) # "system"})
    IN /\ kept = LastOf(OthersOf(ms), Len(kept))
       /\ {i \in DOMAIN ms : Role(ms, i) = "system"} \subseteq {places[k] : k \in DOMAIN places}
       /\ Cost(ms, places) <= Max({job.budget, Cost(ms, SystemOf(ms))})
       /\ (\A i \in DOMAIN ms : ms[i].tokens > 0)
              => job.result.told <= Len(ms) - Len(places)

TextKeeps ==
    LET start == job.start IN
    /\ start <= job.text.length
    /\ start = 0 <=> job.text.length = 0 \/ CountTokens(job.text.length) <= job.budget
    /\ CountTokens(Minus(job.text.length, start + LookBack)) <= Max({job.budget, 1})

\* What is kept of a conversation is its newest part without a gap, no more of
\* it than the budget pays for; the window keeps all the budget pays for and
\* tells exactly how much is gone; truncate_messages keeps every system message
\* as well and, where no message is empty, never tells of more than are gone.
\* Of a text, what is kept exceeds the budget by no more than the beginning of
\* a sentence.
ContextKept ==
    /\ job.what = "optimize" => OptimizeKeeps
    /\ job.what = "truncate" => TruncateKeeps
    /\ job.what = "text" => TextKeeps

\* tokenizer.rs: "A truncation notice is inserted after the system message."
\* The notice is left out when the messages are large and few.
TruncationIsTold ==
    job.what = "truncate" /\ Len(job.result.places) < Len(job.messages) => job.result.told > 0

=============================================================================
