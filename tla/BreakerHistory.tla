--------------------------- MODULE BreakerHistory ---------------------------
(***************************************************************************)
(* ProviderManager with a history variable, its properties, and the        *)
(* refinement of BreakerContract.                                          *)
(***************************************************************************)
EXTENDS ProviderManager, Sequences

VARIABLE
    window        \* history: the last reports since breaker p changed state

hvars == <<breakers, inflight, window>>

\* What the contract sees of the breakers: the stamp counts while one is open.
WaitOf(b) == IF b.state = "Open" THEN b.last_failure ELSE 0
Gates == [p \in Registered |-> breakers[p].state]
Waits == [p \in Registered |-> WaitOf(breakers[p])]

Contract == INSTANCE BreakerContract WITH gate <- Gates, wait <- Waits

HInit == Init /\ window = [p \in Registered |-> <<>>]

Outcome(is_success) == IF is_success THEN "success" ELSE "failure"

Forget(p) == window' = [window EXCEPT ![p] = <<>>]

HAdmit(p) ==
    /\ Admit(p)
    /\ IF breakers'[p].state = breakers[p].state THEN UNCHANGED window ELSE Forget(p)

\* An open breaker ignores reports, so they are not part of its history.
HReport(p, is_success) ==
    /\ Report(p, is_success)
    /\ CASE breakers'[p].state # breakers[p].state -> Forget(p)
         [] breakers[p].state = "Open" -> UNCHANGED window
         [] OTHER -> window' = [window EXCEPT ![p] = Contract!Recent(p, @, Outcome(is_success))]

HNext ==
    \/ \E p \in Registered : HAdmit(p)
    \/ \E n \in Names : Refuse(n) /\ UNCHANGED window
    \/ \E p \in Registered, is_success \in BOOLEAN : HReport(p, is_success)
    \/ \E p \in Registered : Abandon(p) /\ UNCHANGED window
    \/ Elapse /\ UNCHANGED window

\* Time passes, and every wait for a provider ends, with an answer or with the
\* 30 s TimeoutLayer of build_router that drops the waiting future.
Fairness ==
    /\ WF_hvars(Elapse /\ UNCHANGED window)
    /\ \A p \in Registered :
        WF_hvars(\/ \E is_success \in BOOLEAN : HReport(p, is_success)
                 \/ Abandon(p) /\ UNCHANGED window)

HSpec == HInit /\ [][HNext]_hvars /\ Fairness

-----------------------------------------------------------------------------

\* Window w ends in exactly k failures.
FailuresAtTheEnd(w, k) ==
    /\ k <= Len(w)
    /\ \A i \in (Len(w) - k + 1) .. Len(w) : w[i] = "failure"
    /\ k = Len(w) \/ w[Len(w) - k] = "success"

\* What a breaker's counters say of its history: a closed one counts the
\* failures since the last success in sight, a half-open one has seen its
\* successes and nothing else, an open one starts its history afresh.
CountsTheRun(p, b, w) ==
    /\ Len(w) <= Contract!Width(p)
    /\ b.state = "Open" => w = <<>>
    /\ b.state = "HalfOpen" =>
        /\ Len(w) = b.success_count
        /\ \A i \in 1 .. Len(w) : w[i] = "success"
    /\ b.state = "Closed" => FailuresAtTheEnd(w, b.failure_count)

\* Every breaker's counters agree with what was really reported to it.
CountersTellHistory ==
    \A p \in Registered : CountsTheRun(p, breakers[p], window[p])

-----------------------------------------------------------------------------

\* The breakers do what the contract says, whatever order concurrent callers
\* ask, answer, vanish and let time pass in: they trip on a run of failures
\* only, stay shut for the whole wait, and close on a run of successes only.
ImplementsContract == Contract!Spec

\* A provider that stops failing is served again: once no call of it fails or
\* is dropped any more, and as long as requests keep asking for it, its
\* breaker is closed again and again, from wherever its past left it.
FailsOrIsLost(p) == HReport(p, FALSE) \/ Abandon(p)

RecoversUnderTraffic ==
    \A p \in Registered :
        (WF_hvars(HAdmit(p)) /\ <>[][~FailsOrIsLost(p)]_hvars)
            => []<>(breakers[p].state = "Closed")

=============================================================================
