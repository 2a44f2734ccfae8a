------------------------------- MODULE Routing ------------------------------
(***************************************************************************)
(* PricingRegistry, the statistics of QoSObservatory that routing reads,   *)
(* and SmartRoutingEngine::select_candidates with the one strategy its     *)
(* callers pass, LowestCost.                                               *)
(*                                                                         *)
(* A candidate is a key: a provider and a model of it.  Latency statistics *)
(* only feed warnings in the log and strategies nothing uses: left out.    *)
(***************************************************************************)
EXTENDS Naturals, Sequences, FiniteSets

CONSTANTS
    Keys,   \* candidates, records with a field provider
    Tiers   \* the pricing tiers AppState::new loads: [keys |-> those the
            \* provider and model pattern match, cost |-> price], in order

ASSUME TiersAssumption == Tiers \in Seq([keys : SUBSET Keys, cost : Nat])

QosStats == [sample_count : Nat, error_count : Nat]

\* A key nothing was observed of has no entry, which reads like this one.
NoStats == [sample_count |-> 0, error_count |-> 0]

\* Mutant: a success takes an error back, with no floor at zero.
ObservedForgiving(s, is_error) ==
    [sample_count |-> s.sample_count + 1,
     error_count  |-> IF is_error THEN s.error_count + 1 ELSE s.error_count - 1]

Observed(s, is_error) ==
    [sample_count |-> s.sample_count + 1,
     error_count  |-> s.error_count + (IF is_error THEN 1 ELSE 0)]

\* retain(): out when half of the samples, never aged or reset, were errors.
Excluded(s) == s.sample_count > 0 /\ 2 * s.error_count >= s.sample_count

\* The first tier that matches; MISSING PRICING DATA costs nothing.
CalculateCost(k) ==
    LET matching == {i \in 1 .. Len(Tiers) : k \in Tiers[i].keys} IN
    IF matching = {} THEN 0
    ELSE Tiers[CHOOSE i \in matching : \A j \in matching : i <= j].cost

\* sort_by is stable: equal costs keep the caller's order.
RanksBefore(candidates, i, j) ==
    \/ CalculateCost(candidates[i]) < CalculateCost(candidates[j])
    \/ CalculateCost(candidates[i]) = CalculateCost(candidates[j]) /\ i < j

SelectCandidates(candidates, stats) ==
    LET kept == {i \in 1 .. Len(candidates) : ~Excluded(stats[candidates[i]])}
        rank(i) == 1 + Cardinality({j \in kept : RanksBefore(candidates, j, i)})
    IN [n \in 1 .. Cardinality(kept) |-> candidates[CHOOSE i \in kept : rank(i) = n]]

=============================================================================
