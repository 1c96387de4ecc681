------------------------------- MODULE HashRate -------------------------------
(***************************************************************************)
(* The arithmetic behind the hashrate that telemetry reports:              *)
(* process_hash_progress turns the hashes and milliseconds of a            *)
(* HASH_PROGRESS frame into a rate per second, and                         *)
(* stn_client_session_total_hashrate adds up the rates of the session      *)
(* list. Both work on uint64_t and saturate instead of wrapping. Here the  *)
(* largest integer is UIntMax and a second has Scale milliseconds; UIntMax *)
(* is at least Scale^3, as UINT64_MAX and 1000 are.                        *)
(***************************************************************************)
EXTENDS Integers, Sequences, SequencesExt

CONSTANTS
    UIntMax,        \* UINT64_MAX
    Scale,          \* 1000
    Inputs,         \* hashes and milliseconds a frame may carry
    MaxSessions     \* bound on the session list

ASSUME HashRateAssumption ==
    /\ UIntMax \in Nat /\ Scale \in Nat \ {0} /\ MaxSessions \in Nat \ {0}
    /\ UIntMax >= Scale * Scale * Scale
    /\ Inputs \subseteq 0 .. UIntMax

VARIABLES
    rates,      \* session->hashrate along the list, newest session first
    sample      \* the last frame that set a rate, and that rate

rateVars == <<rates, sample>>

NoSample == [hashes |-> 0, elapsed |-> 0, rate |-> 0]

RateInit == rates = <<>> /\ sample = NoSample

-----------------------------------------------------------------------------
(* Plausible error: the product is taken without a look at the remainder's  *)
(* size and wraps.                                                          *)
ExtraWrapped(remainder, elapsed) ==
    ((remainder * Scale) % (UIntMax + 1)) \div elapsed

(* The part of a second's hashes that the remainder stands for.             *)
Extra(remainder, elapsed) ==
    IF remainder <= UIntMax \div Scale
    THEN (remainder * Scale) \div elapsed
    ELSE LET extra == remainder \div ((elapsed \div Scale) + 1)
         IN IF extra > Scale - 1 THEN Scale - 1 ELSE extra

Saturated(a, b) == IF UIntMax - a < b THEN UIntMax ELSE a + b

Rate(hashes, elapsed) ==
    LET quotient == hashes \div elapsed
    IN CASE elapsed = 0 -> 0
         [] elapsed # 0 /\ quotient > UIntMax \div Scale -> UIntMax
         [] OTHER -> Saturated(quotient * Scale,
                               Extra(hashes % elapsed, elapsed))

(* stn_client_session_total_hashrate: the walk ends where the sum would     *)
(* pass UIntMax; no further rate would change the saturated sum.            *)
TotalHashrate(list) ==
    LET total[i \in 0 .. Len(list)] ==
            IF i = 0 THEN 0 ELSE Saturated(total[i - 1], list[i])
    IN total[Len(list)]

-----------------------------------------------------------------------------
(* A session joins at the head of the list with rate 0.                     *)
Join ==
    /\ Len(rates) < MaxSessions
    /\ rates' = <<0>> \o rates
    /\ UNCHANGED sample

Leave(i) ==
    /\ rates' = RemoveAt(rates, i)
    /\ UNCHANGED sample

Progress(i, hashes, elapsed) ==
    /\ rates' = [rates EXCEPT ![i] = Rate(hashes, elapsed)]
    /\ sample' = [hashes |-> hashes, elapsed |-> elapsed, rate |-> rates'[i]]

(* clear_client_jobs.                                                       *)
ClearJobs ==
    /\ rates' = [i \in DOMAIN rates |-> 0]
    /\ UNCHANGED sample

RateNext ==
    \/ Join \/ ClearJobs
    \/ \E i \in DOMAIN rates : Leave(i)
    \/ \E i \in DOMAIN rates, hashes, elapsed \in Inputs :
           Progress(i, hashes, elapsed)

RateSpec == RateInit /\ [][RateNext]_rateVars

-----------------------------------------------------------------------------
(* The rate process_hash_progress stores never exceeds hashes per second    *)
(* computed without any bound on integers, cut off at UIntMax; it falls     *)
(* short of that by at most one, and only for a remainder too large to be   *)
(* multiplied.                                                              *)
RateAccurate ==
    sample.elapsed # 0 =>
        LET exact == (sample.hashes * Scale) \div sample.elapsed
            best == IF exact > UIntMax THEN UIntMax ELSE exact
            large == sample.hashes % sample.elapsed > UIntMax \div Scale
        IN /\ sample.rate <= best
           /\ sample.rate >= (IF large THEN best - 1 ELSE best)

(* The sum of a list of rates, without any bound on integers.               *)
ExactTotal(list) ==
    LET sum[i \in 0 .. Len(list)] ==
            IF i = 0 THEN 0 ELSE sum[i - 1] + list[i]
    IN sum[Len(list)]

(* The total telemetry is handed is the sum of the sessions' rates cut off  *)
(* at UIntMax, wherever in the list the sum passes it.                      *)
TotalSaturates ==
    LET sum == ExactTotal(rates)
    IN TotalHashrate(rates) = IF sum > UIntMax THEN UIntMax ELSE sum

(* What telemetry reports of the miners' speed is exact at the width of the *)
(* code's integers: each session's rate and their sum.                      *)
HashratesExact == RateAccurate /\ TotalSaturates

=============================================================================
