------------------------------ MODULE RpcClient ------------------------------
(***************************************************************************)
(* worker/rpc: the JSON-RPC client of one endpoint and one method class.   *)
(* Its pacer (limiter.ts) spaces the calls, halves the rate on a 429 and    *)
(* lets it creep back; call (client.ts) retries throttled answers and      *)
(* transient failures a bounded number of times.  A lane awaits each call   *)
(* before it makes the next one and each cluster has clients of its own     *)
(* (run.ts), so a pacer serves one caller at a time.                        *)
(*                                                                         *)
(* Rates are calls per minute and times are tenths of a second; instants   *)
(* are kept relative to now.  The development-only transaction cache is     *)
(* not modelled.                                                           *)
(***************************************************************************)
EXTENDS Integers, Sequences

CONSTANTS
    BaseRate,       \* heavyRps or lightRps
    MinRate,        \* MIN_RATE: 15 calls per minute
    CreepAfter,     \* successes before the rate creeps up: 20
    Max429,         \* max429Retries: 6
    Backoffs,       \* BACKOFF_5XX_MS
    RetryAfters,    \* the pauses a 429 may ask for (10 s when it names none)
    Durations       \* how long a request may take, up to its timeout

ASSUME RpcAssumption ==
    /\ MinRate \in Nat \ {0} /\ BaseRate \in Nat /\ BaseRate >= MinRate
    /\ CreepAfter \in Nat \ {0} /\ Max429 \in Nat
    /\ Backoffs \in Seq(Nat)
    /\ RetryAfters \subseteq Nat /\ Durations \subseteq Nat

VARIABLES
    rate, successes, nextIn,    \* the pacer; nextIn is nextAt - now, or 0 when past
    caller,                     \* "idle", "take" or "sent"
    throttled, transient,       \* the retries of this call so far
    posts,                      \* the requests of this call so far
    owed                        \* history: how long the endpoint must still be left alone

rpcVars == <<rate, successes, nextIn, caller, throttled, transient, posts, owed>>

Minute == 600
Later(a, b) == IF a >= b THEN a ELSE b
Lower(a, b) == IF a <= b THEN a ELSE b
After(wait, time) == Later(0, wait - time)

\* The slot a call reserves: 1 / rate of a second, here in tenths.
Interval(r) == Minute \div r

RpcInit ==
    /\ rate = BaseRate /\ successes = 0 /\ nextIn = 0
    /\ caller = "idle"
    /\ throttled = 0 /\ transient = 0 /\ posts = 0 /\ owed = 0

Call ==
    /\ caller = "idle"
    /\ caller' = "take"
    /\ throttled' = 0 /\ transient' = 0 /\ posts' = 0
    /\ UNCHANGED <<rate, successes, nextIn, owed>>

\* Pacer.take: the caller sleeps until its slot; the next slot is one interval
\* later.
Take ==
    /\ caller = "take"
    /\ caller' = "sent"
    /\ nextIn' = Interval(rate)
    /\ owed' = Interval(rate)
    /\ posts' = posts + 1
    /\ UNCHANGED <<rate, successes, throttled, transient>>

\* What a caller sleeping for `time` does to the instants.
Passes(time) ==
    /\ nextIn' = After(nextIn, time)
    /\ owed' = After(owed, time)

\* The call returns or throws.
Settle == caller' = "idle" /\ UNCHANGED <<throttled, transient, posts>>

\* Pacer.succeeded.  At the configured rate the count has no reader until a 429
\* resets it: it stops at CreepAfter here.
RateSucceeds ==
    IF successes + 1 >= CreepAfter /\ rate < BaseRate
    THEN /\ rate' = Lower(BaseRate, (rate * 3) \div 2)
         /\ successes' = 0
    ELSE /\ successes' = IF successes < CreepAfter THEN successes + 1 ELSE successes
         /\ rate' = rate

AnswerOk(time) ==
    /\ caller = "sent"
    /\ Passes(time)
    /\ RateSucceeds
    /\ Settle

\* A seeded fault: the server's pause replaces the planned slot.
PushedByServer(time, pause) == pause

\* The next slot after a 429: not before the one the pacer had planned.
Pushed(time, pause) == Later(After(nextIn, time), pause)

\* A 429, as the HTTP status or as the code of a JSON-RPC error.
Answer429(time, pause) ==
    /\ caller = "sent"
    /\ IF throttled >= Max429
       THEN Passes(time) /\ Settle /\ UNCHANGED <<rate, successes>>
       ELSE /\ throttled' = throttled + 1
            /\ rate' = Later(MinRate, rate \div 2)
            /\ successes' = 0
            /\ nextIn' = Pushed(time, pause)
            /\ owed' = Later(After(owed, time), pause)
            /\ caller' = "take"
            /\ UNCHANGED <<transient, posts>>

\* A network error, a timeout, a 5xx or a body that is not JSON.
AnswerFails(time) ==
    /\ caller = "sent"
    /\ IF transient < Len(Backoffs)
       THEN /\ transient' = transient + 1
            /\ Passes(time + Backoffs[transient + 1])
            /\ caller' = "take"
            /\ UNCHANGED <<throttled, posts>>
       ELSE Passes(time) /\ Settle
    /\ UNCHANGED <<rate, successes>>

\* A JSON-RPC error other than 429, or another HTTP status: thrown at once.
AnswerRefused(time) ==
    /\ caller = "sent"
    /\ Passes(time)
    /\ Settle
    /\ UNCHANGED <<rate, successes>>

\* Time passes between two calls.
Elsewhere(time) ==
    /\ caller = "idle"
    /\ Passes(time)
    /\ UNCHANGED <<rate, successes, caller, throttled, transient, posts>>

RpcNext ==
    \/ Call \/ Take
    \/ \E time \in Durations :
        \/ AnswerOk(time) \/ AnswerFails(time) \/ AnswerRefused(time)
        \/ \E pause \in RetryAfters : Answer429(time, pause)
        \/ Elsewhere(time)

RpcSpec == RpcInit /\ [][RpcNext]_rpcVars

-----------------------------------------------------------------------------

RpcTypeOK ==
    /\ rate \in Nat /\ nextIn \in Nat /\ owed \in Nat
    /\ successes \in 0 .. CreepAfter /\ throttled \in Nat /\ transient \in Nat /\ posts \in Nat
    /\ caller \in {"idle", "take", "sent"}

\* The next slot never comes before the interval reserved by the last request
\* has passed, nor before the pause a 429 asked for, whatever answers, retries
\* and idle times lie in between.
SlotsAreSpaced == owed <= nextIn

\* The pacer never exceeds the configured rate and never falls below the floor.
RateInRange == MinRate <= rate /\ rate <= BaseRate

\* Each repeated request is paid for by one of the two retry counters, and
\* neither passes its limit: a call makes at most 1 + Max429 + 3 requests.
RetriesAreBounded ==
    /\ throttled <= Max429 /\ transient <= Len(Backoffs)
    /\ caller = "take" => posts = throttled + transient
    /\ caller = "sent" => posts = throttled + transient + 1

\* RpcClient.call and Pacer keep an endpoint's rate and its pauses, and a call
\* ends after a bounded number of requests.
RpcInv == RpcTypeOK /\ SlotsAreSpaced /\ RateInRange /\ RetriesAreBounded
=============================================================================
