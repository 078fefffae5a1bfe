------------------------------ MODULE MqRate ------------------------------
(***************************************************************************)
(* The rate window of one queue of @pg-prime/mq: rate_window, rate_count   *)
(* and limited_until of its row in queues, on the database clock           *)
(* (packages/pg-prime-mq/src/sql/claim.ts; a group keeps the same columns  *)
(* by the same arithmetic).                                                *)
(*                                                                         *)
(* now() is the time a statement began, not the time it gets the lock on   *)
(* the row, so claims run in lock order with times out of order.           *)
(***************************************************************************)
EXTENDS Integers, FiniteSets

CONSTANTS
    Claimer,    \* concurrent connections that claim
    None,       \* SQL NULL
    Rates,      \* rates deployments declare: records [max, ms], or None
    Batch,      \* free slots of a claim: ClaimOptions.n
    Pauses,     \* ms of ctx.rateLimit
    MaxInt,     \* bound: the largest int4, 2^31 - 1 in the database
    MaxClock    \* bound: how long the database clock runs

ASSUME RateAssumption ==
    /\ Rates \subseteq [max : Nat \ {0}, ms : Nat \ {0}] \cup {None} /\ Rates # {}
    /\ None \notin Nat /\ \A r \in Rates : r = None <=> r \notin [max : Nat, ms : Nat]
    /\ Batch \in Nat \ {0} /\ Pauses \subseteq Nat
    /\ MaxInt \in Nat /\ MaxClock \in Nat

VARIABLES
    clock,          \* the database clock
    rate,           \* queues.rate_max and rate_ms
    window,         \* queues.rate_window, a time or None
    count,          \* queues.rate_count
    limitedUntil,   \* queues.limited_until; -infinity is 0
    began,          \* now() of each claimer's open statement, or None
    taken,          \* messages claimed since each window began
    failed          \* did a claim statement raise an error?

vars == <<clock, rate, window, count, limitedUntil, began, taken, failed>>

Init ==
    /\ clock = 0
    /\ rate \in Rates
    /\ window = None /\ count = 0 /\ limitedUntil = 0
    /\ began = [c \in Claimer |-> None]
    /\ taken = [t \in 0..MaxClock |-> 0]
    /\ failed = FALSE

Tick ==
    /\ clock < MaxClock /\ clock' = clock + 1
    /\ UNCHANGED <<rate, window, count, limitedUntil, began, taken, failed>>

Begin(c) ==
    /\ began[c] = None
    /\ began' = [began EXCEPT ![c] = clock]
    /\ UNCHANGED <<clock, rate, window, count, limitedUntil, taken, failed>>

\* lockedQueue: the window is over.  Without a rate, window + rate_ms is NULL
\* and so is the comparison.
Fresh(now) == window = None \/ (rate # None /\ window + rate.ms <= now)

\* Mutant: the count is of another time than the window.
UsedByClock(now) == IF Fresh(clock) THEN 0 ELSE count

Used(now) == IF Fresh(now) THEN 0 ELSE count

\* globalFree: greatest(0, least(n, rate_max - used)), no limit without a rate.
Free(now) ==
    LET left == IF rate = None THEN Batch ELSE rate.max - Used(now)
    IN IF limitedUntil > now \/ left < 0 THEN 0
       ELSE IF left < Batch THEN left ELSE Batch

\* queueBump.
Bump(now, n) ==
    /\ window' = IF Fresh(now) THEN now ELSE window
    /\ count' = Used(now) + n
    /\ limitedUntil' = IF rate # None /\ rate.max <= Used(now) + n
                       THEN (IF Fresh(now) THEN now ELSE window) + rate.ms
                       ELSE limitedUntil

\* The statement gets the row lock and claims n ready messages.
Claim(c, n) ==
    LET now == began[c]
    IN /\ now # None
       /\ n \in 1..Free(now) /\ Used(now) + n <= MaxInt
       /\ Bump(now, n)
       /\ taken' = [taken EXCEPT ![window'] = @ + n]
       /\ began' = [began EXCEPT ![c] = None]
       /\ UNCHANGED <<clock, rate, failed>>

\* Nothing is free, or nothing is ready.
ClaimNothing(c) ==
    /\ began[c] # None
    /\ began' = [began EXCEPT ![c] = None]
    /\ UNCHANGED <<clock, rate, window, count, limitedUntil, taken, failed>>

\* "integer out of range": the statement is undone.
ClaimRaises(c) ==
    LET now == began[c]
    IN /\ now # None
       /\ \E n \in 1..Free(now) : Used(now) + n > MaxInt
       /\ failed' = TRUE
       /\ began' = [began EXCEPT ![c] = None]
       /\ UNCHANGED <<clock, rate, window, count, limitedUntil, taken>>

\* Mutant: the last one to limit the queue wins.
RateLimitLast(ms) ==
    /\ limitedUntil' = clock + ms
    /\ UNCHANGED <<clock, rate, window, count, began, taken, failed>>

\* moveSql with limitMs: greatest(limited_until, now() + ms).
RateLimit(ms) ==
    /\ limitedUntil' = IF limitedUntil > clock + ms THEN limitedUntil ELSE clock + ms
    /\ UNCHANGED <<clock, rate, window, count, began, taken, failed>>

\* upsertQueue: a process declares the rate; declaring none lifts the limit.
UpsertQueue(r) ==
    /\ rate' = r
    /\ limitedUntil' = IF r = None THEN 0 ELSE limitedUntil
    /\ UNCHANGED <<clock, window, count, began, taken, failed>>

Next ==
    \/ Tick
    \/ \E c \in Claimer : Begin(c) \/ ClaimNothing(c) \/ ClaimRaises(c)
    \/ \E c \in Claimer, n \in 1..Batch : Claim(c, n)
    \/ \E ms \in Pauses : RateLimit(ms)
    \/ \E r \in Rates : UpsertQueue(r)

Spec == Init /\ [][Next]_vars
-----------------------------------------------------------------------------
(* Properties.                                                              *)

\* A claim never takes a window past the rate in force (define.ts:28), whatever
\* order claims get the lock in and whatever rates were declared before.
RatePerWindow ==
    [][\A t \in DOMAIN taken :
          rate # None /\ taken'[t] > taken[t] => taken'[t] <= rate.max]_vars

\* Nothing but a declaration without a rate brings forward the end of a limit:
\* not a claim that uses up the window, not a shorter ctx.rateLimit.
LimitNotShortened == [][rate' # None => limitedUntil' >= limitedUntil]_vars

=============================================================================
