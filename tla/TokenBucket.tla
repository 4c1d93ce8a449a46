----------------------------- MODULE TokenBucket -----------------------------
(***************************************************************************)
(* The per-tenant limiter of control/rate_limit.py.  consume() holds an    *)
(* asyncio.Lock around code without an await, so a call is one step.       *)
(*                                                                         *)
(* Tokens, the rate and the clock are integers here (the code computes in  *)
(* floats): a unit of tokens and a unit of time are as small as one likes. *)
(* The delay a refusal reports is printed in whole milliseconds, of        *)
(* Resolution units of time each.                                          *)
(***************************************************************************)
EXTENDS Integers

CONSTANTS
    Tenants,    \* bucket keys
    Burst,      \* capacity of a bucket, and its content at first use
    Rate,       \* tokens gained per unit of time
    Resolution, \* units of time in a millisecond, the unit of a reported delay
    Amounts,    \* what a call may ask for; the service always asks for 1
    MaxTime     \* bound of the model: the clock stops there

ASSUME BucketAssumption ==
    /\ Burst \in Nat \ {0}
    /\ Rate \in Nat \ {0}
    /\ Resolution \in Nat \ {0}
    /\ Amounts \subseteq 1..Burst       \* any other amount raises ValueError
    /\ MaxTime \in Nat

VARIABLES
    now,        \* the monotonic clock
    tokens,     \* tenant -> _Bucket.tokens
    updatedAt,  \* tenant -> _Bucket.updated_at
    spent,      \* history: tenant -> time s -> tokens granted from s on
    promise     \* history: tenant -> what the latest refusal promised, if no
                \* grant has been made since

vars == <<now, tokens, updatedAt, spent, promise>>

NoPromise == [amount |-> 0, from |-> 0]

TypeOK ==
    /\ now \in 0..MaxTime
    /\ tokens \in [Tenants -> 0..Burst]
    /\ updatedAt \in [Tenants -> 0..MaxTime]
    /\ spent \in [Tenants -> [0..MaxTime -> Nat]]
    /\ promise \in [Tenants -> [amount : 0..Burst, from : Int]]

-----------------------------------------------------------------------------

RefillUncapped(k) ==        \* mutant: the burst cap is forgotten
    LET elapsed == IF now > updatedAt[k] THEN now - updatedAt[k] ELSE 0
    IN  tokens[k] + elapsed * Rate

RefillOneLess(k) ==         \* mutant: the bucket never fills up again
    LET elapsed == IF now > updatedAt[k] THEN now - updatedAt[k] ELSE 0
        full == tokens[k] + elapsed * Rate
    IN  IF full < Burst \/ elapsed = 0 THEN full ELSE Burst - 1

\* The content of the bucket once it is brought up to date.
Refill(k) ==
    LET elapsed == IF now > updatedAt[k] THEN now - updatedAt[k] ELSE 0
        full == tokens[k] + elapsed * Rate
    IN  IF full < Burst THEN full ELSE Burst

\* mutant: the delay is cut off, not rounded
RetryAfterCut(n, level) == {(n - level) \div (Resolution * Rate)}

\* The retry delays that a refusal may report, in milliseconds: the numbers
\* nearest to the exact delay (n - level) / Rate, which is printed with three
\* decimals.  Of two that are as near, the floats decide.
RetryAfter(n, level) ==
    {m \in 0..(n - level) :
        /\ 2 * (m * Resolution * Rate - (n - level)) <= Resolution * Rate
        /\ 2 * ((n - level) - m * Resolution * Rate) <= Resolution * Rate}

\* A missing bucket is created full (setdefault), which is what Init says.
Init ==
    /\ now = 0
    /\ tokens = [k \in Tenants |-> Burst]
    /\ updatedAt = [k \in Tenants |-> 0]
    /\ spent = [k \in Tenants |-> [s \in 0..MaxTime |-> 0]]
    /\ promise = [k \in Tenants |-> NoPromise]

\* consume: refill, then take n tokens.
Grant(k, n) ==
    /\ Refill(k) >= n
    /\ tokens' = [tokens EXCEPT ![k] = Refill(k) - n]
    /\ updatedAt' = [updatedAt EXCEPT ![k] = now]
    /\ spent' = [spent EXCEPT ![k] = [s \in 0..MaxTime |-> IF s <= now THEN @[s] + n ELSE @[s]]]
    /\ promise' = [promise EXCEPT ![k] = NoPromise]
    /\ UNCHANGED now

\* consume: refill, then raise RateLimitExceededError.
Reject(k, n) ==
    /\ Refill(k) < n
    /\ tokens' = [tokens EXCEPT ![k] = Refill(k)]
    /\ updatedAt' = [updatedAt EXCEPT ![k] = now]
    /\ \E m \in RetryAfter(n, Refill(k)) :
          promise' = [promise EXCEPT ![k] = [amount |-> n, from |-> now + m * Resolution]]
    /\ UNCHANGED <<now, spent>>

Tick == now < MaxTime /\ now' = now + 1 /\ UNCHANGED <<tokens, updatedAt, spent, promise>>

Next ==
    \/ \E k \in Tenants, n \in Amounts : Grant(k, n) \/ Reject(k, n)
    \/ Tick

Spec == Init /\ [][Next]_vars

-----------------------------------------------------------------------------

\* The most that docs/reliability.md lets through between s and now.
Allowance(s) == Burst + Rate * (now - s)

(***************************************************************************)
(* In every window of time, wherever it starts, a tenant is granted at     *)
(* most the burst plus what the rate yields over the window.               *)
(***************************************************************************)
NeverOverLimit == \A k \in Tenants : \A s \in 0..now : spent[k][s] <= Allowance(s)

(***************************************************************************)
(* A tenant is refused only when granting would break that limit: there    *)
(* is always a window whose allowance would be used up exactly by what is  *)
(* left in the bucket.                                                     *)
(***************************************************************************)
NeverTooStrict ==
    \A k \in Tenants : \E s \in 0..now : spent[k][s] + Refill(k) >= Allowance(s)

(***************************************************************************)
(* The reported retry delay is right to half a millisecond, either way,    *)
(* for a tenant that is granted nothing meanwhile: who comes back so much  *)
(* later than told is served, and who comes earlier than that much before  *)
(* the time told is not.  (Who comes back exactly as told may be refused:  *)
(* the delay is rounded to the nearest millisecond, never up.)             *)
(***************************************************************************)
RetryAfterIsClose ==
    \A k \in Tenants :
        /\ 2 * (now - promise[k].from) >= Resolution => Refill(k) >= promise[k].amount
        /\ 2 * (promise[k].from - now) > Resolution => Refill(k) < promise[k].amount

=============================================================================
