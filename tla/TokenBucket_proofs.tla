------------------------- MODULE TokenBucket_proofs -------------------------
(* What holds of TokenBucket for every set of tenants, every burst and     *)
(* rate, and however long the clock runs.                                  *)
EXTENDS TokenBucket, TLAPS

\* The same rule with what is left in the bucket counted in: inductive.
LevelWithinLimit ==
    \A k \in Tenants : \A s \in 0..now : spent[k][s] + Refill(k) <= Allowance(s)

\* Nothing is granted in the future, and no bucket was updated in it.
NothingAhead ==
    \A k \in Tenants :
        /\ updatedAt[k] <= now
        /\ \A s \in 0..MaxTime : s > now => spent[k][s] = 0

\* By how much the bucket overshoots the amount asked for, at the promised time.
Excess(k) == Refill(k) + (promise[k].from - now) * Rate - promise[k].amount

\* What is left plus what will flow in by the promised time is the amount asked
\* for, to half of what a millisecond yields: never more, and not less either
\* until the bucket holds the amount (from where it may be full, and lose).
PromiseClose ==
    \A k \in Tenants :
        /\ promise[k].amount = 0 => promise[k].from = 0
        /\ promise[k].amount > 0 =>
              /\ 2 * Excess(k) <= Resolution * Rate
              /\ Refill(k) < promise[k].amount => 0 - 2 * Excess(k) <= Resolution * Rate

\* The inductive invariant.
IInv ==
    /\ TypeOK
    /\ NothingAhead
    /\ LevelWithinLimit
    /\ NeverTooStrict
    /\ PromiseClose

-----------------------------------------------------------------------------

(* A reported delay yields what is missing, to half a millisecond.         *)
LEMMA RetryAfterIsNear ==
    ASSUME NEW n \in Int, NEW level \in Int, NEW m \in RetryAfter(n, level)
    PROVE  /\ m \in Nat
           /\ m * Resolution \in Nat
           /\ (m * Resolution) * Rate \in Int
           /\ 2 * (level + (m * Resolution) * Rate - n) <= Resolution * Rate
           /\ 0 - 2 * (level + (m * Resolution) * Rate - n) <= Resolution * Rate
<1>1. /\ m \in Nat /\ Resolution \in Nat /\ Rate \in Nat
      /\ 2 * (m * Resolution * Rate - (n - level)) <= Resolution * Rate
      /\ 2 * ((n - level) - m * Resolution * Rate) <= Resolution * Rate
  BY BucketAssumption DEF RetryAfter
<1> DEFINE y == (m * Resolution) * Rate
           z == Resolution * Rate
<1>2. m * Resolution \in Nat /\ y \in Int /\ z \in Int
  BY <1>1
<1>3. 2 * (y - (n - level)) <= z /\ 2 * ((n - level) - y) <= z
  BY <1>1
<1>. HIDE DEF y, z
<1>4. 2 * (level + y - n) <= z /\ 0 - 2 * (level + y - n) <= z
  BY <1>2, <1>3
<1>. QED  BY <1>1, <1>2, <1>4 DEF y, z

(* The level of a bucket lies within its capacity, and is what was stored  *)
(* in it when it was updated just now.                                     *)
LEMMA RefillBounds ==
    ASSUME TypeOK, NEW k \in Tenants
    PROVE  /\ Refill(k) \in 0..Burst
           /\ updatedAt[k] = now => Refill(k) = tokens[k]
<1>1. /\ now \in Int /\ updatedAt[k] \in Int /\ tokens[k] \in 0..Burst
      /\ Rate \in Nat /\ Burst \in Nat
  BY BucketAssumption DEF TypeOK
<1> DEFINE e == IF now > updatedAt[k] THEN now - updatedAt[k] ELSE 0
<1>2. e \in Nat
  BY <1>1
<1>3. e * Rate \in Nat
  BY <1>1, <1>2
<1>4. updatedAt[k] = now => e * Rate = 0
  BY <1>1
<1>. QED  BY <1>1, <1>3, <1>4 DEF Refill

(* A unit of time adds Rate tokens, up to the capacity.                    *)
LEMMA RefillTick ==
    ASSUME TypeOK, NothingAhead, Tick, NEW k \in Tenants
    PROVE  Refill(k)' = IF Refill(k) + Rate < Burst THEN Refill(k) + Rate ELSE Burst
<1>1. /\ now \in Int /\ updatedAt[k] \in Int /\ tokens[k] \in 0..Burst
      /\ Rate \in Nat /\ Burst \in Nat /\ updatedAt[k] <= now
  BY BucketAssumption DEF TypeOK, NothingAhead
<1>2. now' = now + 1 /\ updatedAt' = updatedAt /\ tokens' = tokens
  BY DEF Tick
<1> DEFINE e == now - updatedAt[k]
<1>3. e \in Nat /\ e * Rate \in Nat /\ (e + 1) * Rate = e * Rate + Rate
  BY <1>1
<1>4. Refill(k) = IF tokens[k] + e * Rate < Burst THEN tokens[k] + e * Rate ELSE Burst
  BY <1>1 DEF Refill
<1>5. now' - updatedAt[k]' = e + 1 /\ now' > updatedAt[k]'
  BY <1>1, <1>2
<1>6. Refill(k)' = IF tokens[k] + (e + 1) * Rate < Burst THEN tokens[k] + (e + 1) * Rate ELSE Burst
  BY <1>2, <1>5 DEF Refill
<1>. HIDE DEF e
<1>. QED  BY <1>1, <1>3, <1>4, <1>6

-----------------------------------------------------------------------------

(* The invariant holds when the process starts.                            *)
LEMMA InitIInv == Init => IInv
<1> SUFFICES ASSUME Init PROVE IInv
  OBVIOUS
<1>1. TypeOK
  BY BucketAssumption DEF Init, TypeOK, NoPromise
<1>2. \A k \in Tenants :
         /\ updatedAt[k] = 0
         /\ \A s \in 0..MaxTime : spent[k][s] = 0
         /\ promise[k].amount = 0 /\ promise[k].from = 0
  <2>1. TAKE k \in Tenants
  <2>2. spent[k] = [s \in 0..MaxTime |-> 0] /\ promise[k] = NoPromise /\ updatedAt[k] = 0
    BY DEF Init
  <2>. QED  BY <2>2 DEF NoPromise
<1>3. now = 0 /\ 0 \in 0..MaxTime /\ 0 \in 0..now /\ \A s \in 0..now : s = 0
  BY BucketAssumption DEF Init
<1>4. \A k \in Tenants : Refill(k) = Burst
  BY <1>1, <1>2, <1>3, RefillBounds DEF Init
<1>5. Allowance(0) = Burst
  BY <1>3, BucketAssumption DEF Allowance
<1>6. NothingAhead
  <2>1. SUFFICES ASSUME NEW k \in Tenants
                 PROVE  updatedAt[k] <= now /\ \A s \in 0..MaxTime : s > now => spent[k][s] = 0
    BY DEF NothingAhead
  <2>2. updatedAt[k] <= now
    BY <1>2, <1>3
  <2>. QED  BY <1>2, <2>2
<1>7. LevelWithinLimit
  BY <1>2, <1>3, <1>4, <1>5, BucketAssumption DEF LevelWithinLimit
<1>8. NeverTooStrict
  <2>1. \A k \in Tenants : spent[k][0] + Refill(k) >= Allowance(0)
    <3>1. TAKE k \in Tenants
    <3>2. spent[k][0] = 0 /\ Refill(k) = Burst
      BY <1>2, <1>3, <1>4
    <3>. QED  BY <1>5, <3>2, BucketAssumption
  <2>. QED  BY <1>3, <2>1 DEF NeverTooStrict
<1>9. PromiseClose
  <2>1. \A k \in Tenants : ~(promise[k].amount > 0) /\ promise[k].from = 0
    <3>1. TAKE k \in Tenants
    <3>2. promise[k].amount = 0 /\ promise[k].from = 0
      BY <1>2
    <3>. QED  BY <3>2
  <2>. QED  BY <2>1 DEF PromiseClose
<1>. QED  BY <1>1, <1>6, <1>7, <1>8, <1>9 DEF IInv

(* A grant takes from the bucket what it adds to every window.             *)
LEMMA GrantStep ==
    ASSUME IInv, NEW k \in Tenants, NEW n \in Amounts, Grant(k, n)
    PROVE  IInv'
<1>1. /\ n \in 1..Burst /\ Refill(k) \in 0..Burst /\ Refill(k) >= n
      /\ now' = now /\ now \in 0..MaxTime
      /\ Burst \in Nat /\ Rate \in Nat /\ MaxTime \in Nat
  BY RefillBounds, BucketAssumption DEF Grant, IInv, TypeOK
<1>2. TypeOK'
  <2>1. tokens' \in [Tenants -> 0..Burst]
    BY <1>1 DEF Grant, IInv, TypeOK
  <2>2. updatedAt' \in [Tenants -> 0..MaxTime] /\ now' \in 0..MaxTime
    BY <1>1 DEF Grant, IInv, TypeOK
  <2>3. [s \in 0..MaxTime |-> IF s <= now THEN spent[k][s] + n ELSE spent[k][s]]
           \in [0..MaxTime -> Nat]
    BY <1>1 DEF IInv, TypeOK
  <2>4. spent' \in [Tenants -> [0..MaxTime -> Nat]]
    BY <2>3 DEF Grant, IInv, TypeOK
  <2>5. promise' \in [Tenants -> [amount : 0..Burst, from : Int]]
    BY <1>1 DEF Grant, IInv, TypeOK, NoPromise
  <2>. QED  BY <2>1, <2>2, <2>4, <2>5 DEF TypeOK
<1>3. \A j \in Tenants : j # k =>
         /\ Refill(j)' = Refill(j) /\ spent'[j] = spent[j] /\ promise'[j] = promise[j]
         /\ updatedAt'[j] = updatedAt[j]
  BY DEF Grant, IInv, TypeOK, Refill
<1>4. /\ Refill(k)' = Refill(k) - n
      /\ updatedAt'[k] = now
      /\ promise'[k] = NoPromise
      /\ \A s \in 0..MaxTime : spent'[k][s] = IF s <= now THEN spent[k][s] + n ELSE spent[k][s]
  <2>1. /\ tokens'[k] = Refill(k) - n /\ updatedAt'[k] = now /\ promise'[k] = NoPromise
        /\ \A s \in 0..MaxTime : spent'[k][s] = IF s <= now THEN spent[k][s] + n ELSE spent[k][s]
    BY DEF Grant, IInv, TypeOK
  <2>2. (updatedAt[k] = now => Refill(k) = tokens[k])'
    BY <1>2, RefillBounds, PTL
  <2>. QED  BY <1>1, <2>1, <2>2
<1>5. /\ 0..now' = 0..now /\ 0..now \subseteq 0..MaxTime
      /\ \A s \in 0..now : Allowance(s)' = Allowance(s)
  BY <1>1 DEF Allowance
<1>6. \A j \in Tenants : \A s \in 0..now : spent[j][s] \in Nat /\ Refill(j) \in Nat /\ Allowance(s) \in Int
  <2>1. \A j \in Tenants : Refill(j) \in Nat
    BY <1>1, RefillBounds DEF IInv
  <2>2. \A s \in 0..now : Allowance(s) \in Int
    <3>1. TAKE s \in 0..now
    <3>2. now - s \in Int /\ Rate * (now - s) \in Int
      BY <1>1
    <3>. QED  BY <1>1, <3>2 DEF Allowance
  <2>3. \A j \in Tenants : \A s \in 0..MaxTime : spent[j][s] \in Nat
    BY DEF IInv, TypeOK
  <2>. QED  BY <1>5, <2>1, <2>2, <2>3
<1>7. \A j \in Tenants : \A s \in 0..now : (spent[j][s] + Refill(j))' = spent[j][s] + Refill(j)
  BY <1>1, <1>3, <1>4, <1>5, <1>6
<1>8. NothingAhead'
  BY <1>1, <1>3, <1>4 DEF IInv, NothingAhead
<1>9. LevelWithinLimit'
  BY <1>5, <1>7 DEF IInv, LevelWithinLimit
<1>10. NeverTooStrict'
  BY <1>5, <1>7 DEF IInv, NeverTooStrict
<1>11. PromiseClose'
  <2>1. ~(promise'[k].amount > 0) /\ promise'[k].from = 0
    BY <1>4 DEF NoPromise
  <2>2. \A j \in Tenants : j # k => Excess(j)' = Excess(j)
    BY <1>1, <1>3 DEF Excess
  <2>. QED  BY <1>1, <1>3, <2>1, <2>2 DEF IInv, PromiseClose
<1>. QED  BY <1>2, <1>8, <1>9, <1>10, <1>11 DEF IInv

(* A refusal leaves the level as it was, and promises what it will become. *)
LEMMA RejectStep ==
    ASSUME IInv, NEW k \in Tenants, NEW n \in Amounts, Reject(k, n)
    PROVE  IInv'
<1>1. /\ n \in 1..Burst /\ Refill(k) \in 0..Burst /\ Refill(k) < n
      /\ now' = now /\ now \in 0..MaxTime /\ spent' = spent
      /\ Burst \in Nat /\ Rate \in Nat /\ MaxTime \in Nat
  BY RefillBounds, BucketAssumption DEF Reject, IInv, TypeOK
<1>2. PICK m \in RetryAfter(n, Refill(k)) :
         promise' = [promise EXCEPT ![k] = [amount |-> n, from |-> now + m * Resolution]]
  BY DEF Reject
<1> DEFINE d == m * Resolution
<1>3. /\ d \in Nat /\ d * Rate \in Int
      /\ 2 * (Refill(k) + d * Rate - n) <= Resolution * Rate
      /\ 0 - 2 * (Refill(k) + d * Rate - n) <= Resolution * Rate
      /\ promise' = [promise EXCEPT ![k] = [amount |-> n, from |-> now + d]]
  BY <1>1, <1>2, RetryAfterIsNear
<1>. HIDE DEF d
<1>4. TypeOK'
  <2>1. tokens' \in [Tenants -> 0..Burst] /\ updatedAt' \in [Tenants -> 0..MaxTime]
    BY <1>1 DEF Reject, IInv, TypeOK
  <2>2. [amount |-> n, from |-> now + d] \in [amount : 0..Burst, from : Int]
    BY <1>1, <1>3
  <2>3. promise' \in [Tenants -> [amount : 0..Burst, from : Int]]
    BY <1>3, <2>2 DEF IInv, TypeOK
  <2>. QED  BY <1>1, <2>1, <2>3 DEF TypeOK, IInv
<1>5. \A j \in Tenants : j # k =>
         Refill(j)' = Refill(j) /\ updatedAt'[j] = updatedAt[j] /\ promise'[j] = promise[j]
  BY <1>3 DEF Reject, IInv, TypeOK, Refill
<1>6. Refill(k)' = Refill(k) /\ updatedAt'[k] = now
  <2>1. tokens'[k] = Refill(k) /\ updatedAt'[k] = now
    BY DEF Reject, IInv, TypeOK
  <2>2. (updatedAt[k] = now => Refill(k) = tokens[k])'
    BY <1>4, RefillBounds, PTL
  <2>. QED  BY <1>1, <2>1, <2>2
<1>7. \A j \in Tenants : Refill(j)' = Refill(j)
  BY <1>5, <1>6
<1>8. NothingAhead'
  BY <1>1, <1>5, <1>6 DEF IInv, NothingAhead
<1>9. LevelWithinLimit'
  BY <1>1, <1>7 DEF IInv, LevelWithinLimit, Allowance
<1>10. NeverTooStrict'
  BY <1>1, <1>7 DEF IInv, NeverTooStrict, Allowance
<1>11. PromiseClose'
  <2>1. promise'[k].amount = n /\ promise'[k].from = now + d
    BY <1>3 DEF IInv, TypeOK
  <2>2. promise'[k].from - now' = d
    BY <1>1, <1>3, <2>1
  <2>3. Excess(k)' = Refill(k) + d * Rate - n
    BY <1>6, <2>1, <2>2 DEF Excess
  <2>4. \A j \in Tenants : j # k => Excess(j)' = Excess(j)
    BY <1>1, <1>5 DEF Excess
  <2>5. \A j \in Tenants : j # k =>
           /\ promise'[j].amount = 0 => promise'[j].from = 0
           /\ promise'[j].amount > 0 =>
                 /\ 2 * Excess(j)' <= Resolution * Rate
                 /\ Refill(j)' < promise'[j].amount => 0 - 2 * Excess(j)' <= Resolution * Rate
    BY <1>5, <2>4 DEF IInv, PromiseClose
  <2>6. promise'[k].amount # 0
    BY <1>1, <2>1
  <2>. QED  BY <1>3, <2>3, <2>5, <2>6 DEF PromiseClose
<1>. QED  BY <1>4, <1>8, <1>9, <1>10, <1>11 DEF IInv

(* Time adds Rate to every allowance, and at most that to every bucket;    *)
(* the window that starts now opens with the whole burst.                  *)
LEMMA TickStep ==
    ASSUME IInv, Tick
    PROVE  IInv'
<1>1. /\ now' = now + 1 /\ now \in Nat /\ now' \in 0..MaxTime
      /\ spent' = spent /\ promise' = promise /\ updatedAt' = updatedAt /\ tokens' = tokens
      /\ Burst \in Nat /\ Rate \in Nat /\ MaxTime \in Nat
  BY BucketAssumption DEF Tick, IInv, TypeOK
<1>0. PICK t \in Nat : t = now + 1
  BY <1>1
<1>2. TypeOK'
  BY <1>1 DEF IInv, TypeOK
<1>3. \A k \in Tenants :
         /\ Refill(k) \in 0..Burst
         /\ Refill(k)' = IF Refill(k) + Rate < Burst THEN Refill(k) + Rate ELSE Burst
  BY RefillBounds, RefillTick DEF IInv
<1>4. \A s \in 0..now : Allowance(s) \in Int /\ Allowance(s)' = Allowance(s) + Rate
  <2>1. TAKE s \in 0..now
  <2>2. now - s \in Int /\ Rate * (now - s) \in Int /\ (now + 1) - s = (now - s) + 1
    BY <1>1
  <2>3. Rate * ((now + 1) - s) = Rate * (now - s) + Rate
    BY <1>1, <2>2
  <2>. QED  BY <1>1, <2>2, <2>3 DEF Allowance
<1>5. Allowance(t)' = Burst
  <2>1. Allowance(t)' = Burst + Rate * (t - t)
    BY <1>0, <1>1 DEF Allowance
  <2>. QED  BY <1>1, <2>1
<1>6. \A k \in Tenants : \A s \in 0..MaxTime : spent[k][s] \in Nat /\ (s > now => spent[k][s] = 0)
  BY DEF IInv, TypeOK, NothingAhead
<1>7. NothingAhead'
  <2>1. \A k \in Tenants : updatedAt[k] \in Int /\ updatedAt[k] <= now
    BY <1>1 DEF IInv, TypeOK, NothingAhead
  <2>2. \A s \in 0..MaxTime : s > now + 1 => s > now
    BY <1>1
  <2>3. \A k \in Tenants : updatedAt[k] <= now + 1
    BY <1>1, <2>1
  <2>. QED  BY <1>1, <1>6, <2>2, <2>3 DEF NothingAhead
<1>8. \A s \in 0..now' : s \in 0..now \/ s = t
  BY <1>0, <1>1
<1>9. LevelWithinLimit'
  <2>1. SUFFICES ASSUME NEW k \in Tenants, NEW s \in 0..now'
                 PROVE  spent'[k][s] + Refill(k)' <= Allowance(s)'
    BY DEF LevelWithinLimit
  <2>2. CASE s \in 0..now
    <3>1. spent[k][s] + Refill(k) <= Allowance(s) /\ spent[k][s] \in Nat
      BY <1>1, <1>6, <2>2 DEF IInv, LevelWithinLimit
    <3>. QED  BY <1>1, <1>3, <1>4, <2>2, <3>1
  <2>3. CASE s = t
    <3>1. spent[k][t] = 0 /\ spent'[k][t] = 0
      BY <1>0, <1>1, <1>6
    <3>2. spent'[k][t] + Refill(k)' <= Allowance(t)'
      BY <1>1, <1>3, <1>5, <3>1
    <3>. QED  BY <2>3, <3>2
  <2>. QED  BY <1>8, <2>2, <2>3
<1>10. NeverTooStrict'
  <2>1. SUFFICES ASSUME NEW k \in Tenants
                 PROVE  \E s \in 0..now' : spent'[k][s] + Refill(k)' >= Allowance(s)'
    BY DEF NeverTooStrict
  <2>2. CASE Refill(k) + Rate < Burst
    <3>1. PICK s \in 0..now : spent[k][s] + Refill(k) >= Allowance(s)
      BY DEF IInv, NeverTooStrict
    <3>2. s \in 0..now' /\ spent[k][s] \in Nat
      BY <1>1, <1>6
    <3>. QED  BY <1>1, <1>3, <1>4, <2>2, <3>1, <3>2
  <2>3. CASE ~(Refill(k) + Rate < Burst)
    <3>1. t \in 0..now' /\ spent[k][t] = 0
      BY <1>0, <1>1, <1>6
    <3>2. spent'[k][t] + Refill(k)' >= Allowance(t)'
      BY <1>1, <1>3, <1>5, <2>3, <3>1
    <3>. QED  BY <3>1, <3>2
  <2>. QED  BY <2>2, <2>3
<1>11. PromiseClose'
  <2>0. \A k \in Tenants : promise[k].amount = 0 => promise[k].from = 0
    BY DEF IInv, PromiseClose
  <2>1. SUFFICES ASSUME NEW k \in Tenants, promise[k].amount > 0
                 PROVE  /\ 2 * Excess(k)' <= Resolution * Rate
                        /\ Refill(k)' < promise[k].amount => 0 - 2 * Excess(k)' <= Resolution * Rate
    BY <1>1, <2>0 DEF PromiseClose
  <2> DEFINE f == promise[k].from
             n == promise[k].amount
             z == Resolution * Rate
             y == (f - now) * Rate
  <2>2. f \in Int /\ n \in 0..Burst /\ z \in Int /\ y \in Int
    BY <1>1, BucketAssumption DEF IInv, TypeOK
  <2>3. 2 * Excess(k) <= z /\ (Refill(k) < n => 0 - 2 * Excess(k) <= z)
    BY <2>1 DEF IInv, PromiseClose
  <2>4. Excess(k) = Refill(k) + y - n
    BY DEF Excess
  <2>5. (f - (now + 1)) * Rate = y - Rate
    <3>1. f - (now + 1) = (f - now) - 1 /\ f - now \in Int /\ Rate \in Int
      BY <1>1, <2>2
    <3>. HIDE DEF f
    <3>. QED  BY <3>1
  <2>6. Excess(k)' = Refill(k)' + (y - Rate) - n
    BY <1>1, <2>5 DEF Excess
  <2>7. Refill(k) \in 0..Burst
        /\ Refill(k)' = IF Refill(k) + Rate < Burst THEN Refill(k) + Rate ELSE Burst
    BY <1>3
  <2>. HIDE DEF f, n, z, y
  <2>8. 2 * Excess(k)' <= z
    BY <1>1, <2>2, <2>3, <2>4, <2>6, <2>7
  <2>9. Refill(k)' < n => 0 - 2 * Excess(k)' <= z
    BY <1>1, <2>2, <2>3, <2>4, <2>6, <2>7
  <2>. QED  BY <2>8, <2>9 DEF n, z
<1>. QED  BY <1>2, <1>7, <1>9, <1>10, <1>11 DEF IInv

(* Every step keeps the invariant.                                         *)
LEMMA NextIInv == IInv /\ [Next]_vars => IInv'
<1> SUFFICES ASSUME IInv, [Next]_vars PROVE IInv'
  OBVIOUS
<1>1. CASE UNCHANGED vars
  BY <1>1 DEF vars, IInv, TypeOK, NothingAhead, LevelWithinLimit, NeverTooStrict,
              PromiseClose, Excess, Refill, Allowance
<1>. QED  BY <1>1, GrantStep, RejectStep, TickStep DEF Next

(* The inductive invariant holds in every reachable state.                 *)
THEOREM Invariance == Spec => []IInv
  BY InitIInv, NextIInv, PTL DEF Spec

-----------------------------------------------------------------------------

(* A bucket never holds more than its burst, nor less than nothing.        *)
THEOREM TypeCorrect == Spec => []TypeOK
  BY Invariance, PTL DEF IInv

(* Over any window a tenant is granted at most burst + rate * length.      *)
THEOREM WindowBound == Spec => []NeverOverLimit
<1>1. IInv => NeverOverLimit
  <2> SUFFICES ASSUME IInv, NEW k \in Tenants, NEW s \in 0..now
               PROVE  spent[k][s] <= Allowance(s)
    BY DEF NeverOverLimit
  <2>1. Refill(k) \in Nat /\ spent[k][s] + Refill(k) <= Allowance(s)
    BY RefillBounds, BucketAssumption DEF IInv, LevelWithinLimit
  <2>2. spent[k][s] \in Nat /\ now - s \in Int /\ Burst \in Int /\ Rate \in Int
    BY BucketAssumption DEF IInv, TypeOK
  <2>3. Allowance(s) \in Int
    BY <2>2 DEF Allowance
  <2>. QED  BY <2>1, <2>2, <2>3
<1>. QED  BY Invariance, <1>1, PTL

(* The limiter never refuses what the documented rule allows.              *)
THEOREM Tight == Spec => []NeverTooStrict
  BY Invariance, PTL DEF IInv

(* Whoever waits for the reported delay and half a millisecond, and is     *)
(* granted nothing meanwhile, finds enough tokens; and nobody finds them   *)
(* more than half a millisecond earlier than told.                         *)
THEOREM CloseDelay == Spec => []RetryAfterIsClose
<1>1. IInv => RetryAfterIsClose
  <2> SUFFICES ASSUME IInv, NEW k \in Tenants
               PROVE  /\ 2 * (now - promise[k].from) >= Resolution => Refill(k) >= promise[k].amount
                      /\ 2 * (promise[k].from - now) > Resolution => Refill(k) < promise[k].amount
    BY DEF RetryAfterIsClose
  <2> DEFINE f == promise[k].from
             n == promise[k].amount
             l == Refill(k)
  <2>1. /\ f \in Int /\ n \in Nat /\ l \in Nat /\ now \in Nat
        /\ Rate \in Nat \ {0} /\ Resolution \in Nat \ {0}
    <3>1. l \in Nat
      BY RefillBounds, BucketAssumption DEF IInv
    <3>. HIDE DEF l
    <3>. QED  BY <3>1, BucketAssumption DEF IInv, TypeOK
  <2>2. n > 0 => /\ 2 * (l + (f - now) * Rate - n) <= Resolution * Rate
                 /\ l < n => 0 - 2 * (l + (f - now) * Rate - n) <= Resolution * Rate
    BY DEF IInv, PromiseClose, Excess
  <2>3. n = 0 => f = 0
    BY DEF IInv, PromiseClose
  <2>. HIDE DEF f, n, l
  <2> DEFINE y == (f - now) * Rate
             z == Resolution * Rate
  <2>4. y \in Int /\ z \in Nat
    BY <2>1
  <2>5. 2 * (now - f) >= Resolution => l >= n
    <3>1. SUFFICES ASSUME 2 * (now - f) >= Resolution, l < n PROVE FALSE
      BY <2>1
    <3>2. (2 * (now - f)) * Rate >= z
      BY <2>1, <3>1
    <3>3. 0 - 2 * y >= z
      BY <2>1, <3>2
    <3>4. n > 0 /\ 0 - 2 * (l + y - n) <= z
      BY <2>1, <2>2, <3>1
    <3>. HIDE DEF y, z
    <3>. QED  BY <2>1, <2>4, <3>1, <3>3, <3>4
  <2>6. 2 * (f - now) > Resolution => l < n
    <3>1. SUFFICES ASSUME 2 * (f - now) > Resolution, l >= n PROVE FALSE
      BY <2>1
    <3>2. n > 0
      BY <2>1, <2>3, <3>1
    <3>3. (2 * (f - now)) * Rate > z
      BY <2>1, <3>1
    <3>4. 2 * y > z
      BY <2>1, <3>3
    <3>5. 2 * (l + y - n) <= z
      BY <2>2, <3>2
    <3>. HIDE DEF y, z
    <3>. QED  BY <2>1, <2>4, <3>1, <3>4, <3>5
  <2>. QED  BY <2>5, <2>6 DEF f, n, l
<1>. QED  BY Invariance, <1>1, PTL

=============================================================================
