--------------------------- MODULE SemanticCache ---------------------------
(***************************************************************************)
(* The response cache of control/cache.py and the calls of                 *)
(* control/service.py that use it.  Every method of the cache holds an     *)
(* asyncio.Lock around code without an await, so it is one step; between   *)
(* the lookup of a call and the insertion of its answer others run.        *)
(*                                                                         *)
(* The code compares expires_at with the clock only, so an entry keeps the *)
(* time it has left.  cache_mode bypass never reaches the cache.           *)
(***************************************************************************)
EXTENDS CacheIdentity, Sequences, FiniteSetsExt

CONSTANT Callers        \* calls in flight at a time

VARIABLES
    entries,    \* _entries: the OrderedDict, least recently used first
    pending,    \* caller -> the key its provider is answering, if any
    served,     \* what the latest get returned: {} or one answer
    recent      \* history: the max_entries keys put or hit last since clear, in
                \* order, each with the time its answer may still be served

vars == <<entries, pending, served, recent>>

Entry == [key : Keys, left : 0..Ttl]

Held == [k \in Keys |->
           IF \E i \in DOMAIN entries : entries[i].key = k
             THEN entries[CHOOSE i \in DOMAIN entries : entries[i].key = k].left
             ELSE 0]

Promise == INSTANCE CachePromise
              WITH held <- Held, served <- {<<a.asked, a.key>> : a \in served}

-----------------------------------------------------------------------------

\* The n-th of these positions, and what is left when only they are kept.
Nth(kept, n) == CHOOSE i \in kept : Cardinality({j \in kept : j <= i}) = n

Keep(es, kept) == [n \in 1..Cardinality(kept) |-> es[Nth(kept, n)]]

\* _evict_expired
Unexpired(es) == Keep(es, {i \in DOMAIN es : es[i].left > 0})

\* Assigning or moving to the end of the OrderedDict.
MoveToEnd(es, e) == Append(Keep(es, {i \in DOMAIN es : es[i].key # e.key}), e)

TouchNothing(es, i) == es    \* mutant: a hit does not count as a use

\* A hit makes its entry the most recently used.
Touch(es, i) == MoveToEnd(es, es[i])

TrimLate(es) ==         \* mutant: one entry too many is kept
    IF Len(es) > MaxEntries + 1 THEN Tail(es) ELSE es

\* The loop of popitem(last=False).
Trim(es) ==
    IF Len(es) > MaxEntries
      THEN SubSeq(es, Len(es) - MaxEntries + 1, Len(es)) ELSE es

SimilarAnywhere(es, k) ==   \* mutant: the scan forgets to compare scopes
    {i \in DOMAIN es : Similarity(es[i].key, k) >= Threshold}

\* The entries the scan of get considers.
Similar(es, k) == {i \in DOMAIN es : Near(es[i].key, k)}

\* The position get settles on, in a set that is empty on a miss: the exact
\* entry, else of those that score highest the one used last (score >= best).
Found(es, k) ==
    LET exact == {i \in DOMAIN es : es[i].key = k}
        score(i) == Similarity(es[i].key, k)
        best == {i \in Similar(es, k) : \A j \in Similar(es, k) : score(j) <= score(i)}
    IN  IF exact # {} THEN exact
        ELSE IF best # {} THEN {Max(best)} ELSE {}

-----------------------------------------------------------------------------

Used(e) ==
    LET used == MoveToEnd(recent, e)
    IN  IF Len(used) > MaxEntries THEN Tail(used) ELSE used

Init ==
    /\ entries = <<>>
    /\ pending = [c \in Callers |-> {}]
    /\ served = {}
    /\ recent = <<>>

\* cache_mode default: get, and on a miss the call goes to a provider.
Get(c, k) ==
    LET es == Unexpired(entries)
    IN  /\ pending[c] = {}
        /\ \/ /\ Found(es, k) = {}
              /\ entries' = es
              /\ served' = {}
              /\ pending' = [pending EXCEPT ![c] = {k}]
              /\ UNCHANGED recent
           \/ \E i \in Found(es, k) :
              /\ entries' = Touch(es, i)
              /\ served' = {[asked |-> k, key |-> es[i].key]}
              /\ recent' = Used(es[i])
              /\ UNCHANGED pending

\* cache_mode refresh: no lookup.
Refresh(c, k) ==
    /\ pending[c] = {}
    /\ pending' = [pending EXCEPT ![c] = {k}]
    /\ UNCHANGED <<entries, served, recent>>

\* The provider's answer is valid and recorded, and put.
Put(c) ==
    \E k \in pending[c] :
      /\ entries' = Trim(MoveToEnd(entries, [key |-> k, left |-> Ttl]))
      /\ pending' = [pending EXCEPT ![c] = {}]
      /\ recent' = Used([key |-> k, left |-> Ttl])
      /\ UNCHANGED served

\* No candidate answered, or the client left.
Fail(c) ==
    /\ pending[c] # {}
    /\ pending' = [pending EXCEPT ![c] = {}]
    /\ UNCHANGED <<entries, served, recent>>

\* DELETE /v1/control/cache: a call in flight still puts its answer.
Clear ==
    /\ entries' = <<>>
    /\ recent' = <<>>
    /\ UNCHANGED <<pending, served>>

Size ==
    /\ entries' = Unexpired(entries)
    /\ UNCHANGED <<pending, served, recent>>

Older(es) == [i \in DOMAIN es |-> [es[i] EXCEPT !.left = IF @ > 0 THEN @ - 1 ELSE 0]]

Tick ==
    /\ entries' = Older(entries)
    /\ recent' = Older(recent)
    /\ UNCHANGED <<pending, served>>

Next ==
    \/ \E c \in Callers : \/ \E k \in Keys : Get(c, k) \/ Refresh(c, k)
                          \/ Put(c)
                          \/ Fail(c)
    \/ Clear
    \/ Size
    \/ Tick

Spec == Init /\ [][Next]_vars

-----------------------------------------------------------------------------

(***************************************************************************)
(* Types; and the OrderedDict holds one entry per fingerprint, at most     *)
(* max_entries of them after every method.                                 *)
(***************************************************************************)
TypeOK ==
    /\ entries \in Seq(Entry)
    /\ Len(entries) <= MaxEntries
    /\ \A i, j \in DOMAIN entries : entries[i].key = entries[j].key => i = j
    /\ \A c \in Callers : pending[c] \subseteq Keys
    /\ served \subseteq [asked : Keys, key : Keys]
    /\ recent \in Seq(Entry)

(***************************************************************************)
(* get and put together keep the recently used: an answer that has not     *)
(* expired is lost for want of room only after max_entries other keys have *)
(* been put or hit since its own last use, however the uses, the expiries  *)
(* and the overwritten answers mix.                                        *)
(***************************************************************************)
RecentlyUsedIsKept ==
    \A n \in DOMAIN recent :
       recent[n].left > 0 => \E i \in DOMAIN entries : entries[i] = recent[n]

(***************************************************************************)
(* The cache keeps its promise: a hit comes from the asker's own scope, is *)
(* the exact answer or the nearest one, is served for Ttl after it was put *)
(* and no longer, and never after a clear without a new put; only the      *)
(* insertion of another key makes an answer disappear early, and only one. *)
(***************************************************************************)
PromiseKept == Promise!Spec

=============================================================================
