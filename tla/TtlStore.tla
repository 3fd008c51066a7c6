------------------------------ MODULE TtlStore ------------------------------
(***************************************************************************)
(* What the callers of cache_service may rely on: a store of values that   *)
(* expire.  A thread invokes an operation and waits; the operation takes   *)
(* effect in one step, once, between its invocation and its end, and only  *)
(* operations under way, time and a restart change anything.               *)
(*                                                                         *)
(* "exact":  the store of one process: every operation finds what earlier  *)
(*           ones left, and none is skipped.                               *)
(* "starting": the same, but there may be several stores, and an operation *)
(*           works on any one of them.                                     *)
(* "lossy":  an operation may fail or be skipped and any entry may be      *)
(*           dropped, but nothing else than a live entry is ever answered. *)
(***************************************************************************)
EXTENDS Integers

CONSTANTS
    Threads,       \* who calls
    Stores,        \* the stores there may be
    CacheKeys,     \* keys of cached values
    CounterKeys,   \* keys of counters
    Values,        \* cached values, the undecodable ones included
    Undecodable,   \* a stored string that json.loads rejects
    TTL,           \* lifetime of an entry, in ticks
    None           \* no entry, a miss, ...

VARIABLES
    entries,       \* the live entries of each store
    current,       \* the store in use
    mode,          \* which of the three promises holds
    pending,       \* per thread, the operation that has yet to take effect
    answer         \* per thread, what its last lookup or count was answered

vars == <<entries, current, mode, pending, answer>>

Keys == CacheKeys \cup CounterKeys
Empty == [k \in Keys |-> None]

Starting == mode = "starting"
Lossy == mode = "lossy"

\* A process that is starting settles on its store for good, at some step.
MayRemain ==
    /\ mode' = mode \/ (Starting /\ mode' = "exact")
    /\ UNCHANGED current

Answer(t, a) == answer' = [answer EXCEPT ![t] = a]

Op(t, op) == pending[t] # None /\ pending[t].op = op

\* The stores an operation may work on.
InReach(s) == s = current \/ Starting

Done(t) == pending' = [pending EXCEPT ![t] = None]

\* The operation is followed by another one on the same key.
Then(t, op, v) ==
    pending' = [pending EXCEPT ![t] = [op |-> op, key |-> @.key, value |-> v]]

Put(s, k, v) == entries' = [entries EXCEPT ![s][k] = [value |-> v, left |-> TTL]]
Remove(s, k) == entries' = [entries EXCEPT ![s][k] = None]
Skipped == Lossy /\ UNCHANGED entries

----------------------------------------------------------------------------

Invoke(t, c) ==
    /\ pending[t] = None
    /\ pending' = [pending EXCEPT ![t] = c]
    /\ Answer(t, None)
    /\ MayRemain
    /\ UNCHANGED entries

Hit(t, s) ==
    LET e == entries[s][pending[t].key] IN
    /\ Op(t, "get_or_set")
    /\ e # None
    /\ e.value # Undecodable
    /\ Answer(t, e.value)
    /\ Done(t)
    /\ MayRemain
    /\ UNCHANGED entries

\* The caller then runs its loader ...
Miss(t, s) ==
    /\ Op(t, "get_or_set")
    /\ entries[s][pending[t].key] = None \/ Lossy
    /\ Answer(t, None)
    /\ Then(t, "load", None)
    /\ MayRemain
    /\ UNCHANGED entries

\* ... after it has dropped a value that it cannot decode ...
Reject(t, s) ==
    LET e == entries[s][pending[t].key] IN
    /\ Op(t, "get_or_set")
    /\ e # None
    /\ e.value = Undecodable
    /\ Answer(t, None)
    /\ Then(t, "discard", None)
    /\ MayRemain
    /\ UNCHANGED entries

Discard(t, s) ==
    /\ Op(t, "discard")
    /\ Remove(s, pending[t].key) \/ Skipped
    /\ Then(t, "load", None)
    /\ MayRemain
    /\ UNCHANGED answer

\* ... and stores what the loader returned, if anything.
Load(t, v) ==
    /\ Op(t, "load")
    /\ Then(t, "set", v)
    /\ MayRemain
    /\ UNCHANGED <<entries, answer>>

LoadNothing(t) ==
    /\ Op(t, "load")
    /\ Done(t)
    /\ MayRemain
    /\ UNCHANGED <<entries, answer>>

Set(t, s) ==
    /\ Op(t, "set")
    /\ Put(s, pending[t].key, pending[t].value) \/ Skipped
    /\ Done(t)
    /\ MayRemain
    /\ UNCHANGED answer

Invalidate(t, s) ==
    /\ Op(t, "invalidate")
    /\ Remove(s, pending[t].key) \/ Skipped
    /\ Done(t)
    /\ MayRemain
    /\ UNCHANGED answer

\* A counter that is not there counts from one, and each count renews it.  The
\* answer 0 stands for "unknown".
Count(s, k) == IF entries[s][k] = None THEN 1 ELSE entries[s][k].value + 1

Increment(t, s) ==
    LET k == pending[t].key IN
    /\ Op(t, "increment")
    /\ \/ /\ Put(s, k, Count(s, k))
          /\ Answer(t, Count(s, k)) \/ (Lossy /\ Answer(t, 0))
       \/ Skipped /\ Answer(t, 0)
    /\ Done(t)
    /\ MayRemain

\* All cached keys at once, or one by one until it ends or fails.
InvalidatePattern(t, s) ==
    /\ Op(t, "invalidate_pattern")
    /\ \/ /\ ~Lossy
          /\ entries' = [entries EXCEPT ![s] =
                           [k \in Keys |-> IF k \in CacheKeys THEN None ELSE @[k]]]
          /\ Done(t)
       \/ Lossy /\ (\E k \in CacheKeys : Remove(s, k)) /\ UNCHANGED pending
       \/ Skipped /\ Done(t)
    /\ MayRemain
    /\ UNCHANGED answer

----------------------------------------------------------------------------

\* A first call makes another store, an empty one, the store in use.
Build(s) ==
    /\ Starting
    /\ entries[s] = Empty
    /\ current' = s
    /\ mode' \in {"starting", "exact"}
    /\ UNCHANGED <<entries, pending, answer>>

Aged(e) ==
    IF e = None THEN None
    ELSE IF e.left = 1 THEN None ELSE [e EXCEPT !.left = @ - 1]

Tick ==
    /\ entries' = [s \in Stores |-> [k \in Keys |-> Aged(entries[s][k])]]
    /\ UNCHANGED <<current, mode, pending, answer>>

Evict ==
    /\ Lossy
    /\ \E k \in Keys : Remove(current, k)
    /\ UNCHANGED <<current, mode, pending, answer>>

\* A new process begins with no store, or with the server's; what was under
\* way is forgotten.
Restart ==
    /\ pending' = [t \in Threads |-> None]
    /\ answer' = [t \in Threads |-> None]
    /\ entries' = [s \in Stores |-> IF Lossy /\ s = current THEN entries[s] ELSE Empty]
    /\ \/ Lossy /\ UNCHANGED <<current, mode>>
       \/ ~Lossy /\ current' = None /\ mode' = "starting"

Init ==
    /\ pending = [t \in Threads |-> None]
    /\ answer = [t \in Threads |-> None]
    /\ \/ mode = "lossy" /\ current \in Stores
       \/ mode = "starting" /\ current = None
    /\ \A s \in Stores : entries[s] = Empty \/ s = current

Request(t) ==
    \/ \E k \in CacheKeys, op \in {"get_or_set", "invalidate"} :
          Invoke(t, [op |-> op, key |-> k, value |-> None])
    \/ Invoke(t, [op |-> "invalidate_pattern", key |-> None, value |-> None])
    \/ \E k \in CounterKeys : Invoke(t, [op |-> "increment", key |-> k, value |-> None])

Effect(t, s) ==
    \/ Hit(t, s) \/ Miss(t, s) \/ Reject(t, s) \/ Discard(t, s)
    \/ Set(t, s) \/ Invalidate(t, s) \/ Increment(t, s) \/ InvalidatePattern(t, s)

Next ==
    \/ \E t \in Threads :
          \/ Request(t)
          \/ \E s \in Stores : InReach(s) /\ Effect(t, s)
          \/ LoadNothing(t) \/ \E v \in Values : Load(t, v)
    \/ \E s \in Stores : Build(s)
    \/ Tick \/ Evict \/ Restart

Spec == Init /\ [][Next]_vars
=============================================================================
