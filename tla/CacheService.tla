---------------------------- MODULE CacheService ----------------------------
(***************************************************************************)
(* cache_service over get_backend over one of the three backends, in one   *)
(* process with several threads.                                           *)
(*                                                                         *)
(* MemoryBackend keeps absolute expiry times, drops an expired entry only  *)
(* when a read meets it, and runs each operation under its own lock.  The  *)
(* backend itself is built on first use without a lock, so two first       *)
(* calls may each build one.  RedisBackend runs commands that may fail,    *)
(* and deletes a namespace key by key.  NullBackend drops everything.      *)
(***************************************************************************)
EXTENDS Integers, FiniteSets

CONSTANTS
    Threads,       \* threads of the process
    CacheKeys,     \* keys of one namespace of cached values
    CounterKeys,   \* keys of rate-limit counters
    Values,        \* what loaders return
    Undecodable,   \* a value an older release wrote
    TTL,           \* lifetime of an entry, in ticks
    MaxClock,      \* the clock stops here
    MaxCount,      \* bound on the counters
    Environments,  \* the values of APP_ENV a process is started with
    Settings,      \* the values of CACHE_BACKEND it is started with, or None
    Server,        \* the Redis server
    None

ASSUME TTLAssumption == TTL \in Nat \ {0}
ASSUME BoundsAssumption == MaxClock \in Nat /\ MaxCount \in Nat
ASSUME KeysAssumption == CacheKeys \cap CounterKeys = {}
ASSUME ServerAssumption == Server \notin Threads

VARIABLES
    kind,          \* config.cache.backend
    backend,       \* the module global _backend: None or the thread that built it
    store,         \* the dictionary of each backend, and Redis's own keys
    clock,         \* time.time()
    pc,            \* per thread, its next step
    call,          \* per thread, the operation under way
    handle,        \* per thread, the backend get_backend returned to it
    todo,          \* per thread, keys its SCAN has not come to yet
    doomed,        \* history: keys that were there when its SCAN began
                   \* and have not been stored since
    answer         \* per thread, the answer to its last lookup or count

threads == <<pc, call, handle, todo, doomed, answer>>
vars == <<kind, backend, store, clock, threads>>

----------------------------------------------------------------------------

Kinds == {"redis", "memory", "disabled"}
Keys == CacheKeys \cup CounterKeys
Stored == Values \cup {Undecodable}
Contents == Stored \cup 1..MaxCount
Times == 0..(MaxClock + TTL)
Entry == [value : Contents, expires : Times]
Homes == Threads \cup {Server}
Empty == [k \in Keys |-> None]

Operations ==
    {"get_or_set", "discard", "set", "invalidate", "invalidate_pattern", "increment"}
Call == [op : Operations, key : Keys \cup {None}, value : Values \cup {None}]
Steps == {"idle", "build", "return", "run", "load", "scan"}

\* What an operation is called with.
KeysOf(op) ==
    IF op = "invalidate_pattern" THEN {None}
    ELSE IF op = "increment" THEN CounterKeys ELSE CacheKeys

\* load_config rejects any other setting.
ASSUME SettingsAssumption == Settings \subseteq Kinds \cup {None}
ASSUME NoneAssumption ==
    /\ None \notin Threads \cup Stored \cup Entry \cup Call
    /\ None \notin [value : Contents, left : 1..TTL]
    /\ None \notin [op : {"load"}, key : Keys \cup {None}, value : Values \cup {None}]
ASSUME UndecodableAssumption == Undecodable \notin Values

\* load_config: the backend of a process that is not told which one to use.
BackendSetting(env, setting) ==
    IF setting # None THEN setting
    ELSE IF env = "testing" THEN "memory" ELSE "redis"

\* The dictionary an operation on backend b works on: every RedisBackend is a
\* client of the one server.
Home(b) == IF kind = "redis" THEN Server ELSE b

Expired(e) == e.expires <= clock

\* The entry of dictionary d under k, unless it has expired.
Live(d, k) == IF d[k] = None \/ Expired(d[k]) THEN None ELSE d[k]

----------------------------------------------------------------------------
(* get_backend                                                             *)

Goto(t, step) == pc' = [pc EXCEPT ![t] = step]

\* The test of the global, and its value when it is there.
GetBackend(t) ==
    /\ Goto(t, IF backend = None THEN "build" ELSE "run")
    /\ handle' = [handle EXCEPT ![t] = backend]

Begin(t, c) ==
    /\ pc[t] = "idle"
    /\ call' = [call EXCEPT ![t] = c]
    /\ answer' = [answer EXCEPT ![t] = None]
    /\ GetBackend(t)
    /\ UNCHANGED <<kind, backend, store, clock, todo, doomed>>

\* Build and assign, whoever else has done so since the test.
Build(t) ==
    /\ pc[t] = "build"
    /\ backend' = t
    /\ Goto(t, "return")
    /\ UNCHANGED <<kind, store, clock, call, handle, todo, doomed, answer>>

\* Mutant of Return: the caller is handed the backend it built, even when
\* another thread has replaced it.
ReturnOwn(t) ==
    /\ pc[t] = "return"
    /\ handle' = [handle EXCEPT ![t] = t]
    /\ Goto(t, "run")
    /\ UNCHANGED <<kind, backend, store, clock, call, todo, doomed, answer>>

\* The return statement reads the global again.
Return(t) ==
    /\ pc[t] = "return"
    /\ handle' = [handle EXCEPT ![t] = backend]
    /\ Goto(t, "run")
    /\ UNCHANGED <<kind, backend, store, clock, call, todo, doomed, answer>>

----------------------------------------------------------------------------
(* The operations of the backends                                          *)

Dict(t) == store[Home(handle[t])]

SetEntry(t, k, e) == store' = [store EXCEPT ![Home(handle[t])][k] = e]

Expiring(v) == [value |-> v, expires |-> clock + TTL]

\* A stored key is no longer one that was there when a scan began.
Write(t, k, v) ==
    /\ SetEntry(t, k, Expiring(v))
    /\ doomed' = [u \in Threads |-> doomed[u] \ {k}]

Running(t, op) ==
    /\ pc[t] = "run"
    /\ call[t].op = op
    /\ UNCHANGED <<kind, backend, clock>>

Finish(t) ==
    /\ Goto(t, "idle")
    /\ call' = [call EXCEPT ![t] = None]
    /\ handle' = [handle EXCEPT ![t] = None]

\* The next call into the service, by the same caller.
Proceed(t, op, v) ==
    /\ call' = [call EXCEPT ![t] = [op |-> op, key |-> @.key, value |-> v]]
    /\ GetBackend(t)

Answer(t, a) == answer' = [answer EXCEPT ![t] = a]

\* NullBackend: reads miss and writes vanish.
Disabled == kind = "disabled"

\* A RedisError: the caller goes on as if nothing were cached, and the server
\* may have run the command or not.
Unreachable == kind = "redis"

LookupHit(t) ==
    LET e == Live(Dict(t), call[t].key) IN
    /\ Running(t, "get_or_set")
    /\ ~Disabled
    /\ e # None
    /\ e.value # Undecodable
    /\ Answer(t, e.value)
    /\ Finish(t)
    /\ UNCHANGED <<store, todo, doomed>>

\* A read that meets an expired entry drops it.
LookupMiss(t) ==
    /\ Running(t, "get_or_set")
    /\ \/ /\ ~Disabled
          /\ Live(Dict(t), call[t].key) = None
          /\ SetEntry(t, call[t].key, None)
       \/ (Disabled \/ Unreachable) /\ UNCHANGED store
    /\ Answer(t, None)
    /\ Goto(t, "load")
    /\ handle' = [handle EXCEPT ![t] = None]
    /\ UNCHANGED <<call, todo, doomed>>

\* json.loads rejects the value: the entry is invalidated, then it is a miss.
LookupUndecodable(t) ==
    LET e == Live(Dict(t), call[t].key) IN
    /\ Running(t, "get_or_set")
    /\ ~Disabled
    /\ e # None
    /\ e.value = Undecodable
    /\ Answer(t, None)
    /\ Proceed(t, "discard", None)
    /\ UNCHANGED <<store, todo, doomed>>

Delete(t) ==
    \/ ~Disabled /\ SetEntry(t, call[t].key, None)
    \/ (Disabled \/ Unreachable) /\ UNCHANGED store

Discard(t) ==
    /\ Running(t, "discard")
    /\ Delete(t)
    /\ Goto(t, "load")
    /\ handle' = [handle EXCEPT ![t] = None]
    /\ UNCHANGED <<call, todo, doomed, answer>>

\* The loader returned v.
Load(t, v) ==
    /\ pc[t] = "load"
    /\ Proceed(t, "set", v)
    /\ UNCHANGED <<kind, backend, store, clock, todo, doomed, answer>>

\* Mutant of LoadNothing: a None from the loader is stored like any value.
LoadNothingStored(t) ==
    /\ pc[t] = "load"
    /\ Proceed(t, "set", None)
    /\ UNCHANGED <<kind, backend, store, clock, todo, doomed, answer>>

\* The loader raised, or returned None: nothing is stored.
LoadNothing(t) ==
    /\ pc[t] = "load"
    /\ Finish(t)
    /\ UNCHANGED <<kind, backend, store, clock, todo, doomed, answer>>

Set(t) ==
    /\ Running(t, "set")
    /\ \/ ~Disabled /\ Write(t, call[t].key, call[t].value)
       \/ (Disabled \/ Unreachable) /\ UNCHANGED <<store, doomed>>
    /\ Finish(t)
    /\ UNCHANGED <<todo, answer>>

Invalidate(t) ==
    /\ Running(t, "invalidate")
    /\ Delete(t)
    /\ Finish(t)
    /\ UNCHANGED <<todo, doomed, answer>>

\* INCR and EXPIRE in one transaction, or read and write under the lock.  The
\* answer 0 means unknown.
Increment(t) ==
    LET k == call[t].key
        e == Live(Dict(t), k)
        count == IF e = None THEN 1 ELSE e.value + 1 IN
    /\ Running(t, "increment")
    /\ \/ /\ ~Disabled
          /\ count <= MaxCount
          /\ Write(t, k, count)
          /\ Answer(t, count) \/ (Unreachable /\ Answer(t, 0))
       \/ /\ Disabled \/ Unreachable
          /\ Answer(t, 0)
          /\ UNCHANGED <<store, doomed>>
    /\ Finish(t)
    /\ UNCHANGED todo

----------------------------------------------------------------------------
(* invalidate_pattern: all keys of the namespace.  The application deletes *)
(* by key today; only the tests call this operation.                       *)

\* MemoryBackend: at once, under the lock.
DeleteMatching(t) ==
    /\ Running(t, "invalidate_pattern")
    /\ kind # "redis"
    /\ IF kind = "memory"
         THEN store' = [store EXCEPT ![handle[t]] =
                          [k \in Keys |-> IF k \in CacheKeys THEN None ELSE @[k]]]
         ELSE UNCHANGED store
    /\ Finish(t)
    /\ UNCHANGED <<todo, doomed, answer>>

\* RedisBackend: SCAN comes to every key in some order, between the commands
\* of others, and each key found is deleted.
Scan(t) ==
    /\ Running(t, "invalidate_pattern")
    /\ kind = "redis"
    /\ todo' = [todo EXCEPT ![t] = CacheKeys]
    /\ doomed' = [doomed EXCEPT ![t] =
                    {k \in CacheKeys : Live(store[Server], k) # None}]
    /\ Goto(t, "scan")
    /\ UNCHANGED <<store, call, handle, answer>>

\* Mutant of ScanKey: a failed DEL is skipped and the scan goes on.
ScanKeySkipping(t, k) ==
    /\ pc[t] = "scan"
    /\ k \in todo[t]
    /\ SetEntry(t, k, None) \/ UNCHANGED store
    /\ todo' = [todo EXCEPT ![t] = @ \ {k}]
    /\ UNCHANGED <<kind, backend, clock, pc, call, handle, doomed, answer>>

ScanKey(t, k) ==
    /\ pc[t] = "scan"
    /\ k \in todo[t]
    /\ SetEntry(t, k, None)
    /\ todo' = [todo EXCEPT ![t] = @ \ {k}]
    /\ UNCHANGED <<kind, backend, clock, pc, call, handle, doomed, answer>>

EndScan(t) ==
    /\ todo' = [todo EXCEPT ![t] = {}]
    /\ doomed' = [doomed EXCEPT ![t] = {}]
    /\ Finish(t)
    /\ UNCHANGED <<kind, backend, store, clock, answer>>

ScanDone(t) ==
    /\ pc[t] = "scan"
    /\ todo[t] = {}
    /\ EndScan(t)

\* A command of the scan fails: the keys deleted so far stay deleted, and the
\* caller is told that none was.
ScanFails(t) ==
    /\ pc[t] = "scan"
    /\ EndScan(t)

----------------------------------------------------------------------------
(* The environment                                                         *)

\* Time passes: a dictionary keeps its expired entries, Redis does not.
Tick ==
    /\ clock < MaxClock
    /\ clock' = clock + 1
    /\ store' = [store EXCEPT ![Server] = [k \in Keys |->
          IF @[k] # None /\ @[k].expires <= clock + 1 THEN None ELSE @[k]]]
    /\ UNCHANGED <<kind, backend, threads>>

\* Redis drops a key: its policy is allkeys-lru.
Evict(k) ==
    /\ kind = "redis"
    /\ store[Server][k] # None
    /\ store' = [store EXCEPT ![Server][k] = None]
    /\ UNCHANGED <<kind, backend, clock, threads>>

Each(x) == [t \in Threads |-> x]

\* The process dies and another one starts: its dictionaries are gone.
Restart ==
    /\ backend' = None
    /\ store' = [h \in Homes |-> IF h = Server THEN store[h] ELSE Empty]
    /\ pc' = Each("idle")
    /\ call' = Each(None) /\ handle' = Each(None) /\ answer' = Each(None)
    /\ todo' = Each({}) /\ doomed' = Each({})
    /\ UNCHANGED <<kind, clock>>

\* Redis may hold values that an older release wrote.
Leftover == [value |-> Undecodable, expires |-> TTL]

Init ==
    /\ kind \in {BackendSetting(e, s) : e \in Environments, s \in Settings}
    /\ backend = None
    /\ store \in {[h \in Homes |-> IF h = Server THEN left ELSE Empty] :
                    left \in [Keys -> {None, Leftover}]}
    /\ \A k \in Keys : store[Server][k] # None => k \in CacheKeys /\ kind = "redis"
    /\ clock = 0
    /\ pc = Each("idle")
    /\ call = Each(None) /\ handle = Each(None) /\ answer = Each(None)
    /\ todo = Each({}) /\ doomed = Each({})

Request(t) ==
    \/ \E k \in CacheKeys, op \in {"get_or_set", "invalidate"} :
          Begin(t, [op |-> op, key |-> k, value |-> None])
    \/ Begin(t, [op |-> "invalidate_pattern", key |-> None, value |-> None])
    \/ \E k \in CounterKeys : Begin(t, [op |-> "increment", key |-> k, value |-> None])

Step(t) ==
    \/ Build(t) \/ Return(t)
    \/ LookupHit(t) \/ LookupMiss(t) \/ LookupUndecodable(t) \/ Discard(t)
    \/ LoadNothing(t) \/ (\E v \in Values : Load(t, v)) \/ Set(t)
    \/ Invalidate(t) \/ Increment(t)
    \/ DeleteMatching(t) \/ Scan(t) \/ (\E k \in CacheKeys : ScanKey(t, k))
    \/ ScanDone(t) \/ ScanFails(t)

Next ==
    \/ \E t \in Threads : Request(t) \/ Step(t)
    \/ \E k \in Keys : Evict(k)
    \/ Tick
    \/ Restart

Spec == Init /\ [][Next]_vars

----------------------------------------------------------------------------
(* Properties                                                              *)

TypeOK ==
    /\ kind \in Kinds
    /\ backend \in Threads \cup {None}
    /\ store \in [Homes -> [Keys -> Entry \cup {None}]]
    /\ clock \in 0..MaxClock
    /\ pc \in [Threads -> Steps]
    /\ call \in [Threads -> Call \cup {None}]
    /\ handle \in [Threads -> Threads \cup {None}]
    /\ todo \in [Threads -> SUBSET CacheKeys]
    /\ doomed \in [Threads -> SUBSET CacheKeys]
    /\ answer \in [Threads -> Contents \cup {None, 0}]
    /\ \A t \in Threads :
          /\ pc[t] # "idle" <=> call[t] # None
          /\ pc[t] \in {"run", "scan"} <=> handle[t] # None
          /\ pc[t] = "return" => backend # None
          /\ call[t] # None =>
                /\ call[t].key \in KeysOf(call[t].op)
                /\ call[t].value # None <=> call[t].op = "set"

\* What a caller can tell of an entry.
View(e) ==
    IF e = None \/ e.expires <= clock THEN None
    ELSE [value |-> e.value, left |-> e.expires - clock]

LiveEntries == [h \in Homes |-> [k \in Keys |-> View(store[h][k])]]

\* The dictionary an operation that starts now would work on.
Current == IF kind = "memory" THEN backend ELSE Server

\* No thread may yet replace the backend or work on a replaced one.
SharedBackend ==
    /\ backend # None
    /\ \A t \in Threads : pc[t] # "build" /\ handle[t] \in {None, backend}

Mode ==
    IF kind # "memory" THEN "lossy"
    ELSE IF SharedBackend THEN "exact" ELSE "starting"

\* What a thread still has to do: its call, until the backend has run it, or
\* the loader.
Pending ==
    [t \in Threads |-> IF pc[t] = "load" THEN [call[t] EXCEPT !.op = "load"] ELSE call[t]]

Store == INSTANCE TtlStore WITH
    Stores <- Homes, Values <- Stored, entries <- LiveEntries,
    current <- Current, mode <- Mode, pending <- Pending

\* "It implements the same TTL semantics": with its lazy expiry and per-thread
\* steps, the in-memory backend is one atomic store with expiring entries, as
\* soon as the unsynchronised first calls have settled on one backend, and
\* from then on: each call finds or changes the live entries once before it
\* ends, and nothing else changes them.  Until then each call works on one of
\* the stores of the first callers.  Redis or no cache at all may skip a
\* change, drop an entry and miss, but it never answers anything else than
\* the live entry, whatever fails.
ImplementsTtlStore == Store!Spec

\* Until a pattern delete has come to the end of its scan, what it still owes
\* is in the part it has not come to: so when it ends without an error, no
\* entry that was there when it began is left, whatever others did meanwhile.
SweepOwed ==
    \A t \in Threads : pc[t] = "scan" =>
        \A k \in doomed[t] : store[Server][k] # None => k \in todo[t]

=============================================================================
